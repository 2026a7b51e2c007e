---------------------------- MODULE CapRegistry ----------------------------
(***************************************************************************)
(* claw_cap.c: the registry of capabilities.  Groups of descriptors are    *)
(* registered, started, stopped and removed while other tasks call them;   *)
(* an open-addressing hash table finds a descriptor, and its count of      *)
(* running calls holds back the removal of its group.  Lifecycle callbacks *)
(* and capabilities run without the registry's lock.                       *)
(***************************************************************************)
EXTENDS Integers, FiniteSets, Sequences

CONSTANTS
  Groups,     \* group ids
  CapsOf,     \* per group: the names of its descriptors, in order
  Home,       \* per name: the bucket its hash selects
  HtSize,     \* CAP_HT_SIZE
  MaxGroups,  \* CAP_MAX_GROUPS
  MaxDescs,   \* CAP_MAX_DESCS
  Admins,     \* tasks that register, start, stop and remove groups
  Callers,    \* tasks that call capabilities
  None,       \* an unused slot or bucket
  MaxOps      \* bound: administrative calls

VARIABLES
  groups,   \* s_groups
  descs,    \* s_descs; a descriptor's state is that of its group
  ht,       \* s_name_ht; s_id_ht is kept by the same algorithm
  started,  \* s_started
  op,       \* per task: the step of its call, and what it holds meanwhile
  ops       \* bounded counter

cvars == <<groups, descs, ht, started, op, ops>>

Tasks   == Admins \cup Callers
Buckets == 0..(HtSize - 1)
CapNames(g) == {CapsOf[g][i] : i \in DOMAIN CapsOf[g]}
Caps    == UNION {CapNames(g) : g \in Groups}

(* What a slot of the two arrays holds while it is in use. *)
States     == {"loaded", "active", "inactive", "stopping", "removing"}
Registered == [id : Groups, state : States, base : 1..MaxDescs, count : 1..MaxDescs]
Entries    == [cap : Caps, grp : 1..MaxGroups, active : Nat]

RegistryAssumption ==
  /\ HtSize \in Nat \ {0} /\ MaxGroups \in Nat \ {0} /\ MaxDescs \in Nat \ {0} /\ MaxOps \in Nat
  /\ \A g \in Groups : CapsOf[g] \in Seq(Caps) /\ CapsOf[g] # <<>>
  /\ Home \in [Caps -> Buckets] /\ MaxDescs < HtSize
  /\ Admins \cap Callers = {} /\ IsFiniteSet(Callers)
  /\ None \notin Int \cup Entries \cup Registered

Idle == [at |-> "idle", slot |-> 0, walk |-> "no", next |-> 1]

Init ==
  /\ groups = [i \in 1..MaxGroups |-> None] /\ descs = [d \in 1..MaxDescs |-> None]
  /\ ht = [b \in Buckets |-> None]
  /\ started = FALSE /\ op = [t \in Tasks |-> Idle] /\ ops = 0

-----------------------------------------------------------------------------
(* The hash table.  A name is looked for from its home bucket to the first *)
(* unused one; removal moves later entries of the run back.                *)
Bucket(b) == b % HtSize
Probe(n)  == [k \in 0..(HtSize - 1) |-> Bucket(Home[n] + k)]

Insert(h, n, d) ==
  LET free == {k \in 0..(HtSize - 1) : h[Probe(n)[k]] = None}
      k == CHOOSE k \in free : \A j \in free : k <= j
  IN  [h EXCEPT ![Probe(n)[k]] = d]

Lookup(n) ==
  LET hits == {k \in 0..(HtSize - 1) : /\ ht[Probe(n)[k]] # None /\ descs[ht[Probe(n)[k]]] # None
                                       /\ descs[ht[Probe(n)[k]]].cap = n
                                       /\ \A j \in 0..k : ht[Probe(n)[j]] # None}
  IN  IF hits = {} THEN None ELSE ht[Probe(n)[CHOOSE k \in hits : \A j \in hits : k <= j]]

(* Whether the entry with this home, found at scan, may move back to the   *)
(* hole at pos.  Mutant: as without the wrap-around of the table.          *)
MayMove_NoWrap(home, pos, scan) == home <= pos

MayMove(home, pos, scan) ==
  \/ scan > pos /\ (home <= pos \/ home > scan)
  \/ scan < pos /\ home <= pos /\ home > scan

(* One pass over the run after the hole, of at most HtSize buckets.        *)
Shift(h, name, pos) ==
  LET step[k \in 0..(HtSize - 1)] ==
        IF k = 0 THEN [h |-> [h EXCEPT ![pos] = None], hole |-> pos, on |-> TRUE]
        ELSE LET s == step[k - 1]  scan == Bucket(pos + k)
             IN  IF ~s.on \/ s.h[scan] = None THEN [s EXCEPT !.on = FALSE]
                 ELSE IF MayMove(Home[name[s.h[scan]]], s.hole, scan)
                 THEN [s EXCEPT !.h = [s.h EXCEPT ![s.hole] = s.h[scan], ![scan] = None], !.hole = scan]
                 ELSE s
  IN  step[HtSize - 1].h

Remove(h, name, d) ==
  LET at == {b \in Buckets : h[b] = d}
  IN  IF at = {} THEN h ELSE Shift(h, name, CHOOSE b \in at : TRUE)

-----------------------------------------------------------------------------
Named(g)    == {i \in 1..MaxGroups : groups[i] # None /\ groups[i].id = g}
DescsAt(gr) == gr.base..(gr.base + gr.count - 1)
SetState(i, st) == IF groups[i] = None THEN groups ELSE [groups EXCEPT ![i].state = st]

Begins(t)  == op[t].at = "idle" /\ ops < MaxOps /\ ops' = ops + 1
Goes(t, r) == op' = [op EXCEPT ![t] = r]
(* A call that start_all or stop_all made returns into its loop.           *)
Returns(t) == Goes(t, IF op[t].walk = "no" THEN Idle ELSE [op[t] EXCEPT !.at = "walk", !.next = @ + 1])

FreeGroup == {i \in 1..MaxGroups : groups[i] = None}
Runs(n)   == {b \in 1..(MaxDescs - n + 1) : \A d \in b..(b + n - 1) : descs[d] = None}
Least(S)  == CHOOSE x \in S : \A y \in S : x <= y

(* claw_cap_register_group: a group that is valid and fits gets slots and  *)
(* buckets, and is enabled at once when the system has been started.       *)
Fits(g) ==
  /\ Named(g) = {} /\ \A n \in CapNames(g) : Lookup(n) = None
  /\ \A i, j \in DOMAIN CapsOf[g] : CapsOf[g][i] = CapsOf[g][j] => i = j
  /\ FreeGroup # {} /\ Runs(Len(CapsOf[g])) # {}

InsertAll(g, b) ==
  LET n == Len(CapsOf[g])
      table[k \in 0..n] == IF k = 0 THEN ht ELSE Insert(table[k - 1], CapsOf[g][k], b + k - 1)
  IN  table[n]

RegisterGroup(t, g) ==
  /\ Begins(t) /\ Fits(g)
  /\ LET i == Least(FreeGroup)  n == Len(CapsOf[g])  b == Least(Runs(n))
     IN  /\ groups' = [groups EXCEPT ![i] = [id |-> g, state |-> "loaded", base |-> b, count |-> n]]
         /\ descs' = [d \in 1..MaxDescs |-> IF d \in b..(b + n - 1)
                        THEN [cap |-> CapsOf[g][d - b + 1], grp |-> i, active |-> 0] ELSE descs[d]]
         /\ ht' = InsertAll(g, b)
         /\ Goes(t, IF started THEN [Idle EXCEPT !.at = "enable", !.slot = i] ELSE Idle)
  /\ UNCHANGED started

(* claw_cap_enable_group.  The group is started between two locked parts.  *)
Start(t, i) ==
  LET st == groups[i].state
  IN  IF st \in {"stopping", "removing"} \/ (started /\ st = "active")
      THEN Returns(t) /\ UNCHANGED groups
      ELSE IF ~started
      THEN Returns(t) /\ groups' = IF st = "inactive" THEN SetState(i, "loaded") ELSE groups
      ELSE groups' = SetState(i, "loaded") /\ Goes(t, [op[t] EXCEPT !.at = "starting", !.slot = i])

EnableGroup(t, g) ==
  /\ Begins(t) /\ \E i \in Named(g) : Start(t, i)
  /\ UNCHANGED <<descs, ht, started>>

EnableCalled(t) ==
  /\ op[t].at = "enable"
  /\ IF groups[op[t].slot] = None THEN Returns(t) /\ UNCHANGED groups ELSE Start(t, op[t].slot)
  /\ UNCHANGED <<descs, ht, started, ops>>

StartingDone(t) ==
  /\ op[t].at = "starting"
  /\ \E st \in {"active", "inactive"} : groups' = SetState(op[t].slot, st)
  /\ Returns(t) /\ UNCHANGED <<descs, ht, started, ops>>

(* claw_cap_disable_group: marked inactive, then stopped.                  *)
Stop(t, i) ==
  IF groups[i].state \in {"inactive", "stopping", "removing"}
  THEN Returns(t) /\ UNCHANGED groups
  ELSE groups' = SetState(i, "inactive") /\ Goes(t, [op[t] EXCEPT !.at = "halting", !.slot = i])

DisableGroup(t, g) ==
  /\ Begins(t) /\ \E i \in Named(g) : Stop(t, i)
  /\ UNCHANGED <<descs, ht, started>>

HaltingDone(t) == op[t].at = "halting" /\ Returns(t) /\ UNCHANGED <<groups, descs, ht, started, ops>>

(* claw_cap_start_all and claw_cap_stop_all walk the slots without the     *)
(* lock; started is set before the first walk and reset after the second.  *)
Walks(t, way) == Goes(t, [Idle EXCEPT !.at = "walk", !.walk = way])

StartAll(t) ==
  /\ Begins(t) /\ ~started
  /\ started' = TRUE /\ Walks(t, "start")
  /\ UNCHANGED <<groups, descs, ht>>

StopAll(t) ==
  /\ Begins(t) /\ Walks(t, "stop")
  /\ UNCHANGED <<groups, descs, ht, started>>

StateAt(i) == IF groups[i] = None THEN "free" ELSE groups[i].state

Walk(t) ==
  /\ op[t].at = "walk" /\ op[t].next <= MaxGroups
  /\ LET i == op[t].next
     IN  CASE op[t].walk = "start" /\ StateAt(i) \notin {"free", "inactive"} -> Start(t, i)
           [] op[t].walk = "stop" /\ StateAt(i) = "active" -> Stop(t, i)
           [] OTHER -> Returns(t) /\ UNCHANGED groups
  /\ UNCHANGED <<descs, ht, started, ops>>

WalkEnds(t) ==
  /\ op[t].at = "walk" /\ op[t].next > MaxGroups
  /\ started' = (op[t].walk = "start") /\ Goes(t, Idle)
  /\ UNCHANGED <<groups, descs, ht, ops>>

-----------------------------------------------------------------------------
(* claw_cap_unregister_group: new calls are refused, those running drain,  *)
(* the group is stopped and its slots are freed; or the caller gives up    *)
(* and leaves the group stopping.                                          *)
Unregister(t, g) ==
  /\ Begins(t)
  /\ \E i \in Named(g) :
       /\ groups[i].state # "removing"
       /\ groups' = SetState(i, "stopping") /\ Goes(t, [Idle EXCEPT !.at = "drain", !.slot = i])
  /\ UNCHANGED <<descs, ht, started>>

(* Mutant of InFlight: only the group's first descriptor is asked.         *)
InFlight_First(i) == groups[i] # None /\ descs[groups[i].base].active > 0

InFlight(i) == groups[i] # None /\ \E d \in DescsAt(groups[i]) : descs[d] # None /\ descs[d].active > 0

Drained(t) ==
  /\ op[t].at = "drain" /\ ~InFlight(op[t].slot)
  /\ groups' = SetState(op[t].slot, "removing") /\ Goes(t, [op[t] EXCEPT !.at = "free"])
  /\ UNCHANGED <<descs, ht, started, ops>>

DrainTimeout(t) ==
  /\ op[t].at = "drain" /\ InFlight(op[t].slot)
  /\ Goes(t, Idle) /\ UNCHANGED <<groups, descs, ht, started, ops>>

InUse == {d \in 1..MaxDescs : descs[d] # None}
RemoveAll(b, n) ==
  LET name == [d \in InUse |-> descs[d].cap]
      left[k \in 0..n] == IF k = 0 THEN ht ELSE Remove(left[k - 1], name, b + k - 1)
  IN  left[n]

Free(t) ==
  /\ op[t].at = "free"
  /\ LET i == op[t].slot
         mine == IF groups[i] = None THEN {} ELSE DescsAt(groups[i])
     IN  /\ ht' = IF groups[i] = None THEN ht ELSE RemoveAll(groups[i].base, groups[i].count)
         /\ descs' = [d \in 1..MaxDescs |-> IF d \in mine THEN None ELSE descs[d]]
         /\ groups' = [groups EXCEPT ![i] = None]
  /\ Goes(t, Idle) /\ UNCHANGED <<started, ops>>

-----------------------------------------------------------------------------
(* claw_cap_call: found, ready and counted under the lock, executed        *)
(* without it, and discounted if the slot is still in use.                 *)
Ready(d) == groups[descs[d].grp] # None /\ groups[descs[d].grp].state \in {"loaded", "active"}

CallBegins(t, n) ==
  /\ op[t].at = "idle"
  /\ LET d == Lookup(n)
     IN  /\ d # None /\ Ready(d)
         /\ descs' = [descs EXCEPT ![d].active = @ + 1]
         /\ Goes(t, [at |-> "executing", slot |-> d, cap |-> n])
  /\ UNCHANGED <<groups, ht, started, ops>>

CallEnds(t) ==
  /\ op[t].at = "executing"
  /\ LET d == op[t].slot
     IN  descs' = IF descs[d] # None /\ descs[d].active > 0 THEN [descs EXCEPT ![d].active = @ - 1] ELSE descs
  /\ Goes(t, Idle)
  /\ UNCHANGED <<groups, ht, started, ops>>

Next ==
  \/ \E t \in Admins :
       \/ \E g \in Groups : RegisterGroup(t, g) \/ EnableGroup(t, g) \/ DisableGroup(t, g) \/ Unregister(t, g)
       \/ EnableCalled(t) \/ StartingDone(t) \/ HaltingDone(t)
       \/ StartAll(t) \/ StopAll(t) \/ Walk(t) \/ WalkEnds(t)
       \/ Drained(t) \/ DrainTimeout(t) \/ Free(t)
  \/ \E t \in Callers : (\E n \in Caps : CallBegins(t, n)) \/ CallEnds(t)

Spec == Init /\ [][Next]_cvars
-----------------------------------------------------------------------------
(* Properties *)

TypeOK ==
  /\ \A i \in 1..MaxGroups : groups[i] # None => groups[i] \in Registered /\ DescsAt(groups[i]) \subseteq 1..MaxDescs
  /\ \A d \in 1..MaxDescs : descs[d] # None => descs[d] \in Entries /\ descs[d].active <= Cardinality(Callers)
  /\ \A b \in Buckets : ht[b] \in {None} \cup 1..MaxDescs

(* Every registered descriptor is found by its name, and the table holds   *)
(* nothing else, after any registrations and removals in any order.        *)
AllFound ==
  /\ \A d \in 1..MaxDescs : descs[d] # None => Lookup(descs[d].cap) = d
  /\ \A b \in Buckets : ht[b] # None => descs[ht[b]] # None

(* "inflight counters gate concurrent unregister": while a capability      *)
(* executes, its slot is neither freed nor given to another, and the count *)
(* is that of the calls.  One task administers the registry.               *)
InCall(d) == {t \in Callers : op[t].at = "executing" /\ op[t].slot = d}
CallsHoldGroup ==
  /\ \A t \in Callers : op[t].at = "executing" =>
       LET d == op[t].slot
       IN  descs[d] # None /\ descs[d].cap = op[t].cap /\ groups[descs[d].grp] # None
  /\ \A d \in 1..MaxDescs : descs[d] # None => descs[d].active = Cardinality(InCall(d))
=============================================================================
