------------------------------ MODULE MCTables ------------------------------
(***************************************************************************)
(* The tables that tasks change while others use them: the rules and their *)
(* file, the capabilities, the Lua jobs and their objects.  They are       *)
(* checked one at a time: `part`, chosen in the initial state, names the   *)
(* one that changes while the others rest.                                 *)
(***************************************************************************)
EXTENDS RouterRules

CONSTANTS Groups, CapsOf, Home, HtSize, MaxGroups, MaxDescs, Admins, Callers, Unset, MaxOps            \* CapRegistry
CONSTANTS Launchers, Syncs, Names, NoRun, SlotCount, MaxRunning, MaxObjects, MaxJobs, MaxCreated       \* LuaJobs

VARIABLES part
VARIABLES groups, descs, ht, started, op, ops
VARIABLES slots, nextId, running, launch, run, exec, objs, made

Registry == INSTANCE CapRegistry WITH None <- Unset
Lua      == INSTANCE LuaJobs

ASSUME TablesAssumption == Registry!RegistryAssumption /\ Lua!LuaAssumption

-----------------------------------------------------------------------------
(* Two versions of one rule, one of which consumes, and two other rules.   *)
Act(kind) == [kind |-> kind, to |-> "trigger", guarded |-> FALSE, stop |-> FALSE]
Rule(id, on, cooldown, consume, actions) ==
  [id |-> id, on |-> on, cooldown |-> cooldown, consume |-> consume, actions |-> actions]

Reply    == Rule("reply", {"message"}, 0, FALSE, <<Act("cap")>>)
Handover == Rule("reply", {"message", "wake"}, 0, TRUE, <<[Act("cap") EXCEPT !.stop = TRUE], Act("agent")>>)
Forward  == Rule("forward", {"message", "trigger"}, 0, FALSE,
                 <<[Act("emit") EXCEPT !.guarded = TRUE, !.stop = TRUE], Act("drop")>>)
Mute     == Rule("mute", {"message"}, 2, TRUE, <<Act("drop")>>)
Edits    == {Reply, Handover, Forward, Mute}

(* Three groups of capabilities, of which two names share a bucket and one *)
(* run of buckets wraps around the table.                                  *)
Tools     == {"mem", "sched", "lua"}
ToolsOf   == [mem |-> <<"store", "recall">>, sched |-> <<"add">>, lua |-> <<"run">>]
ToolsHome == [store |-> 4, recall |-> 3, add |-> 4, run |-> 0]

-----------------------------------------------------------------------------
capvars == <<groups, descs, ht, started, op, ops>>
luavars == <<slots, nextId, running, launch, run, exec, objs, made>>
allvars == <<part, rvars, capvars, luavars>>

TablesInit == part \in {"rules", "capabilities", "lua"} /\ RouterInit /\ Registry!Init /\ Lua!Init

ChangesRules == part = "rules"        /\ RouterNext    /\ UNCHANGED <<part, capvars, luavars>>
ChangesCaps  == part = "capabilities" /\ Registry!Next /\ UNCHANGED <<part, rvars, luavars>>
ChangesJobs  == part = "lua"          /\ Lua!Next      /\ UNCHANGED <<part, rvars, capvars>>

TablesNext == ChangesRules \/ ChangesCaps \/ ChangesJobs

TablesSpec == TablesInit /\ [][TablesNext]_allvars
-----------------------------------------------------------------------------
(* The properties of the parts, under the names they have there. *)

(* CapRegistry: every capability is found by name; a group is not freed    *)
(* while one of its capabilities runs.                                     *)
AllFound       == Registry!AllFound
CallsHoldGroup == Registry!CallsHoldGroup

(* LuaJobs: nothing freed is used, and what the runs left behind is        *)
(* reclaimed.                                                              *)
NothingFreedIsUsed == Lua!NothingFreedIsUsed
NothingLeftOver    == Lua!NothingLeftOver
=============================================================================
