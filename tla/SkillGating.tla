---------------------------- MODULE SkillGating ----------------------------
(***************************************************************************)
(* Skills and the tools they open (cap_skill_mgr.c, and the visibility     *)
(* scopes of claw_cap.c).  A skill's SKILL.md names groups of tools that   *)
(* are hidden until a session activates the skill.  A session's active     *)
(* skills are a file; the groups it sees are a scope in RAM, computed from *)
(* the file after each change, and again by the first prompt after a boot. *)
(* There is a scope for a session that sees any group, MaxScopes at most.  *)
(*                                                                         *)
(* A prompt is put together for each round of the engine; the provider of  *)
(* the skills' documents also publishes the scope that a boot has lost.    *)
(* Nothing here takes a lock but claw_cap, around one scope.               *)
(***************************************************************************)
EXTENDS Naturals, Sequences, FiniteSets, SequencesExt

CONSTANTS
  Sessions,      \* session ids, shorter than the 64 bytes of a scope
  BuiltIn,       \* the skills in the read-only image, [skill -> groups]
  Writable,      \* the documents users write: [skill -> set of sets of groups]
  MaxActive,     \* MAX_ACTIVE_SKILLS (8)
  MaxScopes,     \* CAP_MAX_SESSIONS (8)
  MaxRestored,   \* GATING_RESTORED_MAX (16)
  Tasks,         \* the engine, and others that call the skill manager
  Engine,        \* the one of Tasks that builds prompts
  SkillFaults,   \* among "script", "list", "dir": what may fail
  MaxSkillOps    \* bound of the model: calls

CONSTANTS NoSkill      \* no SKILL.md of that name

VARIABLES
  body,          \* the groups that each writable skill's SKILL.md names, or NoSkill
  active,        \* per session, the skills in its file
  scope,         \* per session, the groups it sees beyond the base
  restored,      \* s_rt.gating_restored
  at,            \* per task, where it is
  call,          \* per task, the session it works for, and what it does
  copy,          \* per task, the list or the set of groups it holds
  rewritten,     \* history: a skill_save that did not publish has changed a document they use
  ops            \* calls so far

skillvars == <<body, active, scope, restored, at, call, copy, rewritten, ops>>

Skills == DOMAIN BuiltIn \cup DOMAIN Writable
Groups == UNION (Range(BuiltIn) \cup UNION Range(Writable))

SkillAssumption ==
  /\ DOMAIN BuiltIn \cap DOMAIN Writable = {}
  /\ MaxActive \in Nat \ {0} /\ MaxScopes \in Nat /\ MaxRestored \in Nat \ {0}
  /\ Engine \in Tasks /\ SkillFaults \subseteq {"script", "list", "dir"}

Steps == {"idle", "load", "store", "sync", "publish", "collect", "prompted", "wipe"}

TypeOK ==
  /\ body \in [DOMAIN Writable -> SUBSET Groups \cup {NoSkill}]
  /\ active \in [Sessions -> Seq(Skills)]
  /\ scope \in [Sessions -> SUBSET Groups] /\ restored \in Seq(Sessions)
  /\ at \in [Tasks -> Steps] /\ ops \in 0 .. MaxSkillOps

GroupsOf(k)  == IF k \in DOMAIN BuiltIn THEN BuiltIn[k] ELSE body[k]
Installed(k) == GroupsOf(k) # NoSkill
OpenedBy(list) == UNION {GroupsOf(k) : k \in {j \in Range(list) : Installed(j)}}

Init ==
  /\ body = [k \in DOMAIN Writable |-> NoSkill]
  /\ active = [s \in Sessions |-> <<>>]
  /\ scope = [s \in Sessions |-> {}] /\ restored = <<>>
  /\ at = [t \in Tasks |-> "idle"] /\ call = [t \in Tasks |-> <<>>] /\ copy = [t \in Tasks |-> <<>>]
  /\ rewritten = {} /\ ops = 0

Begin(t, c, step) ==
  /\ at[t] = "idle" /\ ops < MaxSkillOps /\ ops' = ops + 1
  /\ call' = [call EXCEPT ![t] = c] /\ at' = [at EXCEPT ![t] = step]
-----------------------------------------------------------------------------
(* The calls.  Each one that edits a list goes on with Load. *)

Activate(t, s, k) ==
  /\ Installed(k)
  /\ Begin(t, [op |-> "add", session |-> s, skill |-> k], "load")
  /\ UNCHANGED <<body, active, scope, restored, copy, rewritten>>

Deactivate(t, s, k) ==
  /\ Begin(t, [op |-> "drop", session |-> s, skill |-> k], "load")
  /\ UNCHANGED <<body, active, scope, restored, copy, rewritten>>

(* SKILL.md is written, then the script; if one fails, the call ends.      *)
Save(t, s, k, d) ==
  /\ k \in DOMAIN Writable /\ d \in Writable[k]
  /\ body' = [body EXCEPT ![k] = d]
  /\ rewritten' = rewritten \cup {r \in Sessions : k \in Range(active[r]) /\ body[k] # d}
  /\ \/ Begin(t, [op |-> "add", session |-> s, skill |-> k], "load")
     \/ /\ "script" \in SkillFaults
        /\ Begin(t, [op |-> "add", session |-> s, skill |-> k], "idle")
  /\ UNCHANGED <<active, scope, restored, copy>>

(* SKILL.md is removed, then the directory; a directory that stays ends    *)
(* the call.                                                               *)
Delete(t, s, k) ==
  /\ k \in DOMAIN Writable /\ Installed(k)
  /\ body' = [body EXCEPT ![k] = NoSkill]
  /\ \/ Begin(t, [op |-> "drop", session |-> s, skill |-> k], "load")
     \/ /\ "dir" \in SkillFaults
        /\ Begin(t, [op |-> "drop", session |-> s, skill |-> k], "idle")
  /\ UNCHANGED <<active, scope, restored, copy, rewritten>>

(* deactivate_all: an empty list is stored. *)
DeactivateAll(t, s) ==
  /\ Begin(t, [op |-> "clear", session |-> s], "store")
  /\ copy' = [copy EXCEPT ![t] = <<>>]
  /\ UNCHANGED <<body, active, scope, restored, rewritten>>

(* deactivate_all_sessions: the files one by one, then every scope. *)
DeactivateEverywhere(t) ==
  /\ Begin(t, [op |-> "wipe"], "wipe")
  /\ UNCHANGED <<body, active, scope, restored, copy, rewritten>>

RemoveFile(t, s) ==
  /\ at[t] = "wipe" /\ active[s] # <<>>
  /\ active' = [active EXCEPT ![s] = <<>>]
  /\ UNCHANGED <<body, scope, restored, at, call, copy, ops, rewritten>>

ClearScopes(t) ==
  /\ at[t] = "wipe" /\ \A s \in Sessions : active[s] = <<>>
  /\ scope' = [s \in Sessions |-> {}]
  /\ at' = [at EXCEPT ![t] = "idle"]
  /\ UNCHANGED <<body, active, restored, call, copy, ops, rewritten>>
-----------------------------------------------------------------------------
(* The list of a session, and the scope computed from it. *)

Edited(list, c) ==
  IF c.op = "drop" THEN SelectSeq(list, LAMBDA k : k # c.skill)
  ELSE IF Contains(list, c.skill) THEN list
  ELSE Append(IF Len(list) >= MaxActive THEN Tail(list) ELSE list, c.skill)

Load(t) ==
  /\ at[t] = "load"
  /\ copy' = [copy EXCEPT ![t] = Edited(active[call[t].session], call[t])]
  /\ at' = [at EXCEPT ![t] = "store"]
  /\ UNCHANGED <<body, active, scope, restored, call, ops, rewritten>>

(* A list that is cut short does not parse, and counts as empty. *)
Store(t) ==
  /\ at[t] = "store"
  /\ \E list \in {copy[t]} \cup (IF "list" \in SkillFaults THEN {active[call[t].session], <<>>} ELSE {}) :
        active' = [active EXCEPT ![call[t].session] = list]
  /\ at' = [at EXCEPT ![t] = "sync"]
  /\ UNCHANGED <<body, scope, restored, call, copy, ops, rewritten>>

(* sync_session_visible_groups reads the list again, and the documents. *)
Sync(t) ==
  /\ at[t] = "sync"
  /\ copy' = [copy EXCEPT ![t] = OpenedBy(active[call[t].session])]
  /\ at' = [at EXCEPT ![t] = "publish"]
  /\ UNCHANGED <<body, active, scope, restored, call, ops, rewritten>>

(* Mutant of Published: an empty set of groups leaves the scope.           *)
Published_Kept(s, groups) ==
  IF groups = {} THEN scope ELSE [scope EXCEPT ![s] = groups]

(* vis_scope_set: a session without groups has no slot.  A full table is   *)
(* an error that the caller does not look at.                              *)
Published(s, groups) ==
  IF \/ scope[s] # {}
     \/ Cardinality({r \in Sessions : scope[r] # {}}) < MaxScopes
  THEN [scope EXCEPT ![s] = groups] ELSE scope

Marked(s) ==
  IF Contains(restored, s) THEN restored
  ELSE Append(IF Len(restored) >= MaxRestored THEN <<>> ELSE restored, s)

Publish(t) ==
  LET s == call[t].session IN
  /\ at[t] = "publish"
  /\ scope' = Published(s, copy[t])
  /\ rewritten' = rewritten \ {s}
  /\ IF call[t].op = "round"
     THEN restored' = Marked(s) /\ at' = [at EXCEPT ![t] = "prompted"]
     ELSE restored' = restored /\ at' = [at EXCEPT ![t] = "idle"]
  /\ copy' = [copy EXCEPT ![t] = <<>>]
  /\ UNCHANGED <<body, active, call, ops>>
-----------------------------------------------------------------------------
(* A round of the engine for a session. *)

Round(s) ==
  /\ Begin(Engine, [op |-> "round", session |-> s], "collect")
  /\ UNCHANGED <<body, active, scope, restored, copy, rewritten>>

(* collect_skill_context: the documents there are; a name without one is   *)
(* dropped from the list, which is stored and published.                   *)
CollectSkills ==
  LET s       == call[Engine].session
      list    == active[s]
  IN
  /\ at[Engine] = "collect"
  /\ copy' = [copy EXCEPT ![Engine] = SelectSeq(list, Installed)]
  /\ at' = [at EXCEPT ![Engine] =
              IF list = <<>> THEN "prompted"
              ELSE IF \E k \in Range(list) : ~Installed(k) THEN "store"
              ELSE IF ~Contains(restored, s) THEN "sync" ELSE "prompted"]
  /\ UNCHANGED <<body, active, scope, restored, call, ops, rewritten>>

(* The model is called with the prompt, and the round goes on. *)
Prompted ==
  /\ at[Engine] = "prompted"
  /\ at' = [at EXCEPT ![Engine] = "idle"]
  /\ call' = [call EXCEPT ![Engine] = <<>>] /\ copy' = [copy EXCEPT ![Engine] = <<>>]
  /\ UNCHANGED <<body, active, scope, restored, ops, rewritten>>

Reboot ==
  /\ scope' = [s \in Sessions |-> {}] /\ restored' = <<>>
  /\ at' = [t \in Tasks |-> "idle"] /\ call' = [t \in Tasks |-> <<>>] /\ copy' = [t \in Tasks |-> <<>>]
  /\ rewritten' = {}
  /\ UNCHANGED <<body, active, ops>>

TaskStep(t) == Load(t) \/ Store(t) \/ Sync(t) \/ Publish(t) \/ ClearScopes(t) \/ \E s \in Sessions : RemoveFile(t, s)

Calls(t) ==
  \/ \E s \in Sessions, k \in Skills : Activate(t, s, k) \/ Deactivate(t, s, k) \/ Delete(t, s, k)
  \/ \E s \in Sessions, k \in DOMAIN Writable : \E d \in Writable[k] : Save(t, s, k, d)
  \/ \E s \in Sessions : DeactivateAll(t, s)
  \/ DeactivateEverywhere(t)

Next ==
  \/ \E t \in Tasks : Calls(t) \/ TaskStep(t)
  \/ \E s \in Sessions : Round(s)
  \/ CollectSkills \/ Prompted \/ Reboot

Spec == Init /\ [][Next]_skillvars
-----------------------------------------------------------------------------
(* When a prompt is complete, the session sees the groups of the skills in *)
(* its file, and no others: after changes by its own session and others,   *)
(* lists that could not be stored, deleted skills and reboots.  One task   *)
(* calls, and there is a scope for each session; a document rewritten by a *)
(* call that does not publish for the session is the code's exception.     *)
ToolsFitSkills ==
  LET s == call[Engine].session IN
  at[Engine] = "prompted" /\ s \notin rewritten => scope[s] = OpenedBy(active[s])
=============================================================================
