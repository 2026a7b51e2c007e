--------------------------- MODULE SessionsProofs ---------------------------
(***************************************************************************)
(* Theorems about what belongs to a session, for any aliases, skills,      *)
(* documents and failures: the chat map of two callers is consistent, and  *)
(* a prompt goes with the tools of the session's skills.                   *)
(***************************************************************************)
EXTENDS MCSessions, SeqLemmas, FiniteSetTheorems, TLAPS

USE ChatMapAssumption

(***************************************************************************)
(* The chat map with two callers: the theorems of one component, through   *)
(* an instance of its proofs.                                              *)
(***************************************************************************)
Proved == INSTANCE SessionMapProofs
            WITH Tasks <- Pair, Programs <- EverythingOf(Pair), ReadLimit <- PairLimit, MaxCalls <- PairCalls, Faults <- PairFaults,
                 map <- map2, tmp <- tmp2, todo <- todo2, pc <- pc2, copy <- copy2, history <- history2, running <- running2, calls <- calls2

(* Both instances of the component have the same operators on maps ...     *)
LEMMA SameMapOps ==
  ASSUME NEW op, NEW m
  PROVE  /\ Two!Accepts(op, m) = Proved!Accepts(op, m) /\ Two!Edited(op, m) = Proved!Edited(op, m)
         /\ Two!MapOps = Proved!MapOps
<1>1. /\ Two!Listed(m) = Proved!Listed(m) /\ Two!Shown(m) = Proved!Shown(m) /\ Two!DefaultMap = Proved!DefaultMap
  BY DEF Two!Listed, Proved!Listed, Two!Range, Proved!Range, Two!Shown, Proved!Shown, Two!DefaultMap, Proved!DefaultMap
<1>2. Two!Accepts(op, m) = Proved!Accepts(op, m)
  BY <1>1 DEF Two!Accepts, Proved!Accepts
<1>3. /\ Two!Created(m, op.to) = Proved!Created(m, op.to)
      /\ Two!Created(Proved!DefaultMap, op.to) = Proved!Created(Proved!DefaultMap, op.to)
  BY DEF Two!Created, Proved!Created
<1>4. /\ Two!Renamed(m, m.current, op.to) = Proved!Renamed(m, m.current, op.to)
      /\ Two!Renamed(m, op.from, op.to) = Proved!Renamed(m, op.from, op.to)
  BY DEF Two!Renamed, Proved!Renamed
<1>5. Two!Without(m, op.from) = Proved!Without(m, op.from)
  BY DEF Two!Without, Proved!Without, Two!RemoveAt, Proved!RemoveAt
<1>6. Two!Deleted(m, op.from) = Proved!Deleted(m, op.from)
  BY <1>5 DEF Two!Deleted, Proved!Deleted
<1>7. Two!Edited(op, m) = Proved!Edited(op, m)
  BY <1>1, <1>3, <1>4, <1>6 DEF Two!Edited, Proved!Edited
<1>8. Two!MapOps = Proved!MapOps
  BY DEF Two!MapOps, Proved!MapOps, Two!NewOps, Proved!NewOps, Two!RenameOps, Proved!RenameOps, Two!AliasOps, Proved!AliasOps,
         Two!ResumeOps, Proved!ResumeOps, Two!DeleteOps, Proved!DeleteOps, Two!BuildOp, Proved!BuildOp
<1> QED BY <1>2, <1>7, <1>8

(* ... and so the same steps.                                              *)
LEMMA SameSteps == Two!Next => Proved!Next
<1>1. \A t, m : Two!Over(t, m) => Proved!Over(t, m)
  BY DEF Two!Over, Proved!Over, Two!Current, Proved!Current
<1>2. \A t : Two!Succeeds(t) => Proved!Succeeds(t)
  BY <1>1 DEF Two!Succeeds, Proved!Succeeds
<1>3. \A t : Two!ReadMap(t) => Proved!ReadMap(t)
  <2>1. Two!ReadResults = Proved!ReadResults
    BY DEF Two!ReadResults, Proved!ReadResults
  <2>2. \A op, m : Two!Clears(op, m) => Proved!Clears(op, m)
    BY DEF Two!Clears, Proved!Clears, Two!Current, Proved!Current
  <2> QED BY <1>1, <2>1, <2>2, SameMapOps DEF Two!ReadMap, Proved!ReadMap
<1>4. ASSUME NEW t \in Pair, Two!Step(t) PROVE Proved!Step(t)
  <2>1. \A p \in EverythingOf(Pair)[t] : Two!Start(t, p) => Proved!Start(t, p)
    BY DEF Two!Start, Proved!Start
  <2>2. /\ Two!NoMemory(t) => Proved!NoMemory(t)
        /\ Two!WriteTmpFails(t) => Proved!WriteTmpFails(t)
        /\ Two!RenameTmpFails(t) => Proved!RenameTmpFails(t)
        /\ Two!ClearHistory(t) => Proved!ClearHistory(t)
    BY <1>1 DEF Two!NoMemory, Proved!NoMemory, Two!WriteTmpFails, Proved!WriteTmpFails, Two!RenameTmpFails, Proved!RenameTmpFails,
           Two!ClearHistory, Proved!ClearHistory
  <2>3. /\ Two!WriteTmp(t) => Proved!WriteTmp(t)
        /\ Two!RenameTmp(t) => Proved!RenameTmp(t)
        /\ Two!RemoveMap(t) => Proved!RemoveMap(t)
    BY <1>2 DEF Two!WriteTmp, Proved!WriteTmp, Two!RenameTmp, Proved!RenameTmp, Two!RemoveMap, Proved!RemoveMap
  <2> QED BY <1>3, <1>4, <2>1, <2>2, <2>3 DEF Two!Step, Proved!Step
<1>5. Two!PowerLoss => Proved!PowerLoss
  BY DEF Two!PowerLoss, Proved!PowerLoss
<1>6. \A a \in Aliases : Two!SaveTurn(a) => Proved!SaveTurn(a)
  BY DEF Two!SaveTurn, Proved!SaveTurn
<1> QED BY <1>4, <1>5, <1>6 DEF Two!Next, Proved!Next

(* What the component assumes holds of the two callers.                    *)
LEMMA PairAssumptions == Proved!ChatMapAssumption /\ Proved!SessionMapAssumption
<1>1. Proved!ChatMapAssumption
  BY DEF ChatMapAssumption, ChatMap, Proved!ChatMapAssumption, Proved!ChatMap
<1>2. Two!AllPrograms = Proved!AllPrograms
  <2>1. Two!MapOps = Proved!MapOps
    BY SameMapOps
  <2> QED
    BY <2>1 DEF Two!AllPrograms, Proved!AllPrograms, Two!Route, Proved!Route, Two!Clear, Proved!Clear,
            Two!ClearCurrent, Proved!ClearCurrent, Two!Ask, Proved!Ask
<1>3. Proved!SessionMapAssumption
  BY <1>2, SessionsAssumption DEF Two!SessionMapAssumption, Proved!SessionMapAssumption
<1> QED BY <1>1, <1>3

(* The dispatcher and the HTTP server call the session manager at the same *)
(* time, share one .tmp, and any write, rename, allocation or the power    *)
(* may fail: the map that can be read lists its current session and no     *)
(* session twice (write_chat_map_str, read_chat_map_at).                   *)
THEOREM PairAlwaysConsistent == SessionsSpec => []PairConsistent
<1>1. SessionsInit => Proved!MapInv
  <2>1. Two!Init => Proved!Init
    BY DEF Two!Init, Proved!Init
  <2>2. Proved!Init => Proved!MapInv
    BY PairAssumptions, Proved!MapInvInit DEF Proved!ChatMapAssumption, Proved!SessionMapAssumption
  <2> QED BY <2>1, <2>2 DEF SessionsInit
<1>2. Proved!MapInv /\ [SessionsNext]_sessionvars => Proved!MapInv'
  <2> SUFFICES ASSUME Proved!MapInv, [SessionsNext]_sessionvars PROVE Proved!MapInv'
    OBVIOUS
  <2>1. Two!Next \/ UNCHANGED pairvars
    BY DEF SessionsNext, RunsMap, RunsPair, RunsGating, RunsChat, sessionvars
  <2>2. [Proved!Next]_(Proved!vars)
    BY <2>1, SameSteps DEF pairvars, Proved!vars
  <2>3. Proved!MapInv /\ [Proved!Next]_(Proved!vars) => Proved!MapInv'
    BY PairAssumptions, Proved!MapInvNext DEF Proved!ChatMapAssumption, Proved!SessionMapAssumption
  <2> QED BY <2>2, <2>3
<1>3. Proved!MapInv => PairConsistent
  <2>1. Proved!MapInv => Proved!MapConsistent
    BY PairAssumptions, Proved!MapInvConsistent DEF Proved!ChatMapAssumption, Proved!SessionMapAssumption
  <2>2. Proved!MapConsistent => Two!MapConsistent
    BY DEF Proved!MapConsistent, Two!MapConsistent, Proved!Consistent, Two!Consistent, Proved!Range, Two!Range,
           Proved!IsInjective, Two!IsInjective
  <2> QED BY <2>1, <2>2 DEF PairConsistent
<1> QED BY <1>1, <1>2, <1>3, PTL DEF SessionsSpec

(***************************************************************************)
(* Skills and the tools they open.                                         *)
(***************************************************************************)

(* The task works for a session in all but these steps. *)
Free     == {"idle", "wipe"}
Updating == {"load", "store", "sync", "publish"}
InCall   == call[Engine].session
At       == at[Engine]

TypesOK ==
  /\ body = [k \in DOMAIN Written |-> body[k]]
  /\ active = [s \in SkillSessions |-> active[s]]
  /\ scope = [s \in SkillSessions |-> scope[s]] /\ restored \in Seq(SkillSessions)
  /\ at = [t \in SkillTasks |-> At] /\ At \in Gating!Steps
  /\ call = [t \in SkillTasks |-> call[Engine]] /\ list = [t \in SkillTasks |-> list[Engine]]
  /\ At \notin Free => InCall \in SkillSessions
  /\ At = "collect" => call[Engine].op = "round"

(***************************************************************************)
(* The inductive invariant.  A session's scope is that of its skills, or   *)
(* the next round will repair it: a document that the list names is gone,  *)
(* or a boot has lost the scope, which nothing has published since.  Only  *)
(* the session that the call works for, and all of them while the lists    *)
(* are removed, may be anything; and what is about to be published is what *)
(* the list stands for.                                                    *)
(***************************************************************************)
Fits(s)    == s \in rewritten \/ scope[s] = Gating!OpenedBy(active[s])
Dangles(s) == \E k \in Gating!Range(active[s]) : ~Gating!Installed(k)
Lost(s)    == ~Gating!Contains(restored, s) /\ scope[s] = {}
Sound(s)   == Fits(s) \/ Dangles(s) \/ Lost(s)

ScopesOK  == \A s \in SkillSessions : Sound(s) \/ At = "wipe" \/ (At \in Updating /\ InCall = s)
PublishOK == At = "publish" => list[Engine] = Gating!OpenedBy(active[InCall])
PromptOK  == At = "prompted" => Fits(InCall)

Inv == TypesOK /\ ScopesOK /\ PublishOK /\ PromptOK

(***************************************************************************)
(* The operators.                                                          *)
(***************************************************************************)

(* A list opens what it opened before, and dangles no less, unless the     *)
(* document that changed is one of its own.                                *)
LEMMA OtherDocument ==
  ASSUME NEW k \in DOMAIN Written, NEW d, NEW names, k \notin Gating!Range(names),
         DOMAIN body = DOMAIN Written, body' = [body EXCEPT ![k] = d]
  PROVE  /\ Gating!OpenedBy(names)' = Gating!OpenedBy(names)
         /\ \A j \in Gating!Range(names) : Gating!Installed(j)' <=> Gating!Installed(j)
<1>1. \A j \in Gating!Range(names) : Gating!GroupsOf(j)' = Gating!GroupsOf(j)
  BY DEF Gating!GroupsOf
<1>2. \A j \in Gating!Range(names) : Gating!Installed(j)' <=> Gating!Installed(j)
  BY <1>1 DEF Gating!Installed
<1> QED
  BY <1>1, <1>2 DEF Gating!OpenedBy

(* Without a change of the documents, nothing about a list changes.        *)
LEMMA SameDocuments ==
  ASSUME body' = body
  PROVE  /\ \A k : Gating!GroupsOf(k)' = Gating!GroupsOf(k) /\ (Gating!Installed(k)' <=> Gating!Installed(k))
         /\ \A names : Gating!OpenedBy(names)' = Gating!OpenedBy(names)
<1>1. \A k : Gating!GroupsOf(k)' = Gating!GroupsOf(k) /\ (Gating!Installed(k)' <=> Gating!Installed(k))
  BY DEF Gating!GroupsOf, Gating!Installed
<1> QED
  BY <1>1 DEF Gating!OpenedBy

(* The library's operator through the instance is the library's operator.  *)
LEMMA SameCardinality ==
  ASSUME NEW S
  PROVE  Gating!Cardinality(S) = Cardinality(S)
BY DEF Gating!Cardinality, Cardinality, Gating!IsFiniteSet, IsFiniteSet

(* There is a scope for each session: what is published is stored.         *)
LEMMA ScopeIsFound ==
  ASSUME IsFiniteSet(SkillSessions), MaxScopes \in Nat, Cardinality(SkillSessions) <= MaxScopes, NEW s \in SkillSessions, NEW groups
  PROVE  Gating!Published(s, groups) = [scope EXCEPT ![s] = groups]
<1> DEFINE taken == {r \in SkillSessions : scope[r] # {}}
<1> SUFFICES ASSUME scope[s] = {} PROVE Cardinality(taken) < MaxScopes
  BY SameCardinality DEF Gating!Published
<1>1. taken \subseteq SkillSessions \ {s}
  OBVIOUS
<1>2. IsFiniteSet(SkillSessions \ {s}) /\ Cardinality(SkillSessions \ {s}) = Cardinality(SkillSessions) - 1
  BY FS_RemoveElement
<1>3. Cardinality(taken) <= Cardinality(SkillSessions \ {s})
  BY <1>1, <1>2, FS_Subset
<1>4. Cardinality(SkillSessions) \in Nat /\ Cardinality(taken) \in Nat
  BY <1>1, <1>2, FS_Subset, FS_CardinalityType
<1> QED
  BY <1>2, <1>3, <1>4

(* A session is marked, and no other one is.                               *)
LEMMA MarkedOne ==
  ASSUME restored \in Seq(SkillSessions), NEW s \in SkillSessions
  PROVE  /\ Gating!Marked(s) \in Seq(SkillSessions)
         /\ \A r \in SkillSessions : r # s /\ ~Gating!Contains(restored, r) => ~Gating!Contains(Gating!Marked(s), r)
<1>1. <<>> \in Seq(SkillSessions)
  OBVIOUS
<1>2. ASSUME NEW q \in Seq(SkillSessions)
      PROVE  /\ Append(q, s) \in Seq(SkillSessions)
             /\ \A r \in SkillSessions : r # s /\ ~Gating!Contains(q, r) => ~Gating!Contains(Append(q, s), r)
  BY DEF Gating!Contains
<1>3. \A r \in SkillSessions : ~Gating!Contains(<<>>, r)
  BY DEF Gating!Contains
<1> QED
  BY <1>1, <1>2, <1>3 DEF Gating!Marked

(***************************************************************************)
(* What a step leaves alone stays as sound as it was.                      *)
(***************************************************************************)
LEMMA StaysSound ==
  ASSUME NEW s \in SkillSessions, body' = body, active'[s] = active[s], scope'[s] = scope[s],
         restored' = restored, rewritten \subseteq rewritten'
  PROVE  (Sound(s) => Sound(s)') /\ (Fits(s) => Fits(s)')
<1>1. Gating!OpenedBy(active[s])' = Gating!OpenedBy(active[s])
  BY SameDocuments
<1>2. \A k : Gating!Installed(k)' <=> Gating!Installed(k)
  BY SameDocuments
<1> QED
  BY <1>1, <1>2 DEF Sound, Fits, Dangles, Lost

(***************************************************************************)
(* The initial state, and the steps, one lemma for those of a kind.        *)
(***************************************************************************)
LEMMA InitSound ==
  ASSUME SkillTasks = {Engine}, Gating!Init
  PROVE  Inv
<1>1. \A s \in SkillSessions : Gating!OpenedBy(active[s]) = {}
  BY DEF Gating!Init, Gating!OpenedBy, Gating!Range
<1>2. TypesOK
  BY DEF Gating!Init, TypesOK, At, Gating!Steps, Free
<1> QED
  BY <1>1, <1>2 DEF Gating!Init, Inv, ScopesOK, PublishOK, PromptOK, Sound, Fits, At

(* A call that changes no document begins.                                 *)
LEMMA BeginSound ==
  ASSUME SkillTasks = {Engine}, Inv, NEW c, NEW step \in Gating!Steps \ {"publish", "prompted"}, Gating!Begin(Engine, c, step),
         step \notin Free => c.session \in SkillSessions, step = "collect" => c.op = "round",
         list' = [list EXCEPT ![Engine] = list'[Engine]],
         UNCHANGED <<body, active, scope, restored, rewritten>>
  PROVE  Inv'
<1>1. At = "idle" /\ At' = step /\ call'[Engine] = c
  BY DEF Inv, TypesOK, Gating!Begin, At
<1>2. TypesOK'
  BY <1>1 DEF Inv, TypesOK, Gating!Begin, At, InCall
<1>3. \A s \in SkillSessions : Sound(s)'
  BY <1>1, StaysSound DEF Inv, ScopesOK, Updating
<1> QED
  BY <1>1, <1>2, <1>3 DEF Inv, ScopesOK, PublishOK, PromptOK

(* A document is written or removed: a list that names it is rewritten, or *)
(* the same as before, or it dangles.                                      *)
LEMMA DocumentSound ==
  ASSUME Gating!SkillAssumption, Inv, At = "idle", NEW k \in DOMAIN Written, NEW d, NEW s \in SkillSessions,
         body' = [body EXCEPT ![k] = d], UNCHANGED <<active, scope, restored>>, rewritten \subseteq rewritten',
         d = NoSkill \/ body[k] = d \/ (k \in Gating!Range(active[s]) => s \in rewritten')
  PROVE  Sound(s)'
<1>0. DOMAIN body = DOMAIN Written /\ k \notin DOMAIN Image
  BY DEF Inv, TypesOK, Gating!SkillAssumption
<1>1. Sound(s)
  BY DEF Inv, ScopesOK, Updating
<1>2. CASE k \notin Gating!Range(active[s])
  <2>1. Gating!OpenedBy(active[s])' = Gating!OpenedBy(active[s]) /\ \A j \in Gating!Range(active[s]) : Gating!Installed(j)' <=> Gating!Installed(j)
    BY <1>0, <1>2, OtherDocument
  <2> QED
    BY <1>1, <2>1 DEF Sound, Fits, Dangles, Lost
<1>3. CASE k \in Gating!Range(active[s]) /\ d = NoSkill
  <2>1. ~Gating!Installed(k)'
    BY <1>0, <1>3 DEF Gating!Installed, Gating!GroupsOf
  <2> QED
    BY <1>3, <2>1 DEF Sound, Dangles
<1>4. CASE body[k] = d
  <2>1. body' = body
    BY <1>0, <1>4 DEF Inv, TypesOK
  <2> QED
    BY <1>1, <2>1, StaysSound
<1>5. CASE s \in rewritten'
  BY <1>5 DEF Sound, Fits
<1> QED
  BY <1>2, <1>3, <1>4, <1>5

LEMMA WriteSound ==
  ASSUME Gating!SkillAssumption, SkillTasks = {Engine}, Inv, NEW s \in SkillSessions, NEW k \in Gating!Skills,
         Gating!Delete(Engine, s, k) \/ \E d \in Written[k] : Gating!Save(Engine, s, k, d)
  PROVE  Inv'
<1> DEFINE Changes(d, c, step) ==
        /\ k \in DOMAIN Written /\ body' = [body EXCEPT ![k] = d] /\ rewritten \subseteq rewritten'
        /\ \A r \in SkillSessions : d = NoSkill \/ body[k] = d \/ (k \in Gating!Range(active[r]) => r \in rewritten')
        /\ step \in {"idle", "load"} /\ Gating!Begin(Engine, c, step) /\ c.session = s
        /\ UNCHANGED <<active, scope, restored, list>>
<1>1. PICK d, c, step : Changes(d, c, step)
  <2>1. CASE Gating!Delete(Engine, s, k)
    <3> DEFINE c == [op |-> "drop", session |-> s, skill |-> k]
    <3>1. PICK step \in {"idle", "load"} : Gating!Begin(Engine, c, step)
      BY <2>1 DEF Gating!Delete
    <3>2. Changes(NoSkill, c, step)
      BY <2>1, <3>1 DEF Gating!Delete
    <3> QED
      BY <3>2
  <2>2. ASSUME NEW d \in Written[k], Gating!Save(Engine, s, k, d)
        PROVE  \E c, step : Changes(d, c, step)
    <3> DEFINE c == [op |-> "add", session |-> s, skill |-> k]
    <3>1. PICK step \in {"idle", "load"} : Gating!Begin(Engine, c, step)
      BY <2>2 DEF Gating!Save
    <3>2. Changes(d, c, step)
      BY <2>2, <3>1 DEF Gating!Save
    <3> QED
      BY <3>2
  <2> QED
    BY <2>1, <2>2
<1>2. At = "idle" /\ At' = step /\ call'[Engine] = c
  BY <1>1 DEF Inv, TypesOK, Gating!Begin, At
<1>3. TypesOK'
  BY <1>1, <1>2 DEF Inv, TypesOK, Gating!Begin, At, Gating!Steps, InCall, Free
<1>4. \A r \in SkillSessions : Sound(r)'
  BY <1>1, <1>2, DocumentSound
<1> QED
  BY <1>1, <1>2, <1>3, <1>4 DEF Inv, ScopesOK, PublishOK, PromptOK

(* A list is loaded, stored and read again: only the session of the call   *)
(* is touched, and what is read last is what the list stands for.          *)
LEMMA UpdateSound ==
  ASSUME SkillTasks = {Engine}, Inv, Gating!Load(Engine) \/ Gating!Store(Engine) \/ Gating!Sync(Engine)
  PROVE  Inv'
<1>1. /\ At \in {"load", "store", "sync"} /\ At' \in {"store", "sync", "publish"}
      /\ UNCHANGED <<body, scope, restored, call, rewritten>> /\ InCall \in SkillSessions
      /\ at' = [at EXCEPT ![Engine] = At'] /\ list' = [list EXCEPT ![Engine] = list'[Engine]]
  BY DEF Gating!Load, Gating!Store, Gating!Sync, Inv, TypesOK, At, Free, InCall
<1>2. active' = [active EXCEPT ![InCall] = active'[InCall]]
  BY <1>1 DEF Gating!Load, Gating!Store, Gating!Sync, Inv, TypesOK, InCall
<1>3. TypesOK'
  BY <1>1, <1>2 DEF Inv, TypesOK, At, Gating!Steps, InCall, Free
<1>4. \A s \in SkillSessions : s # InCall => Sound(s)'
  <2> SUFFICES ASSUME NEW s \in SkillSessions, s # InCall
               PROVE  Sound(s)'
    OBVIOUS
  <2>1. active'[s] = active[s]
    BY <1>1, <1>2 DEF Inv, TypesOK
  <2>2. Sound(s)
    BY <1>1 DEF Inv, ScopesOK
  <2> QED
    BY <1>1, <2>1, <2>2, StaysSound
<1>5. PublishOK'
  <2>1. CASE Gating!Sync(Engine)
    <3>1. list'[Engine] = Gating!OpenedBy(active[InCall]) /\ active' = active
      BY <2>1 DEF Gating!Sync, Inv, TypesOK, InCall
    <3>2. Gating!OpenedBy(active[InCall])' = Gating!OpenedBy(active[InCall])
      BY <1>1, <3>1, SameDocuments DEF InCall
    <3> QED
      BY <3>1, <3>2 DEF PublishOK
  <2>2. CASE Gating!Load(Engine) \/ Gating!Store(Engine)
    BY <2>2 DEF Gating!Load, Gating!Store, PublishOK, Inv, TypesOK, At
  <2> QED
    BY <2>1, <2>2
<1> QED
  BY <1>1, <1>3, <1>4, <1>5 DEF Inv, ScopesOK, PromptOK, Updating, InCall

(* The groups are published, and the session fits.                         *)
LEMMA PublishSound ==
  ASSUME IsFiniteSet(SkillSessions), MaxScopes \in Nat, Cardinality(SkillSessions) <= MaxScopes,
         SkillTasks = {Engine}, Inv, Gating!Publish(Engine)
  PROVE  Inv'
<1>1. /\ At = "publish" /\ At' \in {"idle", "prompted"} /\ UNCHANGED <<body, active, call>> /\ InCall \in SkillSessions
      /\ at' = [at EXCEPT ![Engine] = At'] /\ list' = [list EXCEPT ![Engine] = list'[Engine]]
  BY DEF Gating!Publish, Inv, TypesOK, At, Free, InCall
<1>2. scope' = [scope EXCEPT ![InCall] = Gating!OpenedBy(active[InCall])] /\ rewritten' = rewritten \ {InCall}
  BY <1>1, ScopeIsFound DEF Gating!Publish, Inv, PublishOK, InCall
<1>3. restored' \in Seq(SkillSessions) /\ \A r \in SkillSessions : r # InCall /\ ~Gating!Contains(restored, r) => ~Gating!Contains(restored', r)
  BY <1>1, MarkedOne DEF Gating!Publish, Inv, TypesOK, InCall
<1>4. TypesOK'
  BY <1>1, <1>2, <1>3 DEF Inv, TypesOK, At, Gating!Steps, InCall, Free
<1>5. Fits(InCall)'
  <2>1. Gating!OpenedBy(active[InCall])' = Gating!OpenedBy(active[InCall])
    BY <1>1, SameDocuments DEF InCall
  <2>2. scope'[InCall] = Gating!OpenedBy(active[InCall])
    BY <1>1, <1>2 DEF Inv, TypesOK
  <2> QED
    BY <1>1, <2>1, <2>2 DEF Fits, InCall
<1>6. ASSUME NEW s \in SkillSessions, s # InCall
      PROVE  Sound(s)'
  <2>1. Sound(s)
    BY <1>1, <1>6 DEF Inv, ScopesOK
  <2>2. scope'[s] = scope[s] /\ active'[s] = active[s] /\ (s \in rewritten => s \in rewritten')
    BY <1>1, <1>2, <1>6 DEF Inv, TypesOK
  <2>3. Gating!OpenedBy(active[s])' = Gating!OpenedBy(active[s]) /\ \A k : Gating!Installed(k)' <=> Gating!Installed(k)
    BY <1>1, SameDocuments
  <2> QED
    BY <1>1, <1>3, <1>6, <2>1, <2>2, <2>3 DEF Sound, Fits, Dangles, Lost
<1> QED
  BY <1>1, <1>4, <1>5, <1>6 DEF Inv, ScopesOK, PublishOK, PromptOK, Sound, InCall

(* A round looks at the list: where it goes on without an update there is  *)
(* nothing that an update would repair.                                    *)
LEMMA CollectSound ==
  ASSUME SkillTasks = {Engine}, Inv, Gating!CollectSkills
  PROVE  Inv'
<1>1. /\ At = "collect" /\ At' \in {"prompted", "store", "sync"} /\ InCall \in SkillSessions
      /\ UNCHANGED <<body, active, scope, restored, call, rewritten>>
      /\ at' = [at EXCEPT ![Engine] = At'] /\ list' = [list EXCEPT ![Engine] = list'[Engine]]
  BY DEF Gating!CollectSkills, Inv, TypesOK, At, Free, InCall
<1>2. TypesOK'
  BY <1>1 DEF Inv, TypesOK, At, Gating!Steps, InCall, Free
<1>3. \A s \in SkillSessions : Sound(s) /\ Sound(s)'
  BY <1>1, StaysSound DEF Inv, ScopesOK, Updating
<1>4. PromptOK'
  <2> SUFFICES ASSUME At' = "prompted"
               PROVE  Fits(InCall)'
    BY DEF PromptOK
  <2>1. InCall' = InCall /\ Sound(InCall)
    BY <1>1, <1>3 DEF InCall
  <2>2. CASE active[InCall] = <<>>
    <3>1. Gating!OpenedBy(active[InCall]) = {} /\ ~Dangles(InCall)
      BY <2>2 DEF Gating!OpenedBy, Gating!Range, Dangles
    <3>2. Fits(InCall)
      BY <2>1, <3>1 DEF Sound, Fits, Lost
    <3> QED
      BY <1>1, <2>1, <3>2, StaysSound
  <2>3. CASE active[InCall] # <<>>
    <3>1. Gating!Contains(restored, InCall) /\ \A k \in Gating!Range(active[InCall]) : Gating!Installed(k)
      BY <1>1, <2>3 DEF Gating!CollectSkills, Inv, TypesOK, At, InCall
    <3>2. Fits(InCall)
      BY <2>1, <3>1 DEF Sound, Dangles, Lost
    <3> QED
      BY <1>1, <2>1, <3>2, StaysSound
  <2> QED
    BY <2>2, <2>3
<1> QED
  BY <1>1, <1>2, <1>3, <1>4 DEF Inv, ScopesOK, PublishOK

LEMMA PromptedSound ==
  ASSUME SkillTasks = {Engine}, Inv, Gating!Prompted
  PROVE  Inv'
<1>1. At = "prompted" /\ At' = "idle" /\ UNCHANGED <<body, active, scope, restored, rewritten>>
  BY DEF Gating!Prompted, Inv, TypesOK, At
<1>2. TypesOK'
  BY <1>1 DEF Gating!Prompted, Inv, TypesOK, At, Gating!Steps, Free
<1>3. \A s \in SkillSessions : Sound(s)'
  BY <1>1, StaysSound DEF Inv, ScopesOK, Updating
<1> QED
  BY <1>1, <1>2, <1>3 DEF Inv, ScopesOK, PublishOK, PromptOK

(* Every list is removed, and then every scope cleared.                    *)
LEMMA WipeSound ==
  ASSUME SkillTasks = {Engine}, Inv, Gating!ClearScopes(Engine) \/ \E s \in SkillSessions : Gating!RemoveFile(Engine, s)
  PROVE  Inv'
<1>1. CASE \E s \in SkillSessions : Gating!RemoveFile(Engine, s)
  <2>1. At = "wipe" /\ At' = "wipe"
    BY <1>1 DEF Gating!RemoveFile, At
  <2>2. TypesOK'
    BY <1>1, <2>1 DEF Gating!RemoveFile, Inv, TypesOK, At, Gating!Steps, Free
  <2> QED
    BY <2>1, <2>2 DEF Inv, ScopesOK, PublishOK, PromptOK
<1>2. CASE Gating!ClearScopes(Engine)
  <2>1. At = "wipe" /\ At' = "idle"
    BY <1>2 DEF Gating!ClearScopes, Inv, TypesOK, At
  <2>2. TypesOK'
    BY <1>2, <2>1 DEF Gating!ClearScopes, Inv, TypesOK, At, Gating!Steps, Free
  <2>3. \A s \in SkillSessions : scope'[s] = {} /\ active'[s] = <<>>
    BY <1>2 DEF Gating!ClearScopes
  <2>4. \A s \in SkillSessions : Gating!OpenedBy(active[s])' = {}
    BY <2>3 DEF Gating!OpenedBy, Gating!Range
  <2>5. \A s \in SkillSessions : Sound(s)'
    BY <2>3, <2>4 DEF Sound, Fits
  <2> QED
    BY <2>1, <2>2, <2>5 DEF Inv, ScopesOK, PublishOK, PromptOK
<1> QED
  BY <1>1, <1>2

(* Every scope is lost with what is known of it.                           *)
LEMMA RebootSound ==
  ASSUME SkillTasks = {Engine}, Inv, Gating!Reboot
  PROVE  Inv'
<1>1. At' = "idle" /\ restored' = <<>> /\ scope' = [s \in SkillSessions |-> {}]
  BY DEF Gating!Reboot, At
<1>2. TypesOK'
  BY <1>1 DEF Gating!Reboot, Inv, TypesOK, At, Gating!Steps, Free
<1>3. \A s \in SkillSessions : Sound(s)'
  BY <1>1 DEF Sound, Lost, Gating!Contains
<1> QED
  BY <1>1, <1>2, <1>3 DEF Inv, ScopesOK, PublishOK, PromptOK

(* Every step keeps the invariant.                                         *)
LEMMA GatingSound ==
  ASSUME Gating!SkillAssumption, SkillTasks = {Engine}, IsFiniteSet(SkillSessions), Cardinality(SkillSessions) <= MaxScopes,
         Inv, [Gating!Next]_gatingvars
  PROVE  Inv'
<1>1. ASSUME NEW s \in SkillSessions, NEW k \in Gating!Skills, Gating!Activate(Engine, s, k) \/ Gating!Deactivate(Engine, s, k)
      PROVE  Inv'
  <2>1. PICK c : Gating!Begin(Engine, c, "load") /\ c.session = s
    BY <1>1 DEF Gating!Activate, Gating!Deactivate
  <2>2. list' = [list EXCEPT ![Engine] = list'[Engine]] /\ UNCHANGED <<body, active, scope, restored, rewritten>>
    BY <1>1 DEF Gating!Activate, Gating!Deactivate, Inv, TypesOK
  <2> QED
    BY <2>1, <2>2, BeginSound DEF Gating!Steps
<1>2. ASSUME NEW s \in SkillSessions, Gating!DeactivateAll(Engine, s)
      PROVE  Inv'
  <2>1. Gating!Begin(Engine, [op |-> "clear", session |-> s], "store")
    BY <1>2 DEF Gating!DeactivateAll
  <2>2. list' = [list EXCEPT ![Engine] = list'[Engine]] /\ UNCHANGED <<body, active, scope, restored, rewritten>>
    BY <1>2 DEF Gating!DeactivateAll, Inv, TypesOK
  <2> QED
    BY <2>1, <2>2, BeginSound DEF Gating!Steps
<1>3. ASSUME Gating!DeactivateEverywhere(Engine)
      PROVE  Inv'
  <2>1. Gating!Begin(Engine, [op |-> "wipe"], "wipe")
    BY <1>3 DEF Gating!DeactivateEverywhere
  <2>2. list' = [list EXCEPT ![Engine] = list'[Engine]] /\ UNCHANGED <<body, active, scope, restored, rewritten>>
    BY <1>3 DEF Gating!DeactivateEverywhere, Inv, TypesOK
  <2> QED
    BY <2>1, <2>2, BeginSound DEF Gating!Steps, Free
<1>4. ASSUME NEW s \in SkillSessions, Gating!Round(s)
      PROVE  Inv'
  <2>1. Gating!Begin(Engine, [op |-> "round", session |-> s], "collect")
    BY <1>4 DEF Gating!Round
  <2>2. list' = [list EXCEPT ![Engine] = list'[Engine]] /\ UNCHANGED <<body, active, scope, restored, rewritten>>
    BY <1>4 DEF Gating!Round, Inv, TypesOK
  <2> QED
    BY <2>1, <2>2, BeginSound DEF Gating!Steps
<1>5. ASSUME NEW s \in SkillSessions, NEW k \in Gating!Skills, Gating!Delete(Engine, s, k) \/ \E d \in Written[k] : Gating!Save(Engine, s, k, d)
      PROVE  Inv'
  BY <1>5, WriteSound
<1>6. CASE Gating!Load(Engine) \/ Gating!Store(Engine) \/ Gating!Sync(Engine)
  BY <1>6, UpdateSound
<1>7. CASE Gating!Publish(Engine)
  BY <1>7, PublishSound DEF Gating!SkillAssumption
<1>8. CASE Gating!ClearScopes(Engine) \/ \E s \in SkillSessions : Gating!RemoveFile(Engine, s)
  BY <1>8, WipeSound
<1>9. CASE Gating!CollectSkills \/ Gating!Prompted \/ Gating!Reboot
  BY <1>9, CollectSound, PromptedSound, RebootSound
<1>10. CASE UNCHANGED gatingvars
  <2>1. \A s \in SkillSessions : (Sound(s) => Sound(s)') /\ (Fits(s) => Fits(s)')
    BY <1>10, StaysSound DEF gatingvars
  <2>2. PublishOK'
    BY <1>10, SameDocuments DEF gatingvars, Inv, PublishOK, At, InCall
  <2> QED
    BY <1>10, <2>1, <2>2 DEF gatingvars, Inv, TypesOK, ScopesOK, PromptOK, At, InCall, Free
<1> QED
  BY <1>1, <1>2, <1>3, <1>4, <1>5, <1>6, <1>7, <1>8, <1>9, <1>10 DEF Gating!Next, Gating!Calls, Gating!TaskStep, Gating!Skills

(* Whatever calls, rounds, failing writes and reboots come one after the   *)
(* other, in a complete prompt the session sees the groups of the skills   *)
(* in its file and no others (cap_skill_mgr.c), where one task calls and   *)
(* there is a scope for each session.                                      *)
THEOREM PromptsFitSkills ==
  ASSUME SkillTasks = {Engine}, IsFiniteSet(SkillSessions), Cardinality(SkillSessions) <= MaxScopes
  PROVE  SessionsSpec => []ToolsFitSkills
<1>1. SessionsInit => Inv
  BY InitSound DEF SessionsInit
<1>2. Inv /\ [SessionsNext]_sessionvars => Inv'
  <2> SUFFICES ASSUME Inv, [SessionsNext]_sessionvars
               PROVE  Inv'
    OBVIOUS
  <2>1. [Gating!Next]_gatingvars
    BY DEF SessionsNext, RunsMap, RunsPair, RunsGating, RunsChat, sessionvars
  <2> QED
    BY <2>1, GatingSound, SessionsAssumption
<1>3. Inv => ToolsFitSkills
  BY DEF Inv, PromptOK, Fits, ToolsFitSkills, Gating!ToolsFitSkills, At, InCall
<1> QED
  BY <1>1, <1>2, <1>3, PTL DEF SessionsSpec

(***************************************************************************)
(* The web chat.  A page at rest shows what the ring holds of its session  *)
(* because of what its connection carries: as long as a question, a        *)
(* snapshot or an answer is on its way, each answer that the page lacks is *)
(* in one of them (Conn), and what is on its way to a socket comes in the  *)
(* order of the ids, after the snapshots that are older (Line).            *)
(***************************************************************************)
HIDE ChatMapAssumption

LEMMA SameChatOps ==
  /\ \A f : Chat!Range(f) = Range(f)
  /\ \A S : Chat!Max(S) = Max(S)
BY DEF Chat!Range, Range, Chat!Max, Max

LEMMA IsTruth ==
  ASSUME NEW x, NEW A
  PROVE  \E o \in BOOLEAN : o = (x \in A)
<1> WITNESS (x \in A) \in BOOLEAN
<1> QED
  OBVIOUS

(* What a connection carries: the answers that are on their way to a socket, and the frames.  *)
Held == {"copied", "half"}
Coming(s) ==
  IF \/ sender.at = "pushed"
     \/ sender.at \in {"sending", "half"} /\ s \in sender.to
     \/ sender.at = "half" /\ s = sender.sock
  THEN {sender.message} ELSE {}

Needed(R, a) == {m \in R : m.role = "assistant" /\ m.alias = a}
After(d, k)  == {d[j].message : j \in {i \in DOMAIN d : i > k /\ d[i].type = "answer"}}
NoSnapshot(d) == \A k \in DOMAIN d : d[k].type # "snapshot"
LastSnapshot(d, k) == d[k].type = "snapshot" /\ \A j \in DOMAIN d : j > k => d[j].type # "snapshot"

Fresh(f, R, n) ==
  ~f.fromFile => /\ \A m \in R : m.alias = f.alias => m \in f.messages \/ \A x \in f.messages : x.id < m.id
                 /\ \A x \in f.messages : x.id < n

Line(d, v, R, n, c) ==
  /\ \A i \in DOMAIN d : d[i].type = "snapshot" => Fresh(d[i], R, n)
  /\ v.at \in Held => Fresh(v.frame, R, n)
  /\ \A i \in DOMAIN d : d[i].type = "answer" =>
       /\ d[i].message.id < n
       /\ \A m \in c \cup After(d, i) : d[i].message.id < m.id

Unnamed(u, v, d) ==
  /\ Len(u) <= 1
  /\ u # <<>> => v.at \notin Held /\ NoSnapshot(d)
  /\ v.at \in Held => NoSnapshot(d)
  /\ \A i, j \in DOMAIN d : d[i].type = "snapshot" /\ d[j].type = "snapshot" => i = j
  /\ u = <<>> /\ v.at = "read" => ~NoSnapshot(d)

Conn(p, u, v, d, o, R, c, n) ==
  /\ v.at # "free" /\ (v.at = "open" => u # <<>>)
  /\ u # <<>> => u[Len(u)] = p.alias
  /\ p.alias = Nothing => Unnamed(u, v, d)
  /\ u = <<>> /\ v.at \in Held =>
       /\ p.alias \in {v.frame.alias, Nothing}
       /\ o \/ Needed(R, v.frame.alias) \subseteq v.frame.messages \cup c
  /\ u = <<>> /\ v.at = "read" =>
       /\ \A k \in DOMAIN d : LastSnapshot(d, k) =>
            /\ p.alias \in {d[k].alias, Nothing}
            /\ o \/ Needed(R, d[k].alias) \subseteq d[k].messages \cup c \cup After(d, k)
       /\ NoSnapshot(d) =>
            \/ o \/ p.fromFile
            \/ /\ p.last < n
               /\ \A m \in Needed(R, p.alias) : m.serial \in p.shown \/ (m.id > p.last /\ m \in c \cup After(d, 0))

SenderOK == sender.at # "idle" => sender.message.id < nextId
Halves == sender.at = "half" => sender.sock \notin sender.to
RingOK == \A m \in Range(ring) : m.id < nextId
Registered == \A s \in Sockets : serving[s].at \in {"read"} \cup Held => s \in table
Quiet == \A s \in Sockets : s # page.sock => down[s] = <<>>
Lines == \A s \in Sockets : Line(down[s], serving[s], Range(ring), nextId, Coming(s))
Connected == page.sock # Nothing =>
  LET s == page.sock IN Conn(page, up[s], serving[s], down[s], s \in overtaken, Range(ring), Coming(s), nextId)

Bounded(M) == \E b \in Nat : \A m \in M : m.id <= b
Messages   == [id : Nat \ {0}, role : {"user", "assistant", "none"}, alias : Chats \cup {Nothing}, serial : Nat]
Snapshots  == {f \in [type : {"snapshot"}, alias : Chats, fromFile : BOOLEAN, messages : SUBSET Messages] : Bounded(f.messages)}
AnswerFrames == [type : {"answer"}, message : Messages]
Frames     == Snapshots \cup AnswerFrames \cup {Chat!Broken}
Served     == {Chat!Free, Chat!Reading, [at |-> "open"]} \cup [at : Held, frame : Snapshots]
Senders    == {Chat!Idle} \cup [at : {"pushed"}, message : Messages] \cup [at : {"sending"}, message : Messages, to : SUBSET Sockets]
                \cup [at : {"half"}, message : Messages, to : SUBSET Sockets, sock : Sockets]
Pages      == [sock : Sockets \cup {Nothing}, alias : Chats \cup {Nothing}, last : Nat, shown : SUBSET Nat, fromFile : BOOLEAN]

Types ==
  /\ ring \in Seq(Messages) /\ nextId \in Nat \ {0} /\ serial \in Nat
  /\ stored \in [Chats -> Nat] /\ table \in SUBSET Sockets
  /\ serving \in [Sockets -> Served]
  /\ up \in [Sockets -> Seq(Chats \cup {Nothing})] /\ down \in [Sockets -> Seq(Frames)]
  /\ sender \in Senders /\ page \in Pages

ChatInv == Types /\ SenderOK /\ Halves /\ RingOK /\ Registered /\ Quiet /\ Lines /\ Connected

LEMMA MaxId ==
  ASSUME NEW M \in SUBSET Messages, Bounded(M)
  PROVE  LET x == Max({0} \cup {m.id : m \in M})
         IN  x \in Nat /\ (\A m \in M : m.id <= x) /\ (x = 0 \/ \E m \in M : m.id = x)
<1> DEFINE S == {0} \cup {m.id : m \in M}
           U == {u \in Nat : \A y \in S : y <= u}
<1>1. S \subseteq Nat
  BY DEF Messages
<1>2. U # {}
  BY DEF Bounded
<1>3. PICK u \in U : \A v \in U : u <= v
  BY <1>2, LeastNat
<1>4. u \in S
  <2> SUFFICES ASSUME u \notin S PROVE FALSE
    OBVIOUS
  <2>1. \A y \in S : y <= u /\ y # u
    BY <1>3
  <2>2. u # 0
    OBVIOUS
  <2>3. u \in Nat
    BY <1>3
  <2>4. u - 1 \in Nat /\ \A y \in S : y <= u - 1
    BY <1>1, <2>1, <2>2, <2>3
  <2>5. u - 1 \in U
    BY <2>4
  <2> QED
    BY <1>3, <2>3, <2>5
<1>5. \A y \in S : u >= y
  BY <1>1, <1>3
<1>6. Max(S) \in S /\ \A y \in S : Max(S) >= y
  BY <1>4, <1>5 DEF Max
<1> QED
  BY <1>1, <1>6

LEMMA FrameTypes ==
  /\ \A f \in Frames : /\ f.type = "snapshot" => f \in Snapshots
                       /\ f.type = "answer" => f \in AnswerFrames
                       /\ f.type = "broken" => f = Chat!Broken
                       /\ f.type \in {"snapshot", "answer", "broken"}
  /\ \A v \in Served : v.at \in Held => v \in [at : Held, frame : Snapshots]
<1>1. ASSUME NEW f \in Frames
      PROVE  /\ f.type = "snapshot" => f \in Snapshots
             /\ f.type = "answer" => f \in AnswerFrames
             /\ f.type = "broken" => f = Chat!Broken
             /\ f.type \in {"snapshot", "answer", "broken"}
  <2>1. (f \in Snapshots => f.type = "snapshot") /\ (f \in AnswerFrames => f.type = "answer") /\ (f = Chat!Broken => f.type = "broken")
    BY DEF Snapshots, AnswerFrames, Chat!Broken
  <2> QED
    BY <2>1 DEF Frames
<1>2. ASSUME NEW v \in Served, v.at \in Held PROVE v \in [at : Held, frame : Snapshots]
  BY <1>2 DEF Served, Chat!Free, Chat!Reading, Held
<1> QED
  BY <1>1, <1>2

LEMMA SnapshotType ==
  ASSUME NEW a \in Chats, ring \in Seq(Messages), nextId \in Nat, stored \in [Chats -> Nat], RingOK
  PROVE  Chat!Snapshot(a) \in Snapshots
<1> DEFINE own == {m \in Range(ring) : m.alias = a}
<1>0. Range(ring) \subseteq Messages
  BY RangeType
<1>1. own \in SUBSET Messages
  BY <1>0
<1>2. Bounded(own)
  <2>1. \A m \in own : m.id <= nextId
    BY <1>0 DEF RingOK, Messages
  <2> QED
    BY <2>1 DEF Bounded
<1>3. Chat!FileMessages(a) \in SUBSET Messages /\ Bounded(Chat!FileMessages(a))
  <2>1. stored[a] \in Nat
    OBVIOUS
  <2>2. \A m \in Chat!FileMessages(a) : m \in Messages /\ m.id <= stored[a]
    BY <2>1 DEF Chat!FileMessages, Messages
  <2> QED
    BY <2>1, <2>2 DEF Bounded
<1> QED
  BY <1>1, <1>2, <1>3, SameChatOps DEF Chat!Snapshot, Snapshots

LEMMA PageTypes ==
  ASSUME page \in Pages
  PROVE  /\ \A m \in Messages : Chat!WithAnswer(m) \in Pages
         /\ \A f \in Snapshots : Chat!WithSnapshot(f) \in Pages
         /\ Chat!Cleared \in Pages
         /\ \A x \in Sockets \cup {Nothing} : [page EXCEPT !.sock = x] \in Pages /\ [Chat!Cleared EXCEPT !.sock = x] \in Pages
         /\ \A a \in Chats : [Chat!Cleared EXCEPT !.alias = a] \in Pages
<1>1. ASSUME NEW m \in Messages PROVE Chat!WithAnswer(m) \in Pages
  BY DEF Chat!WithAnswer, Pages, Messages
<1>2. ASSUME NEW f \in Snapshots PROVE Chat!WithSnapshot(f) \in Pages
  <2> DEFINE x == Max({0} \cup {m.id : m \in f.messages})
  <2>1. f.messages \in SUBSET Messages /\ Bounded(f.messages) /\ f.alias \in Chats /\ f.fromFile \in BOOLEAN
    BY DEF Snapshots
  <2>2. x \in Nat
    BY <2>1, MaxId
  <2>3. Chat!Answers(f.messages) \in SUBSET Nat
    BY <2>1 DEF Chat!Answers, Messages
  <2> HIDE DEF x
  <2>4. Chat!WithSnapshot(f) = IF page.alias \in {f.alias, Nothing}
                          THEN [page EXCEPT !.alias = f.alias, !.fromFile = f.fromFile, !.last = x, !.shown = Chat!Answers(f.messages)]
                          ELSE page
    BY SameChatOps DEF Chat!WithSnapshot, x
  <2> QED
    BY <2>1, <2>2, <2>3, <2>4 DEF Pages
<1>3. Chat!Cleared \in Pages
  BY DEF Chat!Cleared, Pages
<1>4. \A x \in Sockets \cup {Nothing} : [page EXCEPT !.sock = x] \in Pages /\ [Chat!Cleared EXCEPT !.sock = x] \in Pages
  BY <1>3 DEF Pages
<1>5. \A a \in Chats : [Chat!Cleared EXCEPT !.alias = a] \in Pages
  BY <1>3 DEF Pages
<1> QED
  BY <1>1, <1>2, <1>3, <1>4, <1>5

(* The values that the steps give to a variable. *)
LEMMA ServedTypes ==
  /\ Chat!Free \in Served /\ Chat!Reading \in Served /\ [at |-> "open"] \in Served
  /\ \A f \in Snapshots : [at |-> "copied", frame |-> f] \in Served
  /\ \A v \in Served : v.at = "copied" => [v EXCEPT !.at = "half"] \in Served
<1>1. Chat!Free \in Served /\ Chat!Reading \in Served /\ [at |-> "open"] \in Served
  BY DEF Served
<1>2. \A f \in Snapshots : [at |-> "copied", frame |-> f] \in Served
  BY DEF Served, Held
<1>3. ASSUME NEW v \in Served, v.at = "copied" PROVE [v EXCEPT !.at = "half"] \in Served
  <2>1. v \in [at : Held, frame : Snapshots]
    BY <1>3, FrameTypes DEF Held
  <2>2. [v EXCEPT !.at = "half"] \in [at : Held, frame : Snapshots]
    BY <2>1 DEF Held
  <2> QED
    BY <2>2 DEF Served
<1> QED
  BY <1>1, <1>2, <1>3

LEMMA SentTypes ==
  ASSUME down \in [Sockets -> Seq(Frames)], NEW s \in Sockets
  PROVE  /\ Chat!Sent(s, Chat!Broken) \in [Sockets -> Seq(Frames)]
         /\ \A f \in Snapshots : Chat!Sent(s, f) \in [Sockets -> Seq(Frames)]
         /\ \A m \in Messages : Chat!Sent(s, [type |-> "answer", message |-> m]) \in [Sockets -> Seq(Frames)]
<1>1. ASSUME NEW f \in Frames PROVE Chat!Sent(s, f) \in [Sockets -> Seq(Frames)]
  BY DEF Chat!Sent
<1>2. \A m \in Messages : [type |-> "answer", message |-> m] \in Frames
  BY DEF Frames, AnswerFrames
<1>3. Chat!Broken \in Frames /\ Snapshots \subseteq Frames
  BY DEF Frames
<1> QED
  BY <1>1, <1>2, <1>3

LEMMA SenderTypes ==
  ASSUME sender \in Senders
  PROVE  /\ sender.at \in {"idle", "pushed", "sending", "half"}
         /\ sender.at # "idle" => sender.message \in Messages
         /\ sender.at \in {"sending", "half"} => sender.to \in SUBSET Sockets
         /\ sender.at = "half" => sender.sock \in Sockets
         /\ sender.at = "idle" => sender = Chat!Idle
         /\ sender.at # "idle" => \A to \in SUBSET Sockets : Chat!ToSend(to) \in Senders
BY DEF Senders, Chat!Idle, Chat!ToSend

LEMMA PushTypes ==
  ASSUME Types, RingOK, NEW role \in {"user", "assistant"}, NEW a \in Chats \cup {Nothing}, Chat!Push(Chat!Message(role, a)), RingSize \in Nat \ {0}
  PROVE  /\ ring' \in Seq(Messages) /\ nextId' = nextId + 1 /\ serial' \in Nat
         /\ Chat!Message(role, a) \in Messages /\ Chat!Message(role, a).id = nextId
         /\ Range(ring') \subseteq Range(ring) \cup {Chat!Message(role, a)}
         /\ RingOK'
<1> DEFINE m == Chat!Message(role, a)
           q == IF Len(ring) >= RingSize THEN Tail(ring) ELSE ring
<1>1. m \in Messages /\ m.id = nextId
  BY DEF Chat!Message, Messages, Types
<1> HIDE DEF m
<1>2. q \in Seq(Messages) /\ Range(q) \subseteq Range(ring)
  BY TailRange DEF Types
<1>3. ring' = Append(q, m)
  BY DEF Chat!Push, m
<1> HIDE DEF q
<1>4. ring' \in Seq(Messages) /\ Range(ring') = Range(q) \cup {m}
  BY <1>1, <1>2, <1>3, AppendRange
<1>5. nextId' = nextId + 1 /\ serial' \in Nat
  BY DEF Chat!Push, Types
<1>6. RingOK'
  <2>1. Range(ring) \subseteq Messages
    BY RangeType DEF Types
  <2>2. \A x \in Range(ring') : x.id < nextId'
    BY <1>1, <1>2, <1>4, <1>5, <2>1 DEF RingOK, Types, Messages
  <2> QED
    BY <2>2 DEF RingOK
<1> QED
  BY <1>1, <1>2, <1>4, <1>5, <1>6 DEF m

(* The frames on a line, as one is added at its end ... *)
LEMMA AppendFrame ==
  ASSUME NEW d \in Seq(Frames), NEW f \in Frames
  PROVE  LET e == Append(d, f) IN
         /\ e \in Seq(Frames) /\ DOMAIN e = 1 .. Len(d) + 1 /\ DOMAIN d = 1 .. Len(d) /\ Len(d) \in Nat
         /\ \A i \in DOMAIN d : e[i] = d[i]
         /\ e[Len(d) + 1] = f
         /\ \A k \in 0 .. Len(d) : After(e, k) = After(d, k) \cup (IF f.type = "answer" THEN {f.message} ELSE {})
         /\ After(e, Len(d) + 1) = {}
         /\ NoSnapshot(e) <=> NoSnapshot(d) /\ f.type # "snapshot"
<1> DEFINE e == Append(d, f)
<1>1. /\ e \in Seq(Frames) /\ DOMAIN e = 1 .. Len(d) + 1 /\ DOMAIN d = 1 .. Len(d) /\ Len(d) \in Nat
      /\ \A i \in DOMAIN d : e[i] = d[i]
      /\ e[Len(d) + 1] = f
  OBVIOUS
<1> HIDE DEF e
<1>2. ASSUME NEW k \in 0 .. Len(d)
      PROVE  After(e, k) = After(d, k) \cup (IF f.type = "answer" THEN {f.message} ELSE {})
  <2>1. After(e, k) \subseteq After(d, k) \cup (IF f.type = "answer" THEN {f.message} ELSE {})
    BY <1>1 DEF After
  <2>2. After(d, k) \subseteq After(e, k)
    BY <1>1 DEF After
  <2>3. f.type = "answer" => f.message \in After(e, k)
    BY <1>1 DEF After
  <2> QED
    BY <2>1, <2>2, <2>3
<1>3. After(e, Len(d) + 1) = {}
  BY <1>1 DEF After
<1>4. NoSnapshot(e) <=> NoSnapshot(d) /\ f.type # "snapshot"
  BY <1>1 DEF NoSnapshot
<1> QED
  BY <1>1, <1>2, <1>3, <1>4 DEF e

(* ... and as the first one is taken. *)
LEMMA TailFrame ==
  ASSUME NEW d \in Seq(Frames), d # <<>>
  PROVE  LET t == Tail(d) IN
         /\ t \in Seq(Frames) /\ Len(d) \in Nat /\ DOMAIN d = 1 .. Len(d) /\ DOMAIN t = 1 .. (Len(d) - 1)
         /\ 1 \in DOMAIN d /\ Head(d) = d[1] /\ d[1] \in Frames
         /\ \A k \in DOMAIN t : t[k] = d[k + 1]
         /\ \A k \in 0 .. (Len(d) - 1) : After(t, k) = After(d, k + 1)
         /\ After(d, 0) = After(d, 1) \cup (IF d[1].type = "answer" THEN {d[1].message} ELSE {})
         /\ NoSnapshot(d) <=> NoSnapshot(t) /\ d[1].type # "snapshot"
         /\ \A k \in DOMAIN t : LastSnapshot(t, k) => LastSnapshot(d, k + 1)
         /\ d[1].type = "snapshot" /\ NoSnapshot(t) => LastSnapshot(d, 1)
<1> DEFINE t == Tail(d)
<1>1. /\ t \in Seq(Frames) /\ Len(d) \in Nat /\ DOMAIN d = 1 .. Len(d) /\ DOMAIN t = 1 .. (Len(d) - 1)
      /\ 1 \in DOMAIN d /\ Head(d) = d[1] /\ d[1] \in Frames
      /\ \A k \in DOMAIN t : t[k] = d[k + 1]
  OBVIOUS
<1> HIDE DEF t
<1>2. \A j \in DOMAIN d : j # 1 => j - 1 \in DOMAIN t /\ t[j - 1] = d[j]
  BY <1>1
<1>3. ASSUME NEW k \in 0 .. (Len(d) - 1) PROVE After(t, k) = After(d, k + 1)
  <2>1. ASSUME NEW j \in DOMAIN t, j > k, t[j].type = "answer" PROVE t[j].message \in After(d, k + 1)
    <3>1. j + 1 \in DOMAIN d /\ j + 1 > k + 1 /\ d[j + 1] = t[j]
      BY <1>1, <2>1
    <3> QED
      BY <2>1, <3>1 DEF After
  <2>2. ASSUME NEW j \in DOMAIN d, j > k + 1, d[j].type = "answer" PROVE d[j].message \in After(t, k)
    <3>1. j - 1 \in DOMAIN t /\ j - 1 > k /\ t[j - 1] = d[j]
      BY <1>1, <1>2, <2>2
    <3> QED
      BY <2>2, <3>1 DEF After
  <2>3. After(t, k) \subseteq After(d, k + 1)
    BY <2>1 DEF After
  <2>4. After(d, k + 1) \subseteq After(t, k)
    BY <2>2 DEF After
  <2> QED
    BY <2>3, <2>4
<1>4. After(d, 0) = After(d, 1) \cup (IF d[1].type = "answer" THEN {d[1].message} ELSE {})
  <2>1. \A j \in DOMAIN d : j > 0 <=> j > 1 \/ j = 1
    BY <1>1
  <2>2. After(d, 0) \subseteq After(d, 1) \cup (IF d[1].type = "answer" THEN {d[1].message} ELSE {})
    BY <2>1 DEF After
  <2>3. After(d, 1) \subseteq After(d, 0)
    BY <2>1 DEF After
  <2>4. d[1].type = "answer" => d[1].message \in After(d, 0)
    BY <1>1, <2>1 DEF After
  <2> QED
    BY <2>2, <2>3, <2>4
<1>5. NoSnapshot(d) <=> NoSnapshot(t) /\ d[1].type # "snapshot"
  <2>1. NoSnapshot(d) => NoSnapshot(t) /\ d[1].type # "snapshot"
    <3>1. ASSUME NoSnapshot(d), NEW k \in DOMAIN t PROVE t[k].type # "snapshot"
      <4>1. k + 1 \in DOMAIN d /\ t[k] = d[k + 1]
        BY <1>1
      <4> QED
        BY <3>1, <4>1 DEF NoSnapshot
    <3> QED
      BY <1>1, <3>1 DEF NoSnapshot
  <2>2. ASSUME NoSnapshot(t), d[1].type # "snapshot", NEW j \in DOMAIN d PROVE d[j].type # "snapshot"
    BY <1>2, <2>2 DEF NoSnapshot
  <2> QED
    BY <2>1, <2>2 DEF NoSnapshot
<1>6. ASSUME NEW k \in DOMAIN t, LastSnapshot(t, k) PROVE LastSnapshot(d, k + 1)
  <2>1. d[k + 1].type = "snapshot"
    BY <1>1, <1>6 DEF LastSnapshot
  <2>2. ASSUME NEW j \in DOMAIN d, j > k + 1 PROVE d[j].type # "snapshot"
    <3>1. j - 1 \in DOMAIN t /\ j - 1 > k /\ t[j - 1] = d[j]
      BY <1>1, <1>2, <2>2
    <3> QED
      BY <1>6, <3>1 DEF LastSnapshot
  <2> QED
    BY <2>1, <2>2 DEF LastSnapshot
<1>7. d[1].type = "snapshot" /\ NoSnapshot(t) => LastSnapshot(d, 1)
  <2>1. \A j \in DOMAIN d : j > 1 => j # 1
    OBVIOUS
  <2> QED
    BY <1>2, <2>1 DEF LastSnapshot, NoSnapshot
<1> QED
  BY <1>1, <1>3, <1>4, <1>5, <1>6, <1>7 DEF t

(***************************************************************************)
(* Lines.                                                                  *)
(***************************************************************************)
LEMMA FreshStays ==
  ASSUME NEW f \in Snapshots, NEW R \in SUBSET Messages, NEW Q \in SUBSET Messages, NEW n \in Nat, NEW n2 \in Nat, n <= n2,
         Nothing \notin Chats, Fresh(f, R, n),
         \A m \in Q : m \in R \/ m.alias = Nothing \/ m.id >= n
  PROVE  Fresh(f, Q, n2)
<1> SUFFICES ASSUME ~f.fromFile PROVE Fresh(f, Q, n2)
  BY DEF Fresh
<1>1. f.alias \in Chats /\ \A x \in f.messages : x.id \in Nat /\ x.id < n
  BY DEF Fresh, Snapshots, Messages
<1>2. ASSUME NEW m \in Q, m.alias = f.alias PROVE m \in f.messages \/ \A x \in f.messages : x.id < m.id
  <2>1. CASE m \in R
    BY <1>2, <2>1 DEF Fresh
  <2>2. CASE m.id >= n
    <3>1. m.id \in Nat
      BY DEF Messages
    <3> QED
      BY <1>1, <2>2, <3>1
  <2> QED
    BY <1>1, <1>2, <2>1, <2>2
<1>3. \A x \in f.messages : x.id < n2
  BY <1>1
<1> QED
  BY <1>2, <1>3 DEF Fresh

LEMMA LineStays ==
  ASSUME NEW d \in Seq(Frames), NEW v \in Served, NEW R \in SUBSET Messages, NEW Q \in SUBSET Messages,
         NEW n \in Nat, NEW n2 \in Nat, n <= n2, NEW c, NEW c2, Nothing \notin Chats, Line(d, v, R, n, c),
         \A m \in Q : m \in R \/ m.alias = Nothing \/ m.id >= n,
         \A m \in c2 : m \in c \/ (m \in Messages /\ m.id >= n)
  PROVE  Line(d, v, Q, n2, c2)
<1>1. ASSUME NEW i \in DOMAIN d, d[i].type = "snapshot" PROVE Fresh(d[i], Q, n2)
  <2>1. d[i] \in Snapshots /\ Fresh(d[i], R, n)
    BY <1>1, FrameTypes DEF Line
  <2> QED
    BY <2>1, FreshStays
<1>2. v.at \in Held => Fresh(v.frame, Q, n2)
  <2> SUFFICES ASSUME v.at \in Held PROVE Fresh(v.frame, Q, n2)
    OBVIOUS
  <2>1. v.frame \in Snapshots /\ Fresh(v.frame, R, n)
    BY FrameTypes DEF Line
  <2> QED
    BY <2>1, FreshStays
<1>3. ASSUME NEW i \in DOMAIN d, d[i].type = "answer"
      PROVE  d[i].message.id < n2 /\ \A m \in c2 \cup After(d, i) : d[i].message.id < m.id
  <2>1. d[i] \in Frames
    OBVIOUS
  <2>2. d[i].message \in Messages
    BY <1>3, <2>1, FrameTypes DEF AnswerFrames
  <2>3. d[i].message.id \in Nat /\ d[i].message.id < n
    BY <1>3, <2>2 DEF Line, Messages
  <2>4. \A m \in c \cup After(d, i) : d[i].message.id < m.id
    BY <1>3 DEF Line
  <2>5. \A m \in Messages : m.id \in Nat
    BY DEF Messages
  <2>6. ASSUME NEW m \in c2 PROVE d[i].message.id < m.id
    BY <2>3, <2>4, <2>5
  <2> QED
    BY <2>3, <2>4, <2>6
<1> QED
  BY <1>1, <1>2, <1>3 DEF Line

LEMMA LineAppends ==
  ASSUME NEW d \in Seq(Frames), NEW v \in Served, NEW R, NEW n, NEW c, Line(d, v, R, n, c)
  PROVE  /\ Line(Append(d, Chat!Broken), v, R, n, c)
         /\ v.at \in Held => Line(Append(d, v.frame), Chat!Reading, R, n, c)
         /\ \A m \in Messages : m \in c /\ m.id < n => Line(Append(d, [type |-> "answer", message |-> m]), v, R, n, {})
<1>1. Chat!Broken \in Frames /\ Chat!Broken.type = "broken"
  BY DEF Frames, Chat!Broken
<1>2. Line(Append(d, Chat!Broken), v, R, n, c)
  <2> DEFINE e == Append(d, Chat!Broken)
  <2>0. /\ DOMAIN e = 1 .. Len(d) + 1 /\ DOMAIN d = 1 .. Len(d) /\ Len(d) \in Nat
        /\ \A i \in DOMAIN d : e[i] = d[i]
        /\ e[Len(d) + 1] = Chat!Broken
        /\ \A k \in 0 .. Len(d) : After(e, k) = After(d, k) \cup (IF Chat!Broken.type = "answer" THEN {Chat!Broken.message} ELSE {})
    BY ZenonT(60), <1>1, AppendFrame
  <2> HIDE DEF e
  <2>1. /\ DOMAIN e = 1 .. Len(d) + 1 /\ DOMAIN d = 1 .. Len(d) /\ Len(d) \in Nat
        /\ \A i \in DOMAIN d : e[i] = d[i] /\ After(e, i) = After(d, i)
        /\ e[Len(d) + 1] = Chat!Broken
    BY <1>1, <2>0
  <2>2. \A i \in DOMAIN e : i \in DOMAIN d \/ e[i].type = "broken"
    BY <1>1, <2>1
  <2>3. /\ \A i \in DOMAIN e : e[i].type = "snapshot" => Fresh(e[i], R, n)
        /\ v.at \in Held => Fresh(v.frame, R, n)
    BY <2>1, <2>2 DEF Line
  <2>4. \A i \in DOMAIN e : e[i].type = "answer" =>
           e[i].message.id < n /\ \A m \in c \cup After(e, i) : e[i].message.id < m.id
    BY <2>1, <2>2 DEF Line
  <2>5. Line(e, v, R, n, c)
    BY <2>3, <2>4 DEF Line
  <2> QED
    BY <2>5 DEF e
<1>3. ASSUME v.at \in Held PROVE Line(Append(d, v.frame), Chat!Reading, R, n, c)
  <2> DEFINE f == v.frame
             e == Append(d, f)
  <2>0. f \in Frames /\ f.type = "snapshot" /\ Fresh(f, R, n)
    BY <1>3, FrameTypes DEF Frames, Snapshots, Line
  <2> HIDE DEF f
  <2>a. /\ DOMAIN e = 1 .. Len(d) + 1 /\ DOMAIN d = 1 .. Len(d) /\ Len(d) \in Nat
        /\ \A i \in DOMAIN d : e[i] = d[i]
        /\ e[Len(d) + 1] = f
        /\ \A k \in 0 .. Len(d) : After(e, k) = After(d, k) \cup (IF f.type = "answer" THEN {f.message} ELSE {})
    BY ZenonT(60), <2>0, AppendFrame
  <2> HIDE DEF e
  <2>1. /\ DOMAIN e = 1 .. Len(d) + 1 /\ DOMAIN d = 1 .. Len(d) /\ Len(d) \in Nat
        /\ \A i \in DOMAIN d : e[i] = d[i] /\ After(e, i) = After(d, i)
        /\ e[Len(d) + 1] = f
    BY <2>0, <2>a
  <2>2. \A i \in DOMAIN e : i \in DOMAIN d \/ e[i] = f
    BY <2>1
  <2>3. \A i \in DOMAIN e : e[i].type = "snapshot" => Fresh(e[i], R, n)
    BY <2>0, <2>1, <2>2 DEF Line
  <2>4. \A i \in DOMAIN e : e[i].type = "answer" =>
           e[i].message.id < n /\ \A m \in c \cup After(e, i) : e[i].message.id < m.id
    BY <2>0, <2>1, <2>2 DEF Line
  <2>5. Chat!Reading.at \notin Held
    BY DEF Chat!Reading, Held
  <2>6. Line(e, Chat!Reading, R, n, c)
    BY <2>3, <2>4, <2>5 DEF Line
  <2> QED
    BY <2>6 DEF e, f
<1>4. ASSUME NEW m \in Messages, m \in c, m.id < n PROVE Line(Append(d, [type |-> "answer", message |-> m]), v, R, n, {})
  <2> DEFINE f == [type |-> "answer", message |-> m]
             e == Append(d, f)
  <2>0. f \in Frames /\ f.type = "answer" /\ f.message = m
    BY DEF Frames, AnswerFrames
  <2> HIDE DEF f
  <2>1. /\ DOMAIN e = 1 .. Len(d) + 1 /\ DOMAIN d = 1 .. Len(d) /\ Len(d) \in Nat
        /\ \A i \in DOMAIN d : e[i] = d[i] /\ After(e, i) = After(d, i) \cup {m}
        /\ e[Len(d) + 1] = f /\ After(e, Len(d) + 1) = {}
    BY <2>0, AppendFrame
  <2> HIDE DEF e
  <2>2. \A i \in DOMAIN e : i \in DOMAIN d \/ i = Len(d) + 1
    BY <2>1
  <2>3. \A i \in DOMAIN e : e[i].type = "snapshot" => Fresh(e[i], R, n)
    BY <2>0, <2>1, <2>2 DEF Line
  <2>4. ASSUME NEW i \in DOMAIN e, e[i].type = "answer"
        PROVE  e[i].message.id < n /\ \A x \in {} \cup After(e, i) : e[i].message.id < x.id
    <3>1. CASE i \in DOMAIN d
      BY <1>4, <2>1, <2>4, <3>1 DEF Line
    <3>2. CASE i = Len(d) + 1
      BY <1>4, <2>0, <2>1, <3>2
    <3> QED
      BY <2>2, <3>1, <3>2
  <2>5. Line(e, v, R, n, {})
    BY <2>3, <2>4 DEF Line
  <2> QED
    BY <2>5 DEF e, f
<1> QED
  BY <1>2, <1>3, <1>4

LEMMA LineTakes ==
  ASSUME NEW d \in Seq(Frames), d # <<>>, NEW v, NEW R, NEW n, NEW c, Line(d, v, R, n, c)
  PROVE  Line(Tail(d), v, R, n, c)
<1> DEFINE t == Tail(d)
<1>1. /\ DOMAIN d = 1 .. Len(d) /\ DOMAIN t = 1 .. (Len(d) - 1) /\ Len(d) \in Nat
      /\ \A k \in DOMAIN t : t[k] = d[k + 1] /\ After(t, k) = After(d, k + 1)
  BY TailFrame
<1> HIDE DEF t
<1>2. \A k \in DOMAIN t : k + 1 \in DOMAIN d
  BY <1>1
<1>3. Line(t, v, R, n, c)
  BY <1>1, <1>2 DEF Line
<1> QED
  BY <1>3 DEF t

(***************************************************************************)
(* The page's connection.                                                  *)
(***************************************************************************)

(* As long as a request is on its way, nothing else counts.                *)
LEMMA ConnAsks ==
  ASSUME NEW p, NEW u, NEW v, NEW d, NEW o, NEW R, NEW c, NEW n,
         u # <<>>, v.at # "free", u[Len(u)] = p.alias, p.alias = Nothing => Unnamed(u, v, d)
  PROVE  Conn(p, u, v, d, o, R, c, n)
BY DEF Conn

(* No answer that the page needs is new.                                   *)
LEMMA ConnStays ==
  ASSUME NEW p \in Pages, NEW u, NEW v, NEW d, NEW o \in BOOLEAN, NEW R, NEW Q, NEW n \in Nat, NEW n2 \in Nat, n <= n2,
         NEW c, NEW c2, c \subseteq c2, Conn(p, u, v, d, o, R, c, n),
         \A a : Needed(Q, a) \subseteq Needed(R, a)
  PROVE  Conn(p, u, v, d, o, Q, c2, n2)
<1>1. /\ v.at # "free" /\ (v.at = "open" => u # <<>>)
      /\ u # <<>> => u[Len(u)] = p.alias
      /\ p.alias = Nothing => Unnamed(u, v, d)
  BY DEF Conn
<1>2. u = <<>> /\ v.at \in Held =>
        /\ p.alias \in {v.frame.alias, Nothing}
        /\ o \/ Needed(Q, v.frame.alias) \subseteq v.frame.messages \cup c2
  BY DEF Conn
<1>3. ASSUME u = <<>>, v.at = "read"
      PROVE  /\ \A k \in DOMAIN d : LastSnapshot(d, k) =>
                  /\ p.alias \in {d[k].alias, Nothing}
                  /\ o \/ Needed(Q, d[k].alias) \subseteq d[k].messages \cup c2 \cup After(d, k)
             /\ NoSnapshot(d) =>
                  \/ o \/ p.fromFile
                  \/ /\ p.last < n2
                     /\ \A m \in Needed(Q, p.alias) : m.serial \in p.shown \/ (m.id > p.last /\ m \in c2 \cup After(d, 0))
  <2>1. \A k \in DOMAIN d : LastSnapshot(d, k) =>
          /\ p.alias \in {d[k].alias, Nothing}
          /\ o \/ Needed(Q, d[k].alias) \subseteq d[k].messages \cup c2 \cup After(d, k)
    BY <1>3 DEF Conn
  <2>2. p.last < n => p.last < n2
    BY DEF Pages
  <2>3. NoSnapshot(d) =>
          \/ o \/ p.fromFile
          \/ /\ p.last < n2
             /\ \A m \in Needed(Q, p.alias) : m.serial \in p.shown \/ (m.id > p.last /\ m \in c2 \cup After(d, 0))
    BY <1>3, <2>2 DEF Conn
  <2> QED
    BY <2>1, <2>3
<1> QED
  BY <1>1, <1>2, <1>3 DEF Conn

(* An answer is pushed.                                                    *)
LEMMA ConnPushes ==
  ASSUME NEW p \in Pages, NEW u, NEW v, NEW d, NEW o \in BOOLEAN, NEW R, NEW Q, NEW n \in Nat,
         NEW c, NEW x, x.id = n, Conn(p, u, v, d, o, R, c, n),
         \A a : Needed(Q, a) \subseteq Needed(R, a) \cup {x}
  PROVE  Conn(p, u, v, d, o, Q, c \cup {x}, n + 1)
<1>1. /\ v.at # "free" /\ (v.at = "open" => u # <<>>)
      /\ u # <<>> => u[Len(u)] = p.alias
      /\ p.alias = Nothing => Unnamed(u, v, d)
  BY DEF Conn
<1>2. u = <<>> /\ v.at \in Held =>
        /\ p.alias \in {v.frame.alias, Nothing}
        /\ o \/ Needed(Q, v.frame.alias) \subseteq v.frame.messages \cup (c \cup {x})
  BY DEF Conn
<1>3. ASSUME u = <<>>, v.at = "read"
      PROVE  /\ \A k \in DOMAIN d : LastSnapshot(d, k) =>
                  /\ p.alias \in {d[k].alias, Nothing}
                  /\ o \/ Needed(Q, d[k].alias) \subseteq d[k].messages \cup (c \cup {x}) \cup After(d, k)
             /\ NoSnapshot(d) =>
                  \/ o \/ p.fromFile
                  \/ /\ p.last < n + 1
                     /\ \A m \in Needed(Q, p.alias) : m.serial \in p.shown \/ (m.id > p.last /\ m \in (c \cup {x}) \cup After(d, 0))
  <2>1. \A k \in DOMAIN d : LastSnapshot(d, k) =>
          /\ p.alias \in {d[k].alias, Nothing}
          /\ o \/ Needed(Q, d[k].alias) \subseteq d[k].messages \cup (c \cup {x}) \cup After(d, k)
    BY <1>3 DEF Conn
  <2>2. p.last < n => p.last < n + 1 /\ x.id > p.last
    BY DEF Pages
  <2>3. NoSnapshot(d) =>
          \/ o \/ p.fromFile
          \/ /\ p.last < n + 1
             /\ \A m \in Needed(Q, p.alias) : m.serial \in p.shown \/ (m.id > p.last /\ m \in (c \cup {x}) \cup After(d, 0))
    BY <1>3, <2>2 DEF Conn
  <2> QED
    BY <2>1, <2>3
<1> QED
  BY <1>1, <1>2, <1>3 DEF Conn

(* What a frame that is no snapshot changes at the end of the line.        *)
LEMMA ConnAppends ==
  ASSUME NEW p \in Pages, NEW u, NEW v, NEW d \in Seq(Frames), NEW o \in BOOLEAN, NEW R, NEW n,
         NEW c, NEW c2, NEW o2 \in BOOLEAN, Conn(p, u, v, d, o, R, c, n), o => o2,
         NEW f \in Frames, f.type # "snapshot", c \subseteq c2 \cup (IF f.type = "answer" THEN {f.message} ELSE {}),
         v.at \in Held /\ ~o2 => c \subseteq v.frame.messages \cup c2
  PROVE  Conn(p, u, v, Append(d, f), o2, R, c2, n)
<1> DEFINE e == Append(d, f)
<1>1. /\ DOMAIN e = 1 .. Len(d) + 1 /\ DOMAIN d = 1 .. Len(d) /\ Len(d) \in Nat
      /\ \A i \in DOMAIN d : e[i] = d[i]
      /\ e[Len(d) + 1] = f
      /\ \A k \in 0 .. Len(d) : After(e, k) = After(d, k) \cup (IF f.type = "answer" THEN {f.message} ELSE {})
      /\ NoSnapshot(e) <=> NoSnapshot(d)
  BY AppendFrame
<1> HIDE DEF e
<1>2. \A i \in DOMAIN e : i \in DOMAIN d \/ i = Len(d) + 1
  BY <1>1
<1>3. \A k \in DOMAIN e : LastSnapshot(e, k) => k \in DOMAIN d /\ LastSnapshot(d, k) /\ e[k] = d[k]
  BY <1>1, <1>2 DEF LastSnapshot
<1>4. /\ v.at # "free" /\ (v.at = "open" => u # <<>>)
      /\ u # <<>> => u[Len(u)] = p.alias
  BY DEF Conn
<1>5. p.alias = Nothing => Unnamed(u, v, e)
  BY <1>1, <1>2 DEF Conn, Unnamed
<1>6. u = <<>> /\ v.at \in Held =>
        /\ p.alias \in {v.frame.alias, Nothing}
        /\ o2 \/ Needed(R, v.frame.alias) \subseteq v.frame.messages \cup c2
  BY DEF Conn
<1>7. ASSUME u = <<>>, v.at = "read"
      PROVE  /\ \A k \in DOMAIN e : LastSnapshot(e, k) =>
                  /\ p.alias \in {e[k].alias, Nothing}
                  /\ o2 \/ Needed(R, e[k].alias) \subseteq e[k].messages \cup c2 \cup After(e, k)
             /\ NoSnapshot(e) =>
                  \/ o2 \/ p.fromFile
                  \/ /\ p.last < n
                     /\ \A m \in Needed(R, p.alias) : m.serial \in p.shown \/ (m.id > p.last /\ m \in c2 \cup After(e, 0))
  <2>1. ASSUME NEW k \in DOMAIN e, LastSnapshot(e, k)
        PROVE  /\ p.alias \in {e[k].alias, Nothing}
               /\ o2 \/ Needed(R, e[k].alias) \subseteq e[k].messages \cup c2 \cup After(e, k)
    <3>1. k \in DOMAIN d /\ LastSnapshot(d, k) /\ e[k] = d[k]
      BY <1>3, <2>1
    <3>2. /\ p.alias \in {d[k].alias, Nothing}
          /\ o \/ Needed(R, d[k].alias) \subseteq d[k].messages \cup c \cup After(d, k)
      BY <1>7, <3>1 DEF Conn
    <3>3. c \cup After(d, k) \subseteq c2 \cup After(e, k)
      BY <1>1, <3>1
    <3> QED
      BY <3>1, <3>2, <3>3
  <2>2. c \cup After(d, 0) \subseteq c2 \cup After(e, 0)
    BY <1>1
  <2>3. NoSnapshot(e) =>
          \/ o2 \/ p.fromFile
          \/ /\ p.last < n
             /\ \A m \in Needed(R, p.alias) : m.serial \in p.shown \/ (m.id > p.last /\ m \in c2 \cup After(e, 0))
    BY <1>1, <1>7, <2>2 DEF Conn
  <2> QED
    BY <2>1, <2>3
<1>8. Conn(p, u, v, e, o2, R, c2, n)
  BY <1>4, <1>5, <1>6, <1>7 DEF Conn
<1> QED
  BY <1>8 DEF e

(* A snapshot is sent.                                                     *)
LEMMA ConnSends ==
  ASSUME NEW p \in Pages, NEW u, NEW v \in Served, NEW d \in Seq(Frames), NEW o \in BOOLEAN, NEW R, NEW n, NEW c,
         Conn(p, u, v, d, o, R, c, n), v.at \in Held
  PROVE  Conn(p, u, Chat!Reading, Append(d, v.frame), o, R, c, n)
<1> DEFINE f == v.frame
           e == Append(d, f)
<1>0. f \in Frames /\ f.type = "snapshot"
  BY FrameTypes DEF Frames, Snapshots
<1> HIDE DEF f
<1>1. /\ DOMAIN e = 1 .. Len(d) + 1 /\ DOMAIN d = 1 .. Len(d) /\ Len(d) \in Nat
      /\ \A i \in DOMAIN d : e[i] = d[i]
      /\ e[Len(d) + 1] = f
      /\ ~NoSnapshot(e) /\ After(e, Len(d) + 1) = {}
  BY <1>0, AppendFrame
<1> HIDE DEF e
<1>2. \A i \in DOMAIN e : i \in DOMAIN d \/ i = Len(d) + 1
  BY <1>1
<1>3. \A k \in DOMAIN e : LastSnapshot(e, k) => k = Len(d) + 1
  <2>1. Len(d) + 1 \in DOMAIN e /\ \A k \in DOMAIN d : Len(d) + 1 > k
    BY <1>1
  <2> QED
    BY <1>0, <1>1, <1>2, <2>1 DEF LastSnapshot
<1>4. Chat!Reading.at = "read" /\ "read" \notin Held
  BY DEF Chat!Reading, Held
<1>5. u # <<>> => u[Len(u)] = p.alias
  BY DEF Conn
<1>6. p.alias = Nothing => Unnamed(u, Chat!Reading, e)
  <2> SUFFICES ASSUME p.alias = Nothing PROVE Unnamed(u, Chat!Reading, e)
    OBVIOUS
  <2>1. Unnamed(u, v, d)
    BY DEF Conn
  <2>2. u = <<>> /\ NoSnapshot(d) /\ Len(u) <= 1
    BY <2>1 DEF Unnamed
  <2>3. \A i \in DOMAIN e : e[i].type = "snapshot" => i = Len(d) + 1
    BY <1>1, <1>2, <2>2 DEF NoSnapshot
  <2> QED
    BY <1>1, <1>4, <2>2, <2>3 DEF Unnamed
<1>7. ASSUME u = <<>>, NEW k \in DOMAIN e, LastSnapshot(e, k)
      PROVE  /\ p.alias \in {e[k].alias, Nothing}
             /\ o \/ Needed(R, e[k].alias) \subseteq e[k].messages \cup c \cup After(e, k)
  <2>1. e[k] = f
    BY <1>1, <1>3, <1>7
  <2>2. p.alias \in {f.alias, Nothing} /\ (o \/ Needed(R, f.alias) \subseteq f.messages \cup c)
    BY <1>7 DEF Conn, f
  <2> QED
    BY <2>1, <2>2
<1>8. Conn(p, u, Chat!Reading, e, o, R, c, n)
  BY <1>1, <1>4, <1>5, <1>6, <1>7 DEF Conn
<1> QED
  BY <1>8 DEF e, f

LEMMA ConnHalf ==
  ASSUME NEW p, NEW u, NEW v, NEW w, NEW d, NEW o, NEW R, NEW n, NEW c,
         Conn(p, u, v, d, o, R, c, n), v.at \in Held, w.at \in Held, w.frame = v.frame
  PROVE  Conn(p, u, w, d, o, R, c, n)
<1>1. "read" \notin Held /\ "free" \notin Held /\ "open" \notin Held
  BY DEF Held
<1> QED
  BY <1>1 DEF Conn, Unnamed

(* A request is read, and the ring copied.                                 *)
LEMMA ConnCopies ==
  ASSUME NEW p \in Pages, NEW u \in Seq(Chats \cup {Nothing}), NEW d, NEW o, NEW R, NEW n, NEW c,
         NEW o2, NEW f, NEW v, Conn(p, u, v, d, o, R, c, n), v = Chat!Reading, u # <<>>,
         Head(u) = Nothing \/ f.alias = Head(u), Needed(R, f.alias) \subseteq f.messages
  PROVE  Conn(p, Tail(u), [at |-> "copied", frame |-> f], d, o2, R, c, n)
<1> DEFINE w == [at |-> "copied", frame |-> f]
<1>1. w.at = "copied" /\ w.frame = f /\ "copied" \in Held /\ "read" \notin Held
  BY DEF Held
<1>2. v.at = "read"
  BY DEF Chat!Reading
<1>3. u[Len(u)] = p.alias /\ (p.alias = Nothing => Unnamed(u, v, d))
  BY DEF Conn
<1>4. /\ Tail(u) # <<>> => Tail(u)[Len(Tail(u))] = u[Len(u)]
      /\ Tail(u) = <<>> => Head(u) = u[Len(u)]
      /\ Len(u) <= 1 => Tail(u) = <<>> /\ Len(Tail(u)) <= 1
  <2>1. Len(u) \in Nat /\ Len(u) > 0 /\ Tail(u) \in Seq(Chats \cup {Nothing}) /\ Len(Tail(u)) = Len(u) - 1
    BY TailRange
  <2>2. Tail(u) = <<>> <=> Len(u) = 1
    BY <2>1
  <2>3. ASSUME Len(u) # 1 PROVE Tail(u)[Len(u) - 1] = u[Len(u)]
    BY <2>1, <2>3
  <2> QED
    BY <2>1, <2>2, <2>3
<1> HIDE DEF w
<1>5. p.alias = Nothing => Unnamed(Tail(u), w, d)
  BY <1>1, <1>2, <1>3, <1>4 DEF Unnamed
<1>6. Tail(u) # <<>> => Tail(u)[Len(Tail(u))] = p.alias
  BY <1>3, <1>4
<1>7. Tail(u) = <<>> => p.alias \in {w.frame.alias, Nothing} /\ Needed(R, w.frame.alias) \subseteq w.frame.messages \cup c
  BY <1>1, <1>3, <1>4
<1>8. Conn(p, Tail(u), w, d, o2, R, c, n)
  BY <1>1, <1>5, <1>6, <1>7 DEF Conn
<1> QED
  BY <1>8 DEF w

(* The page takes a frame.                                                 *)
LEMMA ConnTakesAnswer ==
  ASSUME page \in Pages, NEW u, NEW v, NEW d \in Seq(Frames), d # <<>>, NEW o \in BOOLEAN, NEW R \in SUBSET Messages,
         NEW c \in SUBSET Messages, NEW n \in Nat, Conn(page, u, v, d, o, R, c, n), Line(d, v, R, n, c), d[1].type = "answer"
  PROVE  Conn(Chat!WithAnswer(d[1].message), u, v, Tail(d), o, R, c, n)
<1> DEFINE t == Tail(d)
           x == d[1].message
           q == Chat!WithAnswer(x)
<1>1. /\ Len(d) \in Nat /\ DOMAIN d = 1 .. Len(d) /\ DOMAIN t = 1 .. (Len(d) - 1) /\ 1 \in DOMAIN d /\ d[1] \in Frames
      /\ \A k \in DOMAIN t : t[k] = d[k + 1] /\ After(t, k) = After(d, k + 1)
      /\ After(t, 0) = After(d, 1) /\ After(d, 0) = After(d, 1) \cup {x}
      /\ NoSnapshot(d) <=> NoSnapshot(t)
      /\ \A k \in DOMAIN t : LastSnapshot(t, k) => LastSnapshot(d, k + 1)
  <2>1. /\ Len(d) \in Nat /\ DOMAIN d = 1 .. Len(d) /\ DOMAIN t = 1 .. (Len(d) - 1) /\ 1 \in DOMAIN d /\ d[1] \in Frames
        /\ \A k \in DOMAIN t : t[k] = d[k + 1]
        /\ \A k \in 0 .. (Len(d) - 1) : After(t, k) = After(d, k + 1)
        /\ After(d, 0) = After(d, 1) \cup (IF d[1].type = "answer" THEN {d[1].message} ELSE {})
        /\ NoSnapshot(d) <=> NoSnapshot(t) /\ d[1].type # "snapshot"
        /\ \A k \in DOMAIN t : LastSnapshot(t, k) => LastSnapshot(d, k + 1)
    BY TailFrame
  <2> HIDE DEF t
  <2>2. 0 \in 0 .. (Len(d) - 1) /\ \A k \in DOMAIN t : k \in 0 .. (Len(d) - 1)
    BY <2>1
  <2>3. After(t, 0) = After(d, 1)
    BY <2>1, <2>2
  <2> QED
    BY <2>1, <2>2, <2>3
<1> HIDE DEF t
<1>2. x \in Messages
  BY <1>1, FrameTypes DEF AnswerFrames
<1>3. x.id \in Nat /\ x.id < n /\ \A m \in c \cup After(d, 1) : x.id < m.id
  BY <1>1, <1>2 DEF Line, Messages
<1>4. /\ q.alias = page.alias /\ q.fromFile = page.fromFile /\ q.last \in {page.last, x.id}
      /\ x.alias = page.alias => q.last >= x.id
      /\ page.shown \subseteq q.shown
      /\ x.alias = page.alias /\ x.id > page.last => x.serial \in q.shown
  BY <1>2, <1>3 DEF Chat!WithAnswer, Chat!ForPage, Pages
<1> HIDE DEF x, q
<1>5. /\ v.at # "free" /\ (v.at = "open" => u # <<>>)
      /\ u # <<>> => u[Len(u)] = q.alias
  BY <1>4 DEF Conn
<1>6. q.alias = Nothing => Unnamed(u, v, t)
  <2> SUFFICES ASSUME q.alias = Nothing PROVE Unnamed(u, v, t)
    OBVIOUS
  <2>1. Unnamed(u, v, d)
    BY <1>4 DEF Conn
  <2>2. ASSUME NEW i \in DOMAIN t, NEW j \in DOMAIN t, t[i].type = "snapshot", t[j].type = "snapshot" PROVE i = j
    <3>1. i + 1 \in DOMAIN d /\ j + 1 \in DOMAIN d /\ d[i + 1].type = "snapshot" /\ d[j + 1].type = "snapshot"
      BY <1>1, <2>2
    <3>2. i + 1 = j + 1
      BY <2>1, <3>1 DEF Unnamed
    <3> QED
      BY <1>1, <3>2
  <2> QED
    BY <1>1, <2>1, <2>2 DEF Unnamed
<1>7. u = <<>> /\ v.at \in Held =>
        /\ q.alias \in {v.frame.alias, Nothing}
        /\ o \/ Needed(R, v.frame.alias) \subseteq v.frame.messages \cup c
  BY <1>4 DEF Conn
<1>8. ASSUME u = <<>>, v.at = "read", NEW k \in DOMAIN t, LastSnapshot(t, k)
      PROVE  /\ q.alias \in {t[k].alias, Nothing}
             /\ o \/ Needed(R, t[k].alias) \subseteq t[k].messages \cup c \cup After(t, k)
  <2>1. k + 1 \in DOMAIN d /\ LastSnapshot(d, k + 1) /\ t[k] = d[k + 1] /\ After(t, k) = After(d, k + 1)
    BY <1>1, <1>8
  <2>2. /\ page.alias \in {d[k + 1].alias, Nothing}
        /\ o \/ Needed(R, d[k + 1].alias) \subseteq d[k + 1].messages \cup c \cup After(d, k + 1)
    BY <1>8, <2>1 DEF Conn
  <2> QED
    BY <1>4, <2>1, <2>2
<1>9. ASSUME u = <<>>, v.at = "read", NoSnapshot(t), ~o, ~q.fromFile
      PROVE  /\ q.last < n
             /\ \A m \in Needed(R, q.alias) : m.serial \in q.shown \/ (m.id > q.last /\ m \in c \cup After(t, 0))
  <2>1. /\ page.last < n
        /\ \A m \in Needed(R, page.alias) : m.serial \in page.shown \/ (m.id > page.last /\ m \in c \cup After(d, 0))
    BY <1>1, <1>4, <1>9 DEF Conn
  <2>2. ASSUME NEW m \in Needed(R, page.alias)
        PROVE  m.serial \in q.shown \/ (m.id > q.last /\ m \in c \cup After(t, 0))
    <3>1. m.alias = page.alias
      BY DEF Needed
    <3>2. CASE m.serial \in page.shown
      BY <1>4, <3>2
    <3>3. CASE m.id > page.last /\ m \in c \cup After(d, 1)
      BY <1>1, <1>3, <1>4, <3>3
    <3>4. CASE m.id > page.last /\ m = x
      BY <1>4, <3>1, <3>4
    <3> QED
      BY <1>1, <2>1, <3>2, <3>3, <3>4
  <2> QED
    BY <1>3, <1>4, <2>1, <2>2
<1>10. Conn(q, u, v, t, o, R, c, n)
  BY <1>5, <1>6, <1>7, <1>8, <1>9 DEF Conn
<1> QED
  BY <1>10 DEF q, x, t

LEMMA ConnTakesSnapshot ==
  ASSUME page \in Pages, NEW u, NEW v, NEW d \in Seq(Frames), d # <<>>, NEW o \in BOOLEAN, NEW R \in SUBSET Messages,
         NEW c \in SUBSET Messages, NEW n \in Nat \ {0}, Nothing \notin Chats,
         Conn(page, u, v, d, o, R, c, n), Line(d, v, R, n, c), d[1].type = "snapshot"
  PROVE  Conn(Chat!WithSnapshot(d[1]), u, v, Tail(d), o, R, c, n)
<1> DEFINE t == Tail(d)
           f == d[1]
           q == Chat!WithSnapshot(f)
           x == Max({0} \cup {m.id : m \in f.messages})
<1>1. /\ Len(d) \in Nat /\ DOMAIN d = 1 .. Len(d) /\ DOMAIN t = 1 .. (Len(d) - 1) /\ 1 \in DOMAIN d /\ f \in Frames
      /\ \A k \in DOMAIN t : t[k] = d[k + 1] /\ After(t, k) = After(d, k + 1)
      /\ After(t, 0) = After(d, 1) /\ ~NoSnapshot(d)
      /\ \A k \in DOMAIN t : LastSnapshot(t, k) => LastSnapshot(d, k + 1)
      /\ NoSnapshot(t) => LastSnapshot(d, 1)
  <2>1. /\ Len(d) \in Nat /\ DOMAIN d = 1 .. Len(d) /\ DOMAIN t = 1 .. (Len(d) - 1) /\ 1 \in DOMAIN d /\ d[1] \in Frames
        /\ \A k \in DOMAIN t : t[k] = d[k + 1]
        /\ \A k \in 0 .. (Len(d) - 1) : After(t, k) = After(d, k + 1)
        /\ NoSnapshot(d) <=> NoSnapshot(t) /\ d[1].type # "snapshot"
        /\ \A k \in DOMAIN t : LastSnapshot(t, k) => LastSnapshot(d, k + 1)
        /\ d[1].type = "snapshot" /\ NoSnapshot(t) => LastSnapshot(d, 1)
    BY TailFrame
  <2> HIDE DEF t
  <2>2. 0 \in 0 .. (Len(d) - 1) /\ \A k \in DOMAIN t : k \in 0 .. (Len(d) - 1)
    BY <2>1
  <2>3. After(t, 0) = After(d, 1)
    BY <2>1, <2>2
  <2> QED
    BY <2>1, <2>2, <2>3
<1> HIDE DEF t
<1>2. f \in Snapshots /\ Fresh(f, R, n)
  BY <1>1, FrameTypes DEF Line
<1>3. f.messages \in SUBSET Messages /\ Bounded(f.messages) /\ f.alias \in Chats
  BY <1>2 DEF Snapshots
<1>4. x \in Nat /\ (\A m \in f.messages : m.id <= x) /\ (x = 0 \/ \E m \in f.messages : m.id = x)
  BY <1>3, MaxId
<1> HIDE DEF x
<1>5. page.alias \in {f.alias, Nothing} =>
        q.alias = f.alias /\ q.fromFile = f.fromFile /\ q.last = x /\ q.shown = Chat!Answers(f.messages)
  BY SameChatOps DEF Chat!WithSnapshot, Pages, x
<1>6. page.alias \notin {f.alias, Nothing} => q = page
  BY DEF Chat!WithSnapshot
<1> HIDE DEF f, q
<1>7. ASSUME page.alias = Nothing
      PROVE  u = <<>> /\ v.at \notin Held /\ \A k \in DOMAIN t : t[k].type # "snapshot"
  <2>1. Unnamed(u, v, d)
    BY <1>7 DEF Conn
  <2>2. u = <<>> /\ v.at \notin Held
    BY <1>1, <2>1 DEF Unnamed
  <2>3. ASSUME NEW k \in DOMAIN t, t[k].type = "snapshot" PROVE FALSE
    <3>1. k + 1 \in DOMAIN d /\ d[k + 1].type = "snapshot" /\ 1 \in DOMAIN d /\ d[1].type = "snapshot"
      BY <1>1, <2>3
    <3>2. k + 1 = 1
      BY <2>1, <3>1 DEF Unnamed
    <3> QED
      BY <1>1, <3>2
  <2> QED
    BY <2>2, <2>3
<1>8. (page.alias # Nothing => q.alias = page.alias) /\ q.alias # Nothing
  BY <1>3, <1>5, <1>6
<1>9. /\ v.at # "free" /\ (v.at = "open" => u # <<>>)
      /\ u # <<>> => u[Len(u)] = q.alias
      /\ q.alias = Nothing => Unnamed(u, v, t)
  BY <1>7, <1>8 DEF Conn
<1>10. u = <<>> /\ v.at \in Held =>
        /\ q.alias \in {v.frame.alias, Nothing}
        /\ o \/ Needed(R, v.frame.alias) \subseteq v.frame.messages \cup c
  BY <1>7, <1>8 DEF Conn
<1>11. ASSUME u = <<>>, v.at = "read", NEW k \in DOMAIN t, LastSnapshot(t, k)
       PROVE  /\ q.alias \in {t[k].alias, Nothing}
              /\ o \/ Needed(R, t[k].alias) \subseteq t[k].messages \cup c \cup After(t, k)
  <2>1. k + 1 \in DOMAIN d /\ LastSnapshot(d, k + 1) /\ t[k] = d[k + 1] /\ After(t, k) = After(d, k + 1)
    BY <1>1, <1>11
  <2>2. /\ page.alias \in {d[k + 1].alias, Nothing}
        /\ o \/ Needed(R, d[k + 1].alias) \subseteq d[k + 1].messages \cup c \cup After(d, k + 1)
    BY <1>11, <2>1 DEF Conn
  <2>3. page.alias # Nothing
    BY <1>7, <1>11 DEF LastSnapshot
  <2> QED
    BY <1>8, <2>1, <2>2, <2>3
<1>12. ASSUME u = <<>>, v.at = "read", NoSnapshot(t), ~o, ~q.fromFile
       PROVE  /\ q.last < n
              /\ \A m \in Needed(R, q.alias) : m.serial \in q.shown \/ (m.id > q.last /\ m \in c \cup After(t, 0))
  <2>1. /\ page.alias \in {f.alias, Nothing}
        /\ Needed(R, f.alias) \subseteq f.messages \cup c \cup After(d, 1)
    BY <1>1, <1>12 DEF Conn, f
  <2>2. q.alias = f.alias /\ ~f.fromFile /\ q.last = x /\ q.shown = Chat!Answers(f.messages)
    BY <1>5, <1>12, <2>1
  <2>3. \A y \in f.messages : y.id < n
    BY <1>2, <2>2 DEF Fresh
  <2>4. x < n
    BY <1>4, <2>3
  <2>5. ASSUME NEW m \in Needed(R, f.alias), m.serial \notin q.shown
        PROVE  m.id > x /\ m \in c \cup After(t, 0)
    <3>1. m \in R /\ m \in Messages /\ m.role = "assistant" /\ m.alias = f.alias
      BY DEF Needed
    <3>2. m \notin f.messages
      BY <2>2, <2>5, <3>1 DEF Chat!Answers
    <3>3. \A y \in f.messages : y.id < m.id
      BY <1>2, <2>2, <3>1, <3>2 DEF Fresh
    <3>4. m.id \in Nat /\ m.id > 0
      BY <3>1 DEF Messages
    <3>5. m.id > x
      BY <1>4, <3>3, <3>4
    <3> QED
      BY <1>1, <2>1, <3>2, <3>5
  <2> QED
    BY <2>2, <2>4, <2>5
<1>13. Conn(q, u, v, t, o, R, c, n)
  BY <1>9, <1>10, <1>11, <1>12 DEF Conn
<1> QED
  BY <1>13 DEF q, f, t

(***************************************************************************)
(* The steps.                                                              *)
(***************************************************************************)

(* What the steps that leave the ring and the sender alone have to keep.   *)
Kept == UNCHANGED <<ring, nextId, sender>>

LEMMA KeptStays ==
  ASSUME ChatInv, Kept
  PROVE  /\ SenderOK' /\ Halves' /\ RingOK' /\ Range(ring') = Range(ring) /\ nextId' = nextId
         /\ \A x : Coming(x)' = Coming(x)
BY DEF Kept, ChatInv, SenderOK, Halves, RingOK, Coming

LEMMA RestTypes ==
  ASSUME ChatInv, NEW s \in Sockets
  PROVE  /\ Range(ring) \in SUBSET Messages /\ Coming(s) \in SUBSET Messages /\ nextId \in Nat \ {0}
         /\ down[s] \in Seq(Frames) /\ serving[s] \in Served /\ up[s] \in Seq(Chats \cup {Nothing}) /\ page \in Pages
         /\ (s \in overtaken) \in BOOLEAN
         /\ Line(down[s], serving[s], Range(ring), nextId, Coming(s))
         /\ page.sock = s /\ s # Nothing => Conn(page, up[s], serving[s], down[s], s \in overtaken, Range(ring), Coming(s), nextId)
<1>1. Types /\ Lines /\ Connected
  BY DEF ChatInv
<1>2. Range(ring) \in SUBSET Messages
  BY <1>1, RangeType DEF Types
<1>3. Coming(s) \in SUBSET Messages
  BY <1>1, SenderTypes DEF Coming, Types
<1> QED
  BY <1>1, <1>2, <1>3 DEF Types, Lines, Connected

LEMMA ConnectKeeps ==
  ASSUME ChatInv, Chat!ChatAssumption, NEW s \in Sockets, Chat!Connect(s)
  PROVE  ChatInv'
<1>1. /\ page.sock = Nothing /\ page' = [page EXCEPT !.sock = s] /\ Kept /\ down' = down /\ table' = table
      /\ serving' = [serving EXCEPT ![s] = [at |-> "open"]] /\ up' = [up EXCEPT ![s] = <<page.alias>>]
      /\ UNCHANGED <<stored, serial, overtaken>>
  BY DEF Chat!Connect, Kept
<1>2. SenderOK' /\ Halves' /\ RingOK' /\ Range(ring') = Range(ring) /\ nextId' = nextId /\ \A x : Coming(x)' = Coming(x)
  BY <1>1, KeptStays
<1>3. Types'
  <2>1. page' \in Pages /\ serving' \in [Sockets -> Served]
    BY <1>1, PageTypes, ServedTypes DEF ChatInv, Types
  <2>2. page.alias \in Chats \cup {Nothing}
    BY DEF ChatInv, Types, Pages
  <2>3. up' \in [Sockets -> Seq(Chats \cup {Nothing})]
    BY <1>1, <2>2 DEF ChatInv, Types
  <2> QED
    BY <1>1, <2>1, <2>3 DEF Kept, ChatInv, Types
<1>4. page' = [sock |-> s, alias |-> page.alias, last |-> page.last, shown |-> page.shown, fromFile |-> page.fromFile]
  BY <1>1 DEF ChatInv, Types, Pages
<1>5. serving'[s].at = "open" /\ (\A x \in Sockets : x # s => serving'[x] = serving[x]) /\ up'[s] = <<page.alias>>
  BY <1>1 DEF ChatInv, Types
<1>6. Registered' /\ Quiet'
  <2>1. \A x \in Sockets : down[x] = <<>>
    BY <1>1 DEF ChatInv, Quiet, Chat!ChatAssumption
  <2> QED
    BY <1>1, <1>5, <2>1 DEF ChatInv, Registered, Quiet, Held
<1>7. Lines'
  <2> SUFFICES ASSUME NEW x \in Sockets PROVE Line(down'[x], serving'[x], Range(ring'), nextId', Coming(x)')
    BY DEF Lines
  <2>1. Line(down[x], serving[x], Range(ring), nextId, Coming(x))
    BY RestTypes
  <2> QED
    BY <1>1, <1>2, <1>5, <2>1 DEF Line, Held
<1>8. Connected'
  <2>1. down'[s] = <<>>
    BY <1>1 DEF ChatInv, Quiet, Chat!ChatAssumption
  <2>2. Unnamed(up'[s], serving'[s], down'[s])
    BY <1>5, <2>1 DEF Unnamed, NoSnapshot, Held
  <2>3. up'[s] # <<>> /\ up'[s][Len(up'[s])] = page'.alias
    BY <1>4, <1>5
  <2>4. Conn(page', up'[s], serving'[s], down'[s], s \in overtaken', Range(ring'), Coming(s)', nextId')
    BY <1>5, <2>2, <2>3, ConnAsks
  <2> QED
    BY <1>4, <2>4 DEF Connected
<1> QED
  BY <1>2, <1>3, <1>6, <1>7, <1>8 DEF ChatInv

(* The page is gone: nothing is on its way. *)
LEMMA GoneKeeps ==
  ASSUME ChatInv, Chat!ChatAssumption, page.sock # Nothing, Kept, page' \in Pages, page'.sock = Nothing,
         up' = [up EXCEPT ![page.sock] = <<>>], down' = [down EXCEPT ![page.sock] = <<>>],
         UNCHANGED <<table, serving, stored, serial>>
  PROVE  ChatInv'
<1> DEFINE s == page.sock
<1>0. s \in Sockets
  BY DEF ChatInv, Types, Pages
<1>1. SenderOK' /\ Halves' /\ RingOK' /\ Range(ring') = Range(ring) /\ nextId' = nextId /\ \A x : Coming(x)' = Coming(x)
  BY KeptStays
<1>2. Types'
  BY <1>0 DEF Kept, ChatInv, Types
<1>3. down'[s] = <<>> /\ \A x \in Sockets : x # s => down'[x] = down[x]
  BY <1>0 DEF ChatInv, Types
<1>4. Registered' /\ Quiet' /\ Connected'
  BY <1>3 DEF ChatInv, Registered, Quiet, Connected
<1>5. Lines'
  <2> SUFFICES ASSUME NEW x \in Sockets PROVE Line(down'[x], serving'[x], Range(ring'), nextId', Coming(x)')
    BY DEF Lines
  <2>1. Line(down[x], serving[x], Range(ring), nextId, Coming(x))
    BY RestTypes
  <2> QED
    BY <1>1, <1>3, <2>1 DEF Line
<1> QED
  BY <1>1, <1>2, <1>4, <1>5 DEF ChatInv

LEMMA DisconnectKeeps ==
  ASSUME ChatInv, Chat!ChatAssumption, Chat!Disconnect \/ Chat!Refuse
  PROVE  ChatInv'
<1>1. PICK p \in {page, Chat!Cleared} : page' = [p EXCEPT !.sock = Nothing]
  BY DEF Chat!Disconnect, Chat!Refuse
<1>2. page' \in Pages
  BY <1>1, PageTypes DEF ChatInv, Types
<1>3. page'.sock = Nothing
  BY <1>1, PageTypes DEF ChatInv, Types, Pages
<1> QED
  BY <1>2, <1>3, GoneKeeps DEF Chat!Disconnect, Chat!Refuse, Kept

LEMMA SwitchKeeps ==
  ASSUME ChatInv, Chat!ChatAssumption, NEW a \in Chats, Chat!Switch(a)
  PROVE  ChatInv'
<1> DEFINE s == page.sock
<1>1. /\ page' = [Chat!Cleared EXCEPT !.alias = a] /\ Kept
      /\ up' = IF s = Nothing THEN up ELSE [up EXCEPT ![s] = Append(up[s], a)]
      /\ UNCHANGED <<table, serving, stored, serial, down, overtaken>>
  BY DEF Chat!Switch, Kept
<1>2. SenderOK' /\ Halves' /\ RingOK' /\ Range(ring') = Range(ring) /\ nextId' = nextId /\ \A x : Coming(x)' = Coming(x)
  BY <1>1, KeptStays
<1>3. page' \in Pages /\ page'.sock = s /\ page'.alias = a /\ s \in Sockets \cup {Nothing}
  BY <1>1, PageTypes DEF ChatInv, Types, Pages, Chat!Cleared
<1>4. Types'
  BY <1>1, <1>3 DEF Kept, ChatInv, Types
<1>5. Registered' /\ Quiet'
  BY <1>1, <1>3 DEF ChatInv, Registered, Quiet
<1>6. Lines'
  BY <1>1, <1>2 DEF ChatInv, Lines
<1>7. Connected'
  <2> SUFFICES ASSUME s # Nothing
               PROVE  Conn(page', up'[s], serving'[s], down'[s], s \in overtaken', Range(ring'), Coming(s)', nextId')
    BY <1>3 DEF Connected
  <2>1. s \in Sockets /\ up[s] \in Seq(Chats \cup {Nothing}) /\ up'[s] = Append(up[s], a)
    BY <1>1, <1>3 DEF ChatInv, Types
  <2>2. up'[s] # <<>> /\ up'[s][Len(up'[s])] = page'.alias
    BY <1>3, <2>1
  <2>3. serving'[s].at # "free" /\ page'.alias # Nothing
    BY <1>1, <1>3 DEF ChatInv, Connected, Conn, Chat!ChatAssumption
  <2> QED
    BY <2>2, <2>3, ConnAsks
<1> QED
  BY <1>2, <1>4, <1>5, <1>6, <1>7 DEF ChatInv

LEMMA ReceiveKeeps ==
  ASSUME ChatInv, Chat!ChatAssumption, Chat!Receive
  PROVE  ChatInv'
<1> DEFINE s == page.sock
<1>1. /\ s # Nothing /\ down[s] # <<>> /\ Head(down[s]).type # "broken" /\ Kept
      /\ page' = IF Head(down[s]).type = "snapshot" THEN Chat!WithSnapshot(Head(down[s])) ELSE Chat!WithAnswer(Head(down[s]).message)
      /\ down' = [down EXCEPT ![s] = Tail(down[s])]
      /\ UNCHANGED <<table, serving, stored, serial, up, overtaken>>
  BY DEF Chat!Receive, Kept
<1>2. SenderOK' /\ Halves' /\ RingOK' /\ Range(ring') = Range(ring) /\ nextId' = nextId /\ \A x : Coming(x)' = Coming(x)
  BY <1>1, KeptStays
<1>3. s \in Sockets
  BY <1>1 DEF ChatInv, Types, Pages
<1>4. /\ down[s] \in Seq(Frames) /\ Head(down[s]) = down[s][1] /\ down[s][1] \in Frames
      /\ Tail(down[s]) \in Seq(Frames)
  BY <1>1, <1>3, TailFrame DEF ChatInv, Types
<1>5. /\ down[s][1].type = "snapshot" \/ down[s][1].type = "answer"
      /\ down[s][1].type = "snapshot" => down[s][1] \in Snapshots
      /\ down[s][1].type = "answer" => down[s][1].message \in Messages
  BY <1>1, <1>4, FrameTypes DEF AnswerFrames
<1>6. page' \in Pages /\ page'.sock = s
  <2>1. page \in Pages
    BY DEF ChatInv, Types
  <2>2. \A m : Chat!WithAnswer(m).sock = s
    BY <2>1 DEF Chat!WithAnswer, Pages
  <2>3. \A f : Chat!WithSnapshot(f).sock = s
    BY <2>1 DEF Chat!WithSnapshot, Pages
  <2> QED
    BY <1>1, <1>4, <1>5, <2>1, <2>2, <2>3, PageTypes
<1>7. down'[s] = Tail(down[s]) /\ \A x \in Sockets : x # s => down'[x] = down[x]
  BY <1>1, <1>3 DEF ChatInv, Types
<1>8. Types'
  <2>1. down' \in [Sockets -> Seq(Frames)]
    BY <1>1, <1>3, <1>4 DEF ChatInv, Types
  <2> QED
    BY <1>1, <1>6, <2>1 DEF Kept, ChatInv, Types
<1>9. Registered' /\ Quiet'
  BY <1>1, <1>6, <1>7 DEF ChatInv, Registered, Quiet
<1>10. Lines'
  <2> SUFFICES ASSUME NEW x \in Sockets PROVE Line(down'[x], serving'[x], Range(ring'), nextId', Coming(x)')
    BY DEF Lines
  <2>1. Line(down[x], serving[x], Range(ring), nextId, Coming(x))
    BY RestTypes
  <2>2. CASE x = s
    BY <1>1, <1>2, <1>3, <1>4, <1>7, <2>1, <2>2, LineTakes
  <2>3. CASE x # s
    BY <1>1, <1>2, <1>7, <2>1, <2>3
  <2> QED
    BY <2>2, <2>3
<1>11. Connected'
  <2>1. Conn(page, up[s], serving[s], down[s], s \in overtaken, Range(ring), Coming(s), nextId)
    BY <1>1, <1>3, RestTypes
  <2>2. Line(down[s], serving[s], Range(ring), nextId, Coming(s))
    BY <1>3, RestTypes
  <2>3. /\ Range(ring) \in SUBSET Messages /\ Coming(s) \in SUBSET Messages /\ nextId \in Nat \ {0} /\ page \in Pages
        /\ (s \in overtaken) \in BOOLEAN /\ Nothing \notin Chats
    BY <1>3, RestTypes DEF Chat!ChatAssumption
  <2>4. Conn(page', up[s], serving[s], Tail(down[s]), s \in overtaken, Range(ring), Coming(s), nextId)
    <3>1. CASE down[s][1].type = "snapshot"
      BY ZenonT(60), <1>1, <1>4, <2>1, <2>2, <2>3, <3>1, ConnTakesSnapshot
    <3>2. CASE down[s][1].type = "answer"
      <4>1. PICK o \in BOOLEAN : o = (s \in overtaken)
        BY IsTruth
      <4>2. Conn(page, up[s], serving[s], down[s], o, Range(ring), Coming(s), nextId)
        BY <2>1, <4>1
      <4>3. Conn(Chat!WithAnswer(down[s][1].message), up[s], serving[s], Tail(down[s]), o, Range(ring), Coming(s), nextId)
        BY <1>1, <1>4, <2>2, <2>3, <3>2, <4>2, ConnTakesAnswer
      <4> QED
        BY <1>1, <1>4, <3>2, <4>1, <4>3
    <3> QED
      BY <1>5, <3>1, <3>2
  <2> QED
    BY <1>1, <1>2, <1>6, <1>7, <2>4 DEF Connected
<1> QED
  BY <1>2, <1>8, <1>9, <1>10, <1>11 DEF ChatInv

LEMMA RegisterKeeps ==
  ASSUME ChatInv, Chat!ChatAssumption, NEW s \in Sockets, Chat!Register(s)
  PROVE  ChatInv'
<1>1. serving[s].at = "open" /\ Kept /\ UNCHANGED <<stored, serial, overtaken>>
  BY DEF Chat!Register, Kept
<1>2. SenderOK' /\ Halves' /\ RingOK' /\ Range(ring') = Range(ring) /\ nextId' = nextId /\ \A x : Coming(x)' = Coming(x)
  BY <1>1, KeptStays
<1>3. s # Nothing
  BY DEF Chat!ChatAssumption
<1>4. CASE /\ table' = table \cup {s} /\ serving' = [serving EXCEPT ![s] = Chat!Reading]
           /\ UNCHANGED <<up, down, page>>
  <2>1. Types'
    BY <1>1, <1>4, ServedTypes DEF Kept, ChatInv, Types
  <2>2. serving'[s] = Chat!Reading /\ (\A x \in Sockets : x # s => serving'[x] = serving[x])
    BY <1>4 DEF ChatInv, Types
  <2>3. Registered' /\ Quiet'
    BY <1>4, <2>2 DEF ChatInv, Registered, Quiet
  <2>4. Lines'
    <3> SUFFICES ASSUME NEW x \in Sockets PROVE Line(down'[x], serving'[x], Range(ring'), nextId', Coming(x)')
      BY DEF Lines
    <3>1. Line(down[x], serving[x], Range(ring), nextId, Coming(x))
      BY RestTypes
    <3> QED
      BY <1>2, <1>4, <2>2, <3>1 DEF Line, Held, Chat!Reading
  <2>5. Connected'
    <3> SUFFICES ASSUME page.sock # Nothing
                 PROVE  LET x == page.sock IN
                        Conn(page, up[x], serving'[x], down[x], x \in overtaken, Range(ring), Coming(x), nextId)
      BY <1>1, <1>2, <1>4 DEF Connected
    <3> DEFINE x == page.sock
    <3>1. Conn(page, up[x], serving[x], down[x], x \in overtaken, Range(ring), Coming(x), nextId) /\ x \in Sockets
      BY DEF ChatInv, Connected, Types, Pages
    <3>2. CASE x = s
      <4>1. up[s] # <<>> /\ up[s][Len(up[s])] = page.alias /\ (page.alias = Nothing => Unnamed(up[s], serving[s], down[s]))
        BY <1>1, <3>1, <3>2 DEF Conn
      <4>2. page.alias = Nothing => Unnamed(up[s], Chat!Reading, down[s])
        BY <1>1, <4>1 DEF Unnamed, Held, Chat!Reading
      <4>3. Chat!Reading.at # "free"
        BY DEF Chat!Reading
      <4> QED
        BY <2>2, <3>2, <4>1, <4>2, <4>3, ConnAsks
    <3>3. CASE x # s
      BY <2>2, <3>1, <3>3
    <3> QED
      BY <3>2, <3>3
  <2> QED
    BY <1>2, <2>1, <2>3, <2>4, <2>5 DEF ChatInv
<1>5. CASE /\ serving' = [serving EXCEPT ![s] = Chat!Free]
           /\ up' = [up EXCEPT ![s] = <<>>] /\ down' = [down EXCEPT ![s] = <<>>]
           /\ page' = IF page.sock = s THEN [page EXCEPT !.sock = Nothing] ELSE page
           /\ table' = table
  <2>0. page' \in Pages /\ page'.sock = IF page.sock = s THEN Nothing ELSE page.sock
    BY <1>5 DEF ChatInv, Types, Pages
  <2>1. Types'
    BY <1>1, <1>5, <2>0, ServedTypes DEF Kept, ChatInv, Types
  <2>2. /\ serving'[s] = Chat!Free /\ down'[s] = <<>>
        /\ \A x \in Sockets : x # s => serving'[x] = serving[x] /\ down'[x] = down[x] /\ up'[x] = up[x]
    BY <1>5 DEF ChatInv, Types
  <2>3. Registered' /\ Quiet'
    BY <1>5, <2>0, <2>2 DEF ChatInv, Registered, Quiet, Chat!Free, Held
  <2>4. Lines'
    <3> SUFFICES ASSUME NEW x \in Sockets PROVE Line(down'[x], serving'[x], Range(ring'), nextId', Coming(x)')
      BY DEF Lines
    <3>1. Line(down[x], serving[x], Range(ring), nextId, Coming(x))
      BY RestTypes
    <3>2. Chat!Free.at \notin Held /\ DOMAIN <<>> = {}
      BY DEF Chat!Free, Held
    <3> QED
      BY <1>2, <2>2, <3>1, <3>2 DEF Line
  <2>5. Connected'
    <3> SUFFICES ASSUME page'.sock # Nothing
                 PROVE  LET x == page.sock IN
                        /\ page' = page
                        /\ Conn(page, up'[x], serving'[x], down'[x], x \in overtaken, Range(ring), Coming(x), nextId)
      BY <1>1, <1>2 DEF Connected
    <3>1. page' = page /\ page.sock # s /\ page.sock # Nothing /\ page.sock \in Sockets
      BY <1>5, <2>0 DEF Pages
    <3> QED
      BY <2>2, <3>1 DEF ChatInv, Connected
  <2> QED
    BY <1>2, <2>1, <2>3, <2>4, <2>5 DEF ChatInv
<1> QED
  BY <1>4, <1>5 DEF Chat!Register

LEMMA UnregisterKeeps ==
  ASSUME ChatInv, Chat!ChatAssumption, NEW s \in Sockets, Chat!Unregister(s)
  PROVE  ChatInv'
<1>1. /\ page.sock # s /\ Kept /\ UNCHANGED <<stored, serial, up, down, page>>
      /\ table' = table \ {s} /\ serving' = [serving EXCEPT ![s] = Chat!Free] /\ overtaken' = overtaken \ {s}
  BY DEF Chat!Unregister, Kept
<1>2. SenderOK' /\ Halves' /\ RingOK' /\ Range(ring') = Range(ring) /\ nextId' = nextId /\ \A x : Coming(x)' = Coming(x)
  BY <1>1, KeptStays
<1>3. Types'
  BY <1>1, ServedTypes DEF Kept, ChatInv, Types
<1>4. serving'[s] = Chat!Free /\ (\A x \in Sockets : x # s => serving'[x] = serving[x])
  BY <1>1 DEF ChatInv, Types
<1>5. Registered' /\ Quiet'
  BY <1>1, <1>4 DEF ChatInv, Registered, Quiet, Chat!Free, Held
<1>6. Lines'
  <2> SUFFICES ASSUME NEW x \in Sockets PROVE Line(down'[x], serving'[x], Range(ring'), nextId', Coming(x)')
    BY DEF Lines
  <2>1. Line(down[x], serving[x], Range(ring), nextId, Coming(x))
    BY RestTypes
  <2> QED
    BY <1>1, <1>2, <1>4, <2>1 DEF Line, Held, Chat!Free
<1>7. Connected'
  <2> SUFFICES ASSUME page.sock # Nothing
               PROVE  LET x == page.sock IN
                      Conn(page, up[x], serving'[x], down[x], x \in overtaken', Range(ring), Coming(x), nextId)
    BY <1>1, <1>2 DEF Connected
  <2> DEFINE x == page.sock
  <2>1. Conn(page, up[x], serving[x], down[x], x \in overtaken, Range(ring), Coming(x), nextId) /\ x \in Sockets
    BY DEF ChatInv, Connected, Types, Pages
  <2>2. serving'[x] = serving[x] /\ (x \in overtaken') = (x \in overtaken)
    BY <1>1, <1>4, <2>1
  <2> QED
    BY <2>1, <2>2
<1> QED
  BY <1>2, <1>3, <1>5, <1>6, <1>7 DEF ChatInv

LEMMA ReadSyncKeeps ==
  ASSUME ChatInv, Chat!ChatAssumption, NEW s \in Sockets, Chat!ReadSync(s)
  PROVE  ChatInv'
<1>1. PICK a \in (IF Head(up[s]) = Nothing THEN Chats ELSE {Head(up[s])}) :
        serving' = [serving EXCEPT ![s] = [at |-> "copied", frame |-> Chat!Snapshot(a)]]
  BY DEF Chat!ReadSync
<1>2. /\ serving[s] = Chat!Reading /\ up[s] # <<>> /\ up' = [up EXCEPT ![s] = Tail(up[s])] /\ overtaken' = overtaken \ {s}
      /\ Kept /\ UNCHANGED <<stored, serial, table, down, page>>
  BY DEF Chat!ReadSync, Kept
<1>3. SenderOK' /\ Halves' /\ RingOK' /\ Range(ring') = Range(ring) /\ nextId' = nextId /\ \A x : Coming(x)' = Coming(x)
  BY <1>2, KeptStays
<1>4. up[s] \in Seq(Chats \cup {Nothing}) /\ Head(up[s]) \in Chats \cup {Nothing} /\ Tail(up[s]) \in Seq(Chats \cup {Nothing})
  BY <1>2, TailRange DEF ChatInv, Types
<1>5. a \in Chats /\ (Head(up[s]) = Nothing \/ a = Head(up[s]))
  BY <1>4
<1> DEFINE f == Chat!Snapshot(a)
<1>6. f \in Snapshots
  BY <1>5, SnapshotType DEF ChatInv, Types
<1>7. /\ f.alias = a
      /\ \A m \in Range(ring) : m.alias = a => m \in f.messages
      /\ ~f.fromFile => f.messages \subseteq Range(ring)
  BY SameChatOps DEF Chat!Snapshot
<1>8. Fresh(f, Range(ring), nextId)
  BY <1>7 DEF Fresh, ChatInv, RingOK
<1> DEFINE w == [at |-> "copied", frame |-> f]
<1>9. w \in Served /\ w.at = "copied" /\ w.frame = f /\ w.at \in Held
  BY <1>6, ServedTypes DEF Held
<1> HIDE DEF f
<1>10. serving'[s] = w /\ up'[s] = Tail(up[s]) /\ (\A x \in Sockets : x # s => serving'[x] = serving[x] /\ up'[x] = up[x])
  BY <1>1, <1>2 DEF ChatInv, Types, f
<1>11. Types'
  <2>1. serving' \in [Sockets -> Served]
    BY <1>1, <1>9 DEF ChatInv, Types, f
  <2>2. up' \in [Sockets -> Seq(Chats \cup {Nothing})]
    BY <1>2, <1>4 DEF ChatInv, Types
  <2> QED
    BY <1>2, <2>1, <2>2 DEF Kept, ChatInv, Types
<1> HIDE DEF w
<1>12. Registered' /\ Quiet'
  <2>1. s \in table
    BY <1>2 DEF ChatInv, Registered, Chat!Reading
  <2> QED
    BY <1>2, <1>10, <2>1 DEF ChatInv, Registered, Quiet
<1>13. Lines'
  <2> SUFFICES ASSUME NEW x \in Sockets PROVE Line(down'[x], serving'[x], Range(ring'), nextId', Coming(x)')
    BY DEF Lines
  <2>1. Line(down[x], serving[x], Range(ring), nextId, Coming(x))
    BY RestTypes
  <2>2. CASE x = s
    BY <1>2, <1>3, <1>8, <1>9, <1>10, <2>1, <2>2 DEF Line
  <2>3. CASE x # s
    BY <1>2, <1>3, <1>10, <2>1, <2>3
  <2> QED
    BY <2>2, <2>3
<1>14. Connected'
  <2> SUFFICES ASSUME page.sock # Nothing
               PROVE  LET x == page.sock IN
                      Conn(page, up'[x], serving'[x], down[x], x \in overtaken', Range(ring), Coming(x), nextId)
    BY <1>2, <1>3 DEF Connected
  <2> DEFINE x == page.sock
  <2>1. Conn(page, up[x], serving[x], down[x], x \in overtaken, Range(ring), Coming(x), nextId) /\ x \in Sockets
    BY DEF ChatInv, Connected, Types, Pages
  <2>2. CASE x # s
    <3>1. serving'[x] = serving[x] /\ up'[x] = up[x] /\ (x \in overtaken') = (x \in overtaken)
      BY <1>2, <1>10, <2>1, <2>2
    <3> QED
      BY <2>1, <3>1
  <2>3. CASE x = s
    <3>1. Needed(Range(ring), f.alias) \subseteq f.messages
      BY <1>7 DEF Needed
    <3>2. page \in Pages
      BY DEF ChatInv, Types
    <3>3. Conn(page, Tail(up[s]), w, down[s], s \in overtaken', Range(ring), Coming(s), nextId)
      BY <1>2, <1>4, <1>5, <1>7, <2>1, <2>3, <3>1, <3>2, ConnCopies DEF w
    <3> QED
      BY <1>10, <2>3, <3>3
  <2> QED
    BY <2>2, <2>3
<1> QED
  BY <1>3, <1>11, <1>12, <1>13, <1>14 DEF ChatInv

(* A frame is sent. *)
LEMMA SentOne ==
  ASSUME Types, NEW s \in Sockets, NEW f
  PROVE  /\ Chat!Sent(s, f)[s] = IF page.sock = s THEN Append(down[s], f) ELSE down[s]
         /\ \A x \in Sockets : x # s => Chat!Sent(s, f)[x] = down[x]
BY DEF Chat!Sent, Types

LEMMA SentBroken ==
  ASSUME ChatInv, NEW s \in Sockets, down' \in {down, Chat!Sent(s, Chat!Broken)}
  PROVE  /\ down'[s] \in {down[s]} \cup (IF page.sock = s THEN {Append(down[s], Chat!Broken)} ELSE {})
         /\ \A x \in Sockets : x # s => down'[x] = down[x]
<1> DEFINE t == Chat!Sent(s, Chat!Broken)
<1>1. t[s] = (IF page.sock = s THEN Append(down[s], Chat!Broken) ELSE down[s]) /\ \A x \in Sockets : x # s => t[x] = down[x]
  BY SentOne DEF ChatInv
<1> HIDE DEF t
<1>2. CASE down' = down
  BY <1>2
<1>3. CASE down' = t
  BY <1>1, <1>3
<1> QED
  BY <1>2, <1>3 DEF t

(* A broken frame changes nothing that a connection is about. *)
LEMMA ConnBroken ==
  ASSUME NEW p \in Pages, NEW u, NEW v, NEW d \in Seq(Frames), NEW o \in BOOLEAN, NEW R, NEW n,
         NEW c, Conn(p, u, v, d, o, R, c, n)
  PROVE  Conn(p, u, v, Append(d, Chat!Broken), o, R, c, n)
<1>1. Chat!Broken \in Frames /\ Chat!Broken.type # "snapshot"
  BY DEF Chat!Broken, Frames
<1>2. c \subseteq c \cup (IF Chat!Broken.type = "answer" THEN {Chat!Broken.message} ELSE {})
  OBVIOUS
<1>3. v.at \in Held /\ ~o => c \subseteq v.frame.messages \cup c
  OBVIOUS
<1> HIDE DEF Chat!Broken
<1> QED
  BY <1>1, <1>2, <1>3, ConnAppends

LEMMA SnapshotHeadKeeps ==
  ASSUME ChatInv, Chat!ChatAssumption, NEW s \in Sockets, Chat!SnapshotHead(s)
  PROVE  ChatInv'
<1>1. /\ serving[s].at = "copied" /\ serving' = [serving EXCEPT ![s].at = "half"] /\ down' \in {down, Chat!Sent(s, Chat!Broken)}
      /\ Kept /\ UNCHANGED <<stored, serial, table, up, page, overtaken>>
  BY DEF Chat!SnapshotHead, Kept
<1>2. SenderOK' /\ Halves' /\ RingOK' /\ Range(ring') = Range(ring) /\ nextId' = nextId /\ \A x : Coming(x)' = Coming(x)
  BY <1>1, KeptStays
<1> DEFINE w == [serving[s] EXCEPT !.at = "half"]
<1>3. serving[s] \in Served /\ serving[s] \in [at : Held, frame : Snapshots] /\ serving[s].at \in Held
  BY <1>1, FrameTypes DEF ChatInv, Types, Held
<1>4. w \in Served /\ w.at = "half" /\ w.frame = serving[s].frame /\ w.at \in Held
  BY <1>1, <1>3, ServedTypes DEF Held
<1> HIDE DEF w
<1>5. serving'[s] = w /\ (\A x \in Sockets : x # s => serving'[x] = serving[x])
  BY <1>1 DEF ChatInv, Types, w
<1>6. Types'
  <2>1. serving' \in [Sockets -> Served]
    BY <1>1, <1>4 DEF ChatInv, Types, w
  <2>2. down' \in [Sockets -> Seq(Frames)]
    BY <1>1, SentTypes DEF ChatInv, Types
  <2> QED
    BY <1>1, <2>1, <2>2 DEF Kept, ChatInv, Types
<1>7. /\ down'[s] \in {down[s]} \cup (IF page.sock = s THEN {Append(down[s], Chat!Broken)} ELSE {})
      /\ \A x \in Sockets : x # s => down'[x] = down[x]
  BY <1>1, SentBroken
<1>8. Registered' /\ Quiet'
  BY <1>1, <1>3, <1>5, <1>7 DEF ChatInv, Registered, Quiet
<1>9. \A x \in Sockets : Line(down[x], serving'[x], Range(ring), nextId, Coming(x))
  <2> SUFFICES ASSUME NEW x \in Sockets PROVE Line(down[x], serving'[x], Range(ring), nextId, Coming(x))
    OBVIOUS
  <2>1. Line(down[x], serving[x], Range(ring), nextId, Coming(x))
    BY RestTypes
  <2> QED
    BY <1>3, <1>4, <1>5, <2>1 DEF Line
<1>10. Lines'
  <2> SUFFICES ASSUME NEW x \in Sockets PROVE Line(down'[x], serving'[x], Range(ring'), nextId', Coming(x)')
    BY DEF Lines
  <2>1. down[x] \in Seq(Frames) /\ serving'[x] \in Served
    BY <1>6 DEF ChatInv, Types
  <2>2. Line(Append(down[x], Chat!Broken), serving'[x], Range(ring), nextId, Coming(x))
    BY <1>9, <2>1, LineAppends
  <2>3. down'[x] = down[x] \/ down'[x] = Append(down[x], Chat!Broken)
    BY <1>7
  <2> QED
    BY <1>2, <1>9, <2>2, <2>3
<1>11. Connected'
  <2> SUFFICES ASSUME page.sock # Nothing
               PROVE  LET x == page.sock IN
                      Conn(page, up[x], serving'[x], down'[x], x \in overtaken, Range(ring), Coming(x), nextId)
    BY <1>1, <1>2 DEF Connected
  <2> DEFINE x == page.sock
  <2>1. Conn(page, up[x], serving[x], down[x], x \in overtaken, Range(ring), Coming(x), nextId) /\ x \in Sockets
    BY DEF ChatInv, Connected, Types, Pages
  <2>2. Conn(page, up[x], serving'[x], down[x], x \in overtaken, Range(ring), Coming(x), nextId)
    <3>1. CASE x = s
      BY <1>3, <1>4, <1>5, <2>1, <3>1, ConnHalf
    <3> QED
      BY <1>5, <2>1, <3>1
  <2>4. down[x] \in Seq(Frames) /\ page \in Pages /\ (x \in overtaken) \in BOOLEAN
    BY <2>1 DEF ChatInv, Types
  <2>5. Conn(page, up[x], serving'[x], Append(down[x], Chat!Broken), x \in overtaken, Range(ring), Coming(x), nextId)
    BY <2>2, <2>4, ConnBroken
  <2>6. down'[x] = down[x] \/ down'[x] = Append(down[x], Chat!Broken)
    BY <1>7, <2>1
  <2> QED
    BY <2>2, <2>5, <2>6
<1> QED
  BY <1>2, <1>6, <1>8, <1>10, <1>11 DEF ChatInv

LEMMA SnapshotBodyKeeps ==
  ASSUME ChatInv, Chat!ChatAssumption, NEW s \in Sockets, Chat!SnapshotBody(s)
  PROVE  ChatInv'
<1>1. /\ serving[s].at = "half" /\ serving' = [serving EXCEPT ![s] = Chat!Reading] /\ down' = Chat!Sent(s, serving[s].frame)
      /\ Kept /\ UNCHANGED <<stored, serial, table, up, page, overtaken>>
  BY DEF Chat!SnapshotBody, Kept
<1>2. SenderOK' /\ Halves' /\ RingOK' /\ Range(ring') = Range(ring) /\ nextId' = nextId /\ \A x : Coming(x)' = Coming(x)
  BY <1>1, KeptStays
<1>3. serving[s] \in Served /\ serving[s] \in [at : Held, frame : Snapshots] /\ serving[s].at \in Held
  BY <1>1, FrameTypes DEF ChatInv, Types, Held
<1>4. serving'[s] = Chat!Reading /\ (\A x \in Sockets : x # s => serving'[x] = serving[x])
  BY <1>1 DEF ChatInv, Types
<1>5. Types'
  <2>1. serving' \in [Sockets -> Served]
    BY <1>1, ServedTypes DEF ChatInv, Types
  <2>2. down' \in [Sockets -> Seq(Frames)]
    BY <1>1, <1>3, SentTypes DEF ChatInv, Types
  <2> QED
    BY <1>1, <2>1, <2>2 DEF Kept, ChatInv, Types
<1>6. /\ down'[s] = IF page.sock = s THEN Append(down[s], serving[s].frame) ELSE down[s]
      /\ \A x \in Sockets : x # s => down'[x] = down[x]
  BY <1>1, SentOne DEF ChatInv
<1>7. Registered' /\ Quiet'
  BY <1>1, <1>3, <1>4, <1>6 DEF ChatInv, Registered, Quiet
<1>8. Lines'
  <2> SUFFICES ASSUME NEW x \in Sockets PROVE Line(down'[x], serving'[x], Range(ring'), nextId', Coming(x)')
    BY DEF Lines
  <2>1. Line(down[x], serving[x], Range(ring), nextId, Coming(x)) /\ down[x] \in Seq(Frames) /\ serving[x] \in Served
    BY RestTypes
  <2>2. CASE x # s
    BY <1>2, <1>4, <1>6, <2>1, <2>2
  <2>3. CASE x = s /\ page.sock = s
    <3>1. Line(Append(down[x], serving[x].frame), Chat!Reading, Range(ring), nextId, Coming(x))
      BY <1>3, <2>1, <2>3, LineAppends
    <3> QED
      BY <1>2, <1>4, <1>6, <2>3, <3>1
  <2>4. CASE x = s /\ page.sock # s
    BY <1>2, <1>4, <1>6, <2>1, <2>4 DEF Line, Chat!Reading, Held
  <2> QED
    BY <2>2, <2>3, <2>4
<1>9. Connected'
  <2> SUFFICES ASSUME page.sock # Nothing
               PROVE  LET x == page.sock IN
                      Conn(page, up[x], serving'[x], down'[x], x \in overtaken, Range(ring), Coming(x), nextId)
    BY <1>1, <1>2 DEF Connected
  <2> DEFINE x == page.sock
  <2>1. Conn(page, up[x], serving[x], down[x], x \in overtaken, Range(ring), Coming(x), nextId) /\ x \in Sockets
    BY DEF ChatInv, Connected, Types, Pages
  <2>2. CASE x # s
    BY <1>4, <1>6, <2>1, <2>2
  <2>3. CASE x = s
    <3>1. down[s] \in Seq(Frames) /\ page \in Pages /\ serving[s] \in Served /\ (s \in overtaken) \in BOOLEAN
      BY DEF ChatInv, Types
    <3>a. Conn(page, up[s], serving[s], down[s], s \in overtaken, Range(ring), Coming(s), nextId)
      BY <2>1, <2>3
    <3>2. Conn(page, up[s], Chat!Reading, Append(down[s], serving[s].frame), s \in overtaken, Range(ring), Coming(s), nextId)
      <4>1. PICK o \in BOOLEAN : o = (s \in overtaken)
        BY IsTruth
      <4>2. Conn(page, up[s], serving[s], down[s], o, Range(ring), Coming(s), nextId)
        BY <3>a, <4>1
      <4>3. Conn(page, up[s], Chat!Reading, Append(down[s], serving[s].frame), o, Range(ring), Coming(s), nextId)
        BY <1>3, <4>2, <3>1, ConnSends
      <4> QED
        BY <4>1, <4>3
    <3> QED
      BY <1>4, <1>6, <2>3, <3>2
  <2> QED
    BY <2>2, <2>3
<1> QED
  BY <1>2, <1>5, <1>7, <1>8, <1>9 DEF ChatInv

(* Steps of the ring alone: messages enter it, or lose what they were for. *)
LEMMA RingKeeps ==
  ASSUME ChatInv, Chat!ChatAssumption, Types', RingOK', UNCHANGED <<table, serving, up, down, sender, page, overtaken>>,
         nextId <= nextId',
         \A m \in Range(ring') : m \in Range(ring) \/ (m.role # "assistant" /\ (m.alias = Nothing \/ m.id >= nextId))
  PROVE  ChatInv'
<1>1. Range(ring) \in SUBSET Messages /\ Range(ring') \in SUBSET Messages /\ nextId \in Nat /\ nextId' \in Nat
  BY RangeType DEF ChatInv, Types
<1>2. \A x : Coming(x)' = Coming(x)
  BY DEF Coming
<1>3. SenderOK' /\ Halves'
  <2>1. sender.at # "idle" => sender.message.id \in Nat
    BY SenderTypes DEF ChatInv, Types, Messages
  <2> QED
    BY <1>1, <2>1 DEF ChatInv, SenderOK, Halves
<1>4. Registered' /\ Quiet'
  BY DEF ChatInv, Registered, Quiet
<1>5. Lines'
  <2> SUFFICES ASSUME NEW x \in Sockets PROVE Line(down[x], serving[x], Range(ring'), nextId', Coming(x))
    BY <1>2 DEF Lines
  <2>1. /\ Line(down[x], serving[x], Range(ring), nextId, Coming(x))
        /\ down[x] \in Seq(Frames) /\ serving[x] \in Served /\ Nothing \notin Chats
    BY RestTypes DEF Chat!ChatAssumption
  <2>2. \A m \in Range(ring') : m \in Range(ring) \/ m.alias = Nothing \/ m.id >= nextId
    OBVIOUS
  <2>3. \A m \in Coming(x) : m \in Coming(x) \/ (m \in Messages /\ m.id >= nextId)
    OBVIOUS
  <2> QED
    BY <1>1, <2>1, <2>2, <2>3, LineStays
<1>6. Connected'
  <2> SUFFICES ASSUME page.sock # Nothing
               PROVE  LET x == page.sock IN
                      Conn(page, up[x], serving[x], down[x], x \in overtaken, Range(ring'), Coming(x), nextId')
    BY <1>2 DEF Connected
  <2> DEFINE x == page.sock
  <2>1. /\ Conn(page, up[x], serving[x], down[x], x \in overtaken, Range(ring), Coming(x), nextId) /\ x \in Sockets
        /\ page \in Pages /\ (x \in overtaken) \in BOOLEAN
    BY DEF ChatInv, Connected, Types, Pages
  <2>2. \A a : Needed(Range(ring'), a) \subseteq Needed(Range(ring), a)
    BY DEF Needed
  <2>3. Coming(x) \subseteq Coming(x)
    OBVIOUS
  <2> HIDE DEF x
  <2>4. Conn(page, up[x], serving[x], down[x], x \in overtaken, Range(ring'), Coming(x), nextId')
    BY <1>1, <2>1, <2>2, <2>3, ConnStays
  <2> QED
    BY <2>4 DEF x
<1> QED
  BY <1>3, <1>4, <1>5, <1>6 DEF ChatInv

LEMMA PostKeeps ==
  ASSUME ChatInv, Chat!ChatAssumption, NEW a \in Chats, Chat!Post(a)
  PROVE  ChatInv'
<1> DEFINE m == Chat!Message("user", a)
<1>1. Chat!Push(m) /\ UNCHANGED <<stored, table, serving, up, down, sender, page, overtaken>>
  BY DEF Chat!Post
<1>2. m.role = "user"
  BY DEF Chat!Message
<1>3. /\ ring' \in Seq(Messages) /\ nextId' = nextId + 1 /\ serial' \in Nat /\ m.id = nextId
      /\ Range(ring') \subseteq Range(ring) \cup {m} /\ RingOK'
  BY <1>1, PushTypes DEF ChatInv, Chat!ChatAssumption
<1> HIDE DEF m
<1>4. nextId \in Nat
  BY DEF ChatInv, Types
<1>5. Types'
  BY <1>1, <1>3, <1>4 DEF ChatInv, Types
<1>6. \A x \in Range(ring') : x \in Range(ring) \/ (x.role # "assistant" /\ (x.alias = Nothing \/ x.id >= nextId))
  BY <1>2, <1>3, <1>4
<1> QED
  BY <1>1, <1>3, <1>4, <1>5, <1>6, RingKeeps

LEMMA SaveTurnKeeps ==
  ASSUME ChatInv, Chat!ChatAssumption, NEW a \in Chats, Chat!SaveTurn(a)
  PROVE  ChatInv'
<1>1. /\ stored' = [stored EXCEPT ![a] = stored[a] + 2]
      /\ UNCHANGED <<ring, nextId, serial, table, serving, up, down, sender, page, overtaken>>
  BY DEF Chat!SaveTurn
<1>2. Types' /\ nextId \in Nat
  BY <1>1 DEF ChatInv, Types
<1>3. RingOK'
  BY <1>1 DEF ChatInv, RingOK
<1> QED
  BY <1>1, <1>2, <1>3, RingKeeps

LEMMA ClearAliasKeeps ==
  ASSUME ChatInv, Chat!ChatAssumption, NEW a \in Chats, Chat!ClearAlias(a)
  PROVE  ChatInv'
<1> DEFINE clear(m) == IF m.alias = a THEN [m EXCEPT !.alias = Nothing, !.role = "none"] ELSE m
<1>1. /\ stored' = [stored EXCEPT ![a] = 0] /\ ring' = [i \in DOMAIN ring |-> clear(ring[i])]
      /\ UNCHANGED <<nextId, serial, table, serving, up, down, sender, page, overtaken>>
  BY DEF Chat!ClearAlias
<1>2. ring \in Seq(Messages) /\ nextId \in Nat
  BY DEF ChatInv, Types
<1>3. \A m \in Messages : /\ clear(m) \in Messages /\ clear(m).id = m.id
                          /\ clear(m) = m \/ (clear(m).role = "none" /\ clear(m).alias = Nothing)
  BY DEF Messages
<1> HIDE DEF clear
<1>4. ring' \in Seq(Messages)
  BY <1>1, <1>2, <1>3
<1>5. \A x \in Range(ring') : \E m \in Range(ring) : x = clear(m) /\ m \in Messages
  BY <1>1, <1>2, <1>4 DEF Range
<1>6. RingOK'
  BY <1>1, <1>3, <1>5 DEF ChatInv, RingOK
<1>7. Types'
  BY <1>1, <1>4 DEF ChatInv, Types
<1>8. \A x \in Range(ring') : x \in Range(ring) \/ (x.role # "assistant" /\ (x.alias = Nothing \/ x.id >= nextId))
  BY <1>3, <1>5
<1> QED
  BY <1>1, <1>2, <1>6, <1>7, <1>8, RingKeeps

(* An answer is pushed before it is sent. *)
LEMMA AnswerKeeps ==
  ASSUME ChatInv, Chat!ChatAssumption, NEW a \in Chats \cup {Nothing}, Chat!Answer(a)
  PROVE  ChatInv'
<1> DEFINE m == Chat!Message("assistant", a)
<1>1. /\ sender = Chat!Idle /\ Chat!Push(m) /\ sender' = [at |-> "pushed", message |-> m]
      /\ UNCHANGED <<stored, table, serving, up, down, page, overtaken>>
  BY DEF Chat!Answer
<1>2. /\ ring' \in Seq(Messages) /\ nextId' = nextId + 1 /\ serial' \in Nat /\ m \in Messages /\ m.id = nextId
      /\ Range(ring') \subseteq Range(ring) \cup {m} /\ RingOK'
  BY <1>1, PushTypes DEF ChatInv, Chat!ChatAssumption
<1> HIDE DEF m
<1>3. Range(ring) \in SUBSET Messages /\ Range(ring') \in SUBSET Messages /\ nextId \in Nat /\ nextId' \in Nat
  BY <1>2, RangeType DEF ChatInv, Types
<1>4. Types'
  <2>1. sender' \in Senders
    BY <1>1, <1>2 DEF Senders
  <2> QED
    BY <1>1, <1>2, <1>3, <2>1 DEF ChatInv, Types
<1>5. SenderOK' /\ Halves'
  BY <1>1, <1>2, <1>3 DEF SenderOK, Halves
<1>6. Registered' /\ Quiet'
  BY <1>1 DEF ChatInv, Registered, Quiet
<1>7. \A x : Coming(x) = {} /\ Coming(x)' = {m}
  BY <1>1 DEF Coming, Chat!Idle
<1>8. Lines'
  <2> SUFFICES ASSUME NEW x \in Sockets PROVE Line(down[x], serving[x], Range(ring'), nextId + 1, {m})
    BY <1>1, <1>2, <1>7 DEF Lines
  <2>1. /\ Line(down[x], serving[x], Range(ring), nextId, {})
        /\ down[x] \in Seq(Frames) /\ serving[x] \in Served /\ Nothing \notin Chats
    BY <1>7, RestTypes DEF Chat!ChatAssumption
  <2>2. \A y \in Range(ring') : y \in Range(ring) \/ y.alias = Nothing \/ y.id >= nextId
    BY <1>2, <1>3
  <2>3. \A y \in {m} : y \in {} \/ (y \in Messages /\ y.id >= nextId)
    BY <1>2, <1>3
  <2>4. nextId <= nextId + 1 /\ nextId + 1 \in Nat
    BY <1>3
  <2> QED
    BY <1>3, <2>1, <2>2, <2>3, <2>4, LineStays
<1>9. Connected'
  <2> SUFFICES ASSUME page.sock # Nothing
               PROVE  LET x == page.sock IN
                      Conn(page, up[x], serving[x], down[x], x \in overtaken, Range(ring'), {m}, nextId + 1)
    BY <1>1, <1>2, <1>7 DEF Connected
  <2> DEFINE x == page.sock
  <2>1. /\ Conn(page, up[x], serving[x], down[x], x \in overtaken, Range(ring), Coming(x), nextId)
        /\ page \in Pages /\ (x \in overtaken) \in BOOLEAN
    BY DEF ChatInv, Connected, Types
  <2>2. \A b : Needed(Range(ring'), b) \subseteq Needed(Range(ring), b) \cup {m}
    BY <1>2 DEF Needed
  <2> HIDE DEF x
  <2>3. Conn(page, up[x], serving[x], down[x], x \in overtaken, Range(ring'), Coming(x) \cup {m}, nextId + 1)
    <3>1. PICK o \in BOOLEAN : o = (x \in overtaken)
      BY IsTruth
    <3>2. Conn(page, up[x], serving[x], down[x], o, Range(ring), Coming(x), nextId)
      BY <2>1, <3>1
    <3>3. Conn(page, up[x], serving[x], down[x], o, Range(ring'), Coming(x) \cup {m}, nextId + 1)
      BY <1>2, <1>3, <2>1, <2>2, <3>2, ConnPushes
    <3> QED
      BY <3>1, <3>3
  <2>4. Coming(x) \cup {m} = {m}
    BY <1>7
  <2> QED
    BY <2>3, <2>4 DEF x
<1> QED
  BY <1>2, <1>4, <1>5, <1>6, <1>8, <1>9 DEF ChatInv

(* ... to the connections that are in the table: any other has not asked yet. *)
LEMMA BroadcastKeeps ==
  ASSUME ChatInv, Chat!ChatAssumption, Chat!Broadcast
  PROVE  ChatInv'
<1>1. /\ sender.at = "pushed" /\ sender' = Chat!ToSend(table)
      /\ UNCHANGED <<ring, nextId, stored, serial, table, serving, up, down, page, overtaken>>
  BY DEF Chat!Broadcast
<1>2. Types'
  <2>1. sender' \in Senders
    BY <1>1, SenderTypes DEF ChatInv, Types
  <2> QED
    BY <1>1, <2>1 DEF ChatInv, Types
<1>3. SenderOK' /\ Halves' /\ RingOK'
  BY <1>1 DEF ChatInv, SenderOK, Halves, RingOK, Chat!ToSend, Chat!Idle
<1>4. Registered' /\ Quiet'
  BY <1>1 DEF ChatInv, Registered, Quiet
<1>5. \A x : Coming(x)' \subseteq Coming(x) /\ (x \in table => Coming(x)' = Coming(x))
  BY <1>1 DEF Coming, Chat!ToSend, Chat!Idle
<1>6. Lines'
  <2> SUFFICES ASSUME NEW x \in Sockets PROVE Line(down[x], serving[x], Range(ring), nextId, Coming(x)')
    BY <1>1 DEF Lines
  <2>1. Line(down[x], serving[x], Range(ring), nextId, Coming(x))
    BY RestTypes
  <2> QED
    BY <1>5, <2>1 DEF Line
<1>7. Connected'
  <2> SUFFICES ASSUME NEW x \in Sockets, x = page.sock, page.sock # Nothing
               PROVE  Conn(page, up[x], serving[x], down[x], x \in overtaken, Range(ring), Coming(x)', nextId)
    BY <1>1 DEF Connected, ChatInv, Types, Pages
  <2>1. /\ Conn(page, up[x], serving[x], down[x], x \in overtaken, Range(ring), Coming(x), nextId)
        /\ x \in Sockets /\ serving[x] \in Served
    BY DEF ChatInv, Connected, Types, Pages
  <2>2. CASE x \in table
    BY <1>5, <2>1, <2>2
  <2>3. CASE x \notin table
    <3>1. serving[x].at \notin {"read"} \cup Held
      BY <2>1, <2>3 DEF ChatInv, Registered
    <3>2. serving[x].at = "open"
      <4>1. serving[x].at \in {"free", "open", "read"} \cup Held
        BY <2>1 DEF Served, Chat!Free, Chat!Reading
      <4>2. serving[x].at # "free"
        BY <2>1 DEF Conn
      <4> QED
        BY <3>1, <4>1, <4>2
    <3>3. /\ up[x] # <<>> /\ serving[x].at # "free" /\ up[x][Len(up[x])] = page.alias
          /\ page.alias = Nothing => Unnamed(up[x], serving[x], down[x])
      BY <2>1, <3>2 DEF Conn
    <3> QED
      BY <3>3, ConnAsks
  <2> QED
    BY <2>2, <2>3
<1> QED
  BY <1>2, <1>3, <1>4, <1>6, <1>7 DEF ChatInv

LEMMA AnswerHeadKeeps ==
  ASSUME ChatInv, Chat!ChatAssumption, NEW s \in Sockets, Chat!AnswerHead(s)
  PROVE  ChatInv'
<1>1. /\ sender.at = "sending" /\ s \in sender.to
      /\ sender' = [at |-> "half", message |-> sender.message, to |-> sender.to \ {s}, sock |-> s]
      /\ down' \in {down, Chat!Sent(s, Chat!Broken)}
      /\ UNCHANGED <<ring, nextId, stored, serial, table, serving, up, page, overtaken>>
  BY DEF Chat!AnswerHead
<1>2. Types'
  <2>1. sender.message \in Messages /\ sender.to \in SUBSET Sockets
    BY <1>1, SenderTypes DEF ChatInv, Types
  <2>2. sender' \in Senders
    BY <1>1, <2>1 DEF Senders
  <2>3. down' \in [Sockets -> Seq(Frames)]
    BY <1>1, SentTypes DEF ChatInv, Types
  <2> QED
    BY <1>1, <2>2, <2>3 DEF ChatInv, Types
<1>3. SenderOK' /\ Halves' /\ RingOK'
  BY <1>1 DEF ChatInv, SenderOK, Halves, RingOK
<1>4. \A x : Coming(x)' = Coming(x)
  BY <1>1 DEF Coming
<1>5. /\ down'[s] \in {down[s]} \cup (IF page.sock = s THEN {Append(down[s], Chat!Broken)} ELSE {})
      /\ \A x \in Sockets : x # s => down'[x] = down[x]
  BY <1>1, SentBroken
<1>6. Registered' /\ Quiet'
  BY <1>1, <1>5 DEF ChatInv, Registered, Quiet
<1>7. Lines'
  <2> SUFFICES ASSUME NEW x \in Sockets PROVE Line(down'[x], serving[x], Range(ring), nextId, Coming(x))
    BY <1>1, <1>4 DEF Lines
  <2>1. Line(down[x], serving[x], Range(ring), nextId, Coming(x)) /\ down[x] \in Seq(Frames) /\ serving[x] \in Served
    BY RestTypes
  <2>2. Line(Append(down[x], Chat!Broken), serving[x], Range(ring), nextId, Coming(x))
    BY <2>1, LineAppends
  <2>3. down'[x] = down[x] \/ down'[x] = Append(down[x], Chat!Broken)
    BY <1>5
  <2> QED
    BY <2>1, <2>2, <2>3
<1>8. Connected'
  <2> SUFFICES ASSUME page.sock # Nothing
               PROVE  LET x == page.sock IN
                      Conn(page, up[x], serving[x], down'[x], x \in overtaken, Range(ring), Coming(x), nextId)
    BY <1>1, <1>4 DEF Connected
  <2> DEFINE x == page.sock
  <2>1. /\ Conn(page, up[x], serving[x], down[x], x \in overtaken, Range(ring), Coming(x), nextId) /\ x \in Sockets
        /\ down[x] \in Seq(Frames) /\ page \in Pages /\ (x \in overtaken) \in BOOLEAN
    BY DEF ChatInv, Connected, Types, Pages
  <2>2. down'[x] = down[x] \/ down'[x] = Append(down[x], Chat!Broken)
    BY <1>5, <2>1
  <2> HIDE DEF x
  <2>3. Conn(page, up[x], serving[x], Append(down[x], Chat!Broken), x \in overtaken, Range(ring), Coming(x), nextId)
    BY <2>1, ConnBroken
  <2>4. Conn(page, up[x], serving[x], down'[x], x \in overtaken, Range(ring), Coming(x), nextId)
    BY <2>1, <2>2, <2>3
  <2> QED
    BY <2>4 DEF x
<1> QED
  BY <1>2, <1>3, <1>6, <1>7, <1>8 DEF ChatInv

LEMMA AnswerBodyKeeps ==
  ASSUME ChatInv, Chat!ChatAssumption, Chat!AnswerBody
  PROVE  ChatInv'
<1>0. sender.at = "half" /\ sender.sock \in Sockets /\ sender.message \in Messages
  BY SenderTypes DEF Chat!AnswerBody, ChatInv, Types
<1>a. PICK s \in Sockets : s = sender.sock
  BY <1>0
<1>b. PICK m \in Messages : m = sender.message
  BY <1>0
<1> DEFINE f == [type |-> "answer", message |-> m]
           v == serving[s]
<1>1. /\ sender.at = "half" /\ down' = Chat!Sent(s, f) /\ sender' = Chat!ToSend(sender.to)
      /\ overtaken' = IF v.at \in Held /\ m \notin v.frame.messages THEN overtaken \cup {s} ELSE overtaken
      /\ UNCHANGED <<ring, nextId, stored, serial, table, serving, up, page>>
  BY <1>a, <1>b DEF Chat!AnswerBody, Held
<1>2. sender.to \in SUBSET Sockets /\ s \notin sender.to /\ m.id < nextId
  BY <1>1, <1>a, <1>b, SenderTypes DEF ChatInv, Types, Halves, SenderOK
<1>3. Types'
  <2>1. sender' \in Senders
    BY <1>1, <1>2, SenderTypes DEF ChatInv, Types
  <2>2. down' \in [Sockets -> Seq(Frames)]
    BY <1>1, <1>2, SentTypes DEF ChatInv, Types
  <2> QED
    BY <1>1, <2>1, <2>2 DEF ChatInv, Types
<1>4. SenderOK' /\ Halves' /\ RingOK'
  BY <1>1 DEF ChatInv, SenderOK, Halves, RingOK, Chat!ToSend, Chat!Idle
<1>5. Coming(s) = {m} /\ Coming(s)' = {} /\ \A x : x # s => Coming(x)' = Coming(x)
  BY <1>1, <1>2, <1>a, <1>b DEF Coming, Chat!ToSend, Chat!Idle
<1>6. f \in Frames /\ f.type = "answer" /\ f.message = m
  BY <1>2 DEF Frames, AnswerFrames
<1> HIDE DEF f
<1>7. /\ down'[s] = IF page.sock = s THEN Append(down[s], f) ELSE down[s]
      /\ \A x \in Sockets : x # s => down'[x] = down[x]
  BY <1>1, <1>2, SentOne DEF ChatInv
<1>8. Registered' /\ Quiet'
  BY <1>1, <1>2, <1>7 DEF ChatInv, Registered, Quiet
<1>9. Lines'
  <2> SUFFICES ASSUME NEW x \in Sockets PROVE Line(down'[x], serving[x], Range(ring), nextId, Coming(x)')
    BY <1>1 DEF Lines
  <2>1. Line(down[x], serving[x], Range(ring), nextId, Coming(x)) /\ down[x] \in Seq(Frames) /\ serving[x] \in Served
    BY RestTypes
  <2>2. CASE x # s
    BY <1>5, <1>7, <2>1, <2>2
  <2>3. CASE x = s /\ page.sock = s
    <3>1. m \in Coming(x)
      BY <1>5, <2>3
    <3>2. Line(Append(down[x], f), serving[x], Range(ring), nextId, {})
      BY <1>2, <2>1, <3>1, LineAppends DEF f
    <3> QED
      BY <1>5, <1>7, <2>3, <3>2
  <2>4. CASE x = s /\ page.sock # s
    <3>1. down'[x] = down[x] /\ Coming(x)' = {}
      BY <1>5, <1>7, <2>4
    <3> QED
      BY <2>1, <3>1 DEF Line
  <2> QED
    BY <2>2, <2>3, <2>4
<1>10. Connected'
  <2> SUFFICES ASSUME NEW x \in Sockets, x = page.sock, page.sock # Nothing
               PROVE  Conn(page, up[x], serving[x], down'[x], x \in overtaken', Range(ring), Coming(x)', nextId)
    BY <1>1 DEF Connected, ChatInv, Types, Pages
  <2>1. /\ Conn(page, up[x], serving[x], down[x], x \in overtaken, Range(ring), Coming(x), nextId) /\ x \in Sockets
        /\ down[x] \in Seq(Frames) /\ page \in Pages /\ (x \in overtaken) \in BOOLEAN /\ (x \in overtaken') \in BOOLEAN
    BY DEF ChatInv, Connected, Types, Pages
  <2>2. CASE x # s
    <3>1. down'[x] = down[x] /\ Coming(x)' = Coming(x) /\ (x \in overtaken') = (x \in overtaken)
      BY <1>1, <1>5, <1>7, <2>1, <2>2
    <3> QED
      BY <2>1, <3>1
  <2>3. CASE x = s
    <3>1. (x \in overtaken => x \in overtaken') /\ (v.at \in Held /\ x \notin overtaken' => m \in v.frame.messages)
      BY <1>1, <2>3
    <3>2. down'[x] = Append(down[x], f) /\ Coming(x) = {m} /\ Coming(x)' = {} /\ v = serving[x]
      BY <1>5, <1>7, <2>3
    <3>3. Coming(x) \subseteq {} \cup (IF f.type = "answer" THEN {f.message} ELSE {})
      BY <1>6, <3>2
    <3>4. serving[x].at \in Held /\ ~(x \in overtaken') => Coming(x) \subseteq serving[x].frame.messages \cup {}
      BY <3>1, <3>2
    <3>5. f.type # "snapshot"
      BY <1>6
    <3>6. Conn(page, up[x], serving[x], Append(down[x], f), x \in overtaken', Range(ring), {}, nextId)
      <4>1. PICK o \in BOOLEAN : o = (x \in overtaken)
        BY IsTruth
      <4>2. PICK o2 \in BOOLEAN : o2 = (x \in overtaken')
        BY IsTruth
      <4>3. Conn(page, up[x], serving[x], down[x], o, Range(ring), Coming(x), nextId)
        BY <2>1, <4>1
      <4>4. (o => o2) /\ (serving[x].at \in Held /\ ~o2 => Coming(x) \subseteq serving[x].frame.messages \cup {})
        BY <3>1, <3>4, <4>1, <4>2
      <4>5. Conn(page, up[x], serving[x], Append(down[x], f), o2, Range(ring), {}, nextId)
        BY <1>6, <2>1, <4>3, <4>4, <3>3, <3>5, ConnAppends
      <4> QED
        BY <4>2, <4>5
    <3> QED
      BY <3>2, <3>6
  <2> QED
    BY <2>2, <2>3
<1> QED
  BY <1>3, <1>4, <1>8, <1>9, <1>10 DEF ChatInv

(* Nothing is on its way: at the start, and after a reboot. *)
LEMMA StillHolds ==
  ASSUME Types, ring = <<>>, sender = Chat!Idle, page.sock = Nothing,
         \A s \in Sockets : serving[s] = Chat!Free /\ down[s] = <<>>
  PROVE  ChatInv
<1>1. SenderOK /\ Halves /\ Quiet /\ Connected
  BY DEF SenderOK, Halves, Quiet, Connected, Chat!Idle
<1>2. Range(ring) = {}
  BY DEF Range
<1>3. RingOK /\ Registered
  BY <1>2 DEF RingOK, Registered, Chat!Free, Held
<1>4. Lines
  BY DEF Lines, Line, Chat!Free, Held
<1> QED
  BY <1>1, <1>3, <1>4 DEF ChatInv

LEMMA RebootKeeps ==
  ASSUME ChatInv, Chat!ChatAssumption, Chat!Reboot
  PROVE  ChatInv'
<1>1. /\ ring' = <<>> /\ nextId' = 1 /\ table' = {} /\ sender' = Chat!Idle /\ serving' = [s \in Sockets |-> Chat!Free]
      /\ up' = [s \in Sockets |-> <<>>] /\ down' = [s \in Sockets |-> <<>>] /\ page' = [page EXCEPT !.sock = Nothing]
      /\ UNCHANGED <<stored, serial>>
  BY DEF Chat!Reboot
<1>2. page' \in Pages /\ page'.sock = Nothing
  BY <1>1, PageTypes DEF ChatInv, Types, Pages
<1>3. Types'
  <2>1. sender' \in Senders /\ serving' \in [Sockets -> Served]
    BY <1>1, ServedTypes DEF Senders
  <2> QED
    BY <1>1, <1>2, <2>1 DEF ChatInv, Types
<1>4. SenderOK' /\ Halves' /\ Quiet' /\ Connected'
  BY <1>1, <1>2 DEF SenderOK, Halves, Quiet, Connected, Chat!Idle
<1>5. Range(ring') = {}
  BY <1>1 DEF Range
<1>6. RingOK' /\ Registered'
  BY <1>1, <1>5 DEF RingOK, Registered, Chat!Free, Held
<1>7. Lines'
  BY <1>1 DEF Lines, Line, Chat!Free, Held
<1> QED
  BY <1>3, <1>4, <1>6, <1>7 DEF ChatInv

LEMMA ChatInit ==
  ASSUME Chat!Init
  PROVE  ChatInv
<1>1. Types
  BY ServedTypes DEF Chat!Init, Types, Senders, Pages
<1> QED
  BY <1>1, StillHolds DEF Chat!Init

LEMMA ChatStep ==
  ASSUME ChatInv, Chat!ChatAssumption, [Chat!Next]_chatvars
  PROVE  ChatInv'
<1>1. ASSUME NEW s \in Sockets,
             Chat!Connect(s) \/ Chat!Register(s) \/ Chat!Unregister(s) \/ Chat!ReadSync(s) \/ Chat!SnapshotHead(s) \/ Chat!SnapshotBody(s) \/ Chat!AnswerHead(s)
      PROVE  ChatInv'
  BY <1>1, ConnectKeeps, RegisterKeeps, UnregisterKeeps, ReadSyncKeeps, SnapshotHeadKeeps, SnapshotBodyKeeps, AnswerHeadKeeps
<1>2. ASSUME NEW a \in Chats, Chat!Switch(a) \/ Chat!Post(a) \/ Chat!SaveTurn(a) \/ Chat!ClearAlias(a) PROVE ChatInv'
  BY <1>2, SwitchKeeps, PostKeeps, SaveTurnKeeps, ClearAliasKeeps
<1>3. ASSUME NEW a \in Chats \cup {Nothing}, Chat!Answer(a) PROVE ChatInv'
  BY <1>3, AnswerKeeps
<1>4. CASE Chat!Broadcast \/ Chat!AnswerBody \/ Chat!Disconnect \/ Chat!Receive \/ Chat!Refuse \/ Chat!Reboot
  BY <1>4, BroadcastKeeps, AnswerBodyKeeps, DisconnectKeeps, ReceiveKeeps, RebootKeeps
<1>5. CASE UNCHANGED chatvars
  <2>1. /\ UNCHANGED <<ring, nextId, serial, stored, table, serving, up, down, sender, page, overtaken>>
        /\ Types /\ RingOK /\ nextId \in Nat
    BY <1>5 DEF chatvars, ChatInv, Types
  <2>2. Types' /\ RingOK' /\ nextId <= nextId' /\ \A m \in Range(ring') : m \in Range(ring)
    BY <2>1 DEF Types, RingOK
  <2> QED
    BY <2>1, <2>2, RingKeeps
<1> QED
  BY <1>1, <1>2, <1>3, <1>4, <1>5 DEF Chat!Next

LEMMA ChatShows ==
  ASSUME ChatInv, Chat!ChatAssumption
  PROVE  Chat!NothingMissed
<1> SUFFICES ASSUME Chat!Settled, page.sock \notin overtaken, ~page.fromFile,
                    NEW m \in Range(ring), m.alias = page.alias, m.role = "assistant"
             PROVE  m.serial \in page.shown
  BY SameChatOps DEF Chat!NothingMissed, Chat!Answers
<1> DEFINE s == page.sock
<1>1. s # Nothing /\ serving[s] = Chat!Reading /\ up[s] = <<>> /\ down[s] = <<>> /\ Chat!Reading.at = "read"
  BY DEF Chat!Settled, Chat!Reading
<1>2. Conn(page, up[s], serving[s], down[s], s \in overtaken, Range(ring), Coming(s), nextId)
  BY <1>1 DEF ChatInv, Connected
<1>3. Coming(s) = {}
  BY DEF Chat!Settled, Chat!Idle, Coming
<1>4. NoSnapshot(down[s]) /\ After(down[s], 0) = {}
  BY <1>1 DEF NoSnapshot, After
<1>5. m \in Needed(Range(ring), page.alias)
  BY DEF Needed
<1> HIDE DEF s
<1>6. /\ s \in overtaken \/ page.fromFile
         \/ \A x \in Needed(Range(ring), page.alias) : x.serial \in page.shown \/ x \in Coming(s) \cup After(down[s], 0)
  BY <1>1, <1>2, <1>4 DEF Conn
<1> QED
  BY <1>3, <1>4, <1>5, <1>6 DEF s

(* Whatever connections, pages, sessions, answers, clearings and reboots   *)
(* come in whatever order, a page at rest shows each answer of its session *)
(* that the ring holds (cap_im_local.c, claw_http_server.c, chat.js), but  *)
(* for an answer that overtook a snapshot and after a snapshot of the      *)
(* file.                                                                   *)
THEOREM PageMissesNothing == SessionsSpec => []NothingMissed
<1>1. SessionsInit => ChatInv
  BY ChatInit DEF SessionsInit
<1>2. ChatInv /\ [SessionsNext]_sessionvars => ChatInv'
  <2> SUFFICES ASSUME ChatInv, [SessionsNext]_sessionvars
               PROVE  ChatInv'
    OBVIOUS
  <2>1. [Chat!Next]_chatvars
    BY DEF SessionsNext, RunsMap, RunsPair, RunsGating, RunsChat, sessionvars
  <2> QED
    BY <2>1, ChatStep, SessionsAssumption
<1>3. ChatInv => NothingMissed
  BY ChatShows, SessionsAssumption DEF NothingMissed
<1> QED
  BY <1>1, <1>2, <1>3, PTL DEF SessionsSpec
=============================================================================
