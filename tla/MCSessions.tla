----------------------------- MODULE MCSessions -----------------------------
(***************************************************************************)
(* What belongs to a session: its place in the chat map, with one caller   *)
(* and with two, the skills active in it and the tools they open, and its  *)
(* page of the web chat.  They are checked one at a time: `part`, chosen   *)
(* in the initial state, names the one that runs while the others rest.    *)
(***************************************************************************)
EXTENDS MCSessionMap

CONSTANTS drawing, poems, notes, paint, write                          \* skills, groups
CONSTANTS SkillSessions, SkillTasks, Engine, MaxActive, MaxScopes, MaxRestored, SkillFaults, MaxSkillOps, NoSkill
CONSTANTS Sockets, MaxConn, RingSize, Chats, Nothing, MaxMessages, MaxStored, MaxMoves, MaxRestarts
CONSTANTS Pair, PairLimit, PairCalls, PairFaults                       \* SessionMap with two callers
CONSTANTS Parts

VARIABLES part
VARIABLES map2, tmp2, todo2, pc2, copy2, history2, running2, calls2
VARIABLES body, active, scope, restored, at, call, list, rewritten, ops
VARIABLES ring, nextId, stored, table, serving, up, down, sender, page, overtaken, serial, moves, restarts

(* One skill comes with the image; two are written by users, one of them   *)
(* in two versions.                                                        *)
Image   == [k \in {drawing} |-> {paint}]
Written == [k \in {poems, notes} |-> IF k = poems THEN {{paint, write}, {write}} ELSE {{write}}]

Two    == INSTANCE SessionMap
            WITH Tasks <- Pair, Programs <- EverythingOf(Pair), ReadLimit <- PairLimit, MaxCalls <- PairCalls, Faults <- PairFaults,
                 map <- map2, tmp <- tmp2, todo <- todo2, pc <- pc2, copy <- copy2, history <- history2, running <- running2, calls <- calls2
Gating == INSTANCE SkillGating WITH Sessions <- SkillSessions, Tasks <- SkillTasks, BuiltIn <- Image, Writable <- Written, copy <- list
Chat   == INSTANCE LocalChat WITH Aliases <- Chats

ASSUME SessionsAssumption == Two!SessionMapAssumption /\ Gating!SkillAssumption /\ Chat!ChatAssumption

pairvars    == <<map2, tmp2, todo2, pc2, copy2, history2, running2, calls2>>
gatingvars  == <<body, active, scope, restored, at, call, list, rewritten, ops>>
chatvars    == <<ring, nextId, stored, table, serving, up, down, sender, page, overtaken, serial, moves, restarts>>
sessionvars == <<part, vars, pairvars, gatingvars, chatvars>>

SessionsInit == part \in Parts /\ Init /\ Two!Init /\ Gating!Init /\ Chat!Init

RunsMap    == part = "map"    /\ Next        /\ UNCHANGED <<part, pairvars, gatingvars, chatvars>>
RunsPair   == part = "pair"   /\ Two!Next    /\ UNCHANGED <<part, vars, gatingvars, chatvars>>
RunsGating == part = "gating" /\ Gating!Next /\ UNCHANGED <<part, vars, pairvars, chatvars>>
RunsChat   == part = "chat"   /\ Chat!Next   /\ UNCHANGED <<part, vars, pairvars, gatingvars>>

SessionsNext == RunsMap \/ RunsPair \/ RunsGating \/ RunsChat

SessionsSpec == SessionsInit /\ [][SessionsNext]_sessionvars

(* Connections differ in nothing but their name. *)
AnySocket == Permutations(Sockets)
-----------------------------------------------------------------------------
(* The properties of the parts, under the names they have there. *)

(* SessionMap, with two callers: a readable map is consistent. *)
PairConsistent == Two!MapConsistent

(* SkillGating: a complete prompt's session sees its skills' groups.       *)
ToolsFitSkills == Gating!ToolsFitSkills

(* LocalChat: a page at rest shows the answers that the ring holds; it     *)
(* would show the next message that is sent to every connection.           *)
NothingMissed == Chat!NothingMissed
SystemVisible == Chat!SystemVisible
=============================================================================
