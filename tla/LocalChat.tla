----------------------------- MODULE LocalChat -----------------------------
(***************************************************************************)
(* The chat of the web page (cap_im_local.c, the WebSocket part of         *)
(* claw_http_server.c, and chat.js).  Messages of all sessions go through  *)
(* a ring; an answer is pushed and then sent to every connection.  A page  *)
(* that connects, or changes its session, asks for a snapshot of it: what  *)
(* the ring holds of the session or, if that is nothing, what the history  *)
(* file holds.  It clears itself and shows the snapshot, and from then on  *)
(* it shows the messages whose id is above the last one.                   *)
(*                                                                         *)
(* A connection is served by a task of its own.  A frame is two sends, the *)
(* header and the payload; only the snapshot's are under s_ws_mutex.  Ids  *)
(* start from 1 at each boot, in the ring as in a snapshot of the file.    *)
(***************************************************************************)
EXTENDS Naturals, Sequences, FiniteSets, SequencesExt

CONSTANTS
  Sockets,       \* of connections to /ws/chat
  MaxConn,       \* MAX_WS_CONN (4)
  RingSize,      \* MSG_BUF_MAX
  Aliases,       \* sessions of the local channel
  Nothing,       \* no alias, no socket, no frame
  MaxMessages,   \* bound of the model: messages pushed
  MaxStored,     \* bound of the model: messages in a history file
  MaxMoves,      \* bound of the model: lost connections, reloads, changes of session
  MaxRestarts    \* bound of the model: reboots

VARIABLES
  ring,          \* s_msgs, oldest first
  nextId,        \* s_next_id
  stored,        \* per alias, the messages in its history file
  table,         \* s_ws_conns
  serving,       \* per socket, what its task does
  up, down,      \* per socket, frames on their way to the server and to the page
  sender,        \* the task that sends an answer
  page,          \* the page: its socket and session, lastId, the answers on it
  overtaken,     \* history: an answer went to the socket between a snapshot's copy and its sending
  serial, moves, restarts

chatvars == <<ring, nextId, stored, table, serving, up, down, sender, page, overtaken, serial, moves, restarts>>

ChatAssumption == MaxConn \in Nat \ {0} /\ RingSize \in Nat \ {0} /\ Nothing \notin Aliases \cup Sockets

Free    == [at |-> "free"]
Reading == [at |-> "read"]
Idle    == [at |-> "idle"]

TypeOK ==
  /\ Len(ring) <= RingSize /\ nextId \in 1 .. MaxMessages + 1
  /\ stored \in [Aliases -> 0 .. MaxStored] /\ table \subseteq Sockets
  /\ \A s \in Sockets : serving[s].at \in {"free", "open", "read", "copied", "half"}
  /\ sender.at \in {"idle", "pushed", "sending", "half"}
  /\ page.sock \in Sockets \cup {Nothing} /\ page.alias \in Aliases \cup {Nothing}
  /\ overtaken \subseteq Sockets

Init ==
  /\ ring = <<>> /\ nextId = 1 /\ serial = 0
  /\ stored = [a \in Aliases |-> 0] /\ table = {}
  /\ serving = [s \in Sockets |-> Free]
  /\ up = [s \in Sockets |-> <<>>] /\ down = [s \in Sockets |-> <<>>]
  /\ sender = Idle
  /\ page = [sock |-> Nothing, alias |-> Nothing, last |-> 0, shown |-> {}, fromFile |-> FALSE]
  /\ overtaken = {} /\ moves = 0 /\ restarts = 0

(* msg_push. *)
Message(role, alias) == [id |-> nextId, role |-> role, alias |-> alias, serial |-> serial + 1]

Push(m) ==
  /\ serial < MaxMessages /\ serial' = serial + 1 /\ nextId' = nextId + 1
  /\ ring' = Append(IF Len(ring) >= RingSize THEN Tail(ring) ELSE ring, m)

(* s_ws_mutex is held over a snapshot's two sends. *)
MutexFree == \A s \in Sockets : serving[s].at # "half"
-----------------------------------------------------------------------------
(* The page. *)

Connect(s) ==
  /\ page.sock = Nothing /\ serving[s] = Free
  /\ serving' = [serving EXCEPT ![s] = [at |-> "open"]]
  /\ up' = [up EXCEPT ![s] = <<page.alias>>]
  /\ page' = [page EXCEPT !.sock = s]
  /\ UNCHANGED <<ring, nextId, stored, table, down, sender, overtaken, serial, moves, restarts>>

Cleared == [page EXCEPT !.last = 0, !.shown = {}, !.fromFile = FALSE]

(* The connection is lost, or the page loaded again. *)
Disconnect ==
  /\ page.sock # Nothing /\ moves < MaxMoves /\ moves' = moves + 1
  /\ \E p \in {page, Cleared} : page' = [p EXCEPT !.sock = Nothing]
  /\ up' = [up EXCEPT ![page.sock] = <<>>] /\ down' = [down EXCEPT ![page.sock] = <<>>]
  /\ UNCHANGED <<ring, nextId, stored, table, serving, sender, overtaken, serial, restarts>>

(* switchToAlias. *)
Switch(alias) ==
  /\ alias # page.alias /\ moves < MaxMoves /\ moves' = moves + 1
  /\ page' = [Cleared EXCEPT !.alias = alias]
  /\ up' = IF page.sock = Nothing THEN up ELSE [up EXCEPT ![page.sock] = Append(@, alias)]
  /\ UNCHANGED <<ring, nextId, stored, table, serving, down, sender, overtaken, serial, restarts>>

ForPage(m) == m.alias \in {Nothing, page.alias}

(* renderMsg, and the snapshot branch of onmessage. *)
WithAnswer(m) ==
  IF ForPage(m) /\ m.id > page.last
  THEN [page EXCEPT !.last = m.id, !.shown = @ \cup {m.serial}] ELSE page

Answers(messages) == {m.serial : m \in {n \in messages : n.role = "assistant"}}

(* Mutant of WithSnapshot: the box is emptied, but lastId stays.           *)
WithSnapshot_KeepsLast(f) ==
  LET new == {m \in f.messages : m.id > page.last} IN
  IF page.alias \in {f.alias, Nothing}
  THEN [page EXCEPT !.alias = f.alias, !.fromFile = f.fromFile,
                    !.last = Max({@} \cup {m.id : m \in new}), !.shown = Answers(new)]
  ELSE page

WithSnapshot(f) ==
  IF page.alias \in {f.alias, Nothing}
  THEN [page EXCEPT !.alias = f.alias, !.fromFile = f.fromFile,
                    !.last = Max({0} \cup {m.id : m \in f.messages}), !.shown = Answers(f.messages)]
  ELSE page

Receive ==
  /\ page.sock # Nothing /\ down[page.sock] # <<>>
  /\ LET f == Head(down[page.sock]) IN
     /\ f.type # "broken"
     /\ page' = IF f.type = "snapshot" THEN WithSnapshot(f) ELSE WithAnswer(f.message)
  /\ down' = [down EXCEPT ![page.sock] = Tail(@)]
  /\ UNCHANGED <<ring, nextId, stored, table, serving, up, sender, overtaken, serial, moves, restarts>>

(* Two frames sent into each other: the browser closes the connection. *)
Refuse ==
  /\ page.sock # Nothing /\ down[page.sock] # <<>> /\ Head(down[page.sock]).type = "broken"
  /\ page' = [page EXCEPT !.sock = Nothing]
  /\ up' = [up EXCEPT ![page.sock] = <<>>] /\ down' = [down EXCEPT ![page.sock] = <<>>]
  /\ UNCHANGED <<ring, nextId, stored, table, serving, sender, overtaken, serial, moves, restarts>>
-----------------------------------------------------------------------------
(* A connection's task. *)

(* A full table ends the connection. *)
Register(s) ==
  /\ serving[s].at = "open" /\ MutexFree
  /\ IF Cardinality(table) < MaxConn
     THEN /\ table' = table \cup {s} /\ serving' = [serving EXCEPT ![s] = Reading]
          /\ UNCHANGED <<up, down, page>>
     ELSE /\ serving' = [serving EXCEPT ![s] = Free]
          /\ up' = [up EXCEPT ![s] = <<>>] /\ down' = [down EXCEPT ![s] = <<>>]
          /\ page' = IF page.sock = s THEN [page EXCEPT !.sock = Nothing] ELSE page
          /\ table' = table
  /\ UNCHANGED <<ring, nextId, stored, sender, overtaken, serial, moves, restarts>>

Unregister(s) ==
  /\ serving[s].at = "read" /\ page.sock # s /\ MutexFree
  /\ table' = table \ {s} /\ serving' = [serving EXCEPT ![s] = Free]
  /\ overtaken' = overtaken \ {s}
  /\ UNCHANGED <<ring, nextId, stored, up, down, sender, page, serial, moves, restarts>>

FileMessages(alias) ==
  {[id |-> i, role |-> IF i % 2 = 1 THEN "user" ELSE "assistant", alias |-> alias, serial |-> 0] : i \in 1 .. stored[alias]}

(* push_session_history.  What a snapshot holds is shown in the order of   *)
(* the ids.                                                                *)
Snapshot(alias) ==
  LET own == {m \in Range(ring) : m.alias = alias} IN
  [type |-> "snapshot", alias |-> alias, fromFile |-> own = {},
   messages |-> IF own # {} THEN own ELSE FileMessages(alias)]

(* An alias that the page does not know is the current one. *)
ReadSync(s) ==
  /\ serving[s] = Reading /\ up[s] # <<>>
  /\ \E alias \in IF Head(up[s]) = Nothing THEN Aliases ELSE {Head(up[s])} :
        serving' = [serving EXCEPT ![s] = [at |-> "copied", frame |-> Snapshot(alias)]]
  /\ up' = [up EXCEPT ![s] = Tail(@)]
  /\ overtaken' = overtaken \ {s}
  /\ UNCHANGED <<ring, nextId, stored, table, down, sender, page, serial, moves, restarts>>

Sent(s, frame) == IF page.sock = s THEN [down EXCEPT ![s] = Append(@, frame)] ELSE down
Broken == [type |-> "broken"]

SnapshotHead(s) ==
  /\ serving[s].at = "copied" /\ MutexFree
  /\ serving' = [serving EXCEPT ![s].at = "half"]
  /\ down' = IF sender.at = "half" /\ sender.sock = s THEN Sent(s, Broken) ELSE down
  /\ UNCHANGED <<ring, nextId, stored, table, up, sender, page, overtaken, serial, moves, restarts>>

SnapshotBody(s) ==
  /\ serving[s].at = "half"
  /\ down' = Sent(s, serving[s].frame)
  /\ serving' = [serving EXCEPT ![s] = Reading]
  /\ UNCHANGED <<ring, nextId, stored, table, up, sender, page, overtaken, serial, moves, restarts>>
-----------------------------------------------------------------------------
(* cap_im_local_send_for_alias, for an answer or a message of the system,  *)
(* which has no alias.                                                     *)

Answer(alias) ==
  /\ sender = Idle
  /\ Push(Message("assistant", alias))
  /\ sender' = [at |-> "pushed", message |-> Message("assistant", alias)]
  /\ UNCHANGED <<stored, table, serving, up, down, page, overtaken, moves, restarts>>

ToSend(to) == IF to = {} THEN Idle ELSE [at |-> "sending", message |-> sender.message, to |-> to]

(* claw_ws_broadcast_text copies the sockets under the mutex. *)
Broadcast ==
  /\ sender.at = "pushed" /\ MutexFree
  /\ sender' = ToSend(table)
  /\ UNCHANGED <<ring, nextId, stored, table, serving, up, down, page, overtaken, serial, moves, restarts>>

AnswerHead(s) ==
  /\ sender.at = "sending" /\ s \in sender.to
  /\ sender' = [at |-> "half", message |-> sender.message, to |-> sender.to \ {s}, sock |-> s]
  /\ down' = IF serving[s].at = "half" THEN Sent(s, Broken) ELSE down
  /\ UNCHANGED <<ring, nextId, stored, table, serving, up, page, overtaken, serial, moves, restarts>>

AnswerBody ==
  LET s == sender.sock IN
  /\ sender.at = "half"
  /\ down' = Sent(s, [type |-> "answer", message |-> sender.message])
  /\ sender' = ToSend(sender.to)
  /\ overtaken' = IF /\ serving[s].at \in {"copied", "half"}
                     /\ sender.message \notin serving[s].frame.messages
                  THEN overtaken \cup {s} ELSE overtaken
  /\ UNCHANGED <<ring, nextId, stored, table, serving, up, page, serial, moves, restarts>>
-----------------------------------------------------------------------------
(* A user's message, from the page or posted to /send. *)
Post(alias) ==
  /\ Push(Message("user", alias))
  /\ UNCHANGED <<stored, table, serving, up, down, sender, page, overtaken, moves, restarts>>

(* claw_memory saves the turn of a message that is still in the ring. *)
SaveTurn(alias) ==
  /\ \E m \in Range(ring) : m.role = "user" /\ m.alias = alias
  /\ stored[alias] + 2 <= MaxStored
  /\ stored' = [stored EXCEPT ![alias] = @ + 2]
  /\ UNCHANGED <<ring, nextId, table, serving, up, down, sender, page, overtaken, serial, moves, restarts>>

(* The session is cleared, file first, and its messages lose alias and role. *)
ClearAlias(alias) ==
  /\ moves < MaxMoves /\ moves' = moves + 1
  /\ stored' = [stored EXCEPT ![alias] = 0]
  /\ ring' = [i \in DOMAIN ring |-> IF ring[i].alias = alias THEN [ring[i] EXCEPT !.alias = Nothing, !.role = "none"] ELSE ring[i]]
  /\ UNCHANGED <<nextId, table, serving, up, down, sender, page, overtaken, serial, restarts>>

Reboot ==
  /\ restarts < MaxRestarts /\ restarts' = restarts + 1
  /\ ring' = <<>> /\ nextId' = 1 /\ table' = {} /\ sender' = Idle
  /\ serving' = [s \in Sockets |-> Free]
  /\ up' = [s \in Sockets |-> <<>>] /\ down' = [s \in Sockets |-> <<>>]
  /\ page' = [page EXCEPT !.sock = Nothing] /\ overtaken' = {}
  /\ UNCHANGED <<stored, serial, moves>>

Next ==
  \/ \E s \in Sockets :
        \/ Connect(s) \/ Register(s) \/ Unregister(s) \/ ReadSync(s)
        \/ SnapshotHead(s) \/ SnapshotBody(s) \/ AnswerHead(s)
  \/ \E alias \in Aliases : Switch(alias) \/ Post(alias) \/ SaveTurn(alias) \/ ClearAlias(alias)
  \/ \E alias \in Aliases \cup {Nothing} : Answer(alias)
  \/ Broadcast \/ AnswerBody
  \/ Disconnect \/ Receive \/ Refuse \/ Reboot

Spec == Init /\ [][Next]_chatvars
-----------------------------------------------------------------------------
Settled ==
  /\ page.sock # Nothing /\ serving[page.sock] = Reading
  /\ up[page.sock] = <<>> /\ down[page.sock] = <<>> /\ sender = Idle

(* When nothing is on its way, the page shows every answer of its session  *)
(* that the ring holds: answers are pushed before they are sent, so a page *)
(* that was not there for the sending finds them in its snapshot, and a    *)
(* page whose frames were mixed up connects again.  The exceptions are the *)
(* code's: an answer sent between the copy and the sending of a snapshot   *)
(* is cleared by it, and a snapshot of the file has ids of its own.  There *)
(* is one sender, and what it sends to a connected page arrives.           *)
NothingMissed ==
  Settled /\ page.sock \notin overtaken /\ ~page.fromFile =>
    Answers({m \in Range(ring) : m.alias = page.alias}) \subseteq page.shown

(* "empty alias broadcasts to all WS clients so system messages (/list,    *)
(* /new replies) are visible" (cap_im_local.c): a page at rest would show  *)
(* the next message that is sent to every connection.                      *)
SystemVisible ==
  Settled => LET m == Message("assistant", Nothing) IN m.serial \in WithAnswer(m).shown
=============================================================================
