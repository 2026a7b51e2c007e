--------------------------- MODULE FeishuChannel ---------------------------
(***************************************************************************)
(* cap_im_feishu.c: the task that keeps a WebSocket to the server open and *)
(* handles the messages that come over it, and the callbacks of a saved    *)
(* configuration and of a new Wi-Fi connection, which start the task, stop *)
(* it or make it reconnect through two flags.  The server sends a message  *)
(* until it has seen its acknowledgement.                                  *)
(***************************************************************************)
EXTENDS Naturals, Sequences, FiniteSets

CONSTANTS
  Apps,        \* credentials
  None,
  Messages,
  CacheSize,   \* FEISHU_DEDUP_CACHE_SIZE
  MaxSaves,    \* bound: saved configurations
  MaxFaults,   \* bound: network faults and failed task creations
  MaxHandled   \* bound: messages recorded in one boot

FeishuAssumption ==
  /\ IsFiniteSet(Apps) /\ None \notin Apps \cup Messages
  /\ CacheSize \in Nat \ {0} /\ {MaxSaves, MaxFaults, MaxHandled} \subseteq Nat

VARIABLES
  config,      \* cfg->feishu
  conn,        \* s_conn_app_id, s_conn_app_secret: the last connection's credentials
  flags,       \* s_ws_stop and s_ws_reconnect
  task,        \* the WS task: "none", at the top of its loop, connecting, in its inner loop
  link,        \* external: [wifi |-> connected, ws |-> the WebSocket]
  unacked,     \* external: messages the server still sends
  frame,       \* the message in the handler, and whether it has been handled
  seen,        \* s_seen_entries and s_seen_idx
  hist         \* history: messages recorded since the boot, missed starts, bounds

fvars == <<config, conn, flags, task, link, unacked, frame, seen, hist>>
life  == <<config, conn, flags, task, link>>
mail  == <<unacked, frame, seen>>

NoFlag  == [stop |-> FALSE, reconnect |-> FALSE]
NoFrame == [msg |-> None, done |-> FALSE]
Fresh   == [entries |-> [i \in 0..(CacheSize - 1) |-> None], idx |-> 0]

Init ==
  /\ config \in Apps \cup {None} /\ conn = None /\ flags = NoFlag /\ task = "none"
  /\ link = [wifi |-> FALSE, ws |-> "none"]
  /\ unacked = Messages /\ frame = NoFrame /\ seen = Fresh
  /\ hist = [log |-> <<>>, missed |-> FALSE, saves |-> 0, faults |-> 0]

Fault(h) == h.faults < MaxFaults /\ hist' = [h EXCEPT !.faults = @ + 1]

-----------------------------------------------------------------------------
(* The callbacks. *)

Started == task' = "top" /\ flags' = NoFlag

(* feishu_try_start; the task may not be created.                          *)
TryStart(c, wifi, h) ==
  IF task = "none" /\ c # None /\ wifi
  THEN \/ Started /\ hist' = [h EXCEPT !.missed = FALSE]
       \/ flags' = NoFlag /\ UNCHANGED task /\ Fault([h EXCEPT !.missed = TRUE])
  ELSE hist' = h /\ UNCHANGED <<flags, task>>

(* feishu_on_config_saved.  A task that was told to stop and has not ended *)
(* yet ends, whatever is saved meanwhile.                                  *)
Saved(h) == [h EXCEPT !.saves = @ + 1]
ConfigSaved(c) ==
  /\ hist.saves < MaxSaves
  /\ config' = c
  /\ \/ task = "none" /\ TryStart(c, link.wifi, Saved(hist))
     \/ /\ task # "none" /\ UNCHANGED task
        /\ flags' = [stop |-> flags.stop \/ c = None, reconnect |-> flags.reconnect \/ c \notin {None, conn}]
        /\ hist' = [Saved(hist) EXCEPT !.missed = @ \/ (flags.stop /\ c # None)]
  /\ UNCHANGED <<conn, link, mail>>

WifiConnects ==
  /\ ~link.wifi
  /\ link' = [link EXCEPT !.wifi = TRUE]
  /\ TryStart(config, TRUE, hist)
  /\ UNCHANGED <<config, conn, mail>>

WifiLost ==
  /\ link.wifi /\ Fault(hist)
  /\ link' = [wifi |-> FALSE, ws |-> IF link.ws = "open" THEN "dead" ELSE link.ws]
  /\ UNCHANGED <<config, conn, flags, task, mail>>

-----------------------------------------------------------------------------
(* feishu_ws_task. *)

Pull ==
  /\ task = "top" /\ ~flags.stop /\ config # None
  /\ flags' = [flags EXCEPT !.reconnect = FALSE]
  /\ conn' = config /\ task' = "connecting"
  /\ UNCHANGED <<config, link, mail, hist>>

Connect ==
  /\ task = "connecting" /\ link.wifi
  /\ task' = "serving" /\ link' = [link EXCEPT !.ws = "open"]
  /\ UNCHANGED <<config, conn, flags, mail, hist>>

ConnectFails ==
  /\ task = "connecting" /\ task' = "top"
  /\ IF link.wifi THEN Fault(hist) ELSE UNCHANGED hist
  /\ UNCHANGED <<config, conn, flags, link, mail>>

Over == flags.stop \/ flags.reconnect \/ link.ws = "closed"

Disconnect ==
  /\ task = "serving" /\ frame = NoFrame /\ Over
  /\ task' = "top" /\ link' = [link EXCEPT !.ws = "none"]
  /\ UNCHANGED <<config, conn, flags, mail, hist>>

TaskEnds ==
  /\ task = "top" /\ flags.stop /\ task' = "none"
  /\ UNCHANGED <<config, conn, flags, link, mail, hist>>

(* The server or the network ends the connection; TCP keepalive finds out. *)
LinkDies ==
  /\ link.ws = "open" /\ Fault(hist) /\ link' = [link EXCEPT !.ws = "dead"]
  /\ UNCHANGED <<config, conn, flags, task, mail>>
LinkCloses ==
  /\ link.ws = "dead" /\ link' = [link EXCEPT !.ws = "closed"]
  /\ UNCHANGED <<config, conn, flags, task, mail, hist>>

-----------------------------------------------------------------------------
(* feishu_handle_frame, inside ws_poll. *)

Arrives(m) ==
  /\ task = "serving" /\ link.ws = "open" /\ frame = NoFrame /\ ~Over
  /\ m \in unacked /\ Len(hist.log) < MaxHandled
  /\ frame' = [msg |-> m, done |-> FALSE]
  /\ UNCHANGED <<life, unacked, seen, hist>>

(* Mutant of After: the ring wraps one entry early.                        *)
After_Early(i) == (i + 1) % (CacheSize - 1)

After(i) == (i + 1) % CacheSize

(* feishu_dedup, then the publication, whose result is not looked at.      *)
Handle ==
  /\ frame # NoFrame /\ ~frame.done
  /\ frame' = [frame EXCEPT !.done = TRUE]
  /\ IF \E i \in DOMAIN seen.entries : seen.entries[i] = frame.msg
     THEN UNCHANGED <<seen, hist>>
     ELSE /\ seen' = [entries |-> [seen.entries EXCEPT ![seen.idx] = frame.msg], idx |-> After(seen.idx)]
          /\ hist' = [hist EXCEPT !.log = Append(@, frame.msg)]
  /\ UNCHANGED <<life, unacked>>

(* The acknowledgement reaches the server, or is lost.                     *)
Ack ==
  /\ frame.done /\ frame' = NoFrame
  /\ \/ link.ws = "open" /\ unacked' = unacked \ {frame.msg}
     \/ UNCHANGED unacked
  /\ UNCHANGED <<life, seen, hist>>

Task == Pull \/ Connect \/ ConnectFails \/ Disconnect \/ TaskEnds \/ Handle \/ Ack

Next ==
  \/ \E c \in Apps \cup {None} : ConfigSaved(c)
  \/ WifiConnects \/ WifiLost \/ LinkDies \/ LinkCloses \/ Task
  \/ \E m \in Messages : Arrives(m)

Spec == Init /\ [][Next]_fvars

(* The task is scheduled, its calls return, and keepalive ends a dead      *)
(* connection.                                                             *)
Fairness == WF_fvars(Task) /\ WF_fvars(LinkCloses)
-----------------------------------------------------------------------------
(* Properties *)

(* A message the server sends again is published again only after          *)
(* CacheSize others: the cache survives a reconnection, a change of the    *)
(* credentials and a restart of the task.                                  *)
FeishuOnce ==
  \A i, j \in DOMAIN hist.log : i < j /\ hist.log[i] = hist.log[j] => j - i > CacheSize

(* Once the network is well and credentials are set, the channel serves    *)
(* them, unless they were entered while the task was still stopping or     *)
(* the task could not be created.                                          *)
FeishuServes ==
  <>[](link.wifi /\ config # None) =>
    []<>(hist.missed \/ (task = "serving" /\ link.ws = "open" /\ conn = config))
=============================================================================
