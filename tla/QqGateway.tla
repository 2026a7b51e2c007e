----------------------------- MODULE QqGateway -----------------------------
(***************************************************************************)
(* cap_im_qq.c: the task that fetches an access token and the gateway's    *)
(* address, connects and identifies itself, and does so again when the     *)
(* connection ends; the senders, which fetch tokens as well; and the       *)
(* callbacks of a saved configuration and of a new Wi-Fi connection.       *)
(***************************************************************************)
EXTENDS Naturals, FiniteSets

CONSTANTS
  Bots,        \* credentials
  None,
  MaxSaves,    \* bound: saved configurations
  MaxFaults    \* bound: faults of the network and of the server, expired tokens

QqAssumption ==
  /\ IsFiniteSet(Bots) /\ None \notin Bots /\ {MaxSaves, MaxFaults} \subseteq Nat

VARIABLES
  creds,       \* s_app_id, s_app_secret
  token,       \* s_token: whose it is, and whether it is still good
  wifi,        \* whether the Wi-Fi manager is CONNECTED, and s_wifi_ready
  started,     \* s_started
  stop,        \* s_ws_stop
  task,        \* the WS task: where it is
  asking,      \* per task that fetches a token: the credentials it sent, or None
  conn,        \* external: the WebSocket and the bot it has identified as
  hist         \* history: a save during a fetch, a failed start, bounds

qvars == <<creds, token, wifi, started, stop, task, asking, conn, hist>>

NoConn  == [ws |-> "none", as |-> None]
NoToken == [of |-> None, good |-> FALSE]

Init ==
  /\ creds \in Bots \cup {None} /\ token = NoToken
  /\ wifi = [up |-> FALSE, ready |-> FALSE] /\ started = FALSE /\ stop = FALSE
  /\ task = "none" /\ asking = [f \in {"ws", "send"} |-> None] /\ conn = NoConn
  /\ hist = [raced |-> FALSE, failed |-> FALSE, saves |-> 0, faults |-> 0]

Fault(h) == h.faults < MaxFaults /\ hist' = [h EXCEPT !.faults = @ + 1]

-----------------------------------------------------------------------------
(* qq_try_start, under s_start_mutex; the task may not be created. *)
TryStart(c, w, h) ==
  IF ~started /\ w.ready /\ c # None
  THEN \/ started' = TRUE /\ task' = "top" /\ hist' = [h EXCEPT !.failed = FALSE]
       \/ Fault([h EXCEPT !.failed = TRUE]) /\ UNCHANGED <<started, task>>
  ELSE hist' = h /\ UNCHANGED <<started, task>>

(* Mutant of Replaced: the token of the old credentials stays good.        *)
Replaced_Kept == stop' = TRUE /\ UNCHANGED token

Replaced == stop' = TRUE /\ token' = [token EXCEPT !.good = FALSE]

(* The save of new credentials may come while a request with the old ones  *)
(* is under way, whose token is then stored; or between the token and the  *)
(* connection, which clears the stop flag.                                 *)
Fetching == task = "gateway" \/ \E f \in DOMAIN asking : asking[f] # None

ConfigSaved(c) ==
  /\ hist.saves < MaxSaves
  /\ creds' = c
  /\ IF c = creds THEN UNCHANGED <<stop, token>> ELSE Replaced
  /\ TryStart(c, wifi, [hist EXCEPT !.saves = @ + 1, !.raced = @ \/ (c # creds /\ Fetching)])
  /\ UNCHANGED <<wifi, asking, conn>>

WifiConnects ==
  /\ ~wifi.up /\ wifi' = [up |-> TRUE, ready |-> TRUE]
  /\ TryStart(creds, wifi', hist)
  /\ UNCHANGED <<creds, token, stop, asking, conn>>

WifiLost ==
  /\ wifi.up /\ Fault(hist)
  /\ wifi' = [wifi EXCEPT !.up = FALSE]
  /\ conn' = [conn EXCEPT !.ws = IF @ = "open" THEN "dead" ELSE @]
  /\ UNCHANGED <<creds, token, started, stop, task, asking>>

-----------------------------------------------------------------------------
(* qq_fetch_token.  The answer is stored unless another task has stored    *)
(* one meanwhile.                                                          *)
Store(t, of) == IF t.good THEN t ELSE [of |-> of, good |-> TRUE]

TokenFaulty(h) == IF wifi.up THEN Fault(h) ELSE UNCHANGED hist

SendAsks ==
  /\ asking["send"] = None /\ creds # None /\ ~token.good
  /\ asking' = [asking EXCEPT !["send"] = creds]
  /\ UNCHANGED <<creds, token, wifi, started, stop, task, conn, hist>>

SendAnswered ==
  /\ asking["send"] # None
  /\ \/ wifi.up /\ token' = Store(token, asking["send"]) /\ UNCHANGED hist
     \/ UNCHANGED token /\ TokenFaulty(hist)
  /\ asking' = [asking EXCEPT !["send"] = None]
  /\ UNCHANGED <<creds, wifi, started, stop, task, conn>>

(* The token's time is over, or a send was answered with a token error.    *)
TokenExpires ==
  /\ token.good /\ Fault(hist)
  /\ token' = [token EXCEPT !.good = FALSE]
  /\ UNCHANGED <<creds, wifi, started, stop, task, asking, conn>>

-----------------------------------------------------------------------------
(* qq_ws_task. *)

(* Mutant of MayFetch: a task that was told to stop waits for ever.        *)
MayFetch_Stopped == wifi.up /\ ~stop

MayFetch == wifi.up

FetchToken ==
  /\ task = "top" /\ creds # None /\ MayFetch
  /\ \/ token.good /\ task' = "gateway" /\ UNCHANGED asking
     \/ ~token.good /\ task' = "token" /\ asking' = [asking EXCEPT !["ws"] = creds]
  /\ UNCHANGED <<creds, token, wifi, started, stop, conn, hist>>

(* Without Wi-Fi the task waits; with the stop flag set it ends for good.  *)
GiveUp ==
  /\ task = "top" /\ creds # None /\ ~wifi.up /\ stop
  /\ task' = "ended"
  /\ UNCHANGED <<creds, token, wifi, started, stop, asking, conn, hist>>

TokenAnswered ==
  /\ task = "token"
  /\ \/ wifi.up /\ task' = "gateway" /\ token' = Store(token, asking["ws"]) /\ UNCHANGED hist
     \/ task' = "top" /\ UNCHANGED token /\ TokenFaulty(hist)
  /\ asking' = [asking EXCEPT !["ws"] = None]
  /\ UNCHANGED <<creds, wifi, started, stop, conn>>

(* qq_fetch_gateway_url, after which the stop flag is cleared.             *)
FetchGateway ==
  /\ task = "gateway"
  /\ \/ wifi.up /\ task' = "connect" /\ stop' = FALSE /\ UNCHANGED hist
     \/ task' = "top" /\ TokenFaulty(hist) /\ UNCHANGED stop
  /\ UNCHANGED <<creds, token, wifi, started, asking, conn>>

Connect ==
  /\ task = "connect"
  /\ \/ wifi.up /\ task' = "serving" /\ conn' = [ws |-> "open", as |-> None] /\ UNCHANGED hist
     \/ task' = "top" /\ TokenFaulty(hist) /\ UNCHANGED conn
  /\ UNCHANGED <<creds, token, wifi, started, stop, asking>>

(* HELLO: the task identifies itself with the token of the moment.         *)
Identify ==
  /\ task = "serving" /\ conn.ws = "open" /\ conn.as = None /\ ~stop
  /\ \/ conn' = [conn EXCEPT !.as = token.of] /\ UNCHANGED <<stop, hist>>
     \/ stop' = TRUE /\ Fault(hist) /\ UNCHANGED conn
  /\ UNCHANGED <<creds, token, wifi, started, task, asking>>

(* Reconnect and invalid session, asked for by the server.                 *)
ServerEnds ==
  /\ task = "serving" /\ conn.ws = "open" /\ Fault(hist)
  /\ stop' = TRUE
  /\ UNCHANGED <<creds, token, wifi, started, task, asking, conn>>

HeartbeatFails ==
  /\ task = "serving" /\ conn.ws = "dead" /\ ~stop
  /\ stop' = TRUE
  /\ UNCHANGED <<creds, token, wifi, started, task, asking, conn, hist>>

Over == stop \/ conn.ws = "closed"

Disconnect ==
  /\ task = "serving" /\ Over
  /\ task' = "top" /\ conn' = NoConn
  /\ UNCHANGED <<creds, token, wifi, started, stop, asking, hist>>

LinkDies ==
  /\ conn.ws = "open" /\ Fault(hist)
  /\ conn' = [conn EXCEPT !.ws = "dead"]
  /\ UNCHANGED <<creds, token, wifi, started, stop, task, asking>>

(* TCP keepalive closes a dead connection.                                 *)
LinkCloses ==
  /\ conn.ws = "dead"
  /\ conn' = [conn EXCEPT !.ws = "closed"]
  /\ UNCHANGED <<creds, token, wifi, started, stop, task, asking, hist>>

Task == FetchToken \/ GiveUp \/ TokenAnswered \/ FetchGateway \/ Connect \/ Identify \/ Disconnect

Next ==
  \/ \E c \in Bots \cup {None} : ConfigSaved(c)
  \/ WifiConnects \/ WifiLost \/ SendAsks \/ SendAnswered \/ TokenExpires
  \/ Task \/ ServerEnds \/ HeartbeatFails \/ LinkDies \/ LinkCloses

Spec == Init /\ [][Next]_qvars

(* The task is scheduled, its requests return, and a dead connection is    *)
(* closed by keepalive.                                                    *)
Fairness == WF_qvars(Task) /\ WF_qvars(LinkCloses)

FairSpec == Spec /\ Fairness
-----------------------------------------------------------------------------
(* Properties *)

(* A connection that has identified as a bot whose credentials were        *)
(* replaced is about to be ended, unless they were replaced during the     *)
(* fetches that led to it.                                                 *)
QqIdentity == conn.as \in {None, creds} \/ stop \/ hist.raced

Identified == task = "serving" /\ conn.ws = "open" /\ conn.as # None

(* Once the network is well and credentials are set, the task has a        *)
(* connection that has identified itself, unless the task could not be     *)
(* created or has given up.                                                *)
QqServes == <>[](wifi.up /\ creds # None) => []<>(Identified \/ hist.failed \/ task = "ended")

(* "On disconnect -> delay + reconnect": once the network is well and      *)
(* credentials are set, a task that was created has a connection again.    *)
QqReconnects == <>[](wifi.up /\ creds # None) => []<>(Identified \/ hist.failed)
=============================================================================
