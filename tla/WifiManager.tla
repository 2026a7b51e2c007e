---------------------------- MODULE WifiManager ----------------------------
(***************************************************************************)
(* claw_wifi_mgr.c: the station's state, set by the driver's events and by *)
(* every task that connects; the manager's task, which provisions over an  *)
(* access point of its own or connects, and then watches the connection;   *)
(* and the callbacks told of each connection.  The driver, its automatic   *)
(* reconnection and the network are modelled from the events and calls the *)
(* manager uses.                                                           *)
(***************************************************************************)
EXTENDS Naturals, FiniteSets

CONSTANTS
  Callbacks,   \* on-connected callbacks
  MaxCbs,      \* MAX_WIFI_ON_CONN_CBS
  MaxDrops,    \* bound: faults of the network
  MaxManual    \* bound: connections made from the web UI or the console

VARIABLES
  state,       \* s_state
  softap,      \* s_softap_up
  configured,  \* cfg->wifi.configured
  waited,      \* RECONNECT_RETRY_MS have passed since s_disconnected_at_ms
  op,          \* per task: the step it is at, and its attempt in connect_sta
  fired,       \* s_on_conn_fired
  cbs,         \* s_on_conn_cbs
  net,         \* external: the network, the link and the automatic reconnection
  seen         \* history: callbacks told since the flag was raised, bounds

wvars == <<state, softap, configured, waited, op, fired, cbs, net, seen>>
own   == <<softap, configured, cbs>>

WifiAssumption == MaxCbs \in Nat /\ MaxDrops \in Nat /\ MaxManual \in Nat /\ IsFiniteSet(Callbacks)

Tasks == {"mgr", "user"}
At(t, at)  == op' = [op EXCEPT ![t].at = at]
Rest(t)    == op' = [op EXCEPT ![t] = [at |-> IF t = "mgr" THEN "watch" ELSE "idle", try |-> 0]]

Init ==
  /\ state = "idle" /\ softap = FALSE /\ configured \in BOOLEAN /\ waited = FALSE
  /\ op = [t \in Tasks |-> [at |-> IF t = "mgr" THEN "start" ELSE "idle", try |-> 0]]
  /\ fired = FALSE /\ cbs = {}
  /\ \E link \in {"down"} \cup IF configured THEN {"joined"} ELSE {} :
       net = [ap |-> TRUE, link |-> link, auto |-> FALSE, retry |-> "no", drops |-> 0]
  /\ seen = [told |-> {}, early |-> FALSE, manual |-> 0]

Active == net.auto /\ net.retry # "no"                 \* claw_autoreconn_active
Down   == IF softap THEN "provisioning" ELSE "disconnected"

-----------------------------------------------------------------------------
(* The callbacks.  Registration and notification decide under one lock who *)
(* calls: the notifier those it finds, a late registrant itself.           *)
Register(cb) ==
  /\ cb \notin cbs
  /\ cbs' = IF Cardinality(cbs) < MaxCbs THEN cbs \cup {cb} ELSE cbs
  /\ seen' = IF fired THEN [seen EXCEPT !.told = @ \cup {cb}] ELSE seen
  /\ UNCHANGED <<state, softap, configured, waited, op, fired, net>>

Notify(h) == fired' = TRUE /\ seen' = IF fired THEN h ELSE [h EXCEPT !.told = cbs]

(* Mutant of Forgotten: the flag stays up over a disconnection.            *)
Forgotten_Not == UNCHANGED fired

Forgotten == fired' = FALSE
Untold    == seen' = [seen EXCEPT !.told = {}]

(* claw_on_dhcp_status and the disconnection of claw_on_join_status.       *)
GotAddress   == state' = "connected" /\ Notify(seen)
Disconnected == state' = Down /\ waited' = FALSE /\ Forgotten /\ Untold
LinkDown(n)  == [n EXCEPT !.link = "down", !.retry = IF n.auto THEN "waiting" ELSE "no"]

-----------------------------------------------------------------------------
(* The network and the driver. *)
Drop(n) == net.drops < MaxDrops /\ net' = [n EXCEPT !.drops = @ + 1]

ApFails  == net.ap /\ Drop([net EXCEPT !.ap = FALSE]) /\ UNCHANGED <<state, waited, op, fired, seen>> /\ UNCHANGED own
ApBack   == ~net.ap /\ net' = [net EXCEPT !.ap = TRUE] /\ UNCHANGED <<state, waited, op, fired, seen>> /\ UNCHANGED own
LinkLost ==
  /\ net.link # "down"
  /\ IF net.ap THEN Drop(LinkDown(net)) ELSE net' = LinkDown(net)
  /\ Disconnected /\ UNCHANGED op /\ UNCHANGED own

(* The lease ends, or its renewal is not answered.                         *)
LeaseLost ==
  /\ net.link = "address"
  /\ \E link \in {"expired", "renewing"} : Drop([net EXCEPT !.link = link])
  /\ UNCHANGED <<state, waited, op, fired, seen>> /\ UNCHANGED own

DhcpAssigned ==
  /\ net.ap /\ net.link = "joined"
  /\ net' = [net EXCEPT !.link = "address"]
  /\ GotAddress /\ UNCHANGED <<waited, op>> /\ UNCHANGED own

RetryStarts == net.retry = "waiting" /\ net' = [net EXCEPT !.retry = "ongoing"]
               /\ UNCHANGED <<state, waited, op, fired, seen>> /\ UNCHANGED own
RetryJoins  == net.retry = "ongoing" /\ net.ap /\ net.link = "down"
               /\ net' = [net EXCEPT !.retry = "no", !.link = "joined"]
               /\ UNCHANGED <<state, waited, op, fired, seen>> /\ UNCHANGED own
RetryFails  == net.retry = "ongoing" /\ \E r \in {"waiting", "no"} : net' = [net EXCEPT !.retry = r]
               /\ UNCHANGED <<state, waited, op, fired, seen>> /\ UNCHANGED own

-----------------------------------------------------------------------------
(* claw_wifi_mgr_connect_sta, by the manager's task or another: up to      *)
(* three blocking attempts, then the wait for an address.                  *)
Attempt(t) ==
  /\ op[t].at = "attempt"
  /\ state' = "connecting"
  /\ op' = [op EXCEPT ![t] = [at |-> "calling", try |-> @.try + 1]]
  /\ UNCHANGED <<waited, fired, net, seen>> /\ UNCHANGED own

(* A join saves the credentials it used.                                   *)
Joins(t) ==
  /\ op[t].at = "calling" /\ net.ap /\ net.retry # "ongoing"
  /\ net' = [net EXCEPT !.link = "joined", !.retry = "no"]
  /\ IF net.link = "down" THEN UNCHANGED <<state, waited, fired, seen>> ELSE Disconnected
  /\ configured' = TRUE
  /\ At(t, "lease") /\ UNCHANGED <<softap, cbs>>

GivesUp(t) == state' = Down /\ waited' = FALSE /\ Rest(t)

JoinFails(t) ==
  /\ op[t].at = "calling"
  /\ \/ op[t].try < 3 /\ At(t, "attempt") /\ UNCHANGED <<state, waited>>
     \/ GivesUp(t)
  /\ UNCHANGED <<fired, net, seen>> /\ UNCHANGED own

Leased(t) ==
  /\ op[t].at = "lease" /\ state = "connected"
  /\ waited' = (waited /\ t = "user") /\ Rest(t)
  /\ UNCHANGED <<state, fired, net, seen>> /\ UNCHANGED own

(* wifi_disconnect, whose event is handled before the state is set.        *)
LeaseTimeout(t) ==
  /\ op[t].at = "lease" /\ state # "connected"
  /\ net' = LinkDown(net)
  /\ IF net.link = "down" THEN UNCHANGED <<fired, seen>> ELSE Forgotten /\ Untold
  /\ GivesUp(t) /\ UNCHANGED own

Manual ==
  /\ op["user"].at = "idle" /\ seen.manual < MaxManual
  /\ seen' = [seen EXCEPT !.manual = @ + 1]
  /\ At("user", "attempt")
  /\ UNCHANGED <<state, waited, fired, net>> /\ UNCHANGED own

-----------------------------------------------------------------------------
(* claw_wifi_mgr_start. *)
StartProvisioning ==
  /\ op["mgr"].at = "start" /\ ~configured
  /\ state' = "provisioning"
  /\ \/ softap' = TRUE /\ At("mgr", "poll")
     \/ softap' = FALSE /\ At("mgr", "watch")            \* wifi_start_ap fails
  /\ UNCHANGED <<configured, waited, fired, cbs, net, seen>>

StartConnected ==
  /\ op["mgr"].at = "start" /\ configured /\ state = "connected"
  /\ net' = [net EXCEPT !.auto = TRUE] /\ At("mgr", "tell")
  /\ UNCHANGED <<state, waited, fired, seen>> /\ UNCHANGED own

(* The connection may be gone by now: the flag then stays up for the next. *)
StartTells ==
  /\ op["mgr"].at = "tell"
  /\ Notify(IF state = "connected" THEN seen ELSE [seen EXCEPT !.early = TRUE])
  /\ Rest("mgr") /\ UNCHANGED <<state, waited, net>> /\ UNCHANGED own

StartTimeout ==
  /\ op["mgr"].at = "start" /\ configured /\ state # "connected"
  /\ net' = [LinkDown(net) EXCEPT !.auto = TRUE]
  /\ IF net.link = "down" THEN UNCHANGED <<state, waited, fired, seen>> ELSE Disconnected
  /\ At("mgr", "attempt") /\ UNCHANGED own

(* claw_wifi_poll_provisioning ends when a connection is seen; only then   *)
(* is automatic reconnection enabled.                                      *)
Provisioned ==
  /\ op["mgr"].at = "poll" /\ state = "connected" /\ configured
  /\ net' = [net EXCEPT !.auto = TRUE] /\ Rest("mgr")
  /\ UNCHANGED <<state, waited, fired, seen>> /\ UNCHANGED own

-----------------------------------------------------------------------------
(* The watchdog.  Mutant of StaDown: not while the access point is up.     *)
StaDown_NoSoftap == state = "disconnected"

StaDown == state = "disconnected" \/ (state = "provisioning" /\ softap /\ configured)

GraceOver == ~waited /\ waited' = TRUE /\ UNCHANGED <<state, op, fired, net, seen>> /\ UNCHANGED own

WatchReconnects ==
  /\ op["mgr"].at = "watch" /\ StaDown /\ waited /\ ~Active
  /\ At("mgr", "attempt") /\ UNCHANGED <<state, waited, fired, net, seen>> /\ UNCHANGED own

WatchRequests ==
  /\ op["mgr"].at = "watch" /\ state = "connected" /\ net.link \in {"expired", "renewing"} /\ ~Active
  /\ At("mgr", "request") /\ UNCHANGED <<state, waited, fired, net, seen>> /\ UNCHANGED own

RequestOk ==
  /\ op["mgr"].at = "request" /\ net.ap /\ net.link \in {"joined", "expired", "renewing"}
  /\ net' = [net EXCEPT !.link = "address"]
  /\ GotAddress /\ Rest("mgr") /\ UNCHANGED waited /\ UNCHANGED own

RequestFails ==
  /\ op["mgr"].at = "request"
  /\ \/ Active /\ Rest("mgr") /\ UNCHANGED state
     \/ ~Active /\ state' = Down /\ At("mgr", "attempt")
  /\ UNCHANGED <<waited, fired, net, seen>> /\ UNCHANGED own

Environment == ApFails \/ LinkLost \/ LeaseLost
Retries     == RetryStarts \/ RetryFails
Connect(t)  == Attempt(t) \/ JoinFails(t) \/ Leased(t) \/ LeaseTimeout(t)
Manage      ==
  \/ StartProvisioning \/ StartConnected \/ StartTells \/ StartTimeout \/ Provisioned
  \/ WatchReconnects \/ WatchRequests \/ RequestFails

Next ==
  \/ \E cb \in Callbacks : Register(cb)
  \/ Environment \/ ApBack \/ DhcpAssigned \/ Retries \/ RetryJoins
  \/ Manual \/ GraceOver \/ Manage \/ RequestOk
  \/ \E t \in Tasks : Connect(t) \/ Joins(t)

Spec == Init /\ [][Next]_wvars

(* The tasks run, calls return, the network comes back, and what it is     *)
(* asked for again and again, by whomever, it grants once.                 *)
Fairness ==
  /\ WF_wvars(ApBack) /\ WF_wvars(Retries) /\ WF_wvars(GraceOver) /\ WF_wvars(Manage)
  /\ SF_wvars(DhcpAssigned \/ RequestOk) /\ SF_wvars(RetryJoins \/ \E t \in Tasks : Joins(t))
  /\ \A t \in Tasks : WF_wvars(Connect(t))
-----------------------------------------------------------------------------
(* Properties *)

TypeOK ==
  /\ state \in {"idle", "provisioning", "connecting", "connected", "disconnected"}
  /\ softap \in BOOLEAN /\ configured \in BOOLEAN /\ waited \in BOOLEAN /\ fired \in BOOLEAN
  /\ cbs \subseteq Callbacks /\ Cardinality(cbs) <= MaxCbs /\ seen.told \subseteq Callbacks
  /\ net.link \in {"down", "joined", "address", "expired", "renewing"} /\ net.retry \in {"no", "waiting", "ongoing"}
  /\ \A t \in Tasks : op[t].at \in {"idle", "start", "tell", "poll", "watch", "request", "attempt", "calling", "lease"}
                      /\ op[t].try \in 0..3

(* Every callback is told of every connection, however late it registers:  *)
(* while the station is connected none is missing; but for a connection    *)
(* that follows one lost while the boot was about to tell of it.           *)
ConnectionTold == state = "connected" /\ ~seen.early => cbs \subseteq seen.told

(* Under the watchdog a configured station is connected again whatever the *)
(* network, the automatic reconnection and other connecting tasks do,      *)
(* except where the access point failed to start and no one has connected. *)
Watched == op["mgr"].at = "watch" /\ configured /\ (state = "provisioning" => softap)
Reconnects == Watched ~> state = "connected" /\ net.link = "address"
=============================================================================
