--------------------------- MODULE BleConnection ---------------------------
(***************************************************************************)
(* The Sidewalk connection over BLE: sid_ble_connection.c, with the         *)
(* operations of sid_ble_adapter.c and sid_ble_service.c that use the       *)
(* connection.                                                              *)
(*                                                                         *)
(* Two threads meet on conn_data: the Bluetooth host ("connected",          *)
(* "disconnected") and the Sidewalk thread (parameters, data, power and     *)
(* signal strength, disconnect). Only the reference itself is changed       *)
(* under bt_conn_mutex; it is read without. The host hands out connection   *)
(* objects from a pool of BT_MAX_CONN, which DFU mode shares: an object is  *)
(* used again once its link is down and nobody has a reference.             *)
(*                                                                         *)
(* Advertising is BleAdvert's: here it is only on or off, and ends with a   *)
(* connection.                                                              *)
(***************************************************************************)
EXTENDS Integers

CONSTANTS
    Conns,      \* the connection objects, BT_MAX_CONN of them
    Peers,      \* addresses of centrals
    Params,     \* connection parameters
    NULL

ASSUME NullAssumption == NULL \notin Conns \cup Peers \cup Params

Ids == {"sidewalk", "dfu"}      \* the identity a central connected to

VARIABLES
    state,          \* host: "free", "up" or "lost" (to be reported) per object
    peer, id,       \* host: who is connected, to which identity
    params,         \* host: the parameters of the link
    refs,           \* references the module has on each object
    conn, addr,     \* conn_data
    conn_params_next, conn_params_prev,
    ptr,            \* is conn_data_ptr set?
    advertising,
    host,           \* the host thread: [at, c], in a callback for c
    sid,            \* the Sidewalk thread: [at, op, c, p, cleared], in an
                    \* operation; cleared: the connection ended inside of it
    told,           \* the peer the library was told of, or NULL
    overlap,        \* history: was there a second Sidewalk connection at once?
    asked,          \* history: the parameters the library last asked for
    request,        \* history: "taken" or "refused", what became of the last
                    \* request for parameters to the host
    raced,          \* history: did connecting meet the last parameter update?
    nulluse         \* history: was NULL passed to the host by an operation
                    \* the connection did not end inside of?

hostVars == <<state, peer, id>>
dataVars == <<refs, conn, addr>>
paramVars == <<params, conn_params_next, conn_params_prev>>
historyVars == <<overlap, raced, nulluse, asked, request>>
vars == <<hostVars, dataVars, paramVars, ptr, advertising, host, sid, told, historyVars>>

HostIdle == [at |-> "idle", c |-> NULL]
SidIdle == [at |-> "idle", op |-> "none", c |-> NULL, p |-> NULL, cleared |-> FALSE]

Init ==
    /\ state = [c \in Conns |-> "free"]
    /\ peer = [c \in Conns |-> NULL] /\ id = [c \in Conns |-> "sidewalk"]
    /\ params = [c \in Conns |-> NULL] /\ refs = [c \in Conns |-> 0]
    /\ conn = NULL /\ addr = NULL
    /\ conn_params_next \in Params /\ conn_params_prev = conn_params_next
    /\ ptr = FALSE /\ advertising = FALSE
    /\ host = HostIdle /\ sid = SidIdle /\ told = NULL
    /\ overlap = FALSE /\ raced = FALSE /\ nulluse = FALSE
    /\ asked = conn_params_next /\ request = "taken"

Updating == sid.op = "update"

----------------------------------------------------------------------------
(* The host: a central connects, which ends the advertising of its set, a  *)
(* link is lost at any time, and the thread reports one or the other.       *)

Connect(c, p, i) ==
    /\ host = HostIdle /\ state[c] = "free" /\ refs[c] = 0
    /\ i = "sidewalk" => advertising
    /\ \A d \in Conns : state[d] = "up" => peer[d] # p
    /\ state' = [state EXCEPT ![c] = "up"] /\ peer' = [peer EXCEPT ![c] = p]
    /\ id' = [id EXCEPT ![c] = i] /\ params' = [params EXCEPT ![c] = NULL]
    /\ advertising' = (advertising /\ i # "sidewalk")
    /\ host' = [at |-> "connected", c |-> c]
    /\ overlap' = (overlap \/ (i = "sidewalk" /\ conn # NULL))
    /\ UNCHANGED <<dataVars, conn_params_next, conn_params_prev, ptr, sid, told, raced, nulluse,
                   asked, request>>

LinkLost(c) ==
    /\ state[c] = "up" /\ state' = [state EXCEPT ![c] = "lost"]
    /\ UNCHANGED <<peer, id, dataVars, paramVars, ptr, advertising, host, sid, told, historyVars>>

ReportLost(c) ==
    /\ host = HostIdle /\ state[c] = "lost"
    /\ host' = [at |-> "disconnected", c |-> c]
    /\ UNCHANGED <<hostVars, dataVars, paramVars, ptr, advertising, sid, told, historyVars>>

At(s) == host.at = s
HostGoes(s) == host' = [host EXCEPT !.at = s]

ble_conn_is_valid(c) == id[c] = "sidewalk"

----------------------------------------------------------------------------
(* ble_connect_cb: the address, then under the mutex the reference and the *)
(* library's callback, then the parameters.                                 *)

\* Mutant: the address of the connection before it stays in place.
MutPeerAddress(c) == addr

PeerAddress(c) == peer[c]

ConnectAddress ==
    /\ At("connected")
    /\ IF ble_conn_is_valid(host.c)
       THEN addr' = PeerAddress(host.c) /\ HostGoes("ref")
       ELSE host' = HostIdle /\ UNCHANGED addr
    /\ UNCHANGED <<hostVars, refs, conn, paramVars, ptr, advertising, sid, told, historyVars>>

ConnectReference ==
    /\ At("ref") /\ HostGoes("params")
    /\ conn' = host.c /\ refs' = [refs EXCEPT ![host.c] = @ + 1]
    /\ told' = addr
    /\ raced' = (raced \/ Updating)
    /\ UNCHANGED <<hostVars, addr, paramVars, ptr, advertising, sid, overlap, nulluse,
                   asked, request>>

(* bt_conn_le_param_update: the host takes the request or refuses it, and  *)
(* refuses one for a link that is down. Its error is only logged.           *)
bt_conn_le_param_update(c, p) ==
    \/ /\ state[c] = "up"
       /\ params' = [params EXCEPT ![c] = p] /\ request' = "taken"
    \/ request' = "refused" /\ UNCHANGED params

ConnectParams ==
    /\ At("params") /\ host' = HostIdle
    /\ bt_conn_le_param_update(host.c, conn_params_next)
    /\ raced' = Updating
    /\ UNCHANGED <<hostVars, dataVars, conn_params_next, conn_params_prev, ptr, advertising,
                   sid, told, overlap, nulluse, asked>>

(* ble_disconnect_cb: only for the connection conn_data has. The library   *)
(* is told first, then the reference is given back under the mutex.        *)

DisconnectCheck ==
    /\ At("disconnected")
    /\ IF ble_conn_is_valid(host.c) /\ conn = host.c
       THEN /\ conn_params_prev' = params[host.c]
            /\ HostGoes("tell") /\ UNCHANGED state
       ELSE /\ host' = HostIdle /\ state' = [state EXCEPT ![host.c] = "free"]
            /\ UNCHANGED conn_params_prev
    /\ UNCHANGED <<peer, id, dataVars, params, conn_params_next, ptr, advertising, sid, told, historyVars>>

\* Mutant: the reference is forgotten and not given back.
MutUnref(c) == refs

Unref(c) == [refs EXCEPT ![c] = @ - 1]

TellEnd == told' = NULL /\ UNCHANGED <<refs, conn, sid>>

DropReference ==
    /\ refs' = Unref(host.c) /\ conn' = NULL
    /\ sid' = [sid EXCEPT !.cleared = (sid # SidIdle)] /\ UNCHANGED told

\* Mutant: the reference is dropped first and the library told after it.
MutDisconnectEnd ==
    /\ \/ At("tell") /\ HostGoes("unref") /\ DropReference /\ UNCHANGED state
       \/ /\ At("unref") /\ host' = HostIdle /\ TellEnd
          /\ state' = [state EXCEPT ![host.c] = "free"]
    /\ UNCHANGED <<peer, id, addr, paramVars, ptr, advertising, historyVars>>

DisconnectEnd ==
    /\ \/ At("tell") /\ HostGoes("unref") /\ TellEnd /\ UNCHANGED state
       \/ /\ At("unref") /\ host' = HostIdle /\ DropReference
          /\ state' = [state EXCEPT ![host.c] = "free"]
    /\ UNCHANGED <<peer, id, addr, paramVars, ptr, advertising, historyVars>>

HostCallbacks ==
    \/ ConnectAddress \/ ConnectReference \/ ConnectParams
    \/ DisconnectCheck \/ DisconnectEnd

----------------------------------------------------------------------------
(* The Sidewalk thread. Between init and deinit the library starts and     *)
(* stops advertising, also while connected (user_config), and runs         *)
(* operations on the connection: each looks at conn_data.conn first and    *)
(* uses it later. "handle" stands for get_rssi, get_tx_pwr and set_tx_pwr. *)

AdapterInit ==
    /\ sid = SidIdle /\ ~ptr /\ ptr' = TRUE
    /\ UNCHANGED <<hostVars, dataVars, paramVars, advertising, host, sid, told, historyVars>>

AdapterDeinit ==
    /\ sid = SidIdle /\ ptr /\ ptr' = FALSE /\ advertising' = FALSE
    /\ UNCHANGED <<hostVars, dataVars, paramVars, host, sid, told, historyVars>>

AdapterAdvertise(on) ==
    /\ sid = SidIdle /\ ptr /\ advertising # on /\ advertising' = on
    /\ UNCHANGED <<hostVars, dataVars, paramVars, ptr, host, sid, told, historyVars>>

Enter(op, at, c, p) == sid' = [at |-> at, op |-> op, c |-> c, p |-> p, cleared |-> FALSE]

(* Without a connection an update only keeps the parameters, a query       *)
(* returns the previous ones and the others return an error.               *)
UpdateCheck(p) ==
    /\ sid = SidIdle /\ ptr
    /\ Enter("update", IF conn = NULL THEN "memcpy" ELSE "use", NULL, p)
    /\ raced' = FALSE /\ asked' = p
    /\ UNCHANGED <<hostVars, dataVars, paramVars, ptr, advertising, host, told, overlap, nulluse,
                   request>>

Check(op) ==
    /\ sid = SidIdle /\ ptr /\ conn # NULL
    /\ Enter(op, "use", NULL, NULL)
    /\ UNCHANGED <<hostVars, dataVars, paramVars, ptr, advertising, host, told, historyVars>>

(* Sending looks at nothing: the library sends while it was told of a      *)
(* connection, and the pointer is read on the way.                         *)
SendData ==
    /\ sid = SidIdle /\ ptr /\ told # NULL
    /\ Enter("send", "read", NULL, told)
    /\ UNCHANGED <<hostVars, dataVars, paramVars, ptr, advertising, host, told, historyVars>>

get_srv_params ==
    /\ sid.at = "read" /\ sid' = [sid EXCEPT !.at = "use", !.c = conn]
    /\ UNCHANGED <<hostVars, dataVars, paramVars, ptr, advertising, host, told, historyVars>>

Target == IF sid.op = "send" THEN sid.c ELSE conn

(* NULL reaches the host; if it survives, its error is only logged.        *)
UseNull ==
    /\ sid.at = "use" /\ Target = NULL
    /\ nulluse' = (nulluse \/ ~sid.cleared)
    /\ sid' = IF Updating THEN [sid EXCEPT !.at = "memcpy"] ELSE SidIdle
    /\ UNCHANGED <<hostVars, dataVars, paramVars, ptr, advertising, host, told, overlap, raced,
                   asked, request>>

UseUpdate ==
    /\ sid.at = "use" /\ sid.op = "update" /\ Target # NULL
    /\ bt_conn_le_param_update(Target, sid.p)
    /\ sid' = [sid EXCEPT !.at = "memcpy"]
    /\ UNCHANGED <<hostVars, dataVars, conn_params_next, conn_params_prev, ptr, advertising,
                   host, told, overlap, raced, nulluse, asked>>

\* Mutant: the parameters are kept for the next connection only when there
\* is none.
MutKept(p) == IF conn = NULL THEN p ELSE conn_params_next

Kept(p) == p

UpdateMemcpy ==
    /\ sid.at = "memcpy" /\ sid' = SidIdle
    /\ conn_params_next' = Kept(sid.p)
    /\ UNCHANGED <<hostVars, dataVars, params, conn_params_prev, ptr, advertising, host, told, historyVars>>

UseGet ==
    /\ sid.at = "use" /\ sid.op = "get" /\ Target # NULL /\ sid' = SidIdle
    /\ conn_params_prev' = params[Target]
    /\ UNCHANGED <<hostVars, dataVars, params, conn_params_next, ptr, advertising, host, told, historyVars>>

UseDisconnect ==
    /\ sid.at = "use" /\ sid.op = "disconnect" /\ Target # NULL /\ sid' = SidIdle
    /\ state' = IF state[Target] = "up" THEN [state EXCEPT ![Target] = "lost"] ELSE state
    /\ UNCHANGED <<peer, id, dataVars, paramVars, ptr, advertising, host, told, historyVars>>

(* Data goes to whoever is on the object now; a link that is down refuses. *)
UseSend ==
    /\ sid.at = "use" /\ sid.op \in {"send", "handle"} /\ Target # NULL /\ sid' = SidIdle
    /\ UNCHANGED <<hostVars, dataVars, paramVars, ptr, advertising, host, told, historyVars>>

SidUses == UseNull \/ UseUpdate \/ UpdateMemcpy \/ UseGet \/ UseDisconnect \/ UseSend

----------------------------------------------------------------------------
Next ==
    \/ \E c \in Conns :
          \/ \E p \in Peers, i \in Ids : Connect(c, p, i)
          \/ LinkLost(c) \/ ReportLost(c)
    \/ HostCallbacks
    \/ AdapterInit \/ AdapterDeinit
    \/ \E on \in BOOLEAN : AdapterAdvertise(on)
    \/ \E p \in Params : UpdateCheck(p)
    \/ \E op \in {"get", "disconnect", "handle"} : Check(op)
    \/ SendData \/ get_srv_params \/ SidUses

Spec == Init /\ [][Next]_vars

----------------------------------------------------------------------------
Operations ==
    [at : {"idle", "read", "use", "memcpy"},
     op : {"none", "update", "get", "disconnect", "handle", "send"},
     c : Conns \cup {NULL}, p : Peers \cup Params \cup {NULL}, cleared : BOOLEAN]

TypeOK ==
    /\ state \in [Conns -> {"free", "up", "lost"}]
    /\ peer \in [Conns -> Peers \cup {NULL}] /\ id \in [Conns -> Ids]
    /\ params \in [Conns -> Params \cup {NULL}] /\ refs \in [Conns -> 0 .. 1]
    /\ conn \in Conns \cup {NULL} /\ addr \in Peers \cup {NULL} /\ told \in Peers \cup {NULL}
    /\ conn_params_next \in Params /\ conn_params_prev \in Params \cup {NULL}
    /\ ptr \in BOOLEAN /\ advertising \in BOOLEAN
    /\ overlap \in BOOLEAN /\ raced \in BOOLEAN /\ nulluse \in BOOLEAN
    /\ asked \in Params /\ request \in {"taken", "refused"}
    /\ host \in [at : {"idle", "connected", "ref", "params", "disconnected", "tell", "unref"},
                  c : Conns \cup {NULL}]
    /\ sid \in Operations

(* Between callbacks the library knows exactly the central that is on the  *)
(* connection in conn_data, and a disconnection is reported for the        *)
(* address the connection was reported for, whatever connects to the DFU   *)
(* identity meanwhile and however objects are used again. A second         *)
(* Sidewalk connection, possible when advertising is restarted while       *)
(* connected, breaks this.                                                 *)
LibraryKnowsPeer ==
    ~overlap =>
        /\ host.at \in {"idle", "connected", "disconnected"} =>
               told = IF conn = NULL THEN NULL ELSE peer[conn]
        /\ host.at = "tell" => told = addr

(* References are balanced: between callbacks the module has one on the    *)
(* connection of conn_data and none on the others, so that no object of    *)
(* the pool is lost and none is used again under conn_data.                *)
ReferencesBalanced ==
    /\ \A c \in Conns : ~overlap => refs[c] = IF conn = c THEN 1 ELSE 0
    /\ conn # NULL => refs[conn] = 1 /\ state[conn] # "free"

(* Reading conn_data.conn without the mutex, and sending without looking   *)
(* at it at all, is safe as long as the connection does not end inside     *)
(* the operation: the pointer is set when the library is told of a         *)
(* connection, and cleared after it was told of the end.                   *)
NoNullUse == ~nulluse

(* The parameters last asked for are those of the next connection, and    *)
(* those of the one there is, asked before it or while connected, unless    *)
(* the host refused the last request, which is only logged, or connecting   *)
(* met the update.                                                         *)
ParamsApplied ==
    sid = SidIdle =>
        /\ conn_params_next = asked
        /\ conn # NULL /\ host.at = "idle" /\ state[conn] = "up"
             /\ request = "taken" /\ ~raced => params[conn] = asked

----------------------------------------------------------------------------
(* The inductive invariant: what each thread knows of conn_data between    *)
(* two of its steps, and what holds of conn_data and the library.          *)

(* The host's callback has an object that nobody else took or freed.       *)
HostKnows ==
    /\ host.at = "idle" => host = HostIdle
    /\ host.at # "idle" => host.c \in Conns
    /\ host.at \in {"connected", "ref"} => state[host.c] # "free" /\ refs[host.c] = 0
    /\ host.at = "ref" => id[host.c] = "sidewalk" /\ addr = peer[host.c]
    /\ host.at \in {"params", "tell", "unref"} => conn = host.c
    /\ host.at \in {"disconnected", "tell", "unref"} => state[host.c] = "lost"
    /\ host.at \in {"connected", "ref"} /\ ~overlap /\ id[host.c] = "sidewalk" => conn = NULL

(* conn_data has a Sidewalk connection, its address, and the library's     *)
(* knowledge goes with it.                                                 *)
DataKnown ==
    /\ conn # NULL => id[conn] = "sidewalk"
    /\ conn = NULL \/ host.at = "unref" => told = NULL
    /\ conn # NULL /\ ~overlap => addr = peer[conn] /\ (host.at # "unref" => told = addr)

(* An operation keeps its connection unless it ended inside of it.         *)
SidKnows ==
    /\ sid.at = "idle" => sid = SidIdle
    /\ sid.at = "read" => sid.op = "send"
    /\ sid.at = "memcpy" => sid.op = "update"
    /\ sid.op = "update" => sid.p \in Params
    /\ sid.at = "read" /\ ~sid.cleared => conn # NULL
    /\ sid.at = "use" /\ ~sid.cleared => Target # NULL

(* A link has the parameters kept, or those an update has just applied,    *)
(* unless they were refused; what is asked for is kept, or about to be.     *)
ParamsKnown ==
    /\ asked = IF sid.op = "update" THEN sid.p ELSE conn_params_next
    /\ conn # NULL /\ host.at # "params" /\ ~raced /\ request = "taken" /\ state[conn] = "up" =>
        /\ sid.op # "update" => params[conn] = conn_params_next
        /\ sid.at = "memcpy" => params[conn] = sid.p

IInv ==
    /\ TypeOK /\ HostKnows /\ ReferencesBalanced /\ DataKnown
    /\ SidKnows /\ ParamsKnown /\ NoNullUse
=============================================================================
