------------------------------ MODULE WsChannel ------------------------------
(***************************************************************************)
(* The WebSocket command channel between central and one collector         *)
(* (monctl_central/ws/connection_manager.py and router.py; the collector's *)
(* central/ws_client.py).  The collector holds one socket at a time, to    *)
(* whichever central node the load balancer picks; each node registers the *)
(* connection it was given last, and a key in Redis says that the          *)
(* collector is connected.  A command is sent by the node that got it if   *)
(* it has a connection, or else published to all nodes.                    *)
(***************************************************************************)
EXTENDS Integers, Sequences

CONSTANTS
    Nodes,      \* central nodes
    NoNode,
    Commands,   \* commands that users send, each at most once
    MaxSockets, \* bound: connections of the collector
    MaxCrashes  \* bound: restarts of a central node

ASSUME WsAssumption ==
    NoNode \notin Nodes /\ MaxSockets \in Nat /\ MaxCrashes \in Nat

Sockets == 1 .. MaxSockets

VARIABLES
    opened,  \* how many sockets the collector has opened
    node,    \* the node a socket leads to
    cur,     \* collector: its _ws, 0 when it has none
    stage,   \* central's handler of a socket: "none", "accepted",
             \*   "displacing", "announcing", "reading" or "ended"
    old,     \* the connection it displaced in connect()
    closed,  \* sockets that central closed
    reg,     \* _connections of each node, 0 for none
    keep,    \* connections whose keepalive loop runs
    key,     \* Redis: the node of the collector's key
    dels,    \* deletions of the key under way, by node
    st,      \* a command: "none", "local", "cast", "ok" or "failed"
    at,      \* the node that got it
    queue,   \* commands published, per listener
    call,    \* call[r][n]: the connection on which n awaits the answer to r
    wire,    \* commands on a socket, in order
    back,    \* answers on a socket
    resp,    \* Redis: answers to a published command
    ran,     \* history: how often the collector ran the command
    evicted, \* history: connections unregistered by another one's end
    moved,   \* history: commands under way when the collector reconnected
    crashes

sockVars == <<opened, node, cur, stage, old, closed, reg, keep, key, dels, evicted>>
cmdVars == <<st, at, queue, call, wire, back, resp, ran, moved>>
vars == <<sockVars, cmdVars, crashes>>

Init ==
    /\ opened = 0 /\ cur = 0
    /\ node = [s \in Sockets |-> NoNode]
    /\ stage = [s \in Sockets |-> "none"]
    /\ old = [s \in Sockets |-> 0]
    /\ closed = {} /\ keep = {} /\ key = NoNode
    /\ reg = [n \in Nodes |-> 0] /\ dels = [n \in Nodes |-> 0]
    /\ st = [r \in Commands |-> "none"] /\ at = [r \in Commands |-> NoNode]
    /\ queue = [n \in Nodes |-> <<>>]
    /\ call = [r \in Commands |-> [n \in Nodes |-> 0]]
    /\ wire = [s \in Sockets |-> <<>>] /\ back = [s \in Sockets |-> {}]
    /\ resp = [r \in Commands |-> {}]
    /\ ran = [r \in Commands |-> 0]
    /\ evicted = {} /\ moved = {} /\ crashes = 0

-----------------------------------------------------------------------------
(***************************************************************************)
(* WebSocketClient.run: connect, read until the socket breaks, and again.  *)
(***************************************************************************)
UnderWay == {r \in Commands : st[r] # "none"}

Open(n) ==
    /\ cur = 0 /\ opened < MaxSockets
    /\ opened' = opened + 1 /\ cur' = opened'
    /\ node' = [node EXCEPT ![opened'] = n]
    /\ stage' = [stage EXCEPT ![opened'] = "accepted"]
    /\ moved' = moved \cup UnderWay
    /\ UNCHANGED <<old, closed, reg, keep, key, dels, evicted, st, at, queue,
                   call, wire, back, resp, ran, crashes>>

(* The collector's side of the socket ends: the network, or central's      *)
(* close.  What was on the socket is lost.                                 *)
Drop ==
    /\ cur # 0
    /\ opened < MaxSockets \/ cur \in closed
    /\ cur' = 0
    /\ wire' = [wire EXCEPT ![cur] = <<>>] /\ back' = [back EXCEPT ![cur] = {}]
    /\ UNCHANGED <<opened, node, stage, old, closed, reg, keep, key, dels, evicted,
                   st, at, queue, call, resp, ran, moved, crashes>>

-----------------------------------------------------------------------------
(***************************************************************************)
(* ConnectionManager.connect: the new connection takes the old one's place *)
(* under the lock; then, with awaits between, the old keepalive is stopped *)
(* and the old socket closed, the new keepalive started, the key set.      *)
(***************************************************************************)
ConnectBesideOld(s) ==
    /\ stage[s] = "accepted"
    /\ reg' = [reg EXCEPT ![node[s]] = IF @ = 0 THEN s ELSE @]
    /\ stage' = [stage EXCEPT ![s] = "displacing"]
    /\ UNCHANGED <<opened, node, cur, old, closed, keep, key, dels, evicted,
                   cmdVars, crashes>>

Connect(s) ==
    /\ stage[s] = "accepted"
    /\ old' = [old EXCEPT ![s] = reg[node[s]]]
    /\ reg' = [reg EXCEPT ![node[s]] = s]
    /\ stage' = [stage EXCEPT ![s] = "displacing"]
    /\ UNCHANGED <<opened, node, cur, closed, keep, key, dels, evicted, cmdVars,
                   crashes>>

Displace(s) ==
    /\ stage[s] = "displacing"
    /\ closed' = IF old[s] = 0 THEN closed ELSE closed \cup {old[s]}
    /\ keep' = (keep \ {old[s]}) \cup {s}
    /\ stage' = [stage EXCEPT ![s] = "announcing"]
    /\ UNCHANGED <<opened, node, cur, old, reg, key, dels, evicted, cmdVars, crashes>>

Announce(s) ==
    /\ stage[s] = "announcing"
    /\ key' = node[s]
    /\ stage' = [stage EXCEPT ![s] = "reading"]
    /\ UNCHANGED <<opened, node, cur, old, closed, reg, keep, dels, evicted,
                   cmdVars, crashes>>

(***************************************************************************)
(* The handler's loop ends when central closed the socket or finds it      *)
(* broken; disconnect() then pops whatever is registered for the collector *)
(* and deletes the key in a task of its own.                               *)
(***************************************************************************)
Pops(s) == reg[node[s]]

Disconnect(s) ==
    LET x == Pops(s) IN
    /\ stage[s] = "reading" /\ (s \in closed \/ cur # s)
    /\ stage' = [stage EXCEPT ![s] = "ended"]
    /\ closed' = closed \cup {s}
    /\ reg' = [reg EXCEPT ![node[s]] = IF x = 0 THEN @ ELSE 0]
    /\ keep' = keep \ {x}
    /\ dels' = [dels EXCEPT ![node[s]] = IF x = 0 THEN @ ELSE @ + 1]
    /\ evicted' = IF x \in {0, s} THEN evicted ELSE evicted \cup {x}
    /\ UNCHANGED <<opened, node, cur, old, key, cmdVars, crashes>>

DeleteKey(n) ==
    /\ dels[n] > 0
    /\ dels' = [dels EXCEPT ![n] = @ - 1]
    /\ key' = NoNode
    /\ UNCHANGED <<opened, node, cur, stage, old, closed, reg, keep, evicted,
                   cmdVars, crashes>>

(* _keepalive_loop: a ping, and the key with a new TTL; or it breaks.      *)
KeepaliveOnlyPings(s) ==
    /\ s \in keep /\ (s \in closed \/ cur # s) /\ keep' = keep \ {s}
    /\ UNCHANGED <<opened, node, cur, stage, old, closed, reg, key, dels, evicted,
                   cmdVars, crashes>>

Keepalive(s) ==
    /\ s \in keep
    /\ \/ s \notin closed /\ key' = node[s] /\ UNCHANGED keep
       \/ (s \in closed \/ cur # s) /\ keep' = keep \ {s} /\ UNCHANGED key
    /\ UNCHANGED <<opened, node, cur, stage, old, closed, reg, dels, evicted,
                   cmdVars, crashes>>

KeyExpires ==
    /\ key # NoNode /\ \A s \in keep : node[s] # key
    /\ key' = NoNode
    /\ UNCHANGED <<opened, node, cur, stage, old, closed, reg, keep, dels, evicted,
                   cmdVars, crashes>>

-----------------------------------------------------------------------------
(***************************************************************************)
(* broadcast_command: on the node's own connection, or published to every  *)
(* listener.  send_request puts the command on the wire, and its answer or *)
(* its timeout removes it from the connection's pending requests.          *)
(***************************************************************************)
Ask(r, n, s) ==
    /\ call' = [call EXCEPT ![r][n] = s]
    /\ wire' = IF s = cur THEN [wire EXCEPT ![s] = Append(@, r)] ELSE wire

SendCommand(r, n) ==
    /\ st[r] = "none"
    /\ at' = [at EXCEPT ![r] = n]
    /\ IF reg[n] # 0
       THEN /\ st' = [st EXCEPT ![r] = "local"]
            /\ Ask(r, n, reg[n])
            /\ UNCHANGED queue
       ELSE /\ st' = [st EXCEPT ![r] = "cast"]
            /\ queue' = [m \in Nodes |-> Append(queue[m], r)]
            /\ UNCHANGED <<call, wire>>
    /\ UNCHANGED <<sockVars, back, resp, ran, moved, crashes>>

Busy(n) == \E r \in Commands : call[r][n] # 0 /\ ~(st[r] = "local" /\ at[r] = n)

(* _handle_broadcast_command: the listener takes one command at a time.    *)
HandleBroadcastAgain(n) ==
    /\ queue[n] # <<>> /\ ~Busy(n) /\ reg[n] # 0
    /\ Ask(Head(queue[n]), n, reg[n])
    /\ UNCHANGED <<sockVars, st, at, queue, back, resp, ran, moved, crashes>>

HandleBroadcast(n) ==
    LET r == Head(queue[n]) IN
    /\ queue[n] # <<>> /\ ~Busy(n)
    /\ queue' = [queue EXCEPT ![n] = Tail(@)]
    /\ IF reg[n] # 0 THEN Ask(r, n, reg[n]) ELSE UNCHANGED <<call, wire>>
    /\ UNCHANGED <<sockVars, st, at, back, resp, ran, moved, crashes>>

(* The end of a send_request: to the user, or into the response list.      *)
End(r, n, result) ==
    /\ call' = [call EXCEPT ![r][n] = 0]
    /\ IF st[r] = "local"
       THEN st' = [st EXCEPT ![r] = result] /\ UNCHANGED resp
       ELSE resp' = [resp EXCEPT ![r] = @ \cup {result}] /\ UNCHANGED st

RequestTimeout(r, n) ==
    /\ call[r][n] # 0
    /\ End(r, n, "failed")
    /\ UNCHANGED <<sockVars, at, queue, wire, back, ran, moved, crashes>>

(* The collector runs the commands of its socket one after the other; the  *)
(* handler's own error or timeout is an answer too.                        *)
Run ==
    /\ cur # 0 /\ wire[cur] # <<>>
    /\ ran' = [ran EXCEPT ![Head(wire[cur])] = @ + 1]
    /\ back' = [back EXCEPT ![cur] = @ \cup {Head(wire[cur])}]
    /\ wire' = [wire EXCEPT ![cur] = Tail(@)]
    /\ UNCHANGED <<sockVars, st, at, queue, call, resp, moved, crashes>>

(* handle_message looks the connection up by the collector, and the        *)
(* request in that connection's table.                                     *)
Resolves(r, n) == reg[n] # 0 /\ call[r][n] = reg[n]

Answer(s, r) ==
    /\ stage[s] = "reading" /\ s \notin closed /\ r \in back[s]
    /\ back' = [back EXCEPT ![s] = @ \ {r}]
    /\ IF Resolves(r, node[s]) THEN End(r, node[s], "ok")
                               ELSE UNCHANGED <<call, st, resp>>
    /\ UNCHANGED <<sockVars, at, queue, wire, ran, moved, crashes>>

(* BLPOP returns an answer, or times out.                                  *)
BlpopForEver(r) ==
    /\ st[r] = "cast"
    /\ \E result \in resp[r] : st' = [st EXCEPT ![r] = result]
    /\ UNCHANGED <<sockVars, at, queue, call, wire, back, resp, ran, moved, crashes>>

Blpop(r) ==
    /\ st[r] = "cast"
    /\ \E result \in resp[r] \cup {"failed"} : st' = [st EXCEPT ![r] = result]
    /\ UNCHANGED <<sockVars, at, queue, call, wire, back, resp, ran, moved, crashes>>

(* A node restarts: its sockets break, its listener misses what was        *)
(* published, its callers get an error.                                    *)
NodeRestart(n) ==
    LET mine == {s \in Sockets : node[s] = n} IN
    /\ crashes < MaxCrashes /\ crashes' = crashes + 1
    /\ closed' = closed \cup mine /\ keep' = keep \ mine
    /\ stage' = [s \in Sockets |-> IF s \in mine THEN "ended" ELSE stage[s]]
    /\ reg' = [reg EXCEPT ![n] = 0] /\ dels' = [dels EXCEPT ![n] = 0]
    /\ queue' = [queue EXCEPT ![n] = <<>>]
    /\ call' = [r \in Commands |-> [call[r] EXCEPT ![n] = 0]]
    /\ st' = [r \in Commands |->
         IF at[r] = n /\ st[r] \in {"local", "cast"} THEN "failed" ELSE st[r]]
    /\ UNCHANGED <<opened, node, cur, old, key, evicted, at, wire, back, resp, ran,
                   moved>>

-----------------------------------------------------------------------------
Handler(s) == Connect(s) \/ Displace(s) \/ Announce(s) \/ Disconnect(s)

Next ==
    \/ Drop \/ Run \/ KeyExpires
    \/ \E n \in Nodes : Open(n) \/ DeleteKey(n) \/ HandleBroadcast(n) \/ NodeRestart(n)
    \/ \E s \in Sockets : Handler(s) \/ Keepalive(s) \/ \E r \in Commands : Answer(s, r)
    \/ \E r \in Commands : Blpop(r) \/ \E n \in Nodes :
         SendCommand(r, n) \/ RequestTimeout(r, n)

(* The tasks of both programs run; a broken or closed socket is noticed; a *)
(* timeout fires.                                                          *)
Spec ==
    /\ Init /\ [][Next]_vars
    /\ WF_vars(\E n \in Nodes : Open(n)) /\ WF_vars(Run) /\ WF_vars(KeyExpires)
    /\ WF_vars(cur \in closed /\ Drop)
    /\ \A n \in Nodes : WF_vars(DeleteKey(n)) /\ WF_vars(HandleBroadcast(n))
    /\ \A s \in Sockets : WF_vars(Handler(s)) /\ WF_vars(Keepalive(s))
    /\ \A r \in Commands : WF_vars(\E s \in Sockets : Answer(s, r)) /\ WF_vars(Blpop(r))
    /\ \A r \in Commands, n \in Nodes : WF_vars(RequestTimeout(r, n))

-----------------------------------------------------------------------------
(* The types of the state.                                                 *)
TypeOK ==
    /\ opened \in 0 .. MaxSockets /\ cur \in 0 .. opened
    /\ node \in [Sockets -> Nodes \cup {NoNode}]
    /\ stage \in [Sockets -> {"none", "accepted", "displacing", "announcing",
                              "reading", "ended"}]
    /\ old \in [Sockets -> 0 .. MaxSockets]
    /\ closed \subseteq Sockets /\ keep \subseteq Sockets /\ evicted \subseteq Sockets
    /\ reg \in [Nodes -> 0 .. MaxSockets] /\ key \in Nodes \cup {NoNode}
    /\ dels \in [Nodes -> 0 .. MaxSockets]
    /\ st \in [Commands -> {"none", "local", "cast", "ok", "failed"}]
    /\ at \in [Commands -> Nodes \cup {NoNode}]
    /\ queue \in [Nodes -> Seq(Commands)] /\ wire \in [Sockets -> Seq(Commands)]
    /\ call \in [Commands -> [Nodes -> 0 .. MaxSockets]]
    /\ back \in [Sockets -> SUBSET Commands]
    /\ resp \in [Commands -> SUBSET {"ok", "failed"}]
    /\ ran \in [Commands -> Nat] /\ moved \subseteq Commands
    /\ crashes \in 0 .. MaxCrashes

(* A user is told of success only for a command the collector ran, however *)
(* sockets, nodes and answers were mixed up on the way.                    *)
OkWasRun == \A r \in Commands : st[r] = "ok" => ran[r] >= 1

(* A published command is offered to every node, and runs once all the     *)
(* same; twice only if the collector reconnected while it was under way.   *)
RunsTwiceOnlyAfterReconnect ==
    \A r \in Commands : ran[r] > 1 => r \in moved

(* The types, and what the sender of a command may rely on.                *)
ChannelInvariant == TypeOK /\ OkWasRun /\ RunsTwiceOnlyAfterReconnect

(* The collector's socket, its connect() over, and not displaced by that   *)
(* of another of its sockets.                                              *)
Active(s) ==
    /\ cur = s /\ stage[s] = "reading" /\ s \notin closed
    /\ \A t \in Sockets : old[t] # s

(* "Tracks all active collector WebSocket connections": an active one is   *)
(* the one its node sends on, unless the end of an older connection of     *)
(* that node took it from the table (disconnect pops by collector id).     *)
RegisteredUnlessEvicted ==
    \A s \in Sockets : Active(s) => reg[node[s]] = s \/ s \in evicted

(* Every command ends for the user who sent it.                            *)
CommandEnds ==
    \A r \in Commands : st[r] # "none" ~> st[r] \in {"ok", "failed"}

(* Once the collector stays connected, its node has it registered, no      *)
(* other node has, and Redis names that node, although the end of older    *)
(* connections deletes the key; or its registration was taken by the end   *)
(* of an older connection; or the bound on its sockets is used up.         *)
EventuallyReachable ==
    <>[](\/ cur = 0 /\ opened = MaxSockets
         \/ cur \in evicted
         \/ /\ cur # 0 /\ key = node[cur]
            /\ \A n \in Nodes : reg[n] = IF n = node[cur] THEN cur ELSE 0)
=============================================================================
