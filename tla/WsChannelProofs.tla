--------------------------- MODULE WsChannelProofs ---------------------------
(***************************************************************************)
(* The command channel, for any number of central nodes, commands, sockets *)
(* and restarts.                                                           *)
(***************************************************************************)
EXTENDS WsChannel, TLAPS, FiniteSetTheorems

(* A command is in a queue, and no command is in it twice.                 *)
In(q, r) == \E i \in 1 .. Len(q) : q[i] = r
Distinct(q) == \A i, j \in 1 .. Len(q) : q[i] = q[j] => i = j

LEMMA TailOfQueue ==
    ASSUME NEW S, NEW q \in Seq(S), q # <<>>
    PROVE  /\ Head(q) \in S /\ Tail(q) \in Seq(S) /\ In(q, Head(q))
           /\ \A x : In(Tail(q), x) => In(q, x)
           /\ Distinct(q) => Distinct(Tail(q)) /\ ~In(Tail(q), Head(q))
<1>1. /\ Len(q) \in Nat /\ Len(q) >= 1 /\ Head(q) = q[1] /\ Head(q) \in S
      /\ Tail(q) \in Seq(S) /\ Len(Tail(q)) = Len(q) - 1
      /\ \A i \in 1 .. Len(Tail(q)) : Tail(q)[i] = q[i + 1]
  OBVIOUS
<1> DEFINE t == Tail(q)
<1> HIDE DEF t
<1>2. /\ Len(t) = Len(q) - 1 /\ \A i \in 1 .. Len(t) : t[i] = q[i + 1] /\ i + 1 \in 1 .. Len(q)
  BY <1>1 DEF t
<1>3. In(q, Head(q))
  BY <1>1 DEF In
<1>4. \A x : In(t, x) => In(q, x)
  BY <1>2 DEF In
<1>5. ASSUME Distinct(q) PROVE Distinct(t) /\ ~In(t, Head(q))
  <2>1. Distinct(t)
    BY <1>1, <1>2, <1>5 DEF Distinct
  <2>2. ASSUME NEW i \in 1 .. Len(t), t[i] = Head(q) PROVE FALSE
    <3>1. q[i + 1] = q[1] /\ i + 1 \in 1 .. Len(q) /\ 1 \in 1 .. Len(q) /\ i + 1 # 1
      BY <1>1, <1>2, <2>2
    <3> QED BY <1>5, <3>1 DEF Distinct
  <2> QED BY <2>1, <2>2 DEF In
<1> QED BY <1>1, <1>3, <1>4, <1>5 DEF t

LEMMA AppendToQueue ==
    ASSUME NEW S, NEW q \in Seq(S), NEW r \in S
    PROVE  /\ Append(q, r) \in Seq(S)
           /\ \A x : In(Append(q, r), x) => In(q, x) \/ x = r
           /\ Distinct(q) /\ ~In(q, r) => Distinct(Append(q, r))
<1> DEFINE a == Append(q, r)
<1>1. /\ Len(q) \in Nat /\ a \in Seq(S) /\ Len(a) = Len(q) + 1 /\ a[Len(q) + 1] = r
      /\ \A i \in 1 .. Len(q) : a[i] = q[i]
  OBVIOUS
<1> HIDE DEF a
<1>2. \A i \in 1 .. Len(a) : i = Len(q) + 1 \/ i \in 1 .. Len(q)
  BY <1>1
<1>3. \A x : In(a, x) => In(q, x) \/ x = r
  BY <1>1, <1>2 DEF In
<1>4. ASSUME Distinct(q), ~In(q, r) PROVE Distinct(a)
  <2> SUFFICES ASSUME NEW i \in 1 .. Len(a), NEW j \in 1 .. Len(a), a[i] = a[j] PROVE i = j
    BY DEF Distinct
  <2>1. CASE i \in 1 .. Len(q) /\ j \in 1 .. Len(q)
    BY <1>1, <1>4, <2>1 DEF Distinct
  <2>2. CASE i = Len(q) + 1 /\ j \in 1 .. Len(q)
    BY <1>1, <1>4, <2>2 DEF In
  <2>3. CASE j = Len(q) + 1 /\ i \in 1 .. Len(q)
    BY <1>1, <1>4, <2>3 DEF In
  <2> QED BY <1>2, <2>1, <2>2, <2>3
<1> QED BY <1>1, <1>3, <1>4 DEF a

LEMMA EmptyQueue == \A x : ~In(<<>>, x) /\ Distinct(<<>>)
BY DEF In, Distinct

-----------------------------------------------------------------------------
(***************************************************************************)
(* The sockets.  Every node registers a socket of its own; a key deletion  *)
(* under way belongs to a connection that ended; a connection that was     *)
(* registered still is, unless it was displaced or evicted.                *)
(***************************************************************************)
Ended == {s \in Sockets : stage[s] = "ended"}

Registered ==
    \A s \in Sockets :
      /\ stage[s] \in {"displacing", "announcing", "reading"}
      /\ \A t \in Sockets : old[t] # s
      => reg[node[s]] = s \/ s \in evicted

SockInv ==
    /\ cur \in {0, opened}
    /\ \A s \in Sockets : (s <= opened => node[s] \in Nodes)
                          /\ (s > opened => stage[s] = "none" /\ node[s] = NoNode)
    /\ \A s \in Sockets : stage[s] \in {"none", "accepted"} => old[s] = 0
    /\ \A n \in Nodes : reg[n] # 0 => reg[n] \in Sockets /\ node[reg[n]] = n
    /\ \A n \in Nodes : dels[n] <= Cardinality(Ended)
    /\ Registered

(***************************************************************************)
(* The commands.  A command is in a queue once, on the wire of the current *)
(* socket once, and never in the queue of that socket's node as well; one  *)
(* that saw no reconnection has not run while it is in that queue or on    *)
(* that wire.  An answer exists only for a command that ran.               *)
(***************************************************************************)
InPlace ==
    /\ \A n \in Nodes : Distinct(queue[n])
    /\ \A s \in Sockets : Distinct(wire[s]) /\ (s # cur => wire[s] = <<>>)
    /\ \A s \in Sockets, n \in Nodes, r \in Commands :
         node[s] = n /\ In(wire[s], r) => ~In(queue[n], r)
    /\ \A r \in Commands : st[r] = "none" =>
         /\ ran[r] = 0
         /\ \A n \in Nodes : ~In(queue[n], r)
         /\ \A s \in Sockets : ~In(wire[s], r)

RunOnce ==
    \A r \in Commands \ moved :
      /\ ran[r] <= 1
      /\ \A s \in Sockets : In(wire[s], r) => ran[r] = 0
      /\ \A s \in Sockets, n \in Nodes :
           s = opened /\ node[s] = n /\ In(queue[n], r) => ran[r] = 0

Answered ==
    \A r \in Commands :
      \/ ran[r] >= 1
      \/ st[r] # "ok" /\ "ok" \notin resp[r] /\ \A s \in Sockets : r \notin back[s]

WInv == TypeOK /\ SockInv /\ InPlace /\ RunOnce /\ Answered

LEMMA InitWInv == Init => WInv
<1> SUFFICES ASSUME Init PROVE WInv
  OBVIOUS
<1>1. TypeOK
  BY WsAssumption DEF Init, TypeOK
<1>2. SockInv
  <2>1. Ended = {}
    BY DEF Init, Ended
  <2>a. Cardinality(Ended) = 0
    BY <2>1, FS_EmptySet
  <2>2. ASSUME NEW n \in Nodes PROVE dels[n] <= Cardinality(Ended)
    <3>1. dels[n] = 0
      BY DEF Init
    <3> QED BY <2>a, <3>1
  <2>3. \A s \in Sockets : s > 0 /\ ~(s <= 0)
    BY WsAssumption DEF Sockets
  <2> QED BY <2>2, <2>3 DEF Init, SockInv, Registered
<1>3. InPlace /\ RunOnce /\ Answered
  BY EmptyQueue DEF Init, InPlace, RunOnce, Answered
<1> QED BY <1>1, <1>2, <1>3 DEF WInv

-----------------------------------------------------------------------------
(***************************************************************************)
(* What the actions on commands have in common.                            *)
(***************************************************************************)

(* A command asked on a connection of node n goes on the wire of the       *)
(* current socket or nowhere, and from there to the collector.             *)
LEMMA AskOnWire ==
    ASSUME TypeOK, SockInv, NEW r \in Commands, NEW n \in Nodes, reg[n] # 0, Ask(r, n, reg[n])
    PROVE  /\ call' \in [Commands -> [Nodes -> 0 .. MaxSockets]]
           /\ wire' \in [Sockets -> Seq(Commands)]
           /\ \A s \in Sockets :
                \/ wire'[s] = wire[s]
                \/ s = cur /\ s = opened /\ node[s] = n /\ wire'[s] = Append(wire[s], r)
<1> DEFINE s == reg[n]
<1>1. s \in Sockets /\ node[s] = n /\ s \in 0 .. MaxSockets
  BY DEF SockInv, TypeOK
<1>2. /\ call' = [call EXCEPT ![r][n] = s]
      /\ wire' = IF s = cur THEN [wire EXCEPT ![s] = Append(wire[s], r)] ELSE wire
  BY DEF Ask
<1>3. call \in [Commands -> [Nodes -> 0 .. MaxSockets]] /\ wire \in [Sockets -> Seq(Commands)]
  BY DEF TypeOK
<1>4. s # 0
  OBVIOUS
<1> HIDE DEF s
<1>5. call' \in [Commands -> [Nodes -> 0 .. MaxSockets]]
  BY <1>1, <1>2, <1>3
<1>6. wire[s] \in Seq(Commands) /\ Append(wire[s], r) \in Seq(Commands)
  BY <1>1, <1>3, AppendToQueue
<1>7. s = cur => s = opened
  BY <1>4 DEF SockInv
<1> QED BY <1>1, <1>2, <1>3, <1>5, <1>6, <1>7

(* The end of a send_request.                                              *)
LEMMA EndOfRequest ==
    ASSUME TypeOK, NEW r \in Commands, NEW n \in Nodes, NEW result \in {"ok", "failed"},
           End(r, n, result)
    PROVE  /\ call' \in [Commands -> [Nodes -> 0 .. MaxSockets]]
           /\ st' \in [Commands -> {"none", "local", "cast", "ok", "failed"}]
           /\ resp' \in [Commands -> SUBSET {"ok", "failed"}]
           /\ \A x \in Commands :
                /\ st'[x] = "none" => st[x] = "none"
                /\ st'[x] = "ok" => st[x] = "ok" \/ (x = r /\ result = "ok")
                /\ "ok" \in resp'[x] => "ok" \in resp[x] \/ (x = r /\ result = "ok")
<1>1. /\ call \in [Commands -> [Nodes -> 0 .. MaxSockets]]
      /\ st \in [Commands -> {"none", "local", "cast", "ok", "failed"}]
      /\ resp \in [Commands -> SUBSET {"ok", "failed"}]
  BY DEF TypeOK
<1>2. /\ call' = [call EXCEPT ![r][n] = 0]
      /\ \/ st' = [st EXCEPT ![r] = result] /\ resp' = resp
         \/ resp' = [resp EXCEPT ![r] = @ \cup {result}] /\ st' = st
  BY DEF End
<1>3. 0 \in 0 .. MaxSockets
  BY WsAssumption
<1>4. call' \in [Commands -> [Nodes -> 0 .. MaxSockets]]
  BY <1>1, <1>2, <1>3
<1>5. CASE st' = [st EXCEPT ![r] = result] /\ resp' = resp
  BY <1>1, <1>4, <1>5
<1>6. CASE resp' = [resp EXCEPT ![r] = @ \cup {result}] /\ st' = st
  BY <1>1, <1>4, <1>6
<1> QED BY <1>2, <1>5, <1>6

-----------------------------------------------------------------------------
(***************************************************************************)
(* The types.                                                              *)
(***************************************************************************)
LEMMA SocketsFinite ==
    /\ IsFiniteSet(Ended) /\ Cardinality(Ended) \in Nat /\ Cardinality(Ended) <= MaxSockets
<1>1. IsFiniteSet(Sockets) /\ Cardinality(Sockets) = MaxSockets
  <2>1. IsFiniteSet(1 .. MaxSockets)
        /\ Cardinality(1 .. MaxSockets) = IF 1 > MaxSockets THEN 0 ELSE MaxSockets - 1 + 1
    BY WsAssumption, FS_Interval
  <2> QED BY <2>1, WsAssumption DEF Sockets
<1>2. Ended \in SUBSET Sockets
  BY DEF Ended
<1>3. IsFiniteSet(Ended) /\ Cardinality(Ended) <= Cardinality(Sockets)
  BY <1>1, <1>2, FS_Subset
<1> QED BY <1>1, <1>3, FS_CardinalityType

(* One more connection has ended, and one more deletion may be under way.  *)
LEMMA OneMoreEnded ==
    ASSUME TypeOK, NEW s \in Sockets, stage[s] # "ended", stage' = [stage EXCEPT ![s] = "ended"]
    PROVE  Cardinality(Ended') = Cardinality(Ended) + 1
<1>1. Ended' = Ended \cup {s} /\ s \notin Ended
  BY DEF Ended, TypeOK
<1> QED BY <1>1, SocketsFinite, FS_AddElement

LEMMA StepTypeOK ==
    ASSUME TypeOK, SockInv, Next
    PROVE  TypeOK'
<1>n. MaxSockets \in Nat /\ MaxCrashes \in Nat /\ opened \in 0 .. MaxSockets
      /\ crashes \in 0 .. MaxCrashes
  BY WsAssumption DEF TypeOK
<1>1. ASSUME NEW n \in Nodes, Open(n) PROVE TypeOK'
  <2>1. opened' \in 0 .. MaxSockets /\ cur' \in 0 .. opened' /\ opened' \in Sockets
    BY <1>1, <1>n DEF Open, Sockets
  <2> QED BY <1>1, <2>1 DEF Open, TypeOK, UnderWay
<1>2. CASE Drop
  <2>1. cur \in Sockets /\ cur' \in 0 .. opened
    BY <1>2, <1>n DEF Drop, TypeOK, Sockets
  <2>2. /\ wire' \in [Sockets -> Seq(Commands)] /\ back' \in [Sockets -> SUBSET Commands]
    BY <1>2, <2>1 DEF Drop, TypeOK
  <2> QED BY <1>2, <2>1, <2>2 DEF Drop, TypeOK
<1>3. ASSUME NEW s \in Sockets, Connect(s) PROVE TypeOK'
  <2>1. reg[node[s]] \in 0 .. MaxSockets /\ s \in 0 .. MaxSockets
    <3>1. node[s] \in Nodes
      <4>1. s <= opened
        BY <1>3, <1>n DEF Connect, SockInv, Sockets
      <4> QED BY <4>1 DEF SockInv
    <3> QED BY <3>1, <1>n DEF TypeOK, Sockets
  <2> QED BY <1>3, <2>1 DEF Connect, TypeOK, cmdVars
<1>4. ASSUME NEW s \in Sockets, Displace(s) PROVE TypeOK'
  <2>1. old[s] # 0 => old[s] \in Sockets
    BY <1>n DEF TypeOK, Sockets
  <2> QED BY <1>4, <2>1 DEF Displace, TypeOK, cmdVars
<1>5. ASSUME NEW s \in Sockets, Announce(s) PROVE TypeOK'
  BY <1>5 DEF Announce, TypeOK, cmdVars
<1>6. ASSUME NEW s \in Sockets, Disconnect(s) PROVE TypeOK'
  <2>0. node[s] \in Nodes
    <3>1. s <= opened
      BY <1>6, <1>n DEF Disconnect, SockInv, Sockets
    <3> QED BY <3>1 DEF SockInv
  <2> DEFINE n == node[s]
             x == reg[n]
  <2>1. /\ stage[s] = "reading" /\ stage' = [stage EXCEPT ![s] = "ended"]
        /\ closed' = closed \cup {s}
        /\ reg' = [reg EXCEPT ![n] = IF x = 0 THEN reg[n] ELSE 0]
        /\ keep' = keep \ {x}
        /\ dels' = [dels EXCEPT ![n] = IF x = 0 THEN dels[n] ELSE dels[n] + 1]
        /\ evicted' = IF x \in {0, s} THEN evicted ELSE evicted \cup {x}
        /\ UNCHANGED <<opened, node, cur, old, key, st, at, queue, call, wire, back, resp,
                       ran, moved, crashes>>
    BY <1>6 DEF Disconnect, Pops, cmdVars
  <2>2. x \in 0 .. MaxSockets /\ (x # 0 => x \in Sockets) /\ dels \in [Nodes -> 0 .. MaxSockets]
    BY <2>0, <1>n DEF TypeOK, Sockets
  <2>3. Cardinality(Ended) + 1 <= MaxSockets
    <3>1. Ended \cup {s} \in SUBSET Sockets /\ s \notin Ended
      BY <2>1 DEF Ended
    <3>2. Cardinality(Ended \cup {s}) = Cardinality(Ended) + 1
      BY <3>1, SocketsFinite, FS_AddElement
    <3>3. IsFiniteSet(Sockets) /\ Cardinality(Sockets) = MaxSockets
      BY <1>n, FS_Interval DEF Sockets
    <3> QED BY <3>1, <3>2, <3>3, FS_Subset
  <2>4. dels[n] \in Nat /\ dels[n] <= Cardinality(Ended) /\ Cardinality(Ended) \in Nat
    BY <2>0, <2>2, <1>n, SocketsFinite DEF SockInv
  <2>5. dels[n] + 1 \in 0 .. MaxSockets
    BY <1>n, <2>3, <2>4
  <2>6. 0 \in 0 .. MaxSockets
    BY <1>n
  <2> HIDE DEF n, x
  <2>7. /\ stage' \in [Sockets -> {"none", "accepted", "displacing", "announcing",
                                   "reading", "ended"}]
        /\ closed' \subseteq Sockets /\ keep' \subseteq Sockets /\ evicted' \subseteq Sockets
    BY <2>1, <2>2 DEF TypeOK
  <2>8. reg' \in [Nodes -> 0 .. MaxSockets] /\ dels' \in [Nodes -> 0 .. MaxSockets]
    BY <2>1, <2>2, <2>5, <2>6 DEF TypeOK
  <2> QED BY <2>1, <2>7, <2>8 DEF TypeOK
<1>7. ASSUME NEW n \in Nodes, DeleteKey(n) PROVE TypeOK'
  <2>1. dels[n] - 1 \in 0 .. MaxSockets
    BY <1>7, <1>n DEF DeleteKey, TypeOK
  <2> QED BY <1>7, <2>1 DEF DeleteKey, TypeOK, cmdVars
<1>8. ASSUME NEW s \in Sockets, Keepalive(s) PROVE TypeOK'
  BY <1>8 DEF Keepalive, TypeOK, cmdVars
<1>9. CASE KeyExpires
  BY <1>9 DEF KeyExpires, TypeOK, cmdVars
<1>10. ASSUME NEW r \in Commands, NEW n \in Nodes, SendCommand(r, n) PROVE TypeOK'
  <2>1. /\ at' = [at EXCEPT ![r] = n] /\ UNCHANGED <<sockVars, back, resp, ran, moved, crashes>>
    BY <1>10 DEF SendCommand
  <2>2. CASE reg[n] # 0
    <3>1. st' = [st EXCEPT ![r] = "local"] /\ Ask(r, n, reg[n]) /\ queue' = queue
      BY <1>10, <2>2 DEF SendCommand
    <3>2. /\ call' \in [Commands -> [Nodes -> 0 .. MaxSockets]]
          /\ wire' \in [Sockets -> Seq(Commands)]
      BY <2>2, <3>1, AskOnWire
    <3> QED BY <2>1, <3>1, <3>2 DEF TypeOK, sockVars
  <2>3. CASE reg[n] = 0
    <3>1. /\ st' = [st EXCEPT ![r] = "cast"] /\ UNCHANGED <<call, wire>>
          /\ queue' = [m \in Nodes |-> Append(queue[m], r)]
      BY <1>10, <2>3 DEF SendCommand
    <3>2. \A m \in Nodes : Append(queue[m], r) \in Seq(Commands)
      BY AppendToQueue DEF TypeOK
    <3> QED BY <2>1, <3>1, <3>2 DEF TypeOK, sockVars
  <2> QED BY <2>2, <2>3
<1>11. ASSUME NEW n \in Nodes, HandleBroadcast(n) PROVE TypeOK'
  <2> DEFINE r == Head(queue[n])
  <2>1. /\ queue[n] # <<>> /\ queue' = [queue EXCEPT ![n] = Tail(queue[n])]
        /\ UNCHANGED <<sockVars, st, at, back, resp, ran, moved, crashes>>
        /\ reg[n] # 0 => Ask(r, n, reg[n])
        /\ reg[n] = 0 => UNCHANGED <<call, wire>>
    BY <1>11 DEF HandleBroadcast
  <2>2. queue[n] \in Seq(Commands)
    BY DEF TypeOK
  <2>3. r \in Commands /\ Tail(queue[n]) \in Seq(Commands)
    BY <2>1, <2>2, TailOfQueue
  <2> HIDE DEF r
  <2>4. /\ call' \in [Commands -> [Nodes -> 0 .. MaxSockets]]
        /\ wire' \in [Sockets -> Seq(Commands)]
    <3>1. CASE reg[n] # 0
      BY <2>1, <2>3, <3>1, AskOnWire
    <3>2. CASE reg[n] = 0
      BY <2>1, <3>2 DEF TypeOK
    <3> QED BY <3>1, <3>2
  <2> QED BY <2>1, <2>3, <2>4 DEF TypeOK, sockVars
<1>12. ASSUME NEW r \in Commands, NEW n \in Nodes, RequestTimeout(r, n) PROVE TypeOK'
  <2>1. End(r, n, "failed") /\ UNCHANGED <<sockVars, at, queue, wire, back, ran, moved, crashes>>
    BY <1>12 DEF RequestTimeout
  <2>2. /\ call' \in [Commands -> [Nodes -> 0 .. MaxSockets]]
        /\ st' \in [Commands -> {"none", "local", "cast", "ok", "failed"}]
        /\ resp' \in [Commands -> SUBSET {"ok", "failed"}]
    BY <2>1, EndOfRequest
  <2> QED BY <2>1, <2>2 DEF TypeOK, sockVars
<1>13. CASE Run
  <2>1. /\ cur # 0 /\ wire[cur] # <<>>
        /\ ran' = [ran EXCEPT ![Head(wire[cur])] = @ + 1]
        /\ back' = [back EXCEPT ![cur] = @ \cup {Head(wire[cur])}]
        /\ wire' = [wire EXCEPT ![cur] = Tail(@)]
        /\ UNCHANGED <<sockVars, st, at, queue, call, resp, moved, crashes>>
    BY <1>13 DEF Run
  <2>2. cur \in Sockets
    BY <2>1, <1>n DEF TypeOK, Sockets
  <2>3. wire[cur] \in Seq(Commands)
    BY <2>2 DEF TypeOK
  <2>4. Head(wire[cur]) \in Commands /\ Tail(wire[cur]) \in Seq(Commands)
    BY <2>1, <2>3, TailOfQueue
  <2>5. wire' \in [Sockets -> Seq(Commands)] /\ back' \in [Sockets -> SUBSET Commands]
    BY <2>1, <2>4 DEF TypeOK
  <2>6. ran' \in [Commands -> Nat]
    <3> DEFINE h == Head(wire[cur])
    <3>1. ran' = [ran EXCEPT ![h] = ran[h] + 1] /\ h \in Commands
      BY <2>1, <2>4
    <3>2. ran \in [Commands -> Nat]
      BY DEF TypeOK
    <3> HIDE DEF h
    <3> QED BY <3>1, <3>2
  <2> QED BY <2>1, <2>5, <2>6 DEF TypeOK, sockVars
<1>14. ASSUME NEW s \in Sockets, NEW r \in Commands, Answer(s, r) PROVE TypeOK'
  <2>1. /\ stage[s] = "reading" /\ back' = [back EXCEPT ![s] = @ \ {r}]
        /\ End(r, node[s], "ok") \/ UNCHANGED <<call, st, resp>>
        /\ UNCHANGED <<sockVars, at, queue, wire, ran, moved, crashes>>
    BY <1>14 DEF Answer
  <2>2. node[s] \in Nodes
    <3>1. s <= opened
      BY <2>1, <1>n DEF SockInv, Sockets
    <3> QED BY <3>1 DEF SockInv
  <2>3. /\ call' \in [Commands -> [Nodes -> 0 .. MaxSockets]]
        /\ st' \in [Commands -> {"none", "local", "cast", "ok", "failed"}]
        /\ resp' \in [Commands -> SUBSET {"ok", "failed"}]
    <3>1. CASE End(r, node[s], "ok")
      BY <2>2, <3>1, EndOfRequest
    <3>2. CASE UNCHANGED <<call, st, resp>>
      BY <3>2 DEF TypeOK
    <3> QED BY <2>1, <3>1, <3>2
  <2> QED BY <2>1, <2>3 DEF TypeOK, sockVars
<1>15. ASSUME NEW r \in Commands, Blpop(r) PROVE TypeOK'
  <2>1. resp[r] \subseteq {"ok", "failed"}
    BY DEF TypeOK
  <2>2. /\ st' \in [Commands -> {"none", "local", "cast", "ok", "failed"}]
        /\ resp' \in [Commands -> SUBSET {"ok", "failed"}]
    <3>1. PICK x \in resp[r] \cup {"failed"} : st' = [st EXCEPT ![r] = x]
      BY <1>15 DEF Blpop
    <3>2. x \in {"ok", "failed"}
      BY <2>1
    <3> QED BY <1>15, <3>1, <3>2 DEF Blpop, TypeOK
  <2>3. UNCHANGED <<sockVars, at, queue, call, wire, back, ran, moved, crashes>>
    BY <1>15 DEF Blpop
  <2> QED BY <2>2, <2>3 DEF TypeOK, sockVars
<1>16. ASSUME NEW n \in Nodes, NodeRestart(n) PROVE TypeOK'
  <2> DEFINE mine == {s \in Sockets : node[s] = n}
  <2>1. /\ crashes < MaxCrashes /\ crashes' = crashes + 1
        /\ closed' = closed \cup mine /\ keep' = keep \ mine
        /\ stage' = [s \in Sockets |-> IF s \in mine THEN "ended" ELSE stage[s]]
        /\ reg' = [reg EXCEPT ![n] = 0] /\ dels' = [dels EXCEPT ![n] = 0]
        /\ queue' = [queue EXCEPT ![n] = <<>>]
        /\ call' = [r \in Commands |-> [call[r] EXCEPT ![n] = 0]]
        /\ st' = [r \in Commands |->
             IF at[r] = n /\ st[r] \in {"local", "cast"} THEN "failed" ELSE st[r]]
        /\ UNCHANGED <<opened, node, cur, old, key, evicted, at, wire, back, resp, ran, moved>>
    BY <1>16 DEF NodeRestart
  <2>2. mine \subseteq Sockets
    OBVIOUS
  <2> HIDE DEF mine
  <2>3. crashes' \in 0 .. MaxCrashes /\ 0 \in 0 .. MaxSockets
    BY <1>n, <2>1
  <2>4. /\ closed' \subseteq Sockets /\ keep' \subseteq Sockets
        /\ stage' \in [Sockets -> {"none", "accepted", "displacing", "announcing",
                                   "reading", "ended"}]
        /\ st' \in [Commands -> {"none", "local", "cast", "ok", "failed"}]
    BY <2>1, <2>2 DEF TypeOK
  <2>5. /\ reg' \in [Nodes -> 0 .. MaxSockets] /\ dels' \in [Nodes -> 0 .. MaxSockets]
    BY <2>1, <2>3 DEF TypeOK
  <2>6. call' \in [Commands -> [Nodes -> 0 .. MaxSockets]]
    BY <2>1, <2>3 DEF TypeOK
  <2>7. queue' \in [Nodes -> Seq(Commands)]
    BY <2>1 DEF TypeOK
  <2> QED BY <2>1, <2>3, <2>4, <2>5, <2>6, <2>7 DEF TypeOK
<1> QED
  BY <1>1, <1>2, <1>3, <1>4, <1>5, <1>6, <1>7, <1>8, <1>9, <1>10, <1>11, <1>12, <1>13,
     <1>14, <1>15, <1>16 DEF Next, Handler

(***************************************************************************)
(* The sockets.                                                            *)
(***************************************************************************)
LEMMA MoreSockets ==
    ASSUME NEW S \in SUBSET Sockets, NEW T \in SUBSET S
    PROVE  Cardinality(S) \in Nat /\ Cardinality(T) \in Nat /\ Cardinality(T) <= Cardinality(S)
<1>1. IsFiniteSet(Sockets)
  BY WsAssumption, FS_Interval DEF Sockets
<1>2. IsFiniteSet(S)
  BY <1>1, FS_Subset
<1> QED BY <1>2, FS_Subset, FS_CardinalityType

(* No deletion starts, and no connection that ended comes back.            *)
LEMMA FewDeletions ==
    ASSUME TypeOK, TypeOK', SockInv, Ended \subseteq Ended', NEW n \in Nodes,
           dels'[n] \in Int, dels'[n] <= dels[n]
    PROVE  dels'[n] <= Cardinality(Ended')
<1>1. Ended' \in SUBSET Sockets /\ Ended \in SUBSET Ended'
  BY DEF Ended
<1>2. /\ Cardinality(Ended') \in Nat /\ Cardinality(Ended) \in Nat
      /\ Cardinality(Ended) <= Cardinality(Ended')
  BY <1>1, MoreSockets
<1>3. dels[n] \in Int /\ dels[n] <= Cardinality(Ended)
  BY WsAssumption DEF TypeOK, SockInv
<1> QED BY <1>2, <1>3

(* A socket in use leads to a node.                                        *)
LEMMA InUse ==
    ASSUME TypeOK, SockInv, NEW s \in Sockets, stage[s] # "none"
    PROVE  s <= opened /\ node[s] \in Nodes
<1>1. s \in Int /\ opened \in Int
  BY WsAssumption DEF TypeOK, Sockets
<1>2. ~(s > opened)
  BY DEF SockInv
<1>3. s <= opened
  BY <1>1, <1>2
<1> QED BY <1>3 DEF SockInv

LEMMA SameSockets ==
    ASSUME SockInv, UNCHANGED <<opened, node, stage, old, reg, dels, evicted>>,
           cur' \in {0, cur}
    PROVE  SockInv'
<1>1. Ended' = Ended
  BY DEF Ended
<1>2. cur' \in {0, opened'}
  BY DEF SockInv
<1> QED BY <1>1, <1>2 DEF SockInv, Registered

(* connect() goes on: the handler's stage alone changes, or its socket     *)
(* takes the place of the one its node had.                                *)
LEMMA ConnectOn ==
    ASSUME TypeOK, TypeOK', SockInv, NEW s \in Sockets, NEW x, NEW y,
           stage[s] = x, stage' = [stage EXCEPT ![s] = y],
           <<x, y>> \in {<<"displacing", "announcing">>, <<"announcing", "reading">>},
           UNCHANGED <<cur, opened, node, old, reg, dels, evicted>>
    PROVE  SockInv'
<1>1. \A t \in Sockets : stage'[t] = IF t = s THEN y ELSE stage[t]
  BY DEF TypeOK
<1>2. x \in {"displacing", "announcing"} /\ y \in {"announcing", "reading"}
  OBVIOUS
<1>3. Ended' = Ended
  BY <1>1, <1>2 DEF Ended
<1>4. Registered'
  BY <1>1, <1>2 DEF SockInv, Registered
<1>5. \A t \in Sockets : (t <= opened' => node'[t] \in Nodes)
                         /\ (t > opened' => stage'[t] = "none" /\ node'[t] = NoNode)
  <2> SUFFICES ASSUME NEW t \in Sockets
               PROVE  (t <= opened => node[t] \in Nodes)
                      /\ (t > opened => stage'[t] = "none" /\ node[t] = NoNode)
    OBVIOUS
  <2>1. t = s => ~(t > opened)
    BY <1>2 DEF SockInv
  <2> QED BY <1>1, <2>1 DEF SockInv
<1>6. \A t \in Sockets : stage'[t] \in {"none", "accepted"} => old'[t] = 0
  BY <1>1, <1>2 DEF SockInv
<1> QED BY <1>3, <1>4, <1>5, <1>6 DEF SockInv

LEMMA OpenSock ==
    ASSUME TypeOK, TypeOK', SockInv, NEW n \in Nodes, Open(n)
    PROVE  SockInv'
<1> DEFINE o == opened + 1
<1>1. /\ cur = 0 /\ opened' = o /\ cur' = o /\ opened < MaxSockets
      /\ node' = [node EXCEPT ![o] = n] /\ stage' = [stage EXCEPT ![o] = "accepted"]
      /\ UNCHANGED <<old, reg, dels, evicted>>
  BY DEF Open
<1>2. o \in Sockets /\ opened \in Nat
  BY <1>1, WsAssumption DEF TypeOK, Sockets
<1>3. \A t \in Sockets : t \in Int /\ (t > opened <=> t = o \/ t > o) /\ (t <= o <=> t = o \/ t <= opened)
                         /\ ~(o > o) /\ o > opened
  BY <1>2, WsAssumption DEF Sockets
<1> HIDE DEF o
<1>4. /\ \A t \in Sockets : stage'[t] = IF t = o THEN "accepted" ELSE stage[t]
      /\ \A t \in Sockets : node'[t] = IF t = o THEN n ELSE node[t]
  BY <1>1 DEF TypeOK
<1>5. stage[o] = "none" /\ node[o] = NoNode
  BY <1>2, <1>3 DEF SockInv
<1>6. Ended' = Ended
  BY <1>4, <1>5 DEF Ended
<1>7. \A t \in Sockets : (t <= opened' => node'[t] \in Nodes)
                         /\ (t > opened' => stage'[t] = "none" /\ node'[t] = NoNode)
  BY <1>1, <1>3, <1>4 DEF SockInv
<1>8. \A t \in Sockets : stage'[t] \in {"none", "accepted"} => old'[t] = 0
  BY <1>1, <1>4, <1>5 DEF SockInv
<1>9. \A m \in Nodes : reg'[m] # 0 => reg'[m] \in Sockets /\ node'[reg'[m]] = m
  <2> SUFFICES ASSUME NEW m \in Nodes, reg[m] # 0
               PROVE  reg[m] \in Sockets /\ node'[reg[m]] = m
    BY <1>1
  <2>1. reg[m] \in Sockets /\ node[reg[m]] = m
    BY DEF SockInv
  <2>2. reg[m] # o
    BY <1>5, <2>1, WsAssumption
  <2> QED BY <1>4, <2>1, <2>2
<1>10. Registered'
  BY <1>1, <1>4 DEF SockInv, Registered
<1>11. \A m \in Nodes : dels'[m] <= Cardinality(Ended)'
  BY <1>1, <1>6 DEF SockInv
<1> QED BY <1>1, <1>7, <1>8, <1>9, <1>10, <1>11 DEF SockInv

LEMMA ConnectSock ==
    ASSUME TypeOK, TypeOK', SockInv, NEW s \in Sockets, Connect(s)
    PROVE  SockInv'
<1>1. /\ stage[s] = "accepted" /\ stage' = [stage EXCEPT ![s] = "displacing"]
      /\ old' = [old EXCEPT ![s] = reg[node[s]]] /\ reg' = [reg EXCEPT ![node[s]] = s]
      /\ UNCHANGED <<cur, opened, node, dels, evicted>>
  BY DEF Connect
<1>2. node[s] \in Nodes
  BY <1>1, InUse
<1>3. /\ \A t \in Sockets : stage'[t] = IF t = s THEN "displacing" ELSE stage[t]
      /\ \A t \in Sockets : old'[t] = IF t = s THEN reg[node[s]] ELSE old[t]
      /\ \A m \in Nodes : reg'[m] = IF m = node[s] THEN s ELSE reg[m]
  BY <1>1, <1>2 DEF TypeOK
<1>4. Ended' = Ended
  BY <1>1, <1>3 DEF Ended
<1>5. \A t \in Sockets : (t <= opened' => node'[t] \in Nodes)
                         /\ (t > opened' => stage'[t] = "none" /\ node'[t] = NoNode)
  <2>1. ~(s > opened)
    BY <1>1 DEF SockInv
  <2> QED BY <1>1, <1>3, <2>1 DEF SockInv
<1>6. \A t \in Sockets : stage'[t] \in {"none", "accepted"} => old'[t] = 0
  BY <1>3 DEF SockInv
<1>7. \A m \in Nodes : reg'[m] # 0 => reg'[m] \in Sockets /\ node'[reg'[m]] = m
  BY <1>1, <1>3 DEF SockInv
<1>8. Registered'
  <2> SUFFICES ASSUME NEW t \in Sockets,
                      stage'[t] \in {"displacing", "announcing", "reading"},
                      \A u \in Sockets : old'[u] # t
               PROVE  reg'[node[t]] = t \/ t \in evicted
    BY <1>1 DEF Registered
  <2>1. CASE t = s
    BY <1>2, <1>3, <2>1
  <2>2. CASE t # s
    <3>1. stage[t] \in {"displacing", "announcing", "reading"} /\ stage[t] # "none"
      BY <1>3, <2>2
    <3>2. reg[node[s]] # t
      BY <1>3
    <3>3. t # 0
      BY WsAssumption DEF Sockets
    <3>4. old[s] = 0
      BY <1>1 DEF SockInv
    <3>5. \A u \in Sockets : old[u] # t
      BY <1>3, <3>3, <3>4
    <3>6. reg[node[t]] = t \/ t \in evicted
      BY <3>1, <3>5 DEF SockInv, Registered
    <3>7. node[t] \in Nodes
      BY <3>1, InUse
    <3> QED BY <1>3, <3>2, <3>6, <3>7
  <2> QED BY <2>1, <2>2
<1>9. \A m \in Nodes : dels'[m] <= Cardinality(Ended)'
  BY <1>1, <1>4 DEF SockInv
<1> QED BY <1>1, <1>5, <1>6, <1>7, <1>8, <1>9 DEF SockInv

LEMMA DisconnectSock ==
    ASSUME TypeOK, TypeOK', SockInv, NEW s \in Sockets, Disconnect(s)
    PROVE  SockInv'
<1> DEFINE n == node[s]
           x == reg[n]
<1>1. /\ stage[s] = "reading" /\ stage' = [stage EXCEPT ![s] = "ended"]
      /\ reg' = [reg EXCEPT ![n] = IF x = 0 THEN reg[n] ELSE 0]
      /\ dels' = [dels EXCEPT ![n] = IF x = 0 THEN dels[n] ELSE dels[n] + 1]
      /\ evicted' = IF x \in {0, s} THEN evicted ELSE evicted \cup {x}
      /\ UNCHANGED <<opened, node, cur, old>>
  BY DEF Disconnect, Pops
<1>2. n \in Nodes
  BY <1>1, InUse
<1>3. /\ \A t \in Sockets : stage'[t] = IF t = s THEN "ended" ELSE stage[t]
      /\ \A m \in Nodes : reg'[m] = IF m = n THEN 0 ELSE reg[m]
      /\ \A m \in Nodes : dels'[m] = dels[m] \/ dels'[m] = dels[m] + 1
  <2>1. \A t \in Sockets : stage'[t] = IF t = s THEN "ended" ELSE stage[t]
    BY <1>1 DEF TypeOK
  <2>2. \A m \in Nodes : reg'[m] = IF m = n THEN 0 ELSE reg[m]
    BY <1>1, <1>2 DEF TypeOK
  <2>3. \A m \in Nodes : dels'[m] = dels[m] \/ dels'[m] = dels[m] + 1
    BY <1>1, <1>2 DEF TypeOK
  <2> QED BY <2>1, <2>2, <2>3
<1>4. ASSUME NEW m \in Nodes PROVE dels'[m] <= Cardinality(Ended')
  <2>1. Cardinality(Ended') = Cardinality(Ended) + 1
    BY <1>1, OneMoreEnded
  <2>2. dels[m] \in Int /\ dels[m] <= Cardinality(Ended) /\ Cardinality(Ended) \in Nat
    BY WsAssumption, SocketsFinite DEF TypeOK, SockInv
  <2>3. dels'[m] = dels[m] \/ dels'[m] = dels[m] + 1
    BY <1>3
  <2> QED BY <2>1, <2>2, <2>3
<1>5. \A t \in Sockets : (t <= opened' => node'[t] \in Nodes)
                         /\ (t > opened' => stage'[t] = "none" /\ node'[t] = NoNode)
  <2>1. ~(s > opened)
    BY <1>1 DEF SockInv
  <2> QED BY <1>1, <1>3, <2>1 DEF SockInv
<1>6. \A t \in Sockets : stage'[t] \in {"none", "accepted"} => old'[t] = 0
  BY <1>1, <1>3 DEF SockInv
<1>7. \A m \in Nodes : reg'[m] # 0 => reg'[m] \in Sockets /\ node'[reg'[m]] = m
  BY <1>1, <1>3 DEF SockInv
<1>8. Registered'
  <2> SUFFICES ASSUME NEW t \in Sockets,
                      stage'[t] \in {"displacing", "announcing", "reading"},
                      \A u \in Sockets : old'[u] # t
               PROVE  reg'[node[t]] = t \/ t \in evicted'
    BY <1>1 DEF Registered
  <2>1. t # s /\ stage[t] \in {"displacing", "announcing", "reading"} /\ stage[t] # "none"
    BY <1>3
  <2>2. reg[node[t]] = t \/ t \in evicted
    BY <1>1, <2>1 DEF SockInv, Registered
  <2>3. node[t] \in Nodes /\ t # 0
    BY <2>1, InUse, WsAssumption DEF Sockets
  <2>4. node[t] = n /\ reg[node[t]] = t => t \in evicted'
    BY <1>1, <2>1, <2>3
  <2>5. evicted \subseteq evicted'
    BY <1>1
  <2> QED BY <1>3, <2>2, <2>3, <2>4, <2>5
<1>9. cur' \in {0, opened'}
  BY <1>1 DEF SockInv
<1> QED BY <1>4, <1>5, <1>6, <1>7, <1>8, <1>9 DEF SockInv

LEMMA RestartSock ==
    ASSUME TypeOK, TypeOK', SockInv, NEW n \in Nodes, NodeRestart(n)
    PROVE  SockInv'
<1>1. /\ stage' = [s \in Sockets |-> IF s \in {t \in Sockets : node[t] = n} THEN "ended"
                                     ELSE stage[s]]
      /\ reg' = [reg EXCEPT ![n] = 0] /\ dels' = [dels EXCEPT ![n] = 0]
      /\ UNCHANGED <<opened, node, cur, old, evicted>>
  BY DEF NodeRestart
<1>2. /\ \A t \in Sockets : stage'[t] = IF node[t] = n THEN "ended" ELSE stage[t]
      /\ \A m \in Nodes : reg'[m] = IF m = n THEN 0 ELSE reg[m]
      /\ \A m \in Nodes : dels'[m] = IF m = n THEN 0 ELSE dels[m]
  BY <1>1 DEF TypeOK
<1>3. ASSUME NEW m \in Nodes PROVE dels'[m] <= Cardinality(Ended')
  <2>1. Ended \subseteq Ended'
    BY <1>2 DEF Ended
  <2>2. dels[m] \in Nat /\ dels'[m] \in Nat
    BY WsAssumption DEF TypeOK
  <2>3. dels'[m] <= dels[m] /\ dels'[m] \in Int
    BY <1>2, <2>2
  <2> QED BY <2>1, <2>3, FewDeletions
<1>4. \A t \in Sockets : (t <= opened' => node'[t] \in Nodes)
                         /\ (t > opened' => stage'[t] = "none" /\ node'[t] = NoNode)
  BY <1>1, <1>2, WsAssumption DEF SockInv
<1>5. \A t \in Sockets : stage'[t] \in {"none", "accepted"} => old'[t] = 0
  BY <1>1, <1>2 DEF SockInv
<1>6. \A m \in Nodes : reg'[m] # 0 => reg'[m] \in Sockets /\ node'[reg'[m]] = m
  BY <1>1, <1>2 DEF SockInv
<1>7. Registered'
  <2> SUFFICES ASSUME NEW t \in Sockets,
                      stage'[t] \in {"displacing", "announcing", "reading"},
                      \A u \in Sockets : old[u] # t
               PROVE  reg'[node[t]] = t \/ t \in evicted
    BY <1>1 DEF Registered
  <2>1. node[t] # n /\ stage[t] \in {"displacing", "announcing", "reading"} /\ stage[t] # "none"
    BY <1>2
  <2>2. reg[node[t]] = t \/ t \in evicted
    BY <2>1 DEF SockInv, Registered
  <2>3. node[t] \in Nodes
    BY <2>1, InUse
  <2> QED BY <1>2, <2>1, <2>2, <2>3
<1>8. cur' \in {0, opened'}
  BY <1>1 DEF SockInv
<1> QED BY <1>3, <1>4, <1>5, <1>6, <1>7, <1>8 DEF SockInv

LEMMA StepSockInv ==
    ASSUME TypeOK, TypeOK', SockInv, Next
    PROVE  SockInv'
<1>1. ASSUME NEW n \in Nodes, Open(n) PROVE SockInv'
  BY <1>1, OpenSock
<1>2. CASE Drop
  <2>1. UNCHANGED <<opened, node, stage, old, reg, dels, evicted>> /\ cur' = 0
    BY <1>2 DEF Drop
  <2> QED BY <2>1, SameSockets
<1>3. ASSUME NEW s \in Sockets, Connect(s) PROVE SockInv'
  BY <1>3, ConnectSock
<1>4. ASSUME NEW s \in Sockets, Displace(s) PROVE SockInv'
  <2>1. /\ stage[s] = "displacing" /\ stage' = [stage EXCEPT ![s] = "announcing"]
        /\ UNCHANGED <<cur, opened, node, old, reg, dels, evicted>>
    BY <1>4 DEF Displace
  <2> QED BY <2>1, ConnectOn
<1>5. ASSUME NEW s \in Sockets, Announce(s) PROVE SockInv'
  <2>1. /\ stage[s] = "announcing" /\ stage' = [stage EXCEPT ![s] = "reading"]
        /\ UNCHANGED <<cur, opened, node, old, reg, dels, evicted>>
    BY <1>5 DEF Announce
  <2> QED BY <2>1, ConnectOn
<1>6. ASSUME NEW s \in Sockets, Disconnect(s) PROVE SockInv'
  BY <1>6, DisconnectSock
<1>7. ASSUME NEW n \in Nodes, DeleteKey(n) PROVE SockInv'
  <2>1. /\ dels[n] > 0 /\ dels' = [dels EXCEPT ![n] = dels[n] - 1]
        /\ UNCHANGED <<opened, node, cur, stage, old, reg, evicted>>
    BY <1>7 DEF DeleteKey
  <2>2. ASSUME NEW m \in Nodes PROVE dels'[m] <= Cardinality(Ended')
    <3>1. Ended \subseteq Ended'
      BY <2>1 DEF Ended
    <3>2. dels[m] \in Int /\ dels'[m] \in Int
      BY WsAssumption DEF TypeOK
    <3>a. dels'[m] = IF m = n THEN dels[m] - 1 ELSE dels[m]
      BY <2>1 DEF TypeOK
    <3>3. dels'[m] <= dels[m]
      BY <3>2, <3>a
    <3> QED BY <3>1, <3>2, <3>3, FewDeletions
  <2> QED BY <2>1, <2>2 DEF SockInv, Registered
<1>8. ASSUME NEW n \in Nodes, NodeRestart(n) PROVE SockInv'
  BY <1>8, RestartSock
<1>9. CASE \/ Run \/ KeyExpires
           \/ (\E s \in Sockets : Keepalive(s) \/ \E r \in Commands : Answer(s, r))
           \/ (\E n \in Nodes : HandleBroadcast(n))
           \/ (\E r \in Commands : Blpop(r) \/ \E n \in Nodes :
                 SendCommand(r, n) \/ RequestTimeout(r, n))
  <2>1. UNCHANGED <<opened, node, cur, stage, old, reg, dels, evicted>>
    BY <1>9 DEF Run, KeyExpires, Keepalive, Answer, HandleBroadcast, Blpop, SendCommand,
                RequestTimeout, sockVars
  <2> QED BY <2>1, SameSockets
<1> QED
  BY <1>1, <1>2, <1>3, <1>4, <1>5, <1>6, <1>7, <1>8, <1>9 DEF Next, Handler

(***************************************************************************)
(* The commands.                                                           *)
(***************************************************************************)

(* No command is added to a queue or to a wire, and none runs.             *)
LEMMA QuietStep ==
    ASSUME InPlace, RunOnce, UNCHANGED <<opened, node, ran, moved>>,
           \A s \in Sockets : wire'[s] \in {wire[s], <<>>} /\ (s # cur' => wire'[s] = <<>>),
           \A n \in Nodes : queue'[n] \in {queue[n], <<>>},
           \A r \in Commands : st'[r] = "none" => st[r] = "none"
    PROVE  InPlace' /\ RunOnce'
<1>1. /\ \A n \in Nodes, r \in Commands : In(queue'[n], r) => In(queue[n], r)
      /\ \A s \in Sockets, r \in Commands : In(wire'[s], r) => In(wire[s], r)
  BY EmptyQueue
<1>2. /\ \A n \in Nodes : Distinct(queue'[n])
      /\ \A s \in Sockets : Distinct(wire'[s])
  BY EmptyQueue DEF InPlace
<1>3. InPlace'
  <2>1. \A s \in Sockets, n \in Nodes, r \in Commands :
          node'[s] = n /\ In(wire'[s], r) => ~In(queue'[n], r)
    BY <1>1 DEF InPlace
  <2>2. \A r \in Commands : st'[r] = "none" =>
          /\ ran'[r] = 0
          /\ \A n \in Nodes : ~In(queue'[n], r)
          /\ \A s \in Sockets : ~In(wire'[s], r)
    BY <1>1 DEF InPlace
  <2> QED BY <1>2, <2>1, <2>2 DEF InPlace, In, Distinct
<1>4. RunOnce'
  <2>1. \A r \in Commands \ moved' :
          /\ ran'[r] <= 1
          /\ \A s \in Sockets : In(wire'[s], r) => ran'[r] = 0
          /\ \A s \in Sockets, n \in Nodes :
               s = opened' /\ node'[s] = n /\ In(queue'[n], r) => ran'[r] = 0
    BY <1>1 DEF RunOnce
  <2> QED BY <2>1 DEF RunOnce, In
<1> QED BY <1>3, <1>4

LEMMA OpenCommands ==
    ASSUME TypeOK, InPlace, NEW n \in Nodes, Open(n)
    PROVE  InPlace' /\ RunOnce'
<1>1. /\ cur = 0 /\ UNCHANGED <<queue, wire, ran, st>> /\ moved' = moved \cup UnderWay
  BY DEF Open
<1>2. \A s \in Sockets : s # 0
  BY WsAssumption DEF Sockets
<1>3. \A s \in Sockets : wire[s] = <<>> /\ \A r : ~In(wire[s], r)
  BY <1>1, <1>2, EmptyQueue DEF InPlace
<1>4. InPlace'
  <2>1. \A s \in Sockets : wire'[s] = <<>> /\ \A r : ~In(wire'[s], r)
    BY <1>1, <1>3
  <2> QED BY <1>1, <2>1 DEF InPlace, In, Distinct
<1>5. \A r \in Commands \ moved' : ran'[r] = 0
  BY <1>1 DEF InPlace, UnderWay
<1> QED BY <1>4, <1>5 DEF RunOnce

(* A command is asked on node n: it was new there, or the first of its     *)
(* queue, which it leaves.                                                 *)
LEMMA AskedOnce ==
    ASSUME TypeOK, TypeOK', SockInv, InPlace, RunOnce, NEW r \in Commands, NEW n \in Nodes,
           \A s \in Sockets : ~(node[s] = n /\ In(wire[s], r)),
           \A m \in Nodes, x \in Commands : In(queue'[m], x) => In(queue[m], x),
           \A m \in Nodes : Distinct(queue'[m]),
           ~In(queue'[n], r), r \notin moved =>
             ran[r] <= 1 /\ \A s \in Sockets : s = opened /\ node[s] = n => ran[r] = 0,
           \A s \in Sockets : \/ wire'[s] = wire[s]
                              \/ /\ s = cur /\ s = opened /\ node[s] = n
                                 /\ wire'[s] = Append(wire[s], r),
           st'[r] # "none", \A x \in Commands : st'[x] = "none" => st[x] = "none",
           UNCHANGED <<cur, opened, node, ran, moved>>
    PROVE  InPlace' /\ RunOnce'
<1>1. ASSUME NEW s \in Sockets, NEW x \in Commands, In(wire'[s], x)
      PROVE  In(wire[s], x) \/ (x = r /\ s = cur /\ s = opened /\ node[s] = n)
  <2>1. wire[s] \in Seq(Commands)
    BY DEF TypeOK
  <2>2. CASE wire'[s] = wire[s]
    BY <1>1, <2>2
  <2>3. CASE s = cur /\ s = opened /\ node[s] = n /\ wire'[s] = Append(wire[s], r)
    BY <1>1, <2>1, <2>3, AppendToQueue
  <2> QED BY <2>2, <2>3
<1>2. ASSUME NEW s \in Sockets PROVE Distinct(wire'[s]) /\ (s # cur' => wire'[s] = <<>>)
  <2>1. wire[s] \in Seq(Commands) /\ Distinct(wire[s]) /\ (s # cur => wire[s] = <<>>)
    BY DEF TypeOK, InPlace
  <2>2. CASE wire'[s] = wire[s]
    BY <2>1, <2>2
  <2>3. CASE s = cur /\ node[s] = n /\ wire'[s] = Append(wire[s], r)
    <3>1. ~In(wire[s], r)
      BY <2>3
    <3> QED BY <2>1, <2>3, <3>1, AppendToQueue
  <2> QED BY <2>2, <2>3
<1>3. \A s \in Sockets, m \in Nodes, x \in Commands :
        node'[s] = m /\ In(wire'[s], x) => ~In(queue'[m], x)
  BY <1>1 DEF InPlace
<1>4. \A x \in Commands : st'[x] = "none" =>
        /\ ran'[x] = 0
        /\ \A m \in Nodes : ~In(queue'[m], x)
        /\ \A s \in Sockets : ~In(wire'[s], x)
  BY <1>1 DEF InPlace
<1>5. InPlace'
  BY <1>2, <1>3, <1>4 DEF InPlace, In, Distinct
<1>6. \A x \in Commands \ moved' :
        /\ ran'[x] <= 1
        /\ \A s \in Sockets : In(wire'[s], x) => ran'[x] = 0
        /\ \A s \in Sockets, m \in Nodes :
             s = opened' /\ node'[s] = m /\ In(queue'[m], x) => ran'[x] = 0
  BY <1>1 DEF RunOnce
<1>7. RunOnce'
  BY <1>6 DEF RunOnce, In
<1> QED BY <1>5, <1>7

LEMMA SendOnce ==
    ASSUME TypeOK, TypeOK', SockInv, InPlace, RunOnce, NEW r \in Commands, NEW n \in Nodes,
           SendCommand(r, n)
    PROVE  InPlace' /\ RunOnce'
<1>1. st[r] = "none" /\ UNCHANGED <<cur, opened, node, ran, moved>>
  BY DEF SendCommand, sockVars
<1>2. /\ ran[r] = 0 /\ \A m \in Nodes : ~In(queue[m], r)
      /\ \A s \in Sockets : ~In(wire[s], r)
  BY <1>1 DEF InPlace
<1>3. CASE reg[n] # 0
  <2>1. st' = [st EXCEPT ![r] = "local"] /\ Ask(r, n, reg[n]) /\ queue' = queue
    BY <1>3 DEF SendCommand
  <2>2. st'[r] # "none" /\ \A x \in Commands : st'[x] = "none" => st[x] = "none"
    BY <2>1 DEF TypeOK
  <2>3. \A s \in Sockets :
          \/ wire'[s] = wire[s]
          \/ s = cur /\ s = opened /\ node[s] = n /\ wire'[s] = Append(wire[s], r)
    BY <1>3, <2>1, AskOnWire
  <2>4. \A m \in Nodes : Distinct(queue'[m])
    BY <2>1 DEF InPlace
  <2>5. /\ \A s \in Sockets : ~(node[s] = n /\ In(wire[s], r))
        /\ \A m \in Nodes, x \in Commands : In(queue'[m], x) => In(queue[m], x)
        /\ ~In(queue'[n], r) /\ ran[r] <= 1
        /\ \A s \in Sockets : s = opened /\ node[s] = n => ran[r] = 0
    BY <1>2, <2>1
  <2> QED BY <1>1, <2>2, <2>3, <2>4, <2>5, AskedOnce
<1>4. CASE reg[n] = 0
  <2>1. /\ st' = [st EXCEPT ![r] = "cast"] /\ UNCHANGED <<call, wire>>
        /\ queue' = [m \in Nodes |-> Append(queue[m], r)]
    BY <1>4 DEF SendCommand
  <2>2. st'[r] # "none" /\ \A x \in Commands : st'[x] = "none" => st[x] = "none"
    BY <2>1 DEF TypeOK
  <2>3. ASSUME NEW m \in Nodes
        PROVE  /\ Distinct(queue'[m])
               /\ \A x \in Commands : In(queue'[m], x) => In(queue[m], x) \/ x = r
    <3>1. queue[m] \in Seq(Commands) /\ Distinct(queue[m]) /\ ~In(queue[m], r)
      BY <1>2 DEF TypeOK, InPlace
    <3>2. queue'[m] = Append(queue[m], r)
      BY <2>1
    <3> QED BY <3>1, <3>2, AppendToQueue
  <2>4. /\ \A s \in Sockets, m \in Nodes, x \in Commands :
             node'[s] = m /\ In(wire'[s], x) => ~In(queue'[m], x)
    BY <1>1, <1>2, <2>1, <2>3 DEF InPlace
  <2>5. \A x \in Commands : st'[x] = "none" =>
          /\ ran'[x] = 0
          /\ \A m \in Nodes : ~In(queue'[m], x)
          /\ \A s \in Sockets : ~In(wire'[s], x)
    BY <1>1, <2>1, <2>2, <2>3 DEF InPlace
  <2>6. \A s \in Sockets : Distinct(wire'[s]) /\ (s # cur' => wire'[s] = <<>>)
    BY <1>1, <2>1 DEF InPlace
  <2>7. \A x \in Commands \ moved' :
          /\ ran'[x] <= 1
          /\ \A s \in Sockets : In(wire'[s], x) => ran'[x] = 0
          /\ \A s \in Sockets, m \in Nodes :
               s = opened' /\ node'[s] = m /\ In(queue'[m], x) => ran'[x] = 0
    BY <1>1, <1>2, <2>1, <2>3 DEF RunOnce
  <2>8. InPlace'
    BY <2>3, <2>4, <2>5, <2>6 DEF InPlace, In, Distinct
  <2>9. RunOnce'
    BY <2>7 DEF RunOnce, In
  <2> QED BY <2>8, <2>9
<1> QED BY <1>3, <1>4

LEMMA HandleOnce ==
    ASSUME TypeOK, TypeOK', SockInv, InPlace, RunOnce, NEW n \in Nodes, HandleBroadcast(n)
    PROVE  InPlace' /\ RunOnce'
<1>0. queue[n] # <<>> /\ queue[n] \in Seq(Commands) /\ Distinct(queue[n])
  BY DEF HandleBroadcast, TypeOK, InPlace
<1>1. PICK r \in Commands : r = Head(queue[n])
  BY <1>0, TailOfQueue
<1>2. /\ queue' = [queue EXCEPT ![n] = Tail(queue[n])]
      /\ UNCHANGED <<cur, opened, node, st, ran, moved>>
      /\ reg[n] # 0 => Ask(r, n, reg[n])
      /\ reg[n] = 0 => UNCHANGED wire
  BY <1>1 DEF HandleBroadcast, sockVars
<1>3. /\ In(queue[n], r) /\ ~In(Tail(queue[n]), r) /\ Distinct(Tail(queue[n]))
      /\ \A x : In(Tail(queue[n]), x) => In(queue[n], x)
  BY <1>0, <1>1, TailOfQueue
<1>4. \A m \in Nodes : queue'[m] = IF m = n THEN Tail(queue[n]) ELSE queue[m]
  BY <1>2 DEF TypeOK
<1>5. \A s \in Sockets :
        \/ wire'[s] = wire[s]
        \/ s = cur /\ s = opened /\ node[s] = n /\ wire'[s] = Append(wire[s], r)
  <2>1. CASE reg[n] # 0
    BY <1>2, <2>1, AskOnWire
  <2>2. CASE reg[n] = 0
    BY <1>2, <2>2
  <2> QED BY <2>1, <2>2
<1>6. \A s \in Sockets : ~(node[s] = n /\ In(wire[s], r))
  BY <1>3 DEF InPlace
<1>7. r \notin moved => ran[r] <= 1 /\ \A s \in Sockets : s = opened /\ node[s] = n => ran[r] = 0
  BY <1>3 DEF RunOnce
<1>8. st[r] # "none"
  BY <1>3 DEF InPlace
<1>9. /\ \A m \in Nodes, x \in Commands : In(queue'[m], x) => In(queue[m], x)
      /\ \A m \in Nodes : Distinct(queue'[m])
      /\ ~In(queue'[n], r)
  BY <1>3, <1>4 DEF InPlace
<1>10. st'[r] # "none" /\ \A x \in Commands : st'[x] = "none" => st[x] = "none"
  BY <1>2, <1>8
<1> QED BY <1>2, <1>5, <1>6, <1>7, <1>9, <1>10, AskedOnce

LEMMA RunsOnce ==
    ASSUME TypeOK, TypeOK', SockInv, InPlace, RunOnce, Run
    PROVE  InPlace' /\ RunOnce'
<1>0. cur \in Sockets /\ cur = opened /\ wire[cur] # <<>>
  BY WsAssumption DEF Run, TypeOK, Sockets, SockInv
<1>a. wire[cur] \in Seq(Commands) /\ Distinct(wire[cur])
  BY <1>0 DEF TypeOK, InPlace
<1>1. PICK h \in Commands : h = Head(wire[cur])
  BY <1>0, <1>a, TailOfQueue
<1>2. /\ ran' = [ran EXCEPT ![h] = ran[h] + 1]
      /\ wire' = [wire EXCEPT ![cur] = Tail(wire[cur])]
      /\ UNCHANGED <<cur, opened, node, st, queue, moved>>
  BY <1>1 DEF Run, sockVars
<1>3. /\ In(wire[cur], h) /\ ~In(Tail(wire[cur]), h) /\ Distinct(Tail(wire[cur]))
      /\ \A x : In(Tail(wire[cur]), x) => In(wire[cur], x)
  BY <1>0, <1>a, <1>1, TailOfQueue
<1>4. /\ \A s \in Sockets : wire'[s] = IF s = cur THEN Tail(wire[cur]) ELSE wire[s]
      /\ \A x \in Commands : ran'[x] = IF x = h THEN ran[h] + 1 ELSE ran[x]
  BY <1>0, <1>2 DEF TypeOK
<1>5. st[h] # "none" /\ node[cur] \in Nodes
  <2>1. cur <= opened
    BY <1>0, WsAssumption DEF Sockets
  <2> QED BY <1>0, <1>3, <2>1 DEF InPlace, SockInv
<1>6. ~In(queue[node[cur]], h)
  BY <1>0, <1>3, <1>5 DEF InPlace
<1>7. \A s \in Sockets, x \in Commands : In(wire'[s], x) => In(wire[s], x)
  BY <1>3, <1>4
<1>8. \A s \in Sockets : ~In(wire'[s], h)
  <2>1. \A s \in Sockets : s # cur => ~In(wire[s], h)
    BY EmptyQueue DEF InPlace
  <2> QED BY <1>3, <1>4, <2>1
<1>9. InPlace'
  <2>1. \A s \in Sockets : Distinct(wire'[s]) /\ (s # cur' => wire'[s] = <<>>)
    BY <1>2, <1>3, <1>4 DEF InPlace
  <2>2. \A s \in Sockets, m \in Nodes, x \in Commands :
          node'[s] = m /\ In(wire'[s], x) => ~In(queue'[m], x)
    BY <1>2, <1>7 DEF InPlace
  <2>3. \A x \in Commands : st'[x] = "none" =>
          /\ ran'[x] = 0
          /\ \A m \in Nodes : ~In(queue'[m], x)
          /\ \A s \in Sockets : ~In(wire'[s], x)
    BY <1>2, <1>4, <1>5, <1>7 DEF InPlace
  <2>4. \A m \in Nodes : Distinct(queue'[m])
    BY <1>2 DEF InPlace
  <2> QED BY <2>1, <2>2, <2>3, <2>4 DEF InPlace, In, Distinct
<1>10. ASSUME NEW x \in Commands \ moved'
       PROVE  /\ ran'[x] <= 1
              /\ \A s \in Sockets : In(wire'[s], x) => ran'[x] = 0
              /\ \A s \in Sockets, m \in Nodes :
                   s = opened' /\ node'[s] = m /\ In(queue'[m], x) => ran'[x] = 0
  <2>1. CASE x = h
    <3>1. ran[h] = 0
      BY <1>0, <1>2, <1>3, <2>1 DEF RunOnce
    <3>2. ran'[h] <= 1
      BY <1>4, <3>1
    <3>3. \A s \in Sockets, m \in Nodes : s = opened /\ node[s] = m => ~In(queue[m], h)
      BY <1>0, <1>6
    <3> QED BY <1>2, <1>8, <2>1, <3>2, <3>3
  <2>2. CASE x # h
    BY <1>2, <1>4, <1>7, <2>2 DEF RunOnce
  <2> QED BY <2>1, <2>2
<1>11. RunOnce'
  BY <1>10 DEF RunOnce, In
<1> QED BY <1>9, <1>11

LEMMA StepCommands ==
    ASSUME TypeOK, TypeOK', SockInv, InPlace, RunOnce, Next
    PROVE  InPlace' /\ RunOnce'
<1>1. ASSUME NEW n \in Nodes, Open(n) PROVE InPlace' /\ RunOnce'
  BY <1>1, OpenCommands
<1>2. CASE Drop
  <2>1. /\ cur' = 0 /\ wire' = [wire EXCEPT ![cur] = <<>>]
        /\ UNCHANGED <<opened, node, ran, moved, queue, st>>
    BY <1>2 DEF Drop
  <2>2. \A s \in Sockets : wire'[s] = IF s = cur THEN <<>> ELSE wire[s]
    BY <2>1 DEF TypeOK
  <2>3. \A s \in Sockets : wire'[s] = <<>> /\ wire'[s] \in {wire[s], <<>>}
    BY <2>2 DEF InPlace
  <2> QED BY <2>1, <2>3, QuietStep
<1>3. CASE Run
  BY <1>3, RunsOnce
<1>4. ASSUME NEW r \in Commands, NEW n \in Nodes, SendCommand(r, n) PROVE InPlace' /\ RunOnce'
  BY <1>4, SendOnce
<1>5. ASSUME NEW n \in Nodes, HandleBroadcast(n) PROVE InPlace' /\ RunOnce'
  BY <1>5, HandleOnce
<1>q. ASSUME UNCHANGED <<cur, opened, node, ran, moved, queue, wire>>,
             \A r \in Commands : st'[r] = "none" => st[r] = "none"
      PROVE  InPlace' /\ RunOnce'
  <2>1. /\ \A s \in Sockets : wire'[s] \in {wire[s], <<>>} /\ (s # cur' => wire'[s] = <<>>)
        /\ \A n \in Nodes : queue'[n] \in {queue[n], <<>>}
    BY <1>q DEF InPlace
  <2> QED BY <1>q, <2>1, QuietStep
<1>6. CASE KeyExpires \/ (\E n \in Nodes : DeleteKey(n))
           \/ \E s \in Sockets : Handler(s) \/ Keepalive(s)
  <2>1. UNCHANGED <<cur, opened, node, ran, moved, queue, wire, st>>
    BY <1>6 DEF KeyExpires, DeleteKey, Handler, Connect, Displace, Announce, Disconnect,
                Keepalive, cmdVars
  <2> QED BY <1>q, <2>1
<1>7. ASSUME NEW r \in Commands, NEW n \in Nodes, RequestTimeout(r, n) PROVE InPlace' /\ RunOnce'
  <2>1. End(r, n, "failed") /\ UNCHANGED <<cur, opened, node, ran, moved, queue, wire>>
    BY <1>7 DEF RequestTimeout, sockVars
  <2>2. \A x \in Commands : st'[x] = "none" => st[x] = "none"
    BY <2>1, EndOfRequest
  <2> QED BY <1>q, <2>1, <2>2
<1>8. ASSUME NEW s \in Sockets, NEW r \in Commands, Answer(s, r) PROVE InPlace' /\ RunOnce'
  <2>1. /\ stage[s] = "reading" /\ UNCHANGED <<cur, opened, node, ran, moved, queue, wire>>
        /\ End(r, node[s], "ok") \/ st' = st
    BY <1>8 DEF Answer, sockVars
  <2>2. node[s] \in Nodes
    BY <2>1, InUse
  <2>3. \A x \in Commands : st'[x] = "none" => st[x] = "none"
    BY <2>1, <2>2, EndOfRequest
  <2> QED BY <1>q, <2>1, <2>3
<1>9. ASSUME NEW r \in Commands, Blpop(r) PROVE InPlace' /\ RunOnce'
  <2>1. /\ st[r] = "cast" /\ UNCHANGED <<cur, opened, node, ran, moved, queue, wire>>
        /\ \E result \in resp[r] \cup {"failed"} : st' = [st EXCEPT ![r] = result]
    BY <1>9 DEF Blpop, sockVars
  <2>2. \A x \in Commands : st'[x] = "none" => st[x] = "none"
    <3>1. resp[r] \subseteq {"ok", "failed"} /\ st \in [Commands -> {"none", "local", "cast", "ok", "failed"}]
      BY DEF TypeOK
    <3> QED BY <2>1, <3>1
  <2> QED BY <1>q, <2>1, <2>2
<1>10. ASSUME NEW n \in Nodes, NodeRestart(n) PROVE InPlace' /\ RunOnce'
  <2>1. /\ queue' = [queue EXCEPT ![n] = <<>>]
        /\ st' = [r \in Commands |->
             IF at[r] = n /\ st[r] \in {"local", "cast"} THEN "failed" ELSE st[r]]
        /\ UNCHANGED <<cur, opened, node, ran, moved, wire>>
    BY <1>10 DEF NodeRestart
  <2>2. \A m \in Nodes : queue'[m] \in {queue[m], <<>>}
    BY <2>1 DEF TypeOK
  <2>3. \A x \in Commands : st'[x] = "none" => st[x] = "none"
    BY <2>1
  <2>4. \A s \in Sockets : wire'[s] \in {wire[s], <<>>} /\ (s # cur' => wire'[s] = <<>>)
    BY <2>1 DEF InPlace
  <2> QED BY <2>1, <2>2, <2>3, <2>4, QuietStep
<1> QED
  BY <1>1, <1>2, <1>3, <1>4, <1>5, <1>6, <1>7, <1>8, <1>9, <1>10 DEF Next

(***************************************************************************)
(* The answers.                                                            *)
(***************************************************************************)
LEMMA SameAnswers ==
    ASSUME Answered, ran' = ran,
           \A r \in Commands : /\ st'[r] = "ok" => st[r] = "ok"
                               /\ "ok" \in resp'[r] => "ok" \in resp[r],
           \A s \in Sockets : back'[s] \subseteq back[s]
    PROVE  Answered'
BY DEF Answered

LEMMA StepAnswered ==
    ASSUME TypeOK, SockInv, Answered, Next
    PROVE  Answered'
<1>1. CASE Drop
  <2>1. back' = [back EXCEPT ![cur] = {}] /\ UNCHANGED <<ran, st, resp>>
    BY <1>1 DEF Drop
  <2>2. \A s \in Sockets : back'[s] \subseteq back[s]
    BY <2>1 DEF TypeOK
  <2> QED BY <2>1, <2>2, SameAnswers
<1>2. CASE Run
  <2>0. cur \in Sockets /\ wire[cur] # <<>>
    BY <1>2, WsAssumption DEF Run, TypeOK, Sockets
  <2>a. wire[cur] \in Seq(Commands)
    BY <2>0 DEF TypeOK
  <2>1. PICK h \in Commands : h = Head(wire[cur])
    BY <2>0, <2>a, TailOfQueue
  <2>2. /\ ran' = [ran EXCEPT ![h] = ran[h] + 1] /\ UNCHANGED <<st, resp>>
        /\ back' = [back EXCEPT ![cur] = back[cur] \cup {h}]
    BY <1>2, <2>1 DEF Run
  <2>3. /\ \A x \in Commands : ran[x] \in Nat
        /\ \A x \in Commands : ran'[x] = IF x = h THEN ran[h] + 1 ELSE ran[x]
        /\ \A s \in Sockets : back'[s] \subseteq back[s] \cup {h}
    BY <2>2 DEF TypeOK
  <2>4. ASSUME NEW r \in Commands
        PROVE  \/ ran'[r] >= 1
               \/ st'[r] # "ok" /\ "ok" \notin resp'[r] /\ \A s \in Sockets : r \notin back'[s]
    <3>1. CASE r = h
      BY <2>3, <3>1
    <3>2. CASE r # h
      BY <2>2, <2>3, <3>2 DEF Answered
    <3> QED BY <3>1, <3>2
  <2> QED BY <2>4 DEF Answered
<1>3. ASSUME NEW r \in Commands, NEW n \in Nodes, SendCommand(r, n) PROVE Answered'
  <2>1. /\ UNCHANGED <<ran, resp, back>>
        /\ st' = [st EXCEPT ![r] = "local"] \/ st' = [st EXCEPT ![r] = "cast"]
    BY <1>3 DEF SendCommand
  <2>2. \A x \in Commands : st'[x] = "ok" => st[x] = "ok"
    BY <2>1 DEF TypeOK
  <2> QED BY <2>1, <2>2, SameAnswers
<1>4. ASSUME NEW r \in Commands, NEW n \in Nodes, RequestTimeout(r, n) PROVE Answered'
  <2>1. End(r, n, "failed") /\ UNCHANGED <<ran, back>>
    BY <1>4 DEF RequestTimeout
  <2>2. \A x \in Commands : /\ st'[x] = "ok" => st[x] = "ok"
                            /\ "ok" \in resp'[x] => "ok" \in resp[x]
    BY <2>1, EndOfRequest
  <2> QED BY <2>1, <2>2, SameAnswers
<1>5. ASSUME NEW s \in Sockets, NEW r \in Commands, Answer(s, r) PROVE Answered'
  <2>1. /\ stage[s] = "reading" /\ r \in back[s] /\ back' = [back EXCEPT ![s] = @ \ {r}]
        /\ End(r, node[s], "ok") \/ UNCHANGED <<st, resp>>
        /\ ran' = ran
    BY <1>5 DEF Answer
  <2>2. node[s] \in Nodes
    BY <2>1, InUse
  <2>3. \A t \in Sockets : back'[t] \subseteq back[t]
    BY <2>1 DEF TypeOK
  <2>4. ran[r] >= 1
    BY <2>1 DEF Answered
  <2>5. \A x \in Commands : /\ st'[x] = "ok" => st[x] = "ok" \/ x = r
                            /\ "ok" \in resp'[x] => "ok" \in resp[x] \/ x = r
    BY <2>1, <2>2, EndOfRequest
  <2> QED BY <2>1, <2>3, <2>4, <2>5 DEF Answered
<1>6. ASSUME NEW r \in Commands, Blpop(r) PROVE Answered'
  <2>1. UNCHANGED <<ran, resp, back>>
    BY <1>6 DEF Blpop
  <2>2. PICK result \in resp[r] \cup {"failed"} : st' = [st EXCEPT ![r] = result]
    BY <1>6 DEF Blpop
  <2>3. \A x \in Commands : st'[x] = "ok" => st[x] = "ok" \/ (x = r /\ "ok" \in resp[r])
    BY <2>2 DEF TypeOK
  <2> QED BY <2>1, <2>3 DEF Answered
<1>7. ASSUME NEW n \in Nodes, NodeRestart(n) PROVE Answered'
  <2>1. /\ st' = [r \in Commands |->
             IF at[r] = n /\ st[r] \in {"local", "cast"} THEN "failed" ELSE st[r]]
        /\ UNCHANGED <<ran, resp, back>>
    BY <1>7 DEF NodeRestart
  <2>2. \A x \in Commands : st'[x] = "ok" => st[x] = "ok"
    BY <2>1
  <2> QED BY <2>1, <2>2, SameAnswers
<1>8. CASE KeyExpires \/ (\E n \in Nodes : Open(n) \/ DeleteKey(n) \/ HandleBroadcast(n))
           \/ \E s \in Sockets : Handler(s) \/ Keepalive(s)
  <2>1. UNCHANGED <<ran, resp, back, st>>
    BY <1>8 DEF KeyExpires, Open, DeleteKey, HandleBroadcast, Handler, Connect, Displace,
                Announce, Disconnect, Keepalive, cmdVars
  <2> QED BY <2>1, SameAnswers
<1> QED
  BY <1>1, <1>2, <1>3, <1>4, <1>5, <1>6, <1>7, <1>8 DEF Next

-----------------------------------------------------------------------------
(***************************************************************************)
(* The theorems.                                                           *)
(***************************************************************************)
LEMMA StepWInv == WInv /\ [Next]_vars => WInv'
<1>1. CASE WInv /\ Next
  <2>1. TypeOK'
    BY <1>1, StepTypeOK DEF WInv
  <2>2. SockInv'
    BY <1>1, <2>1, StepSockInv DEF WInv
  <2>3. InPlace' /\ RunOnce'
    BY <1>1, <2>1, StepCommands DEF WInv
  <2>4. Answered'
    BY <1>1, StepAnswered DEF WInv
  <2> QED BY <2>1, <2>2, <2>3, <2>4 DEF WInv
<1>2. CASE WInv /\ UNCHANGED vars
  <2>1. UNCHANGED <<opened, node, cur, stage, old, closed, reg, keep, key, dels, evicted,
                    st, at, queue, call, wire, back, resp, ran, moved, crashes>>
    BY <1>2 DEF vars, sockVars, cmdVars
  <2>2. TypeOK'
    BY <1>2, <2>1 DEF WInv, TypeOK
  <2>3. SockInv'
    BY <1>2, <2>1, SameSockets DEF WInv
  <2>4. InPlace' /\ RunOnce'
    BY <1>2, <2>1 DEF WInv, InPlace, RunOnce, In, Distinct
  <2>5. Answered'
    BY <1>2, <2>1 DEF WInv, Answered
  <2> QED BY <2>2, <2>3, <2>4, <2>5 DEF WInv
<1> QED BY <1>1, <1>2

(* The four parts hold in every state the channel can reach.               *)
THEOREM InvariantWInv == Spec => []WInv
BY InitWInv, StepWInv, PTL DEF Spec

(***************************************************************************)
(* Whoever is told that a command succeeded can rely on the collector      *)
(* having run it, and no command runs twice unless the collector           *)
(* reconnected while broadcast_command or a listener had it under way.     *)
(***************************************************************************)
THEOREM CommandsAreSafe == Spec => []ChannelInvariant
<1>1. WInv => ChannelInvariant
  <2> SUFFICES ASSUME WInv PROVE ChannelInvariant
    OBVIOUS
  <2>1. TypeOK /\ \A r \in Commands : ran[r] \in Nat
    BY DEF WInv, TypeOK
  <2>2. OkWasRun
    BY DEF WInv, Answered, OkWasRun
  <2>3. RunsTwiceOnlyAfterReconnect
    BY <2>1 DEF WInv, RunOnce, RunsTwiceOnlyAfterReconnect
  <2> QED BY <2>1, <2>2, <2>3 DEF ChannelInvariant
<1> QED BY <1>1, InvariantWInv, PTL

(***************************************************************************)
(* The collector's active connection is the one its node sends on, unless  *)
(* disconnect() of an older connection took it from _connections.          *)
(***************************************************************************)
THEOREM ActiveIsRegistered == Spec => []RegisteredUnlessEvicted
<1>1. WInv => RegisteredUnlessEvicted
  BY DEF WInv, SockInv, Registered, RegisteredUnlessEvicted, Active
<1> QED BY <1>1, InvariantWInv, PTL
=============================================================================
