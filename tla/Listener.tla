------------------------------ MODULE Listener ------------------------------
(***************************************************************************)
(* The P2P server's connections: the accept loop, the slots that limit     *)
(* what one address may hold open (IpGuard), and the tasks that keep such  *)
(* a slot while they call other nodes, where they take slots themselves:   *)
(* the handler of a block that is too far ahead first catches up, and the  *)
(* periodic loop catches up beside it.                                     *)
(*                                                                         *)
(* Of a chain only its height matters here: Network has the blocks, and    *)
(* forks, which this module leaves out (a block is mined on a highest      *)
(* node).  Seconds are left out too: a timeout may come at any moment, and *)
(* if nothing else does, it comes.  The names of this module are not those *)
(* of Network, so that theorems about both can stand in one module.        *)
(***************************************************************************)
EXTENDS Peers, FiniteSets, SequencesExt

CONSTANTS
  MAX_P2P_CONNS_PER_IP,
  StartHeight             \* per node: the height it starts with

ASSUME ListenerAssumption ==
  /\ IsFiniteSet(Nodes) /\ MAX_P2P_CONNS_PER_IP \in Nat \ {0}
  /\ StartHeight \in [Nodes -> 0 .. MaxHeight]

VARIABLES
  height,       \* per node: of its chain
  ip_counts,    \* per node and address: slots counted as taken
  backlog,      \* per node: connections made and not yet accepted
  server_task   \* per node: the loop, and per address and place a handler

listener_vars == <<height, ip_counts, backlog, server_task>>

Loop == <<"loop", 0>>
Places == 1 .. MAX_P2P_CONNS_PER_IP + 1      \* one more than the limit allows
Slots == Nodes \X Places
ServerTasks == {Loop} \cup Slots

\* A connection carries one message: "block", with its height, or "request", with
\* the height the catch-up starts from; the caller is the task that made it, and it
\* is open while that waits for the answer.  (request_height and request_blocks, a
\* connection each, one after the other, are one request here.)
Nobody == <<"nobody", Loop>>

Connection(from, msg, h, caller) ==
  [from |-> from, msg |-> msg, height |-> h, caller |-> caller, open |-> caller # Nobody]
no_connection == Connection("nobody", "none", 0, Nobody)

off == [stage |-> "off", conn |-> no_connection, peer |-> 0, our_height |-> 0, last |-> 0]

handlers(n, from) == {k \in Places : server_task[n][<<from, k>>].stage # "off"}

ListenerInit ==
  /\ height = StartHeight
  /\ ip_counts = [n \in Nodes |-> [p \in Nodes |-> 0]]
  /\ backlog = [n \in Nodes |-> {}]
  /\ server_task = [n \in Nodes |-> [t \in ServerTasks |-> off]]

(***************************************************************************)
(* Slots.                                                                  *)
(***************************************************************************)

\* Mutant of try_ip_guard: a refused connection is counted.
try_ip_guard_counts_first(n, from) ==
  [granted |-> ip_counts[n][from] < MAX_P2P_CONNS_PER_IP,
   counts |-> [ip_counts EXCEPT ![n][from] = @ + 1]]

try_ip_guard(n, from) ==
  IF ip_counts[n][from] >= MAX_P2P_CONNS_PER_IP
  THEN [granted |-> FALSE, counts |-> ip_counts]
  ELSE [granted |-> TRUE, counts |-> [ip_counts EXCEPT ![n][from] = @ + 1]]

\* Mutant of guard_dropped: the last guard of an address leaves its entry at 1.
guard_dropped_kept(n, from) ==
  [ip_counts EXCEPT ![n][from] = IF @ <= 1 THEN @ ELSE @ - 1]

guard_dropped(n, from) ==
  [ip_counts EXCEPT ![n][from] = IF @ <= 1 THEN 0 ELSE @ - 1]

(***************************************************************************)
(* The catch-up, of the loop and of handlers.                              *)
(***************************************************************************)

\* Turn to the i-th peer; after the last one a handler goes on to its block.
turn_to_peer(n, t, i) ==
  LET conn == server_task[n][t].conn
  IN  IF i <= Len(PeerList[n]) THEN [off EXCEPT !.stage = "ask", !.peer = i, !.conn = conn]
      ELSE IF t = Loop THEN off
      ELSE [off EXCEPT !.stage = "offer", !.conn = conn]

next_peer(n, t) == turn_to_peer(n, t, server_task[n][t].peer + 1)

set_server_task(n, t, value) == server_task' = [server_task EXCEPT ![n][t] = value]

\* The connections that task t of n made, wherever they are now.
connections(n, t) ==
  {conn \in (UNION {backlog[p] : p \in Nodes}) \cup
             {server_task[p][s].conn : p \in Nodes, s \in Slots} :
     conn.caller = <<n, t>>}

\* The loop sleeps for a minute: no server still keeps a request it gave up, which
\* a handler does for 15 seconds.
StartLoop(n) ==
  /\ server_task[n][Loop].stage = "off" /\ connections(n, Loop) = {}
  /\ set_server_task(n, Loop, turn_to_peer(n, Loop, 1))
  /\ UNCHANGED <<height, ip_counts, backlog>>

Ask(n, t) ==
  LET p == PeerList[n][server_task[n][t].peer]
  IN  /\ server_task[n][t].stage = "ask"
      /\ backlog' = [backlog EXCEPT ![p] = @ \cup {Connection(n, "request", height[n], <<n, t>>)}]
      /\ set_server_task(n, t, [server_task[n][t] EXCEPT !.stage = "await", !.our_height = height[n]])
      /\ UNCHANGED <<height, ip_counts>>

\* No connection, or none in time.
AskFails(n, t) ==
  /\ server_task[n][t].stage = "ask"
  /\ set_server_task(n, t, next_peer(n, t))
  /\ UNCHANGED <<height, ip_counts, backlog>>

\* Mutant of hung_up: the connection of an earlier request is kept.
hung_up_kept(n, t, conn) == conn

\* Task t of n has closed its end.
hung_up(n, t, conn) == IF conn.caller = <<n, t>> THEN [conn EXCEPT !.open = FALSE] ELSE conn

\* A request that is not answered in time is given up, and its connection closed.
hang_up(n, t) ==
  /\ server_task[n][t].stage = "await"
  /\ backlog' = [p \in Nodes |-> {hung_up(n, t, conn) : conn \in backlog[p]}]
  /\ server_task' = [p \in Nodes |-> [s \in ServerTasks |->
       IF <<p, s>> = <<n, t>> THEN next_peer(n, t)
       ELSE [server_task[p][s] EXCEPT !.conn = hung_up(n, t, @)]]]
  /\ UNCHANGED <<height, ip_counts>>

\* Mutant of GivesUp: only the loop's requests have a timeout.
GivesUp_loop_only(n, t) == t = Loop /\ hang_up(n, t)

GivesUp(n, t) == hang_up(n, t)

\* The next block of an answer links only if nothing else came in since the
\* height was read; a rejection ends the business with this peer.
AdvanceNext(n, t) ==
  LET this == server_task[n][t]
      linked == height[n] = this.our_height
  IN  /\ this.stage = "apply"
      /\ height' = IF linked THEN [height EXCEPT ![n] = @ + 1] ELSE height
      /\ set_server_task(n, t, IF ~linked THEN next_peer(n, t)
                        ELSE IF height[n] + 1 = this.last THEN turn_to_peer(n, t, this.peer)
                        ELSE [this EXCEPT !.our_height = @ + 1])
      /\ UNCHANGED <<ip_counts, backlog>>

(***************************************************************************)
(* The server.                                                             *)
(***************************************************************************)

\* A miner's block, sent once to each peer that can be reached.
Mine(n) ==
  /\ height[n] = Max({height[p] : p \in Nodes}) /\ height[n] < MaxHeight
  /\ height' = [height EXCEPT ![n] = @ + 1]
  /\ \E reached \in SUBSET ToSet(PeerList[n]) :
       backlog' = [p \in Nodes |-> IF p \in reached
                     THEN backlog[p] \cup {Connection(n, "block", height[n] + 1, Nobody)}
                     ELSE backlog[p]]
  /\ UNCHANGED <<ip_counts, server_task>>

\* The accept loop: a connection beyond the limit is closed at once, which its
\* caller sees as a failed request; another gets a handler.
Accept(n, conn) ==
  LET guard == try_ip_guard(n, conn.from)
      caller == conn.caller
  IN  /\ conn \in backlog[n]
      /\ backlog' = [backlog EXCEPT ![n] = @ \ {conn}]
      /\ ip_counts' = guard.counts
      /\ IF guard.granted
         THEN LET place == Min(Places \ handlers(n, conn.from))
              IN  set_server_task(n, <<conn.from, place>>,
                                  [off EXCEPT !.stage = "read", !.conn = conn])
         ELSE IF conn.open
         THEN set_server_task(caller[1], caller[2], next_peer(caller[1], caller[2]))
         ELSE UNCHANGED server_task
      /\ UNCHANGED height

\* What the caller of a request makes of its answer.
answered(n, conn) ==
  LET caller == conn.caller
  IN  IF height[n] <= conn.height THEN next_peer(caller[1], caller[2])
      ELSE [server_task[caller[1]][caller[2]] EXCEPT
              !.stage = "apply", !.last = Min({height[n], conn.height + MAX_BLOCKS_PER_RESPONSE})]

\* A handler's request is read and answered, and its slot given back.
Serve(n, s) ==
  LET conn == server_task[n][s].conn
      caller == conn.caller
      freed == [server_task EXCEPT ![n][s] = off]
  IN  /\ server_task[n][s].stage = "read" /\ conn.msg # "block"
      /\ server_task' = IF conn.open THEN [freed EXCEPT ![caller[1]][caller[2]] = answered(n, conn)]
                 ELSE freed
      /\ ip_counts' = guard_dropped(n, s[1])
      /\ UNCHANGED <<height, backlog>>

\* A handler's block: too far ahead, it is kept through a catch-up.
ReadBlock(n, s) ==
  LET conn == server_task[n][s].conn
  IN  /\ server_task[n][s].stage = "read" /\ conn.msg = "block"
      /\ set_server_task(n, s, IF conn.height > height[n] + 1 THEN turn_to_peer(n, s, 1)
                        ELSE [server_task[n][s] EXCEPT !.stage = "offer"])
      /\ UNCHANGED <<height, ip_counts, backlog>>

HandBlockOver(n, s) ==
  /\ server_task[n][s].stage = "offer"
  /\ height' = IF server_task[n][s].conn.height = height[n] + 1
               THEN [height EXCEPT ![n] = @ + 1] ELSE height
  /\ set_server_task(n, s, off)
  /\ ip_counts' = guard_dropped(n, s[1])
  /\ UNCHANGED backlog

\* Nothing to read in time, or no one to write to: the caller is not told.
ReadFails(n, s) ==
  /\ server_task[n][s].stage = "read"
  /\ set_server_task(n, s, off)
  /\ ip_counts' = guard_dropped(n, s[1])
  /\ UNCHANGED <<height, backlog>>

CallPeers(n, t) == Ask(n, t) \/ AskFails(n, t) \/ GivesUp(n, t) \/ AdvanceNext(n, t)
Handle(n, s) == Serve(n, s) \/ ReadBlock(n, s) \/ HandBlockOver(n, s) \/ ReadFails(n, s)

ListenerNext ==
  \/ \E n \in Nodes : Mine(n) \/ StartLoop(n)
  \/ \E n \in Nodes : \E conn \in backlog[n] : Accept(n, conn)
  \/ \E n \in Nodes, t \in ServerTasks : CallPeers(n, t)
  \/ \E n \in Nodes, s \in Slots : Handle(n, s)

ListenerSpec == ListenerInit /\ [][ListenerNext]_listener_vars

(***************************************************************************)
(* Every task runs on, to its timeout if nothing else happens, and the     *)
(* accept loop accepts.  A node whose loop calls another again and again   *)
(* some day gets through to it, is taken in if again and again there is a  *)
(* slot to be had, and is answered.                                        *)
(***************************************************************************)
takes_in(n, p) == \E conn \in backlog[n] :
  conn.caller = <<p, Loop>> /\ conn.open /\ try_ip_guard(n, p).granted /\ Accept(n, conn)

answers(n, p) == \E s \in Slots :
  server_task[n][s].conn.caller = <<p, Loop>> /\ server_task[n][s].conn.open /\ Serve(n, s)

ListenerFairness ==
  /\ \A n \in Nodes : WF_listener_vars(StartLoop(n))
  /\ \A n \in Nodes : WF_listener_vars(\E conn \in backlog[n] : Accept(n, conn))
  /\ \A n \in Nodes, t \in ServerTasks : WF_listener_vars(CallPeers(n, t))
  /\ \A n \in Nodes, s \in Slots : WF_listener_vars(Handle(n, s))
  /\ \A p \in Nodes : \A n \in ToSet(PeerList[p]) :
       /\ SF_listener_vars(Ask(p, Loop))
       /\ SF_listener_vars(takes_in(n, p)) /\ SF_listener_vars(answers(n, p))

ListenerFairSpec == ListenerSpec /\ ListenerFairness

(***************************************************************************)
(* Properties.                                                             *)
(***************************************************************************)

\* Heights, connections and tasks have their shapes, and a task that waits for an
\* answer waits on one connection at most.
ListenerTypeOK ==
  /\ height \in [Nodes -> 0 .. MaxHeight] /\ ip_counts \in [Nodes -> [Nodes -> Nat]]
  /\ \A n \in Nodes, t \in ServerTasks :
       /\ server_task[n][t].stage \in {"off", "read", "offer", "ask", "await", "apply"}
       /\ server_task[n][t].peer \in 0 .. Len(PeerList[n])
       /\ server_task[n][t].stage = "apply" => server_task[n][t].our_height < server_task[n][t].last
       /\ Cardinality({conn \in connections(n, t) : conn.open}) <=
            IF server_task[n][t].stage = "await" THEN 1 ELSE 0

\* "Releases an IP's connection slot when dropped": what is counted for an address
\* is what is open from it, never more than the limit, on whichever path each
\* handler ends.
SlotsCounted ==
  \A n, p \in Nodes :
    /\ ip_counts[n][p] = Cardinality(handlers(n, p))
    /\ ip_counts[n][p] <= MAX_P2P_CONNS_PER_IP

\* A slot comes back: a handler ends, although it may hold its slot through a
\* catch-up in which it needs slots of nodes whose handlers need slots here, and
\* although every request of it may go unanswered.
SlotsComeBack ==
  \A n \in Nodes, s \in Slots : server_task[n][s].stage # "off" ~> server_task[n][s].stage = "off"

\* The limit does not keep a node out: once mining stops, all nodes reach one
\* height, although the callers of a node may be more than its slots elsewhere,
\* gossip may be lost or refused, and given-up connections still hold slots.
EventuallyLevel == <>[](\A n, p \in Nodes : height[n] = height[p])
=============================================================================
