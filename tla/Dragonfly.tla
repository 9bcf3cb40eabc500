----------------------------- MODULE Dragonfly -----------------------------
(***************************************************************************)
(* The dragonfly network model (models/dragonfly): MPI processes hand      *)
(* packets to terminals, terminals send their chunks to routers, routers   *)
(* pass them on over local and global channels.  A channel has a buffer:   *)
(* its sender counts the chunks in vc_occupancy and gets a credit (BUFFER) *)
(* for each that has left; a chunk that finds the buffer full waits.       *)
(*                                                                         *)
(* Delays are left out: pending events are handled in any order, and a     *)
(* time at which a channel is available is the number of times it was      *)
(* moved on.  The last event may be rolled back by its reverse handler.    *)
(* Not kept: output_vc_state, which no code reads, and the waiting list    *)
(* of terminals, to which no code sends.  NUM_VC and num_packets are 1.    *)
(***************************************************************************)
EXTENDS Integers, Bags, FiniteSetsExt

CONSTANTS
  NUM_ROUTER, GLOBAL_CHANNELS, NUM_TERMINALS,  \* of a group, a router, a router
  LOCAL_VC_SIZE, GLOBAL_VC_SIZE, TERMINAL_VC_SIZE,
  WAITING_PACK_COUNT,                          \* the slots of a waiting list
  num_chunks, max_packets,
  ROUTING, traffic,
  Senders,                                     \* the processes that send
  StaleChan,                                   \* channels that event buffers may hold
  MaxDrifts                                    \* bounds drifts

num_groups == NUM_ROUTER * GLOBAL_CHANNELS + 1

total_routers == NUM_ROUTER * num_groups

total_terminals == NUM_ROUTER * NUM_TERMINALS * num_groups

Router == 0..total_routers - 1

Terminal == total_routers..total_routers + total_terminals - 1

Proc == total_routers + total_terminals..total_routers + 2 * total_terminals - 1

half_channel == GLOBAL_CHANNELS \div 2

RADIX == NUM_ROUTER + GLOBAL_CHANNELS + NUM_TERMINALS

Chan == 0..RADIX - 1

Assumptions ==
  /\ {NUM_ROUTER, GLOBAL_CHANNELS, NUM_TERMINALS, num_chunks, WAITING_PACK_COUNT} \subseteq Nat \ {0}
  /\ GLOBAL_CHANNELS % 2 = 0
  /\ {LOCAL_VC_SIZE, GLOBAL_VC_SIZE, TERMINAL_VC_SIZE, max_packets, MaxDrifts} \subseteq Nat
  /\ ROUTING \in {"MINIMAL", "NON_MINIMAL"}
  /\ traffic \in {"UNIFORM_RANDOM", "WORST_CASE", "TRANSPOSE", "NEAREST_NEIGHBOR", "BISECTION",
                  "NEAREST_ROUTER"}
  /\ Senders \subseteq Proc /\ StaleChan \subseteq Chan

VARIABLES
  lps,     \* the state of each LP
  events,  \* the bag of pending events
  last,    \* the event handled last, and what its reverse handler needs
  drifts   \* how often a reverse handler has left a channel with a wrong count

vars == <<lps, events, last, drifts>>

-----------------------------------------------------------------------------
(***************************************************************************)
(* LPs and chares: routers, terminals and processes are each spread over   *)
(* n chares, the first rem ones with one more.                             *)
(***************************************************************************)
Extra(total, n, chare) == IF chare < total % n THEN 1 ELSE 0

nlp_per_chare(total, n, chare) == total \div n + Extra(total, n, chare)

BlockChare(total, n, id) ==
  LET per == total \div n
      max_with_rem == (per + 1) * (total % n)
  IN  IF id < max_with_rem THEN id \div (per + 1) ELSE (total % n) + (id - max_with_rem) \div per

BlockOffset(total, n, id) ==
  LET per == total \div n
      max_with_rem == (per + 1) * (total % n)
  IN  IF id < max_with_rem THEN id % (per + 1) ELSE (id - max_with_rem) % per

mapping(n, gid) ==
  CASE gid \in Router -> BlockChare(total_routers, n, gid)
    [] gid \in Terminal -> BlockChare(total_terminals, n, gid - total_routers)
    [] gid \in Proc -> BlockChare(total_terminals, n, gid - total_routers - total_terminals)

dragonfly_mapping_to_lp(n, gid) ==
  LET c == mapping(n, gid)
      r == nlp_per_chare(total_routers, n, c)
      t == nlp_per_chare(total_terminals, n, c)
  IN  CASE gid \in Router -> BlockOffset(total_routers, n, gid)
        [] gid \in Terminal -> r + BlockOffset(total_terminals, n, gid - total_routers)
        [] gid \in Proc -> r + t + BlockOffset(total_terminals, n, gid - total_routers - total_terminals)

get_rem(total, n, chare) == IF total % n <= chare THEN total % n ELSE 0

dragonfly_mappingNoRem(n, chare, local_id) ==
  LET r == nlp_per_chare(total_routers, n, chare)
      t == nlp_per_chare(total_terminals, n, chare)
  IN  IF local_id < r THEN chare * r + local_id
      ELSE IF local_id < r + t THEN total_routers + chare * t + local_id - r
      ELSE total_routers + total_terminals + chare * t + local_id - r - t

dragonfly_mapping(n, chare, local_id) ==
  LET r == nlp_per_chare(total_routers, n, chare)
      t == nlp_per_chare(total_terminals, n, chare)
  IN  IF local_id < r THEN chare * r + local_id + get_rem(total_routers, n, chare)
      ELSE IF local_id < r + t
      THEN total_routers + chare * t + local_id - r + get_rem(total_terminals, n, chare)
      ELSE total_routers + total_terminals + chare * t + local_id - r - t + get_rem(total_terminals, n, chare)

-----------------------------------------------------------------------------
(***************************************************************************)
(* The channels of routers, and the way through them.                      *)
(***************************************************************************)
group_id(router) == router \div NUM_ROUTER

getRouterID(terminal) == (terminal - total_routers) \div NUM_TERMINALS

\* Even channels lead to lower groups, odd ones to higher, around the ring.
global_channel(router, i) ==
  LET offset == (router % NUM_ROUTER) * half_channel + 1 + i \div 2
      low == router - offset * NUM_ROUTER
  IN  IF i % 2 # 0 THEN (router + offset * NUM_ROUTER) % total_routers
      ELSE IF low < 0 THEN total_routers + low ELSE low

getRouterFromGroupIDStart(gid, router) ==
  LET group_begin == group_id(router) * NUM_ROUTER
      distance == IF gid < group_id(router) THEN group_id(router) - gid ELSE gid - group_id(router)
  IN  group_begin + ((distance - 1) % (half_channel * NUM_ROUTER)) \div half_channel

\* The router of this group with a channel to group gid: past half the ring the
\* groups are counted from the other end.
getRouterFromGroupID(gid, router) ==
  LET group_begin == group_id(router) * NUM_ROUTER
      distance == IF gid < group_id(router) THEN group_id(router) - gid ELSE gid - group_id(router)
      index == (distance - 1) \div (half_channel * NUM_ROUTER)
      offset == (distance - 1) % (half_channel * NUM_ROUTER)
  IN  IF index % 2 # 0 THEN group_begin + NUM_ROUTER - 1 - offset \div half_channel
                       ELSE group_begin + offset \div half_channel

ChannelsTo(router, group) == {i \in 0..GLOBAL_CHANNELS - 1 : group_id(global_channel(router, i)) = group}

\* The router or terminal next on the way to dest, by group if one is given.
NextStop(router, dest, intm_group) ==
  LET dest_router == getRouterID(dest)
      dest_group == IF intm_group >= 0 THEN intm_group ELSE group_id(dest_router)
      gateway == getRouterFromGroupID(dest_group, router)
  IN  IF dest_router = router THEN dest
      ELSE IF group_id(router) = dest_group THEN dest_router
      ELSE IF gateway # router \/ ChannelsTo(router, dest_group) = {} THEN gateway
      ELSE global_channel(router, Max(ChannelsTo(router, dest_group)))

\* A non-minimal path goes by a random group, drawn at the first router.
get_next_stop(router, msg) ==
  LET drawn == /\ msg.last_hop = "TERMINAL" /\ ROUTING = "NON_MINIMAL"
               /\ getRouterID(msg.dest) # router
               /\ group_id(getRouterID(msg.dest)) # group_id(router)
      group(g) == IF g = group_id(router) THEN -1 ELSE g
  IN  {[stop |-> NextStop(router, msg.dest, group(g)), intm_group |-> group(g), drawn |-> drawn]
         : g \in IF drawn THEN 0..num_groups - 1 ELSE {msg.intm_group}}

get_output_port(router, dest, next_stop) ==
  IF next_stop = dest THEN NUM_ROUTER + GLOBAL_CHANNELS + ((dest - total_routers) % NUM_TERMINALS)
  ELSE IF group_id(next_stop) = group_id(router) THEN next_stop % NUM_ROUTER
  ELSE LET I == {i \in 0..GLOBAL_CHANNELS - 1 : global_channel(router, i) = next_stop}
       IN  IF I = {} THEN -1 ELSE NUM_ROUTER + Max(I)

GlobalChan == NUM_ROUTER..NUM_ROUTER + GLOBAL_CHANNELS - 1

VC_SIZE(port) ==
  CASE port < NUM_ROUTER -> LOCAL_VC_SIZE
    [] port \in GlobalChan -> GLOBAL_VC_SIZE
    [] OTHER -> TERMINAL_VC_SIZE

-----------------------------------------------------------------------------
(***************************************************************************)
(* The handlers.  Each is the set of its outcomes [state, msg, sent, cv,   *)
(* saved] for the state of an LP and a message: msg is the message as the  *)
(* handler leaves it, cv the bit field, saved what else it stores there.   *)
(***************************************************************************)
NULL ==
  [type |-> "NULL", at |-> -1, packet |-> <<>>, chunk |-> 0, src |-> -1, dest |-> -1, saved_vc |-> 0,
   vc_index |-> 0, last_hop |-> "NONE", intm_lp |-> -1, intm_group |-> -1, my_N_hop |-> 0]

NoSlot == [chan |-> -1]

NotSaved == [time |-> 0, old_vc |-> 0, wait_loc |-> -1]

Outcome(s, m, sent, cv, saved) == [state |-> s, msg |-> m, sent |-> sent, cv |-> cv, saved |-> saved]

BufferFirst(dest, m, hop) ==
  [NULL EXCEPT !.type = "BUFFER", !.at = dest, !.vc_index = 0, !.last_hop = hop, !.packet = m.packet]

Buffer(dest, m, hop) ==
  [NULL EXCEPT !.type = "BUFFER", !.at = dest, !.vc_index = m.saved_vc, !.last_hop = hop, !.packet = m.packet]

\* Where a process sends to, by the traffic pattern.  The macros NUM_ROWS and
\* NUM_COLS of TRANSPOSE are products without parentheses.
Destinations(proc) ==
  LET i == proc - total_routers - total_terminals
      per_group == NUM_TERMINALS * NUM_ROUTER
      group == i \div per_group
      All(g) == total_routers + g * per_group..total_routers + g * per_group + per_group - 1
      Beside(r) == {total_routers + r * NUM_TERMINALS + NUM_TERMINALS - (i % NUM_TERMINALS)}
      row == (i \div NUM_ROUTER) * NUM_TERMINALS
      col == (i % per_group) + 1
  IN  CASE traffic = "BISECTION" ->
             UNION {All(IF g = group THEN (group + num_groups \div 2) % num_groups ELSE g) : g \in 0..num_groups}
        [] traffic = "WORST_CASE" -> All((group + 1) % num_groups)
        [] traffic = "UNIFORM_RANDOM" -> Terminal
        [] traffic = "TRANSPOSE" -> IF col = row THEN {} ELSE {total_routers + col * per_group + row}
        [] traffic = "NEAREST_NEIGHBOR" -> Beside(i \div NUM_TERMINALS)
        [] traffic = "NEAREST_ROUTER" -> Beside((i \div NUM_TERMINALS + 1) % total_routers)

TrafficDraws ==
  CASE traffic = "BISECTION" -> {"c2", "c3"}
    [] traffic \in {"WORST_CASE", "UNIFORM_RANDOM"} -> {"c3"}
    [] OTHER -> {}

mpi_msg_send(proc, s, m) ==
  LET done == s.message_counter >= max_packets \/ Destinations(proc) = {}
      sent(d) == {[NULL EXCEPT !.type = "T_GENERATE", !.at = proc - total_terminals, !.dest = d,
                               !.packet = <<proc, s.message_counter + 1>>], m}
  IN  IF done THEN {Outcome(s, m, {}, {"c1"}, NotSaved)}
      ELSE {Outcome([message_counter |-> s.message_counter + 1, available_time |-> s.available_time + 1,
                     draws |-> s.draws + Cardinality(TrafficDraws) + 2],
                    m, sent(d), TrafficDraws, [NotSaved EXCEPT !.time = s.available_time])
              : d \in Destinations(proc)}

\* The program exits when the buffer of the terminal is full.
packet_generate(s, m) ==
  IF s.vc_occupancy[0] >= TERMINAL_VC_SIZE * num_chunks THEN {}
  ELSE {Outcome([s EXCEPT !.draws = @ + num_chunks], m,
                {[m EXCEPT !.type = "T_SEND", !.chunk = i] : i \in 0..num_chunks - 1}, {}, NotSaved)}

IsLast(m) == m.chunk = num_chunks - 1

packet_send(terminal, s, m) ==
  {Outcome([s EXCEPT !.packet_counter = IF IsLast(m) THEN @ + 1 ELSE @, !.terminal_available_time = @ + 1,
                     !.vc_occupancy[m.saved_vc] = @ + 1, !.draws = @ + 1],
           m, {[m EXCEPT !.type = "R_ARRIVE", !.at = getRouterID(terminal), !.src = terminal,
                         !.last_hop = "TERMINAL", !.intm_group = -1]},
           IF IsLast(m) THEN {"c3"} ELSE {}, [NotSaved EXCEPT !.time = s.terminal_available_time])}

packet_arrive(terminal, s, m) ==
  {Outcome([s EXCEPT !.next_credit_available_time = @ + 1, !.draws = @ + (IF IsLast(m) THEN 2 ELSE 1)],
           m, {Buffer(getRouterID(terminal), m, "TERMINAL")}
                \union (IF IsLast(m) THEN {[NULL EXCEPT !.type = "FINISH", !.at = terminal, !.packet = m.packet,
                                                       !.my_N_hop = m.my_N_hop]} ELSE {}),
           IF IsLast(m) THEN {"c1"} ELSE {}, [NotSaved EXCEPT !.time = s.next_credit_available_time])}

\* FINISH only takes statistics, which are commented out.
packet_finish(s, m) == {Outcome(s, m, {}, {}, NotSaved)}

terminal_buf_update(s, m) == {Outcome([s EXCEPT !.vc_occupancy[m.vc_index] = @ - 1], m, {}, {}, NotSaved)}

terminal_event(terminal, s, m) ==
  CASE m.type = "T_GENERATE" -> packet_generate(s, m)
    [] m.type = "T_SEND" -> packet_send(terminal, s, m)
    [] m.type = "T_ARRIVE" -> packet_arrive(terminal, s, m)
    [] m.type = "BUFFER" -> terminal_buf_update(s, m)
    [] m.type = "FINISH" -> packet_finish(s, m)

\* A chunk that finds the buffer of its channel full comes back as a WAIT event.
\* The event is not given the channel nor the number of the chunk: they are
\* whatever the buffer of the event held before.
router_reschedule_event(s, m) ==
  {Outcome([s EXCEPT !.draws = @ + 1], m,
           {[m EXCEPT !.type = "WAIT", !.vc_index = c, !.chunk = k]}, {"c3"}, NotSaved)
     : c \in StaleChan, k \in 0..num_chunks - 1}

router_packet_send(router, s, m) ==
  UNION {
    LET chan == get_output_port(router, m.dest, n.stop)
        kept == [m EXCEPT !.intm_group = n.intm_group]
        drawn == [s EXCEPT !.draws = @ + (IF n.drawn THEN 1 ELSE 0)]
        cv == IF n.drawn THEN {"c2"} ELSE {}
        hop == IF chan \in GlobalChan THEN "GLOBAL" ELSE "LOCAL"
    IN  IF s.vc_occupancy[chan] < VC_SIZE(chan)
        THEN {Outcome([drawn EXCEPT !.next_output_available_time[chan] = @ + 1,
                                    !.vc_occupancy[chan] = @ + 1, !.draws = @ + 1],
                      kept, {[kept EXCEPT !.type = IF n.stop = m.dest THEN "T_ARRIVE" ELSE "R_ARRIVE",
                                          !.at = n.stop, !.last_hop = hop, !.saved_vc = chan,
                                          !.intm_lp = router]},
                      cv, [NotSaved EXCEPT !.time = s.next_output_available_time[chan], !.old_vc = chan])}
        ELSE IF m.last_hop = "TERMINAL"
        \* dropped: c2 is cleared and the old channel of the message not set
        THEN {Outcome(drawn, kept, {}, {}, [NotSaved EXCEPT !.old_vc = c]) : c \in StaleChan}
        ELSE {[o EXCEPT !.cv = @ \union cv] : o \in router_reschedule_event(drawn, [kept EXCEPT !.vc_index = chan])}
    : n \in get_next_stop(router, m)}

\* The chunk goes on to be sent, and its credit back to where it came from.
router_packet_receive(s, m) ==
  LET arrived == [m EXCEPT !.my_N_hop = @ + 1]
      sender == IF m.last_hop = "TERMINAL" THEN m.src ELSE m.intm_lp
  IN  {Outcome([s EXCEPT !.next_credit_available_time[m.saved_vc] = @ + 1, !.draws = @ + 2],
               arrived, {[arrived EXCEPT !.type = "R_SEND"], Buffer(sender, m, m.last_hop)}, {},
               [NotSaved EXCEPT !.time = s.next_credit_available_time[m.saved_vc]])}

update_router_waiting_list(s, m) ==
  IF s.wait_count >= WAITING_PACK_COUNT THEN {Outcome(s, m, {}, {"c3"}, NotSaved)}
  ELSE {Outcome([s EXCEPT !.waiting_list[s.wait_count] = [chan |-> m.vc_index, packet |-> m],
                          !.wait_count = @ + 1], m, {}, {}, NotSaved)}

waiting_router_packet_free(s, loc) ==
  LET last_one == s.wait_count - 1
  IN  [s EXCEPT !.waiting_list = [i \in DOMAIN @ |-> IF i = last_one THEN NoSlot
                                                     ELSE IF i \in loc..last_one - 1 THEN @[i + 1] ELSE @[i]],
                !.wait_count = @ - 1]

\* The list points to the message of the WAIT event.  When that event has been
\* committed another message may have its memory; those taken here are the ones
\* with a destination.
ReadAt(slot) == {slot.packet} \union {m \in BagToSet(events) : m.dest \in Terminal}

\* The first packet that waits for the channel is sent.  The place freed is not
\* its place but the number of packets that wait: the last one is dropped.
schedule_router_waiting_msg(s, m, chan) ==
  LET J == {j \in 0..s.wait_count - 1 : s.waiting_list[j].chan = chan}
  IN  IF J = {} THEN {Outcome(s, m, {}, {}, NotSaved)}
      ELSE {Outcome(waiting_router_packet_free([s EXCEPT !.draws = @ + 1], s.wait_count),
                    [packet EXCEPT !.type = "BUFFER", !.at = m.at],
                    {[packet EXCEPT !.type = "R_SEND", !.at = m.at]}, {"c3"},
                    [NotSaved EXCEPT !.wait_loc = s.wait_count])
              : packet \in ReadAt(s.waiting_list[Min(J)])}

router_buf_update(s, m) ==
  schedule_router_waiting_msg([s EXCEPT !.vc_occupancy[m.vc_index] = @ - 1], m, m.vc_index)

router_event(router, s, m) ==
  CASE m.type = "R_SEND" -> router_packet_send(router, s, m)
    [] m.type = "R_ARRIVE" -> router_packet_receive(s, m)
    [] m.type = "BUFFER" -> router_buf_update(s, m)
    [] m.type = "WAIT" -> update_router_waiting_list(s, m)

-----------------------------------------------------------------------------
(***************************************************************************)
(* The reverse handlers, for the state of an LP and what last keeps.       *)
(***************************************************************************)
mpi_rc_event_handler(s, l) ==
  IF "c1" \in l.cv THEN s
  ELSE [message_counter |-> s.message_counter - 1, available_time |-> l.saved.time,
        draws |-> s.draws - Cardinality(l.cv \intersect {"c2", "c3"}) - 2]

terminal_rc_event_handler(s, l) ==
  CASE l.msg.type = "T_GENERATE" -> [s EXCEPT !.draws = @ - num_chunks]
    [] l.msg.type = "T_SEND" ->
         [s EXCEPT !.packet_counter = IF "c3" \in l.cv THEN @ - 1 ELSE @,
                   !.terminal_available_time = l.saved.time, !.draws = @ - 1,
                   !.vc_occupancy[l.msg.saved_vc] = @ - 1]
    [] l.msg.type = "T_ARRIVE" ->
         [s EXCEPT !.next_credit_available_time = l.saved.time, !.draws = @ - (IF "c1" \in l.cv THEN 2 ELSE 1)]
    [] l.msg.type = "BUFFER" -> [s EXCEPT !.vc_occupancy[l.msg.vc_index] = @ + 1]
    [] l.msg.type = "FINISH" -> s

\* After a draw for a non-minimal path the reverse handler returns at once.
rc_R_SEND(s, l) ==
  LET undrawn == [s EXCEPT !.draws = @ - 1]
  IN  IF "c2" \in l.cv THEN s
      ELSE IF "c3" \in l.cv THEN undrawn
      ELSE [undrawn EXCEPT !.next_output_available_time[l.saved.old_vc] = l.saved.time,
                           !.vc_occupancy[l.saved.old_vc] = @ - 1]

rc_BUFFER(s, l) ==
  LET loc == l.saved.wait_loc
      credited == [s EXCEPT !.vc_occupancy[l.msg.vc_index] = @ + 1]
  IN  IF "c3" \notin l.cv THEN credited
      ELSE [credited EXCEPT !.draws = @ - 1, !.wait_count = @ + 1,
                            !.waiting_list = [i \in DOMAIN @ |->
                               IF i = loc THEN [chan |-> l.msg.vc_index, packet |-> l.msg]
                               ELSE IF i \in loc + 1..s.wait_count THEN @[i - 1] ELSE @[i]]]

router_rc_event_handler(s, l) ==
  CASE l.msg.type = "R_SEND" -> rc_R_SEND(s, l)
    [] l.msg.type = "R_ARRIVE" ->
         [s EXCEPT !.draws = @ - 2, !.next_credit_available_time[l.msg.saved_vc] = l.saved.time]
    [] l.msg.type = "BUFFER" -> rc_BUFFER(s, l)
    [] l.msg.type = "WAIT" ->
         IF "c3" \in l.cv THEN s
         ELSE [s EXCEPT !.wait_count = @ - 1, !.waiting_list[s.wait_count - 1] = NoSlot]

-----------------------------------------------------------------------------
event_handler(gid, s, m) ==
  CASE gid \in Router -> router_event(gid, s, m)
    [] gid \in Terminal -> terminal_event(gid, s, m)
    [] gid \in Proc -> mpi_msg_send(gid, s, m)

rc_event_handler(gid, s, l) ==
  CASE gid \in Router -> router_rc_event_handler(s, l)
    [] gid \in Terminal -> terminal_rc_event_handler(s, l)
    [] gid \in Proc -> mpi_rc_event_handler(s, l)

mpi_init == [message_counter |-> 0, available_time |-> 0, draws |-> 1]

terminal_init ==
  [vc_occupancy |-> [c \in {0} |-> 0], packet_counter |-> 0, terminal_available_time |-> 0,
   next_credit_available_time |-> 0, draws |-> 0]

router_setup ==
  [next_output_available_time |-> [c \in Chan |-> 0], next_credit_available_time |-> [c \in Chan |-> 0],
   vc_occupancy |-> [c \in Chan |-> 0], wait_count |-> 0, draws |-> 0,
   waiting_list |-> [i \in 0..WAITING_PACK_COUNT |-> NoSlot]]  \* the last slot is past the end

Nothing == [at |-> -1]

Init ==
  /\ lps = [gid \in Router \union Terminal \union Senders |->
              CASE gid \in Router -> router_setup [] gid \in Terminal -> terminal_init [] OTHER -> mpi_init]
  /\ events = SetToBag({[NULL EXCEPT !.type = "MPI_SEND", !.at = p] : p \in Senders})
  /\ last = Nothing
  /\ drifts = 0

Handle(m) ==
  \E o \in event_handler(m.at, lps[m.at], m) :
    /\ lps' = [lps EXCEPT ![m.at] = o.state]
    /\ events' = (events (-) SetToBag({m})) (+) SetToBag(o.sent)
    /\ last' = [at |-> m.at, msg |-> o.msg, sent |-> o.sent, cv |-> o.cv, saved |-> o.saved]
    /\ UNCHANGED drifts

\* The message as its reverse handler leaves it.
Restored(m) == IF m.type = "R_ARRIVE" THEN [m EXCEPT !.my_N_hop = @ - 1] ELSE m

\* rc_R_SEND() is wrong for a packet dropped at its first router, since the channel
\* it takes the chunk off is not set, and for one whose non-minimal path has been
\* drawn, since it then returns at once.
SendUndoable(l) == ~(l.msg.type = "R_SEND" /\ (l.sent = {} \/ "c2" \in l.cv))

RollBack ==
  /\ last # Nothing
  /\ SendUndoable(last) \/ drifts < MaxDrifts
  /\ lps' = [lps EXCEPT ![last.at] = rc_event_handler(last.at, @, last)]
  /\ events' = (events (-) SetToBag(last.sent)) (+) SetToBag({Restored(last.msg)})
  /\ last' = Nothing
  /\ drifts' = IF SendUndoable(last) THEN drifts ELSE drifts + 1

Next == (\E m \in BagToSet(events) : Handle(m)) \/ RollBack

Spec == Init /\ [][Next]_vars

-----------------------------------------------------------------------------
(***************************************************************************)
(* Properties.                                                             *)
(***************************************************************************)
Counts == [gid \in DOMAIN lps \ Senders |-> lps[gid].vc_occupancy]

\* The channel that a chunk sent and not yet received, or a credit, is to be taken off.
OwedBy(m) ==
  CASE m.type = "BUFFER" -> [at |-> m.at, chan |-> m.vc_index]
    [] m.type = "R_ARRIVE" /\ m.last_hop = "TERMINAL" -> [at |-> m.src, chan |-> m.saved_vc]
    [] OTHER -> [at |-> m.intm_lp, chan |-> m.saved_vc]

\* What channels with these counts have beyond what the events of bag B take off again.
Unaccounted(counts, B) ==
  FoldSet(LAMBDA m, rest : [rest EXCEPT ![OwedBy(m).at][OwedBy(m).chan] = @ - B[m]],
          counts, {m \in BagToSet(B) : m.type \in {"R_ARRIVE", "T_ARRIVE", "BUFFER"}})

\* What a sender counts in the buffer of a channel, and the chunks and credits that
\* will take it off again, change together: sending, receiving, waiting and sending
\* again lose or double no credit, and neither does any rollback but the
\* two of SendUndoable.  (Events that stay add nothing to the difference.)
CreditsBalance ==
  last' # Nothing \/ SendUndoable(last) =>
    Unaccounted(Counts', events' (-) events) = Unaccounted(Counts, events (-) events')

\* What the reverse handlers cannot undo: those two, and a waiting packet that a
\* credit has sent on.
Undoable(l) == SendUndoable(l) /\ ~(l.msg.type = "BUFFER" /\ "c3" \in l.cv)

\* But for those three, each reverse handler restores what its handler has changed
\* in the LP, the number of random draws included.
ReverseRestores ==
  last' # Nothing /\ Undoable(last') =>
    rc_event_handler(last'.at, lps'[last'.at], last') = lps[last'.at]

RECURSIVE Reaches(_, _, _)

\* Whether a chunk for dest gets there over n more routers at most.
Reaches(router, dest, n) ==
  LET next == NextStop(router, dest, -1)
  IN  \/ n > 0 /\ next = dest
      \/ /\ n > 1 /\ next # dest
         /\ get_output_port(router, dest, next) \in 0..NUM_ROUTER + GLOBAL_CHANNELS - 1
         /\ Reaches(next, dest, n - 1)

\* From any router a chunk reaches any terminal by a local, a global and a local
\* channel at most, and each channel to another group has one back.
RoutesReach ==
  /\ \A r \in Router, t \in Terminal : Reaches(r, t, 4)
  /\ \A r \in Router, i \in 0..GLOBAL_CHANNELS - 1 :
       \E j \in 0..GLOBAL_CHANNELS - 1 : global_channel(global_channel(r, i), j) = r

\* The maps of LPs to chares and local numbers, and back, agree for any number of
\* chares.
MapsAgree ==
  \A n \in 1..total_routers : \A gid \in Router \union Terminal \union Proc :
    dragonfly_mapping(n, mapping(n, gid), dragonfly_mapping_to_lp(n, gid)) = gid
=============================================================================
