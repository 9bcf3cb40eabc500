------------------------------ MODULE MCParts ------------------------------
(***************************************************************************)
(* The parts of the system that run by themselves, each on a small         *)
(* instance of its own: the collections, the migration of a chare, the     *)
(* random number generators, the example models and the conservative       *)
(* scheduler.  A behaviour is one of subject alone; the state of the       *)
(* others is Off.  Under "maps" nothing happens: what is said there is     *)
(* about where LPs are placed.                                             *)
(***************************************************************************)
EXTENDS Integers, TLC

VARIABLES
  subject,
  queue, pending, all_events, chare, rng,
  cells, calls, last_call,      \* PCS
  crossings, cars, last_car,    \* Traffic
  lps, events, last_event, drifts,  \* Dragonfly
  chares, flights, modes, last_gvt, told_gvt  \* Conservative

pcs_vars == <<cells, calls, last_call>>

traffic_vars == <<crossings, cars, last_car>>

dragonfly_vars == <<lps, events, last_event, drifts>>

conservative_vars == <<chares, flights, modes, last_gvt, told_gvt>>

-----------------------------------------------------------------------------
Queue == INSTANCE PEQueue WITH Chare <- 1..5, LastTime <- 2

HeapTs(e) == <<1, 2, 2, 3, 3, 3>>[e]

OneLP(e) == 0

HeapLp(e) == e % 2

\* Six events for two LPs, three of them at one time.
Heap == INSTANCE PendingHeap WITH Event <- 1..6, Ts <- HeapTs, Lp <- HeapLp, IndexRange <- 8

\* Eight nodes are the fewest that a deletion can leave unbalanced.
Tree == INSTANCE AvlTree WITH Key <- 1..9, MaxNodes <- 8

ChareTs(e) == <<1, 1, 2, 2, 3, 4>>[e]

\* Event 1 causes an event here and one elsewhere; 1, 2 and 5 come from elsewhere.
Sent(e) == CASE e = 1 -> <<3, 6>> [] e = 2 -> <<4>> [] OTHER -> << >>

Migration == INSTANCE ChareMigration WITH
               Event <- 1..6, Ts <- ChareTs, Lp <- OneLP, Sends <- Sent, Local <- 1..5,
               EndTime <- 5, IndexRange <- 8

\* xoroshiro128plus is linear over XOR: the single bits stand for all words.
Words == {<<{i}, {}>> : i \in 0..63} \union {<<{}, {i}>> : i \in 0..63}

Random == INSTANCE Rng WITH V <- 1, W <- 1, Ids <- 0..8, Words <- Words, MaxDraws <- 4

\* Two cells, where calls come, end and move at different times.
Phones == INSTANCE PCS WITH
            NUM_CELLS_X <- 2, NUM_CELLS_Y <- 1, NUM_VP_X <- 1, NUM_VP_Y <- 1,
            MAX_NORMAL_CHANNELS <- 1, MAX_RESERVE_CHANNELS <- 1,
            Portable <- {"p1", "p2"}, HomeCell <- [p \in {"p1", "p2"} |-> 0],
            MOVE_CALL <- {1, 2}, NEXT_CALL <- {1}, CALL_TIME <- {1, 2}, EndTime <- 4,
            pending <- calls, last <- last_call

\* A grid with as many cells to a chare in each direction, for the maps.
Grid == INSTANCE PCS WITH
          NUM_CELLS_X <- 4, NUM_CELLS_Y <- 6, NUM_VP_X <- 2, NUM_VP_Y <- 3,
          MAX_NORMAL_CHANNELS <- 0, MAX_RESERVE_CHANNELS <- 0, Portable <- {}, HomeCell <- << >>,
          MOVE_CALL <- {}, NEXT_CALL <- {}, CALL_TIME <- {}, EndTime <- 0,
          pending <- calls, last <- last_call

\* A car from the start block and three from beside and below it go to the middle of
\* the grid, by all four lanes.
Streets == INSTANCE Traffic WITH
             g_num_x <- 3, g_num_y <- 3, g_total_cars <- 4, start_cars <- 1,
             g_start_size <- 2, g_start_x <- 0, g_start_y <- 0,
             g_end_size <- 1, g_end_x <- 1, g_end_y <- 1,
             lps <- crossings, messages <- cars, last <- last_car

\* Three groups of one router.  The two chunks of a packet go to the next group, by
\* it or by the third one; every buffer has room for one chunk.  The second chunk is
\* dropped at the first router, or waits at another until a credit comes.
Network == INSTANCE Dragonfly WITH
             NUM_ROUTER <- 1, GLOBAL_CHANNELS <- 2, NUM_TERMINALS <- 1,
             LOCAL_VC_SIZE <- 1, GLOBAL_VC_SIZE <- 1, TERMINAL_VC_SIZE <- 1,
             WAITING_PACK_COUNT <- 1, num_chunks <- 2, max_packets <- 1,
             ROUTING <- "NON_MINIMAL", traffic <- "NEAREST_ROUTER", Senders <- {6}, StaleChan <- {2},
             MaxDrifts <- 1, last <- last_event

\* Five groups of two routers, for the routes and the maps.
Wide == INSTANCE Dragonfly WITH
          NUM_ROUTER <- 2, GLOBAL_CHANNELS <- 2, NUM_TERMINALS <- 1,
          LOCAL_VC_SIZE <- 0, GLOBAL_VC_SIZE <- 0, TERMINAL_VC_SIZE <- 0,
          WAITING_PACK_COUNT <- 1, num_chunks <- 1, max_packets <- 0,
          ROUTING <- "MINIMAL", traffic <- "NEAREST_ROUTER", Senders <- {}, StaleChan <- {},
          MaxDrifts <- 0, last <- last_event

\* Three chares on two PEs; each sends to both others, and sooner or later to itself.
Successor(c) == CASE c = "a" -> "b" [] c = "b" -> "c" [] c = "c" -> "a"

Start(c) == IF c = "b" THEN {1, 2} ELSE {0}

Sending(c, s, t) ==
  IF s = 0 THEN {<<Successor(c), 2>>, <<Successor(Successor(c)), 3>>} ELSE {<<Successor(c), 3>>, <<c, 2>>}

Lockstep == INSTANCE Conservative WITH
              PE <- {"p1", "p2"}, Root <- "p1", EndTime <- 7, Chare <- {"a", "b", "c"}, Phases <- 2,
              Initial <- Start, Sends <- Sending,
              Home <- [c \in {"a", "b", "c"} |-> IF c = "b" THEN "p2" ELSE "p1"], Lookahead <- 2,
              chare <- chares, net <- flights, mode <- modes, gvt <- last_gvt, g_last_gvt <- told_gvt

Sizes == INSTANCE Setup

ASSUME PartsAssumption ==
  /\ Queue!Assumptions /\ Heap!Assumptions /\ Tree!Assumptions /\ Migration!Assumptions
  /\ Random!Assumptions /\ Phones!Assumptions /\ Grid!Assumptions /\ Streets!Assumptions
  /\ Network!Assumptions /\ Wide!Assumptions /\ Lockstep!Assumptions

-----------------------------------------------------------------------------
Off == "off"

Init ==
  /\ subject \in {"queue", "heap", "tree", "migration", "random", "phones", "streets", "network", "lockstep", "maps"}
  /\ IF subject = "queue" THEN Queue!Init ELSE queue = Off
  /\ IF subject = "heap" THEN Heap!Init ELSE pending = Off
  /\ IF subject = "tree" THEN Tree!Init ELSE all_events = Off
  /\ IF subject = "migration" THEN Migration!Init ELSE chare = Off
  /\ IF subject = "random" THEN Random!Init ELSE rng = Off
  /\ IF subject = "phones" THEN Phones!Init ELSE cells = Off /\ calls = Off /\ last_call = Off
  /\ IF subject = "streets" THEN Streets!Init ELSE crossings = Off /\ cars = Off /\ last_car = Off
  /\ IF subject = "network" THEN Network!Init ELSE lps = Off /\ events = Off /\ last_event = Off /\ drifts = Off
  /\ IF subject = "lockstep" THEN Lockstep!Init
     ELSE chares = Off /\ flights = Off /\ modes = Off /\ last_gvt = Off /\ told_gvt = Off

QueueStep ==
  /\ subject = "queue" /\ Queue!Next
  /\ UNCHANGED <<subject, pending, all_events, chare, rng, pcs_vars, traffic_vars, dragonfly_vars, conservative_vars>>

HeapStep ==
  /\ subject = "heap" /\ Heap!Next
  /\ UNCHANGED <<subject, queue, all_events, chare, rng, pcs_vars, traffic_vars, dragonfly_vars, conservative_vars>>

TreeStep ==
  /\ subject = "tree" /\ Tree!Next
  /\ UNCHANGED <<subject, queue, pending, chare, rng, pcs_vars, traffic_vars, dragonfly_vars, conservative_vars>>

MigrationStep ==
  /\ subject = "migration" /\ Migration!Next
  /\ UNCHANGED <<subject, queue, pending, all_events, rng, pcs_vars, traffic_vars, dragonfly_vars, conservative_vars>>

RandomStep ==
  /\ subject = "random" /\ Random!Next
  /\ UNCHANGED <<subject, queue, pending, all_events, chare, pcs_vars, traffic_vars, dragonfly_vars, conservative_vars>>

PhonesStep ==
  /\ subject = "phones" /\ Phones!Next
  /\ UNCHANGED <<subject, queue, pending, all_events, chare, rng, traffic_vars, dragonfly_vars, conservative_vars>>

StreetsStep ==
  /\ subject = "streets" /\ Streets!Next
  /\ UNCHANGED <<subject, queue, pending, all_events, chare, rng, pcs_vars, dragonfly_vars, conservative_vars>>

NetworkStep ==
  /\ subject = "network" /\ Network!Next
  /\ UNCHANGED <<subject, queue, pending, all_events, chare, rng, pcs_vars, traffic_vars, conservative_vars>>

LockstepStep ==
  /\ subject = "lockstep" /\ Lockstep!Next
  /\ UNCHANGED <<subject, queue, pending, all_events, chare, rng, pcs_vars, traffic_vars, dragonfly_vars>>

Next ==
  \/ QueueStep \/ HeapStep \/ TreeStep \/ MigrationStep \/ RandomStep
  \/ PhonesStep \/ StreetsStep \/ NetworkStep \/ LockstepStep

vars ==
  <<subject, queue, pending, all_events, chare, rng, pcs_vars, traffic_vars, dragonfly_vars,
    conservative_vars>>

Spec == Init /\ [][Next]_vars

-----------------------------------------------------------------------------
\* update() and remove() of PEQueue find the token of a chare by its index.
TokensIndexed == subject = "queue" => Queue!TypeOK /\ Queue!TokensIndexed

\* Until a chare leaves, schedule_next_lp() takes the earliest one.
OrderKeptUntilUnregister == [][subject = "queue" => Queue!OrderKeptUntilUnregister]_vars

\* The first of a chare's pending events is as early as any (min()).
FirstIsEarliest == subject = "heap" => Heap!TypeOK /\ Heap!FirstIsEarliest

\* Cancelling a pending event erases that one (erase()).
ErasesTheVictim == [][subject = "heap" => Heap!ErasesTheVictim]_vars

\* The AVL tree finds the events flagged as being in it (avlSearch()).
SearchFindsFlagged == subject = "tree" => Tree!TypeOK /\ Tree!SearchFindsFlagged

\* Insertion keeps the AVL tree balanced and its heights true (avlRebalance()).
InsertionKeepsBalance == [][subject = "tree" => Tree!InsertionKeepsBalance]_vars

\* Processed events are linked to what they caused (add_causality()).
CausalityLinked == subject = "migration" => Migration!TypeOK /\ Migration!CausalityLinked

\* Events of other chares can be found by anti-events or wait to be cancelled.
RemoteEventsTracked == subject = "migration" => Migration!RemoteEventsTracked

\* Packing and unpacking a chare loses none of its events (lp_pup.C).
MigrationKeepsEvents == [][subject = "migration" => Migration!MigrationKeepsEvents]_vars

\* The state of a generator depends on the count of draws alone, and the streams of
\* the LPs lie one behind the other (clcg4.h, xoroshiro.h).
DrawsReversible == subject = "random" => Random!CountDeterminesState /\ Random!StreamsFollow

\* No phone channel is lost or given twice (pcs.C).
ChannelsAccounted == subject = "phones" => Phones!ChannelsAccounted

\* Cars are where the lanes count them, and none is lost (intersection.C).
LanesHoldTheCars == subject = "streets" => Streets!LanesHoldTheCars

\* No step of the dragonfly network loses or doubles a credit of a channel, and no
\* rollback but that of a packet dropped at its first router or sent on a non-minimal
\* path drawn there (dragonfly.C).
CreditsBalance == [][subject = "network" => Network!CreditsBalance]_vars

\* The conservative scheduler never runs ahead of an event (conservative.C).
ExecutesInOrder == subject = "lockstep" => Lockstep!TypeOK /\ Lockstep!ExecutesInOrder

\* The reverse handlers of the example models undo their handlers, but for three of
\* dragonfly.C: of a packet dropped at its first router, of one sent on a non-minimal
\* path drawn there, and of a credit that sends on a waiting packet.
ReverseRestores ==
  [][CASE subject = "phones" -> Phones!ReverseRestores
       [] subject = "streets" -> Streets!ReverseRestores
       [] subject = "network" -> Network!ReverseRestores
       [] OTHER -> TRUE]_vars

\* Routers of the dragonfly network find the way to every terminal.
RoutesReach == subject = "maps" => Wide!RoutesReach

\* Where the models send an event for an LP, the LP is (g_chare_map, g_local_map,
\* g_init_map), also with the default mapper (mapper.h, setup.C).
MapsAgree == subject = "maps" => Grid!MapsAgree /\ Wide!MapsAgree /\ Sizes!SetupAgrees(8)
=============================================================================
