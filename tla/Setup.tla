------------------------------- MODULE Setup -------------------------------
(***************************************************************************)
(* The numbers of chares and LPs a simulation is created with              *)
(* (tw_create_simulation in setup.C) under the default BlockMapper         *)
(* (mapper.h), which places blocks of g_lps_per_chare LPs on the chares.   *)
(***************************************************************************)
EXTENDS Integers

get_chare_id(lps_per_chare, global_id) == global_id \div lps_per_chare

get_local_id(lps_per_chare, global_id) == global_id % lps_per_chare

get_global_id(lps_per_chare, chare_id, local_id) == lps_per_chare * chare_id + local_id

\* The loop of setup.C: chares are added until they have room for total LPs.
ChareCount(lps_per_chare, total) ==
  CHOOSE n \in 0..total : lps_per_chare * n >= total /\ (n > 0 => lps_per_chare * (n - 1) < total)

\* What the settings become: of g_num_chares and g_total_lps, the one left at
\* its default of 1 is computed; if neither is, both are taken as they are.
tw_create_simulation(sequential, num_chares, lps_per_chare, total_lps) ==
  CASE sequential ->
         [num_chares |-> 1, lps_per_chare |-> total_lps, total_lps |-> total_lps]
    [] ~sequential /\ total_lps = 1 ->
         [num_chares |-> num_chares, lps_per_chare |-> lps_per_chare,
          total_lps |-> num_chares * lps_per_chare]
    [] ~sequential /\ total_lps # 1 /\ num_chares = 1 ->
         [num_chares |-> ChareCount(lps_per_chare, total_lps), lps_per_chare |-> lps_per_chare,
          total_lps |-> total_lps]
    [] OTHER ->
         [num_chares |-> num_chares, lps_per_chare |-> lps_per_chare, total_lps |-> total_lps]

-----------------------------------------------------------------------------
\* Every LP that events can be sent to (any id below g_total_lps) is created, by
\* the chare and at the place where the mapper looks for it.
EveryLPHasAPlace(s) ==
  \A gid \in 0..(s.total_lps - 1) :
    LET c == get_chare_id(s.lps_per_chare, gid)
        l == get_local_id(s.lps_per_chare, gid)
    IN  c < s.num_chares /\ l < s.lps_per_chare /\ get_global_id(s.lps_per_chare, c, l) = gid

\* The settings above are consistent unless all three were given and disagree.
SetupAgrees(n) ==
  \A seq \in BOOLEAN, chares, lps, total \in 1..n :
    seq \/ total = 1 \/ chares = 1 =>
      EveryLPHasAPlace(tw_create_simulation(seq, chares, lps, total))
=============================================================================
