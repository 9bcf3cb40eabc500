------------------------- MODULE Conservative_proof -------------------------
(***************************************************************************)
(* The conservative scheduler never runs ahead of an event, although it    *)
(* cannot undo one: for any PEs, chares, lookahead and simulation model    *)
(* that keeps to the lookahead, no event becomes pending that is earlier   *)
(* than one its chare has executed.                                        *)
(*                                                                         *)
(* Why the invariant is what it is.  The events of a window, from the GVT  *)
(* to a lookahead later, are sent before the window opens: what is sent in *)
(* it is past its end (Windowed).  A PE that waits has nothing left in the *)
(* window (Windowed again), so that the next window begins at the end of   *)
(* this one or later, and what was executed in this one is before it.      *)
(* Within the window a chare takes its earliest event, so that only its    *)
(* own events must be compared with each other (Ordered).                  *)
(***************************************************************************)
EXTENDS Conservative, FiniteSetTheorems, WellFoundedInduction, TLAPS

\* No PE is told a GVT but the last, and until it is told that it has the one
\* before.
Told(p) == /\ g_last_gvt[p] <= gvt
           /\ mode[p] # "told" => g_last_gvt[p] = gvt

\* Where the window ends.
Horizon == gvt + Lookahead

Windowed(c) ==
  \A t \in EventTime :
    /\ chare[c].executed[t] > 0 => t < Horizon
    /\ chare[c].events[t] > 0 => t >= IF mode[Home[c]] = "waiting" THEN Horizon ELSE gvt
    /\ net[c][t] > 0 => t >= Horizon

Ordered(c) ==
  \A t, u \in EventTime : chare[c].executed[u] > 0 /\ chare[c].events[t] > 0 => u <= t

IInv ==
  /\ TypeOK
  /\ \A p \in PE : Told(p)
  /\ \A c \in Chare : Windowed(c) /\ Ordered(c)

-----------------------------------------------------------------------------
(***************************************************************************)
(* The tokens, and the minimum of a PE.                                    *)
(***************************************************************************)
\* The earliest of some times (events.min(), the top of next_lps).
LEMMA MinIsLeast ==
  ASSUME NEW S \in SUBSET Nat, S # {}
  PROVE  Min(S) \in S /\ \A x \in S : Min(S) <= x
<1> DEFINE R == OpToRel(<, Nat)
<1>1. IsWellFoundedOn(R, Nat)
  BY NatLessThanWellFounded
<1>2. \A m, n \in Nat : m < n => <<m, n>> \in R
  BY DEF OpToRel
<1> HIDE DEF R
<1>3. PICK m \in S : \A n \in S : ~ (<<n, m>> \in R)
  BY <1>1, WFMin
<1>4. \A x \in S : m <= x
  <2> TAKE x \in S
  <2>1. m \in Nat /\ x \in Nat
    OBVIOUS
  <2>2. ~ (x < m)
    BY <1>2, <1>3, <2>1, Zenon
  <2>3. QED
    BY <2>1, <2>2
<1>5. QED
  BY <1>4 DEF Min

\* Times are natural numbers, and there is a last one.
LEMMA Times ==
  /\ EndTime \in Nat /\ EndTime \in Time
  /\ \A t \in EventTime : t \in Nat /\ t \in Time /\ t < EndTime
  /\ \A t \in Time : t \in Nat /\ t <= EndTime /\ (t < EndTime => t \in EventTime)
BY EndTimeAssumption DEF Time, EventTime

\* The token of a chare is its earliest pending event, if it has one.
LEMMA TokenIs ==
  ASSUME NEW c \in Chare
  PROVE  /\ Token(c) \in Time
         /\ Token(c) < EndTime => chare[c].events[Token(c)] > 0
         /\ \A t \in EventTime : chare[c].events[t] > 0 => Token(c) <= t
<1> DEFINE S == {t \in EventTime : chare[c].events[t] > 0} \union {EndTime}
<1>1. S \in SUBSET Nat /\ S # {} /\ S \subseteq Time
  BY Times
<1>2. Token(c) = Min(S)
  BY DEF Token
<1>3. Min(S) \in S /\ \A x \in S : Min(S) <= x
  <2> HIDE DEF S
  <2>1. QED
    BY <1>1, MinIsLeast
<1>4. QED
  BY <1>1, <1>2, <1>3, Times

\* get_min_time() is the earliest pending event of the chares of a PE.
LEMMA MinimumIs ==
  ASSUME NEW p \in PE
  PROVE  /\ get_min_time(p) \in Time
         /\ get_min_time(p) < EndTime => \E c \in ChareOn(p) : Token(c) = get_min_time(p)
         /\ \A c \in ChareOn(p), t \in EventTime : chare[c].events[t] > 0 => get_min_time(p) <= t
<1> DEFINE S == {Token(c) : c \in ChareOn(p)} \union {EndTime}
<1>0. \A c \in ChareOn(p) : c \in Chare
  BY DEF ChareOn
<1>1. S \in SUBSET Nat /\ S # {} /\ S \subseteq Time
  BY <1>0, TokenIs, Times
<1>2. get_min_time(p) = Min(S)
  BY DEF get_min_time
<1>3. Min(S) \in S /\ \A x \in S : Min(S) <= x
  <2> HIDE DEF S
  <2>1. QED
    BY <1>1, MinIsLeast
<1>4. get_min_time(p) \in Time
  BY <1>1, <1>2, <1>3
<1>5. ASSUME get_min_time(p) < EndTime PROVE \E c \in ChareOn(p) : Token(c) = get_min_time(p)
  <2>1. get_min_time(p) # EndTime
    BY <1>4, <1>5, Times
  <2>2. QED
    BY <1>2, <1>3, <2>1
<1>6. ASSUME NEW c \in ChareOn(p), NEW t \in EventTime, chare[c].events[t] > 0
      PROVE  get_min_time(p) <= t
  <2>1. Token(c) <= t /\ Token(c) \in Time
    BY <1>0, <1>6, TokenIs
  <2>2. get_min_time(p) <= Token(c)
    BY <1>2, <1>3
  <2>3. get_min_time(p) \in Nat /\ Token(c) \in Nat /\ t \in Nat
    BY <1>4, <2>1, Times
  <2>4. QED
    BY <2>1, <2>2, <2>3
<1>7. QED
  BY <1>4, <1>5, <1>6

\* A minimum that is no earlier than g, when no event of the PE is.
LEMMA MinimumAtLeast ==
  ASSUME NEW p \in PE, NEW g \in Time,
         \A c \in ChareOn(p), t \in EventTime : chare[c].events[t] > 0 => t >= g
  PROVE  get_min_time(p) >= g
<1> DEFINE l == get_min_time(p)
<1>1. l \in Time
  BY MinimumIs
<1>2. CASE l < EndTime
  <2>1. PICK c \in ChareOn(p) : Token(c) = l
    BY <1>2, MinimumIs
  <2>2. c \in Chare
    BY DEF ChareOn
  <2>3. chare[c].events[l] > 0 /\ l \in EventTime
    BY <1>1, <1>2, <2>1, <2>2, TokenIs, Times
  <2>4. QED
    BY <2>3
<1>3. CASE ~(l < EndTime)
  <2> HIDE DEF l
  <2>1. l \in Nat /\ l >= EndTime /\ g \in Nat /\ g <= EndTime
    BY <1>1, <1>3, EndTimeAssumption DEF Time
  <2>2. l >= g
    BY <2>1, EndTimeAssumption
  <2>3. QED
    BY <2>2 DEF l
<1>4. QED
  BY <1>2, <1>3

-----------------------------------------------------------------------------
(***************************************************************************)
(* The invariant is inductive.                                             *)
(***************************************************************************)
\* Everything starts at time zero, with nothing in flight or executed.
LEMMA InitIInv ==
  ASSUME Assumptions, Init
  PROVE  IInv
<1>1. TypeOK
  <2>1. chare \in [Chare -> LPChare]
    <3>1. 0 \in LPState
      BY PhasesAssumption DEF LPState
    <3>2. QED
      BY <3>1 DEF Init, LPChare, Counts, NoEvents
  <2>2. 0 \in Time
    BY Times DEF Time
  <2>3. net \in [Chare -> Counts]
    BY DEF Init, Counts, NoEvents
  <2>4. mode \in [PE -> Mode]
    BY DEF Init, Mode
  <2>5. gvt \in Time /\ g_last_gvt \in [PE -> Time]
    BY <2>2 DEF Init
  <2>6. QED
    BY <2>1, <2>3, <2>4, <2>5 DEF TypeOK
<1>2. \A p \in PE : Told(p)
  <2>1. gvt = 0 /\ \A p \in PE : g_last_gvt[p] = 0
    BY DEF Init
  <2>2. ASSUME NEW p \in PE PROVE g_last_gvt[p] <= gvt /\ g_last_gvt[p] = gvt
    BY <2>1
  <2>3. QED
    BY <2>2 DEF Told
<1>3. ASSUME NEW c \in Chare PROVE Windowed(c) /\ Ordered(c)
  <2>1. \A t \in EventTime : chare[c].executed[t] = 0 /\ net[c][t] = 0 /\ t >= gvt
    BY Times DEF Init, NoEvents
  <2>2. mode[Home[c]] # "waiting"
    BY DEF Init, Assumptions
  <2>3. QED
    BY <2>1, <2>2 DEF Windowed, Ordered
<1>4. QED
  BY <1>1, <1>2, <1>3 DEF IInv

\* Only the scheduler's mode changes: execute() arrives, or its loop ends.
LEMMA ModeKeepsIInv ==
  ASSUME Assumptions, IInv, NEW p \in PE, execute(p) \/ iteration_done(p)
  PROVE  IInv'
<1>1. /\ chare' = chare /\ net' = net /\ gvt' = gvt /\ g_last_gvt' = g_last_gvt
      /\ mode[p] # "told" /\ mode' \in [PE -> Mode]
      /\ \A q \in PE : q # p => mode'[q] = mode[q]
      /\ mode'[p] # "told"
      /\ mode'[p] = "waiting" => mode[p] = "executing" /\ ~WithinLookahead(p)
  BY DEF IInv, TypeOK, execute, iteration_done, Mode
<1>2. TypeOK'
  BY <1>1 DEF IInv, TypeOK
<1>3. \A q \in PE : Told(q)'
  BY <1>1 DEF IInv, Told
<1>4. ASSUME NEW c \in Chare PROVE Ordered(c)'
  BY <1>1 DEF IInv, Ordered
<1>5. ASSUME NEW c \in Chare PROVE Windowed(c)'
  <2>1. Home[c] \in PE /\ Lookahead \in Nat /\ gvt \in Nat /\ Windowed(c)
    BY Times DEF Assumptions, IInv, TypeOK
  <2>2. ASSUME NEW t \in EventTime, chare[c].events[t] > 0, mode'[Home[c]] = "waiting"
        PROVE  t >= Horizon
    <3>1. CASE Home[c] = p
      <4>1. c \in ChareOn(p)
        BY <3>1 DEF ChareOn
      <4>2. get_min_time(p) \in Time /\ get_min_time(p) <= t
        BY <2>2, <4>1, MinimumIs
      <4>8. get_min_time(p) \in Nat /\ t \in Nat /\ t < EndTime /\ EndTime \in Nat
        BY <4>2, Times
      <4>3. get_min_time(p) < EndTime
        BY <4>2, <4>8
      <4>4. g_last_gvt[p] = gvt
        BY <1>1 DEF IInv, Told
      <4>5. ~(get_min_time(p) < gvt + Lookahead)
        BY <1>1, <2>2, <3>1, <4>3, <4>4 DEF WithinLookahead
      <4>6. QED
        BY <2>1, <4>2, <4>8, <4>5 DEF Horizon
    <3>2. CASE Home[c] # p
      BY <1>1, <2>1, <2>2, <3>2 DEF Windowed
    <3>3. QED
      BY <3>1, <3>2
  <2>3. ASSUME NEW t \in EventTime, chare[c].events[t] > 0 PROVE t >= gvt
    BY <2>1, <2>3, Times DEF Windowed, Horizon
  <2>4. QED
    BY <1>1, <2>1, <2>2, <2>3 DEF Windowed, Horizon
<1>6. QED
  BY <1>2, <1>3, <1>4, <1>5 DEF IInv

\* What an event of c at t leaves: one pending event less, and what is sent.
LEMMA ExecuteMeIs ==
  ASSUME Assumptions, TypeOK, NEW c \in Chare, NEW t \in EventTime, chare[c].events[t] > 0,
         execute_me(c, t)
  PROVE  /\ chare' \in [Chare -> LPChare] /\ net' \in [Chare -> Counts]
         /\ \A d \in Chare : d # c => chare'[d] = chare[d]
         /\ \A u \in EventTime : chare'[c].executed[u] > 0 => u = t \/ chare[c].executed[u] > 0
         /\ \A u \in EventTime :
              chare'[c].events[u] > 0 => chare[c].events[u] > 0 \/ u >= t + Lookahead
         /\ \A d \in Chare, u \in EventTime :
              /\ net'[d][u] >= net[d][u]
              /\ net'[d][u] > net[d][u] => u >= t + Lookahead
<1>0. /\ chare[c] \in LPChare /\ chare[c].state \in LPState /\ Lookahead \in Nat
      /\ chare[c].events \in [EventTime -> Nat] /\ chare[c].executed \in [EventTime -> Nat]
  BY DEF TypeOK, LPChare, Counts, Assumptions
<1>1. ASSUME NEW d \in Chare, NEW u \in EventTime
      PROVE  /\ Sending(c, t, d, u) \in {0, 1}
             /\ Sending(c, t, d, u) = 1 => u >= t + Lookahead
  <2>1. Sending(c, t, d, u) \in {0, 1}
    BY DEF Sending
  <2>2. ASSUME Sending(c, t, d, u) = 1 PROVE u >= t + Lookahead
    <3>1. <<d, u - t>> \in Sends(c, chare[c].state, t)
      BY <2>2 DEF Sending
    <3>2. \A x \in Sends(c, chare[c].state, t) : x[2] >= Lookahead
      BY <1>0 DEF Assumptions
    <3>3. u - t >= Lookahead
      BY <3>1, <3>2
    <3>4. QED
      BY <1>0, <3>3, Times
  <2>3. QED
    BY <2>1, <2>2
<1> DEFINE sent(d, u) == Sending(c, t, d, u)
           events == [u \in EventTime |-> chare[c].events[u] - (IF u = t THEN 1 ELSE 0) + sent(c, u)]
           executed == [chare[c].executed EXCEPT ![t] = chare[c].executed[t] + 1]
           h == [events |-> events, executed |-> executed, state |-> forward_state(chare[c].state)]
           n == [d \in Chare |-> IF d = c THEN net[c] ELSE [u \in EventTime |-> net[d][u] + sent(d, u)]]
<1>2. chare' = [chare EXCEPT ![c] = h] /\ net' = n
  BY DEF execute_me
<1>3. \A d \in Chare, u \in EventTime : sent(d, u) \in {0, 1} /\ (sent(d, u) = 1 => u >= t + Lookahead)
  BY <1>1
<1> HIDE DEF sent
<1>4. events \in Counts /\ \A u \in EventTime :
        events[u] > 0 => chare[c].events[u] > 0 \/ u >= t + Lookahead
  <2>1. ASSUME NEW u \in EventTime
        PROVE  /\ events[u] \in Nat
               /\ events[u] > 0 => chare[c].events[u] > 0 \/ u >= t + Lookahead
    <3>1. chare[c].events[u] \in Nat /\ (u = t => chare[c].events[u] > 0)
      BY <1>0
    <3>2. sent(c, u) \in {0, 1} /\ (sent(c, u) = 1 => u >= t + Lookahead)
      BY <1>3
    <3>3. events[u] = chare[c].events[u] - (IF u = t THEN 1 ELSE 0) + sent(c, u)
      OBVIOUS
    <3> HIDE DEF events
    <3>4. QED
      BY <3>1, <3>2, <3>3
  <2>2. QED
    BY <2>1 DEF Counts
<1>5. executed \in Counts /\ \A u \in EventTime : executed[u] > 0 => u = t \/ chare[c].executed[u] > 0
  BY <1>0 DEF Counts
<1>6. forward_state(chare[c].state) \in LPState
  BY <1>0, PhasesAssumption DEF forward_state, LPState
<1>7. n \in [Chare -> Counts]
      /\ \A d \in Chare, u \in EventTime :
           n[d][u] >= net[d][u] /\ (n[d][u] > net[d][u] => u >= t + Lookahead)
  <2>1. ASSUME NEW d \in Chare
        PROVE  n[d] \in Counts
               /\ \A u \in EventTime :
                    n[d][u] >= net[d][u] /\ (n[d][u] > net[d][u] => u >= t + Lookahead)
    <3>1. net[d] \in [EventTime -> Nat]
      BY DEF TypeOK, Counts
    <3>2. CASE d = c
      BY <3>1, <3>2 DEF Counts
    <3>3. CASE d # c
      <4>1. n[d] = [u \in EventTime |-> net[d][u] + sent(d, u)]
        BY <3>3
      <4>2. \A u \in EventTime : net[d][u] \in Nat /\ sent(d, u) \in {0, 1}
        BY <1>3, <3>1
      <4>3. \A u \in EventTime : n[d][u] = net[d][u] + sent(d, u)
        BY <4>1
      <4>4. n[d] \in Counts
        BY <4>1, <4>2 DEF Counts
      <4> HIDE DEF n
      <4>5. QED
        BY <1>3, <4>2, <4>3, <4>4
    <3>4. QED
      BY <3>2, <3>3
  <2>2. QED
    BY <2>1
<1>8. h \in LPChare
  BY <1>4, <1>5, <1>6 DEF LPChare
<1> HIDE DEF n, events, executed
<1>9. chare'[c] = h /\ chare' \in [Chare -> LPChare] /\ \A d \in Chare : d # c => chare'[d] = chare[d]
  BY <1>2, <1>8 DEF TypeOK
<1>10. chare'[c].events = events /\ chare'[c].executed = executed
  BY <1>9
<1>11. QED
  BY <1>2, <1>4, <1>5, <1>7, <1>9, <1>10

\* The event executed is the earliest of its chare, and within the window.
LEMMA ScheduledIs ==
  ASSUME Assumptions, IInv, NEW p \in PE, schedule_next_lp(p)
  PROVE  \E c \in ChareOn(p), t \in EventTime :
           /\ t = get_min_time(p) /\ t = Token(c) /\ chare[c].events[t] > 0
           /\ gvt <= t /\ t < Horizon
           /\ execute_me(c, t)
<1>1. PICK c \in ChareOn(p) : Token(c) = get_min_time(p) /\ execute_me(c, Token(c))
  BY DEF schedule_next_lp
<1>2. c \in Chare /\ Home[c] = p
  BY DEF ChareOn
<1>3. mode[p] = "executing" /\ get_min_time(p) < EndTime /\ get_min_time(p) < g_last_gvt[p] + Lookahead
  BY DEF schedule_next_lp, WithinLookahead
<1>4. g_last_gvt[p] = gvt
  BY <1>3 DEF IInv, Told
<1> DEFINE t == Token(c)
<1>5. t \in EventTime /\ chare[c].events[t] > 0 /\ t < Horizon
  BY <1>1, <1>2, <1>3, <1>4, TokenIs, Times DEF Horizon
<1>6. gvt <= t
  BY <1>2, <1>3, <1>5 DEF IInv, Windowed
<1>7. QED
  BY <1>1, <1>5, <1>6

\* Executing an event of the window: all it sends is past the window.
LEMMA ScheduleKeepsIInv ==
  ASSUME Assumptions, IInv, NEW p \in PE, schedule_next_lp(p)
  PROVE  IInv'
<1>1. PICK c \in ChareOn(p), t \in EventTime :
        /\ t = Token(c) /\ chare[c].events[t] > 0
        /\ gvt <= t /\ t < Horizon /\ execute_me(c, t)
  BY ScheduledIs
<1>2. c \in Chare /\ Home[c] = p
  BY DEF ChareOn
<1>3. mode' = mode /\ gvt' = gvt /\ g_last_gvt' = g_last_gvt /\ mode[p] = "executing"
  BY DEF schedule_next_lp
<1>4. /\ chare' \in [Chare -> LPChare] /\ net' \in [Chare -> Counts]
      /\ \A d \in Chare : d # c => chare'[d] = chare[d]
      /\ \A u \in EventTime : chare'[c].executed[u] > 0 => u = t \/ chare[c].executed[u] > 0
      /\ \A u \in EventTime : chare'[c].events[u] > 0 => chare[c].events[u] > 0 \/ u >= t + Lookahead
      /\ \A d \in Chare, u \in EventTime :
           /\ net'[d][u] >= net[d][u]
           /\ net'[d][u] > net[d][u] => u >= t + Lookahead
  BY <1>1, <1>2, ExecuteMeIs DEF IInv
<1>5. Lookahead \in Nat /\ Lookahead > 0 /\ gvt \in Nat /\ t \in Nat /\ net \in [Chare -> Counts]
  BY Times DEF Assumptions, IInv, TypeOK
<1>6. \A u \in EventTime : u \in Nat /\ (u >= t + Lookahead => u >= Horizon /\ u > t)
  BY <1>1, <1>5, Times DEF Horizon
<1>7. Horizon' = Horizon
  BY <1>3 DEF Horizon
<1>8. TypeOK' /\ \A q \in PE : Told(q)'
  BY <1>3, <1>4 DEF IInv, TypeOK, Told
<1>9. ASSUME NEW d \in Chare PROVE Windowed(d)'
  <2>1. Windowed(d)
    BY DEF IInv
  <2>2. ASSUME NEW u \in EventTime, net'[d][u] > 0 PROVE u >= Horizon
    <3>1. net[d][u] \in Nat /\ net'[d][u] \in Nat
      BY <1>4, <1>5 DEF Counts
    <3>2. net[d][u] > 0 \/ u >= t + Lookahead
      BY <1>4, <2>2, <3>1
    <3>3. QED
      BY <1>6, <2>1, <3>2 DEF Windowed
  <2>3. ASSUME d = c, NEW u \in EventTime
        PROVE  /\ chare'[c].executed[u] > 0 => u < Horizon
               /\ chare'[c].events[u] > 0 => u >= gvt
    <3>1. chare'[c].executed[u] > 0 => u < Horizon
      BY <1>1, <1>4, <2>1, <2>3 DEF Windowed
    <3>2. chare[c].events[u] > 0 => u >= gvt
      BY <1>2, <1>3, <2>1, <2>3 DEF Windowed
    <3>3. QED
      BY <1>1, <1>4, <1>5, <1>6, <3>1, <3>2
  <2>4. CASE d = c
    BY <1>2, <1>3, <1>7, <2>2, <2>3, <2>4 DEF Windowed
  <2>5. CASE d # c
    BY <1>3, <1>4, <1>7, <2>1, <2>2, <2>5 DEF Windowed
  <2>6. QED
    BY <2>4, <2>5
<1>10. ASSUME NEW d \in Chare PROVE Ordered(d)'
  <2>1. CASE d # c
    BY <1>4, <2>1 DEF IInv, Ordered
  <2>2. ASSUME NEW u \in EventTime, NEW v \in EventTime,
               chare'[c].executed[u] > 0, chare'[c].events[v] > 0
        PROVE  u <= v
    <3>1. u <= t
      <4>1. chare[c].executed[u] > 0 => u <= t
        BY <1>1, <1>2 DEF IInv, Ordered
      <4>2. QED
        BY <1>4, <1>5, <2>2, <4>1
    <3>2. t <= v
      <4>1. chare[c].events[v] > 0 => t <= v
        BY <1>1, <1>2, TokenIs
      <4>2. v >= t + Lookahead => t <= v
        BY <1>5, <1>6
      <4>3. QED
        BY <1>4, <2>2, <4>1, <4>2
    <3>3. QED
      BY <1>5, <1>6, <3>1, <3>2
  <2>3. QED
    BY <2>1, <2>2 DEF Ordered
<1>11. QED
  BY <1>8, <1>9, <1>10 DEF IInv

\* A message is past the window, and so not before what is executed.
LEMMA ReceiveKeepsIInv ==
  ASSUME Assumptions, IInv, NEW c \in Chare, NEW t \in EventTime, recv_remote_event(c, t)
  PROVE  IInv'
<1>1. /\ net[c][t] > 0 /\ mode' = mode /\ gvt' = gvt /\ g_last_gvt' = g_last_gvt
      /\ net' = [net EXCEPT ![c] = [net[c] EXCEPT ![t] = net[c][t] - 1]]
      /\ chare' = [chare EXCEPT ![c].events[t] = chare[c].events[t] + 1]
  BY DEF recv_remote_event
<1>2. /\ chare \in [Chare -> LPChare] /\ net \in [Chare -> Counts] /\ gvt \in Nat /\ Lookahead \in Nat
      /\ chare[c].events \in Counts /\ chare[c].executed \in Counts /\ net[c] \in Counts
  BY Times DEF IInv, TypeOK, LPChare, Assumptions
<1> DEFINE h == [chare[c] EXCEPT !.events = [chare[c].events EXCEPT ![t] = chare[c].events[t] + 1]]
           n == [net[c] EXCEPT ![t] = net[c][t] - 1]
<1>3. h \in LPChare /\ h.executed = chare[c].executed
      /\ \A u \in EventTime : h.events[u] > 0 => u = t \/ chare[c].events[u] > 0
  <2> DEFINE e == [chare[c].events EXCEPT ![t] = chare[c].events[t] + 1]
  <2>1. e \in Counts /\ \A u \in EventTime : e[u] > 0 => u = t \/ chare[c].events[u] > 0
    BY <1>2 DEF Counts
  <2> HIDE DEF e
  <2>2. chare[c] \in LPChare /\ h = [chare[c] EXCEPT !.events = e]
    BY <1>2 DEF e
  <2> HIDE DEF h
  <2>3. h \in LPChare /\ h.events = e /\ h.executed = chare[c].executed
    BY <2>1, <2>2 DEF LPChare
  <2>4. QED
    BY <2>1, <2>3
<1>4. n \in Counts /\ \A u \in EventTime : n[u] > 0 => net[c][u] > 0
  BY <1>1, <1>2 DEF Counts
<1>5. chare' = [chare EXCEPT ![c] = h] /\ net' = [net EXCEPT ![c] = n]
  BY <1>1
<1> HIDE DEF h, n
<1>6. /\ chare' \in [Chare -> LPChare] /\ net' \in [Chare -> Counts]
      /\ chare'[c] = h /\ net'[c] = n
      /\ \A d \in Chare : d # c => chare'[d] = chare[d] /\ net'[d] = net[d]
  BY <1>2, <1>3, <1>4, <1>5
<1>7. TypeOK' /\ \A q \in PE : Told(q)'
  BY <1>1, <1>6 DEF IInv, TypeOK, Told
<1>8. t >= Horizon /\ t \in Nat /\ Horizon \in Nat /\ Horizon >= gvt /\ Horizon' = Horizon
  BY <1>1, <1>2, Times DEF IInv, Windowed, Horizon
<1>9. ASSUME NEW d \in Chare PROVE Windowed(d)' /\ Ordered(d)'
  <2>1. Windowed(d) /\ Ordered(d)
    BY DEF IInv
  <2>2. CASE d # c
    BY <1>1, <1>6, <1>8, <2>1, <2>2 DEF Windowed, Ordered
  <2>3. CASE d = c
    <3>1. Windowed(c)'
      BY <1>1, <1>2, <1>3, <1>4, <1>6, <1>8, <2>1, <2>3 DEF Windowed
    <3>2. ASSUME NEW u \in EventTime, NEW v \in EventTime, h.executed[u] > 0, h.events[v] > 0
          PROVE  u <= v
      <4>1. u < Horizon /\ u \in Nat
        BY <1>3, <2>1, <2>3, <3>2, Times DEF Windowed
      <4>2. CASE v = t
        BY <1>8, <4>1, <4>2
      <4>3. CASE v # t
        BY <1>3, <2>1, <2>3, <3>2, <4>3 DEF Ordered
      <4>4. QED
        BY <4>2, <4>3
    <3>3. QED
      BY <1>6, <2>3, <3>1, <3>2 DEF Ordered
  <2>4. QED
    BY <2>2, <2>3
<1>10. QED
  BY <1>7, <1>9 DEF IInv

\* The next window begins at the end of this one, or later.
LEMMA ComputedKeepsIInv ==
  ASSUME Assumptions, IInv, gvt_computed
  PROVE  IInv'
<1> DEFINE S == {get_min_time(p) : p \in PE}
<1>1. /\ \A p \in PE : mode[p] = "waiting" /\ mode'[p] = "told"
      /\ \A c \in Chare, t \in EventTime : net[c][t] = 0
      /\ gvt' = Min(S) /\ chare' = chare /\ net' = net /\ g_last_gvt' = g_last_gvt
      /\ mode' \in [PE -> Mode]
  BY DEF gvt_computed, NoEvents, Mode
<1>2. S \in SUBSET Nat /\ S # {} /\ S \subseteq Time
  BY MinimumIs, RootAssumption, Times
<1>3. Min(S) \in S /\ \A x \in S : Min(S) <= x
  <2> HIDE DEF S
  <2>1. QED
    BY <1>2, MinIsLeast
<1>4. gvt' \in Time /\ \A p \in PE : gvt' <= get_min_time(p)
  BY <1>1, <1>2, <1>3
<1>5. PICK p \in PE : gvt' = get_min_time(p)
  BY <1>1, <1>3
<1> HIDE DEF S
<1>6. Lookahead \in Nat /\ Lookahead > 0 /\ gvt \in Time /\ gvt \in Nat /\ gvt' \in Nat
  BY <1>4, Times DEF Assumptions, IInv, TypeOK
<1>7. gvt' = EndTime \/ gvt' >= Horizon
  <2>1. CASE gvt' < EndTime
    <3>1. PICK c \in ChareOn(p) : Token(c) = gvt'
      BY <1>5, <2>1, MinimumIs
    <3>2. c \in Chare /\ Home[c] = p
      BY DEF ChareOn
    <3>3. gvt' \in EventTime /\ chare[c].events[gvt'] > 0
      BY <1>4, <2>1, <3>1, <3>2, TokenIs, Times
    <3>4. Windowed(c) /\ mode[Home[c]] = "waiting"
      BY <1>1, <3>2 DEF IInv
    <3>5. QED
      BY <3>3, <3>4 DEF Windowed
  <2>2. QED
    BY <1>4, <2>1, Times
<1>8. gvt <= gvt'
  BY <1>6, <1>7, Times DEF Horizon
<1>9. TypeOK'
  BY <1>1, <1>4 DEF IInv, TypeOK
<1>10. ASSUME NEW q \in PE PROVE Told(q)'
  <2>1. g_last_gvt[q] <= gvt /\ g_last_gvt[q] \in Nat
    BY Times DEF IInv, Told, TypeOK
  <2>2. QED
    BY <1>1, <1>6, <1>8, <2>1 DEF Told
<1>11. ASSUME NEW c \in Chare PROVE Windowed(c)' /\ Ordered(c)'
  <2>1. Home[c] \in PE /\ c \in ChareOn(Home[c])
    BY DEF Assumptions, ChareOn
  <2>2. Windowed(c) /\ Ordered(c) /\ mode'[Home[c]] = "told"
    BY <1>1, <2>1 DEF IInv
  <2>3. Horizon' = gvt' + Lookahead /\ Horizon = gvt + Lookahead
    BY DEF Horizon, Assumptions
  <2>4. ASSUME NEW t \in EventTime
        PROVE  /\ chare[c].executed[t] > 0 => t < Horizon'
               /\ chare[c].events[t] > 0 => t >= gvt'
    <3>1. t \in Nat /\ t < EndTime
      BY Times
    <3>2. chare[c].executed[t] > 0 => t < Horizon'
      <4>1. chare[c].executed[t] > 0 => t < gvt + Lookahead
        BY <2>2, <2>3 DEF Windowed
      <4>2. gvt' = EndTime \/ gvt' >= gvt + Lookahead
        BY <1>7, <2>3
      <4>3. gvt' \in Nat /\ Lookahead \in Nat /\ gvt \in Nat
        BY <1>6
      <4>4. gvt' = EndTime \/ gvt' >= gvt + Lookahead => t < gvt' \/ ~(t < gvt + Lookahead)
        BY <3>1, <4>3
      <4>5. t < gvt' => t < gvt' + Lookahead
        <5>1. \A k, m, n \in Nat : k < m => k < m + n
          OBVIOUS
        <5>2. QED
          BY <3>1, <4>3, <5>1, Zenon
      <4>6. QED
        BY <2>3, <4>1, <4>2, <4>4, <4>5
    <3>3. chare[c].events[t] > 0 => t >= gvt'
      <4>1. chare[c].events[t] > 0 => get_min_time(Home[c]) <= t
        BY <2>1, MinimumIs
      <4>2. gvt' <= get_min_time(Home[c]) /\ get_min_time(Home[c]) \in Nat
        BY <1>4, <2>1, MinimumIs, Times
      <4>3. QED
        BY <1>6, <3>1, <4>1, <4>2
    <3>4. QED
      BY <3>2, <3>3
  <2>5. QED
    BY <1>1, <2>2, <2>4 DEF Windowed, Ordered
<1>12. QED
  BY <1>9, <1>10, <1>11 DEF IInv

\* A PE is told the GVT and goes on, or is over.
LEMMA DoneKeepsIInv ==
  ASSUME Assumptions, IInv, NEW p \in PE, gvt_done(p)
  PROVE  IInv'
<1>1. /\ chare' = chare /\ net' = net /\ gvt' = gvt /\ gvt \in Time
      /\ g_last_gvt' = [g_last_gvt EXCEPT ![p] = gvt]
      /\ mode[p] = "told" /\ mode' \in [PE -> Mode] /\ mode'[p] \notin {"told", "waiting"}
      /\ \A q \in PE : q # p => mode'[q] = mode[q]
  BY DEF IInv, TypeOK, gvt_done, Mode
<1>2. TypeOK'
  BY <1>1 DEF IInv, TypeOK
<1>3. \A q \in PE : Told(q)'
  BY <1>1, Times DEF IInv, TypeOK, Told
<1>4. ASSUME NEW c \in Chare PROVE Windowed(c)' /\ Ordered(c)'
  <2>1. Home[c] \in PE /\ (mode'[Home[c]] = "waiting" <=> mode[Home[c]] = "waiting")
    BY <1>1 DEF Assumptions
  <2>2. QED
    BY <1>1, <2>1 DEF IInv, Windowed, Ordered, Horizon
<1>5. QED
  BY <1>2, <1>3, <1>4 DEF IInv

\* Every step of the conservative engine keeps the invariant.
LEMMA NextIInv ==
  ASSUME Assumptions, IInv, [Next]_vars
  PROVE  IInv'
<1>1. CASE UNCHANGED vars
  BY <1>1 DEF vars, IInv, TypeOK, Told, Windowed, Ordered, Horizon
<1>2. ASSUME NEW p \in PE, execute(p) \/ iteration_done(p) PROVE IInv'
  BY <1>2, ModeKeepsIInv
<1>3. ASSUME NEW p \in PE, schedule_next_lp(p) PROVE IInv'
  BY <1>3, ScheduleKeepsIInv
<1>4. ASSUME NEW p \in PE, gvt_done(p) PROVE IInv'
  BY <1>4, DoneKeepsIInv
<1>5. ASSUME NEW c \in Chare, NEW t \in EventTime, recv_remote_event(c, t) PROVE IInv'
  BY <1>5, ReceiveKeepsIInv
<1>6. CASE gvt_computed
  BY <1>6, ComputedKeepsIInv
<1>7. QED
  BY <1>1, <1>2, <1>3, <1>4, <1>5, <1>6 DEF Next

-----------------------------------------------------------------------------
(***************************************************************************)
(* The theorems.                                                           *)
(***************************************************************************)
\* What is sent in a window is past it, and a PE that waits for the GVT has
\* nothing left in it, for any lookahead that the simulation model keeps to.
THEOREM Inductive ==
  ASSUME Assumptions
  PROVE  Spec => []IInv
<1>1. Init => IInv
  BY InitIInv
<1>2. IInv /\ [Next]_vars => IInv'
  BY NextIInv
<1>3. QED
  BY <1>1, <1>2, PTL DEF Spec

\* No event becomes pending at a chare that has executed a later one, and what
\* is in flight is later than all its chare has executed: nothing needs undoing.
THEOREM NeverTooLate ==
  ASSUME Assumptions
  PROVE  Spec => []NothingComesTooLate
<1>1. ASSUME IInv PROVE NothingComesTooLate
  <2>1. ASSUME NEW c \in Chare, NEW t \in EventTime, NEW u \in EventTime, chare[c].executed[u] > 0
        PROVE  /\ chare[c].events[t] > 0 => u <= t
               /\ net[c][t] > 0 => u < t
    <3>1. Windowed(c) /\ Ordered(c)
      BY <1>1 DEF IInv
    <3>2. Horizon \in Nat /\ u \in Nat /\ t \in Nat
      BY <1>1, Times DEF IInv, TypeOK, Horizon, Assumptions
    <3>3. QED
      BY <2>1, <3>1, <3>2 DEF Windowed, Ordered
  <2>2. QED
    BY <2>1 DEF NothingComesTooLate
<1>2. QED
  BY <1>1, Inductive, PTL

-----------------------------------------------------------------------------
(***************************************************************************)
(* Every step of the conservative engine is a step of VirtualTime, or      *)
(* changes nothing that the contract speaks of.                            *)
(***************************************************************************)
lows == [p \in PE |-> get_min_time(p)]
flights == [p \in PE |-> [t \in EventTime |-> Cardinality(InFlight(p, t))]]

\* What a function takes on a finite domain is finite.
LEMMA FiniteImage ==
  ASSUME NEW S, IsFiniteSet(S), NEW f, DOMAIN f = S
  PROVE  IsFiniteSet({f[x] : x \in S})
<1> DEFINE T == {f[x] : x \in S}
           g == [x \in S |-> f[x]]
<1>1. g \in Surjection(S, T)
  BY DEF Surjection
<1> HIDE DEF g, T
<1>2. IsFiniteSet(T)
  BY <1>1, FS_Surjection
<1>3. QED
  BY <1>2 DEF T

Typed == net \in [Chare -> Counts]

Counted ==
  /\ flights \in Flights
  /\ \A p \in PE, t \in EventTime :
       /\ IsFiniteSet(InFlight(p, t)) /\ flights[p][t] = Cardinality(InFlight(p, t))
       /\ \A x : x \in InFlight(p, t) <=>
            \E c \in Chare, k \in Nat : x = <<c, k>> /\ Home[c] = p /\ 1 <= k /\ k <= net[c][t]

\* The chares are finitely many, and so are the messages for them.
LEMMA FlightsAre == Typed => Counted
<1> SUFFICES ASSUME Typed PROVE Counted
  OBVIOUS
<1>1. ASSUME NEW p \in PE, NEW t \in EventTime PROVE IsFiniteSet(InFlight(p, t))
  <2> DEFINE f == [c \in ChareOn(p) |-> {c} \X (1..net[c][t])]
             S == {f[c] : c \in ChareOn(p)}
  <2>1. ChareOn(p) \in SUBSET Chare
    BY DEF ChareOn
  <2>2. IsFiniteSet(ChareOn(p))
    BY <2>1, ChareAssumption, FS_Subset
  <2>3. \A c \in ChareOn(p) : IsFiniteSet(f[c])
    <3> TAKE c \in ChareOn(p)
    <3>1. net[c][t] \in Int
      BY <2>1 DEF Typed, Counts
    <3>2. IsFiniteSet({c})
      BY FS_Singleton
    <3>3. IsFiniteSet(1..net[c][t])
      BY <3>1, FS_Interval
    <3>4. IsFiniteSet({c} \X (1..net[c][t]))
      BY <3>2, <3>3, FS_Product
    <3>5. QED
      BY <3>4
  <2>4. InFlight(p, t) = UNION S
    BY DEF InFlight
  <2>5. DOMAIN f = ChareOn(p)
    OBVIOUS
  <2> HIDE DEF f
  <2>6. IsFiniteSet(S)
    BY <2>2, <2>5, FiniteImage
  <2>7. \A T \in S : IsFiniteSet(T)
    BY <2>3
  <2> HIDE DEF S
  <2>8. QED
    BY <2>4, <2>6, <2>7, FS_UNION
<1>2. \A p \in PE, t \in EventTime : flights[p][t] = Cardinality(InFlight(p, t))
  BY DEF flights
<1>3. flights \in Flights
  <2>1. \A p \in PE, t \in EventTime : Cardinality(InFlight(p, t)) \in Nat
    BY <1>1, FS_CardinalityType
  <2>2. QED
    BY <2>1 DEF flights, Flights
<1>4. ASSUME NEW p \in PE, NEW t \in EventTime, NEW x
      PROVE  x \in InFlight(p, t) <=>
               \E c \in Chare, k \in Nat : x = <<c, k>> /\ Home[c] = p /\ 1 <= k /\ k <= net[c][t]
  <2>1. x \in InFlight(p, t) <=> \E c \in ChareOn(p) : x \in {c} \X (1..net[c][t])
    BY DEF InFlight
  <2>2. \A c \in ChareOn(p) : net[c][t] \in Nat
    BY DEF Typed, ChareOn, Counts
  <2>3. QED
    BY <2>1, <2>2 DEF ChareOn
<1>5. QED
  BY <1>1, <1>2, <1>3, <1>4 DEF Counted

\* What is sent is in flight afterwards, besides what was there before.
LEMMA SendsFrom ==
  ASSUME net \in [Chare -> Counts], net' \in [Chare -> Counts], NEW f,
         \A c \in Chare, t \in EventTime :
           net'[c][t] >= net[c][t] /\ (net'[c][t] > net[c][t] => t >= f)
  PROVE  VT!SendsFrom(f, flights)
<1>1. /\ flights \in Flights
      /\ \A p \in PE, t \in EventTime :
           /\ IsFiniteSet(InFlight(p, t)) /\ flights[p][t] = Cardinality(InFlight(p, t))
           /\ \A x : x \in InFlight(p, t) <=>
                \E c \in Chare, k \in Nat : x = <<c, k>> /\ Home[c] = p /\ 1 <= k /\ k <= net[c][t]
  BY FlightsAre DEF Typed, Counted
<1>2. /\ flights' \in Flights
      /\ \A p \in PE, t \in EventTime :
           /\ IsFiniteSet(InFlight(p, t)') /\ flights'[p][t] = Cardinality(InFlight(p, t)')
           /\ \A x : x \in InFlight(p, t)' <=>
                \E c \in Chare, k \in Nat : x = <<c, k>> /\ Home[c] = p /\ 1 <= k /\ k <= net'[c][t]
  <2>1. Typed'
    BY DEF Typed
  <2>2. Counted'
    BY <2>1, FlightsAre, PTL
  <2>3. QED
    BY <2>2 DEF Counted
<1>3. ASSUME NEW p \in PE, NEW t \in EventTime
      PROVE  flights'[p][t] >= flights[p][t] /\ (flights'[p][t] > flights[p][t] => t >= f)
  <2>1. \A c \in Chare : net[c][t] \in Nat /\ net'[c][t] \in Nat
    BY DEF Counts
  <2>2. InFlight(p, t) \in SUBSET InFlight(p, t)'
    BY <1>1, <1>2, <2>1
  <2>3. flights[p][t] \in Nat /\ flights'[p][t] \in Nat
    BY <1>1, <1>2 DEF Flights
  <2>4. flights[p][t] <= flights'[p][t]
    BY <1>1, <1>2, <2>2, FS_Subset
  <2>5. ASSUME ~(t >= f) PROVE flights'[p][t] = flights[p][t]
    <3>1. \A c \in Chare : net'[c][t] = net[c][t]
      BY <2>1, <2>5
    <3>2. InFlight(p, t)' = InFlight(p, t)
      <4>1. ASSUME NEW x PROVE x \in InFlight(p, t)' <=> x \in InFlight(p, t)
        BY <1>1, <1>2, <3>1
      <4>2. QED
        BY <4>1
    <3>3. QED
      BY <1>1, <1>2, <3>2
  <2>6. QED
    BY <2>3, <2>4, <2>5
<1>4. QED
  BY <1>2, <1>3 DEF VT!SendsFrom, VT!Flights, VT!EventTime, Flights, EventTime, flights

Minima ==
  \A p \in PE :
    /\ get_min_time(p) \in Time
    /\ \A g \in Time :
         (\A c \in ChareOn(p), t \in EventTime : chare[c].events[t] > 0 => t >= g)
         => get_min_time(p) >= g

\* What MinimumIs and MinimumAtLeast say of this state they say of the next.
LEMMA MinimaAre == Minima
BY MinimumIs, MinimumAtLeast DEF Minima

\* A minimum is a time, and what happens to the chares of one PE leaves the
\* minima of others.
LEMMA LowsFrom ==
  ASSUME Assumptions, NEW p \in PE, NEW c \in ChareOn(p), NEW f \in Time, TypeOK,
         \A d \in Chare : d # c => chare'[d] = chare[d],
         \A d \in ChareOn(p), t \in EventTime : chare'[d].events[t] > 0 => t >= f
  PROVE  VT!MinimumFrom(p, f)
<1>0. Minima'
  BY MinimaAre, PTL
<1>1. \A q \in PE : get_min_time(q)' \in Time
  BY <1>0 DEF Minima
<1>2. get_min_time(p)' >= f
  BY <1>0 DEF Minima, ChareOn
<1>3. ASSUME NEW q \in PE, q # p PROVE get_min_time(q)' = get_min_time(q)
  <2>1. \A d \in ChareOn(q) : chare'[d] = chare[d]
    BY <1>3 DEF ChareOn
  <2>2. \A d \in ChareOn(q) : Token(d)' = Token(d)
    BY <2>1 DEF Token
  <2>3. {Token(d)' : d \in ChareOn(q)} = {Token(d) : d \in ChareOn(q)}
    BY <2>2
  <2>4. QED
    BY <2>3 DEF get_min_time
<1>4. lows' \in [PE -> Time] /\ lows'[p] >= f /\ \A q \in PE \ {p} : lows'[q] = lows[q]
  BY <1>1, <1>2, <1>3 DEF lows
<1>5. QED
  BY <1>4 DEF VT!MinimumFrom, VT!Time, Time, lows

\* schedule_next_lp() is Work.
LEMMA ScheduleRefines ==
  ASSUME Assumptions, IInv, NEW p \in PE, schedule_next_lp(p)
  PROVE  VT!Work(p)
<1>1. PICK c \in ChareOn(p), t \in EventTime :
        /\ t = get_min_time(p) /\ t = Token(c) /\ chare[c].events[t] > 0
        /\ gvt <= t /\ t < Horizon /\ execute_me(c, t)
  BY ScheduledIs
<1>2. c \in Chare /\ TypeOK /\ t \in Time /\ t \in Nat /\ Lookahead \in Nat
  BY Times DEF ChareOn, IInv, Assumptions
<1>3. /\ chare' \in [Chare -> LPChare] /\ net' \in [Chare -> Counts]
      /\ \A d \in Chare : d # c => chare'[d] = chare[d]
      /\ \A u \in EventTime : chare'[c].events[u] > 0 => chare[c].events[u] > 0 \/ u >= t + Lookahead
      /\ \A d \in Chare, u \in EventTime :
           /\ net'[d][u] >= net[d][u]
           /\ net'[d][u] > net[d][u] => u >= t + Lookahead
  BY <1>1, <1>2, ExecuteMeIs
<1>4. \A u \in EventTime : u >= t + Lookahead => u >= t
  BY <1>2, Times
<1>5. \A d \in ChareOn(p), u \in EventTime : chare[d].events[u] > 0 => u >= t
  BY <1>1, MinimumIs, Times
<1>6. \A d \in ChareOn(p), u \in EventTime : chare'[d].events[u] > 0 => u >= t
  BY <1>3, <1>4, <1>5 DEF ChareOn
<1>7. VT!MinimumFrom(p, t)
  BY <1>2, <1>3, <1>6, LowsFrom
<1>8. VT!SendsFrom(t, flights)
  BY <1>2, <1>3, <1>4, SendsFrom DEF TypeOK
<1>9. t = lows[p] /\ g_last_gvt' = g_last_gvt
  BY <1>1 DEF lows, schedule_next_lp
<1>10. QED
  BY <1>7, <1>8, <1>9 DEF VT!Work, lows, flights

\* recv_remote_event() is Receive.
LEMMA ReceiveRefines ==
  ASSUME Assumptions, IInv, NEW c \in Chare, NEW t \in EventTime, recv_remote_event(c, t)
  PROVE  Home[c] \in PE /\ VT!Receive(Home[c], t)
<1> DEFINE p == Home[c]
           f == Earlier(lows[p], t)
           before == Take(flights, p, t)
<1>1. /\ net[c][t] > 0 /\ g_last_gvt' = g_last_gvt
      /\ net' = [net EXCEPT ![c] = [net[c] EXCEPT ![t] = net[c][t] - 1]]
      /\ chare' = [chare EXCEPT ![c].events[t] = chare[c].events[t] + 1]
  BY DEF recv_remote_event
<1>2. p \in PE /\ TypeOK /\ net \in [Chare -> Counts] /\ chare \in [Chare -> LPChare] /\ c \in ChareOn(p)
  BY DEF IInv, TypeOK, Assumptions, ChareOn
<1>3. lows[p] = get_min_time(p) /\ lows[p] \in Time /\ t \in Time
  BY <1>2, MinimumIs, Times DEF lows
<1>4. f \in Time /\ f <= t /\ f <= lows[p] /\ f \in Nat /\ lows[p] \in Nat /\ t \in Nat
  BY <1>3, EndTimeAssumption DEF Earlier, Time
<1> HIDE DEF f
<1>5. VT!MinimumFrom(p, f)
  <2>1. \A d \in Chare : d # c => chare'[d] = chare[d]
    BY <1>1, <1>2
  <2>2. ASSUME NEW d \in ChareOn(p), NEW u \in EventTime, chare'[d].events[u] > 0 PROVE u >= f
    <3>1. d \in Chare /\ chare[d] \in LPChare /\ chare[d].events \in [EventTime -> Nat] /\ u \in Nat
      BY <1>2, Times DEF ChareOn, LPChare, Counts
    <3>2. (d = c /\ u = t) \/ chare[d].events[u] > 0
      <4>1. CASE d = c
        <5>1. chare'[c].events = [chare[c].events EXCEPT ![t] = chare[c].events[t] + 1]
          BY <1>1, <1>2, <3>1, <4>1 DEF LPChare
        <5>2. QED
          BY <2>2, <3>1, <4>1, <5>1
      <4>2. CASE d # c
        BY <2>1, <2>2, <3>1, <4>2
      <4>3. QED
        BY <4>1, <4>2
    <3>3. chare[d].events[u] > 0 => lows[p] <= u
      BY <1>2, <1>3, MinimumIs
    <3>4. QED
      BY <1>4, <3>1, <3>2, <3>3
  <2>3. QED
    BY <1>2, <1>4, <2>1, <2>2, LowsFrom
<1>6. /\ flights \in Flights
      /\ \A q \in PE, u \in EventTime :
           /\ IsFiniteSet(InFlight(q, u)) /\ flights[q][u] = Cardinality(InFlight(q, u))
           /\ \A x : x \in InFlight(q, u) <=>
                \E d \in Chare, k \in Nat : x = <<d, k>> /\ Home[d] = q /\ 1 <= k /\ k <= net[d][u]
  BY <1>2, FlightsAre DEF Typed, Counted
<1>7. net' \in [Chare -> Counts] /\ net[c][t] \in Nat
      /\ \A d \in Chare, u \in EventTime :
           net'[d][u] = IF d = c /\ u = t THEN net[c][t] - 1 ELSE net[d][u]
  BY <1>1, <1>2 DEF Counts
<1>8. /\ flights' \in Flights
      /\ \A q \in PE, u \in EventTime :
           /\ flights'[q][u] = Cardinality(InFlight(q, u)')
           /\ \A x : x \in InFlight(q, u)' <=>
                \E d \in Chare, k \in Nat : x = <<d, k>> /\ Home[d] = q /\ 1 <= k /\ k <= net'[d][u]
  <2>1. Typed'
    BY <1>7 DEF Typed
  <2>2. Counted'
    BY <2>1, FlightsAre, PTL
  <2>3. QED
    BY <2>2 DEF Counted
<1> DEFINE m == <<c, net[c][t]>>
<1>9. m \in InFlight(p, t)
  BY <1>1, <1>2, <1>6, <1>7
<1>10. flights[p][t] > 0
  <2>1. Cardinality(InFlight(p, t)) # 0 /\ Cardinality(InFlight(p, t)) \in Nat
    BY <1>2, <1>6, <1>9, FS_EmptySet, FS_CardinalityType
  <2>2. QED
    BY <1>2, <1>6, <2>1
<1>11. ASSUME NEW q \in PE, NEW u \in EventTime
       PROVE  flights'[q][u] = IF q = p /\ u = t THEN flights[q][u] - 1 ELSE flights[q][u]
  <2>1. CASE q = p /\ u = t
    <3>1. \A d \in Chare, k \in Nat :
            1 <= k /\ k <= net'[d][t] <=> 1 <= k /\ k <= net[d][t] /\ ~(d = c /\ k = net[c][t])
      <4> TAKE d \in Chare, k \in Nat
      <4>1. net[d][t] \in Nat
        BY <1>2 DEF Counts
      <4>2. QED
        BY <1>1, <1>7, <4>1
    <3>2. InFlight(p, t)' = InFlight(p, t) \ {m}
      <4>1. ASSUME NEW x PROVE x \in InFlight(p, t)' <=> x \in InFlight(p, t) /\ x # m
        <5>1. \A d \in Chare, k \in Nat : x = <<d, k>> => (x = m <=> d = c /\ k = net[c][t])
          OBVIOUS
        <5> HIDE DEF m
        <5>2. QED
          BY <1>2, <1>6, <1>8, <3>1, <5>1
      <4>2. QED
        BY <4>1
    <3> HIDE DEF m
    <3>3. Cardinality(InFlight(p, t) \ {m}) = Cardinality(InFlight(p, t)) - 1
      BY <1>2, <1>6, <1>9, FS_RemoveElement
    <3>4. flights'[p][t] = Cardinality(InFlight(p, t)') /\ flights[p][t] = Cardinality(InFlight(p, t))
      BY <1>2, <1>6, <1>8
    <3>5. flights'[p][t] = flights[p][t] - 1
      BY <3>2, <3>3, <3>4
    <3>6. QED
      BY <2>1, <3>5
  <2>2. CASE ~(q = p /\ u = t)
    <3>1. \A d \in Chare : Home[d] = q => net'[d][u] = net[d][u]
      BY <1>7, <2>2
    <3>2. InFlight(q, u)' = InFlight(q, u)
      <4>1. ASSUME NEW x PROVE x \in InFlight(q, u)' <=> x \in InFlight(q, u)
        BY <1>6, <1>8, <3>1
      <4>2. QED
        BY <4>1
    <3>3. QED
      BY <1>6, <1>8, <2>2, <3>2
  <2>3. QED
    BY <2>1, <2>2
<1>12. \A q \in PE, u \in EventTime : flights'[q][u] = before[q][u]
  BY <1>2, <1>6, <1>11 DEF Take, Flights
<1>13. VT!SendsFrom(f, before)
  <2>1. \A q \in PE, u \in EventTime : flights'[q][u] \in Nat
    BY <1>8 DEF Flights
  <2>2. \A q \in PE, u \in EventTime :
          flights'[q][u] >= before[q][u] /\ ~(flights'[q][u] > before[q][u])
    BY <1>12, <2>1
  <2> HIDE DEF before
  <2>3. QED
    BY <1>8, <2>2 DEF VT!SendsFrom, VT!Flights, VT!EventTime, Flights, EventTime, flights
<1>14. VT!Receive(p, t)
  BY <1>1, <1>5, <1>10, <1>13
  DEF VT!Receive, VT!Earlier, VT!Take, Earlier, Take, VT!EventTime, EventTime, f, lows, flights
<1>15. QED
  BY <1>2, <1>14

\* gvt_done() is Commit: the GVT that was computed when all PEs waited is still
\* a floor when the last PE is told, though others have gone on.
LEMMA DoneRefines ==
  ASSUME Assumptions, IInv, NEW p \in PE, gvt_done(p)
  PROVE  VT!Commit(p)
<1>1. chare' = chare /\ net' = net /\ g_last_gvt' = [g_last_gvt EXCEPT ![p] = gvt]
  BY DEF gvt_done
<1>2. gvt \in Time /\ gvt \in Nat /\ Lookahead \in Nat /\ net \in [Chare -> Counts]
  BY Times DEF IInv, TypeOK, Assumptions
<1>3. gvt >= g_last_gvt[p]
  <2>1. g_last_gvt[p] <= gvt /\ g_last_gvt[p] \in Nat
    BY Times DEF IInv, Told, TypeOK
  <2>2. QED
    BY <1>2, <2>1
<1>4. ASSUME NEW q \in PE PROVE gvt <= lows[q]
  <2>1. \A c \in ChareOn(q), t \in EventTime : chare[c].events[t] > 0 => t >= gvt
    <3> SUFFICES ASSUME NEW c \in ChareOn(q), NEW t \in EventTime, chare[c].events[t] > 0
                 PROVE  t >= gvt
      OBVIOUS
    <3>1. Windowed(c) /\ t \in Nat
      BY Times DEF ChareOn, IInv
    <3>2. t >= Horizon \/ t >= gvt
      BY <3>1 DEF Windowed
    <3>3. QED
      BY <1>2, <3>1, <3>2 DEF Horizon
  <2>2. get_min_time(q) >= gvt /\ get_min_time(q) \in Nat
    BY <1>2, <2>1, MinimumAtLeast, MinimumIs, Times
  <2>3. QED
    BY <1>2, <2>2 DEF lows
<1>5. ASSUME NEW q \in PE, NEW t \in EventTime, flights[q][t] > 0 PROVE gvt <= t
  <2>1. /\ flights[q][t] = Cardinality(InFlight(q, t))
        /\ \A x : x \in InFlight(q, t) <=>
             \E c \in Chare, k \in Nat : x = <<c, k>> /\ Home[c] = q /\ 1 <= k /\ k <= net[c][t]
    BY <1>2, FlightsAre DEF Typed, Counted
  <2>2. InFlight(q, t) # {}
    BY <1>5, <2>1, FS_EmptySet
  <2>3. PICK c \in Chare, k \in Nat : 1 <= k /\ k <= net[c][t]
    BY <2>1, <2>2
  <2>4. net[c][t] \in Nat /\ t \in Nat
    BY <1>2, Times DEF Counts
  <2>5. net[c][t] > 0
    BY <2>3, <2>4
  <2>6. t >= Horizon
    BY <2>5 DEF IInv, Windowed
  <2>7. QED
    BY <1>2, <2>4, <2>6 DEF Horizon
<1>6. VT!IsFloor(gvt, lows, flights)
  BY <1>4, <1>5 DEF VT!IsFloor, VT!EventTime, EventTime
<1>7. lows' = lows /\ flights' = flights
  BY <1>1 DEF lows, flights, get_min_time, Token, InFlight
<1>8. QED
  BY <1>1, <1>2, <1>3, <1>6, <1>7 DEF VT!Commit, VT!Time, Time, lows, flights

\* Every step is a step of VirtualTime or changes nothing it sees.
LEMMA StepRefines ==
  ASSUME Assumptions, IInv, [Next]_vars
  PROVE  VT!Next \/ UNCHANGED <<lows, flights, g_last_gvt>>
<1>1. ASSUME NEW p \in PE, schedule_next_lp(p) PROVE VT!Next
  <2>1. VT!Work(p)
    BY <1>1, ScheduleRefines
  <2>2. QED
    BY <2>1 DEF VT!Next
<1>2. ASSUME NEW c \in Chare, NEW t \in EventTime, recv_remote_event(c, t) PROVE VT!Next
  <2>1. Home[c] \in PE /\ VT!Receive(Home[c], t)
    BY <1>2, ReceiveRefines
  <2>2. QED
    BY <2>1 DEF VT!Next, VT!EventTime, EventTime
<1>3. ASSUME NEW p \in PE, gvt_done(p) PROVE VT!Next
  <2>1. VT!Commit(p)
    BY <1>3, DoneRefines
  <2>2. QED
    BY <2>1 DEF VT!Next
<1>4. ASSUME chare' = chare, net' = net, g_last_gvt' = g_last_gvt
      PROVE  UNCHANGED <<lows, flights, g_last_gvt>>
  BY <1>4 DEF lows, flights, get_min_time, Token, InFlight
<1>5. ASSUME NEW p \in PE, execute(p) \/ iteration_done(p)
      PROVE  chare' = chare /\ net' = net /\ g_last_gvt' = g_last_gvt
  BY <1>5 DEF execute, iteration_done
<1>6. CASE gvt_computed \/ UNCHANGED vars
  <2>1. chare' = chare /\ net' = net /\ g_last_gvt' = g_last_gvt
    BY <1>6 DEF gvt_computed, vars
  <2>2. QED
    BY <1>4, <2>1
<1>7. QED
  BY <1>1, <1>2, <1>3, <1>4, <1>5, <1>6 DEF Next

\* The conservative engine implements VirtualTime, for every simulation model
\* that keeps to the lookahead: its minimum only goes back for a message, what
\* it sends is not earlier than what it executes, and the GVT computed while
\* all PEs wait is a floor until the last of them is told.
THEOREM Refinement ==
  ASSUME Assumptions
  PROVE  Spec => ImplementsVirtualTime
<1>1. Init => VT!Init
  <2> SUFFICES ASSUME Init PROVE VT!Init
    OBVIOUS
  <2>1. IInv
    BY InitIInv
  <2>2. lows \in [PE -> Time]
    BY MinimumIs DEF lows
  <2>3. flights \in Flights
    BY <2>1, FlightsAre DEF IInv, TypeOK, Typed, Counted
  <2>4. g_last_gvt = [p \in PE |-> 0]
    BY DEF Init
  <2>5. QED
    BY <2>2, <2>3, <2>4
    DEF VT!Init, VT!Time, VT!Flights, VT!EventTime, Time, Flights, EventTime, lows, flights
<1>2. IInv /\ [Next]_vars => [VT!Next]_(VT!vars)
  BY StepRefines DEF VT!vars, lows, flights
<1>3. QED
  BY Inductive, <1>1, <1>2, PTL DEF Spec, ImplementsVirtualTime, VT!Spec
=============================================================================
