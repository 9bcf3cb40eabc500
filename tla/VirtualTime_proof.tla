------------------------- MODULE VirtualTime_proof -------------------------
(***************************************************************************)
(* The contract of VirtualTime is enough: whatever schedulers and GVT      *)
(* manager keep it, no PE is ever told a GVT that an event not yet final   *)
(* can still fall below.  A manager shown to implement VirtualTime         *)
(* inherits this.                                                          *)
(***************************************************************************)
EXTENDS VirtualTime, TLAPS

\* Take removes one message and touches no other.
LEMMA TakeType ==
  ASSUME NEW n \in Flights, NEW p \in PE, NEW t \in EventTime, n[p][t] > 0
  PROVE  /\ Take(n, p, t) \in Flights
         /\ \A q \in PE, u \in EventTime :
              Take(n, p, t)[q][u] = IF q = p /\ u = t THEN n[q][u] - 1 ELSE n[q][u]
BY DEF Flights, Take

\* A floor stays one when a PE at or above it works or receives: its minimum
\* and what it sends are no earlier than f.
LEMMA FloorKept ==
  ASSUME NEW lows \in [PE -> Time], NEW n \in Flights, NEW g \in Time, IsFloor(g, lows, n),
         NEW p \in PE, NEW f \in Time, g <= f,
         NEW lows2 \in [PE -> Time], lows2[p] >= f, \A q \in PE \ {p} : lows2[q] = lows[q],
         NEW n2 \in Flights,
         \A q \in PE, t \in EventTime : n2[q][t] > 0 => n[q][t] > 0 \/ t >= f
  PROVE  IsFloor(g, lows2, n2)
<1>1. ASSUME NEW q \in PE PROVE g <= lows2[q]
  BY DEF IsFloor, Time
<1>2. ASSUME NEW q \in PE, NEW t \in EventTime, n2[q][t] > 0 PROVE g <= t
  BY <1>2, EndTimeAssumption DEF IsFloor, Time, EventTime
<1>3. QED
  BY <1>1, <1>2 DEF IsFloor

IInv == TypeOK /\ GVTIsFloor

\* At the start every GVT is zero.
LEMMA InitIInv == Init => IInv
<1> SUFFICES ASSUME Init PROVE IInv
  OBVIOUS
<1>1. TypeOK /\ \A p \in PE : gvt[p] = 0
  BY EndTimeAssumption DEF Init, TypeOK, Time
<1>2. IsFloor(0, low, net)
  <2>1. \A q \in PE : 0 <= low[q]
    BY <1>1, EndTimeAssumption DEF TypeOK, Time
  <2>2. \A t \in EventTime : 0 <= t
    BY EndTimeAssumption DEF EventTime
  <2>3. QED
    BY <2>1, <2>2 DEF IsFloor
<1>3. QED
  BY <1>1, <1>2 DEF IInv, GVTIsFloor

\* Work at or above f on one PE leaves every GVT held a floor.
LEMMA StepKeepsFloors ==
  ASSUME IInv, NEW p \in PE, NEW f \in Time, NEW before \in Flights,
         \A q \in PE, t \in EventTime : before[q][t] <= net[q][t],
         \A q \in PE : gvt[q] <= f,
         MinimumFrom(p, f), SendsFrom(f, before), UNCHANGED gvt
  PROVE  IInv'
<1>1. /\ low' \in [PE -> Time] /\ low'[p] >= f /\ \A q \in PE \ {p} : low'[q] = low[q]
      /\ net' \in Flights
  BY DEF MinimumFrom, SendsFrom
<1>2. low \in [PE -> Time] /\ net \in Flights /\ gvt \in [PE -> Time]
  BY DEF IInv, TypeOK
<1>3. ASSUME NEW q \in PE, NEW t \in EventTime, net'[q][t] > 0 PROVE net[q][t] > 0 \/ t >= f
  <2>1. before[q][t] \in Nat /\ net[q][t] \in Nat /\ net'[q][t] \in Nat
    BY <1>1, <1>2 DEF Flights
  <2>2. net'[q][t] > before[q][t] => t >= f
    BY DEF SendsFrom
  <2>3. QED
    BY <1>3, <2>1, <2>2
<1>4. ASSUME NEW r \in PE PROVE IsFloor(gvt[r], low', net')
  <2>1. IsFloor(gvt[r], low, net) /\ gvt[r] \in Time /\ gvt[r] <= f
    BY <1>2 DEF IInv, GVTIsFloor
  <2>2. QED
    BY <1>1, <1>2, <1>3, <2>1, FloorKept
<1>5. QED
  BY <1>1, <1>2, <1>4 DEF IInv, TypeOK, GVTIsFloor

\* Every step of the contract keeps the invariant.
LEMMA NextIInv ==
  ASSUME IInv, [Next]_vars
  PROVE  IInv'
<1>1. low \in [PE -> Time] /\ net \in Flights /\ gvt \in [PE -> Time]
  BY DEF IInv, TypeOK
<1>2. ASSUME NEW p \in PE, Work(p) PROVE IInv'
  <2>1. low[p] \in Time /\ \A q \in PE : gvt[q] <= low[p]
    BY <1>1 DEF IInv, GVTIsFloor, IsFloor
  <2>2. \A q \in PE, t \in EventTime : net[q][t] <= net[q][t]
    BY <1>1 DEF Flights
  <2>3. QED
    BY <1>1, <1>2, <2>1, <2>2, StepKeepsFloors DEF Work
<1>3. ASSUME NEW p \in PE, NEW t \in EventTime, Receive(p, t) PROVE IInv'
  <2> DEFINE f == Earlier(low[p], t)
             before == Take(net, p, t)
  <2>1. net[p][t] > 0 /\ MinimumFrom(p, f) /\ SendsFrom(f, before) /\ UNCHANGED gvt
    BY <1>3 DEF Receive
  <2>2. f \in Time
    BY <1>1, EndTimeAssumption DEF Time, EventTime, Earlier
  <2>3. \A q \in PE : gvt[q] <= f
    BY <2>1 DEF IInv, GVTIsFloor, IsFloor, Earlier
  <2>4. /\ before \in Flights
        /\ \A q \in PE, u \in EventTime :
             before[q][u] = IF q = p /\ u = t THEN net[q][u] - 1 ELSE net[q][u]
    BY <1>1, <2>1, TakeType
  <2>5. \A q \in PE, u \in EventTime : before[q][u] <= net[q][u]
    BY <1>1, <2>4 DEF Flights
  <2> HIDE DEF f, before
  <2>6. QED
    BY <2>1, <2>2, <2>3, <2>4, <2>5, StepKeepsFloors
<1>4. ASSUME NEW p \in PE, Commit(p) PROVE IInv'
  <2>1. PICK g \in Time : /\ IsFloor(g, low, net)
                          /\ gvt' = [gvt EXCEPT ![p] = g]
    BY <1>4 DEF Commit
  <2>2. UNCHANGED <<low, net>>
    BY <1>4 DEF Commit
  <2>3. \A q \in PE : gvt'[q] = IF q = p THEN g ELSE gvt[q]
    BY <1>1, <2>1
  <2>4. TypeOK'
    BY <1>1, <2>1, <2>2 DEF TypeOK
  <2>5. GVTIsFloor'
    BY <2>1, <2>2, <2>3 DEF IInv, GVTIsFloor
  <2>6. QED
    BY <2>4, <2>5 DEF IInv
<1>5. CASE Migrate
  <2>1. TypeOK'
    BY <1>1, <1>5 DEF Migrate, TypeOK
  <2>2. ASSUME NEW p \in PE, IsFloor(gvt[p], low, net) PROVE IsFloor(gvt[p], low', net')
    <3>1. ASSUME NEW q \in PE PROVE gvt[p] <= low'[q]
      <4>1. PICK r \in PE : low[r] <= low'[q]
        BY <1>5 DEF Migrate
      <4>2. gvt[p] <= low[r]
        BY <2>2 DEF IsFloor
      <4>3. gvt[p] \in Nat /\ low[r] \in Nat /\ low'[q] \in Nat
        BY <1>1, <2>1, EndTimeAssumption DEF TypeOK, Time
      <4>4. QED
        BY <4>1, <4>2, <4>3
    <3>2. ASSUME NEW q \in PE, NEW t \in EventTime, net'[q][t] > 0 PROVE gvt[p] <= t
      <4>1. PICK r \in PE : net[r][t] > 0
        BY <1>5, <3>2 DEF Migrate
      <4>2. QED
        BY <2>2, <4>1 DEF IsFloor
    <3>3. QED
      BY <3>1, <3>2 DEF IsFloor
  <2>3. QED
    BY <1>5, <2>1, <2>2 DEF Migrate, IInv, GVTIsFloor
<1>6. CASE UNCHANGED vars
  BY <1>6 DEF vars, IInv, TypeOK, GVTIsFloor
<1>7. QED
  BY <1>2, <1>3, <1>4, <1>5, <1>6 DEF Next

\* What collect_fossils() relies on, from the contract alone.
THEOREM ContractIsSafe == Spec => []GVTIsFloor
<1>1. IInv /\ [Next]_vars => IInv'
  BY NextIInv
<1>2. IInv => GVTIsFloor
  BY DEF IInv
<1>3. QED
  BY InitIInv, <1>1, <1>2, PTL DEF Spec
=============================================================================
