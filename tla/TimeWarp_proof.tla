--------------------------- MODULE TimeWarp_proof ---------------------------
(***************************************************************************)
(* The optimistic engine never commits what is still to be cancelled: a    *)
(* late event or an anti-event undoes only entries whose time is not       *)
(* before the GVT.                                                         *)
(*                                                                         *)
(* Why the invariant is what it is.  That nothing cancelled is below the   *)
(* GVT (NotBefore) needs everything in flight to be above it too, and what *)
(* a rollback sends and restores to be no earlier than what caused it:     *)
(* hence Ordered, the order of the processed queue and of what its entries *)
(* caused.  FinitelyMany is there because get_next_event_id() is modelled  *)
(* as the least id that nobody knows, and there must be one.               *)
(***************************************************************************)
EXTENDS TimeWarp, SequenceTheorems, FiniteSetTheorems, WellFoundedInduction, TLAPS

\* A chare is in order: its processed queue goes back in time, what it sent is
\* later than the event that sent it, and nothing pending is earlier than the
\* newest processed event, whose time current_time shows.
Current(h) == h.processed # << >> => h.current_time = h.processed[1].event.ts

Ordered(h) ==
  /\ \A i, j \in DOMAIN h.processed :
       i < j => h.processed[i].event.ts >= h.processed[j].event.ts
  /\ \A i \in DOMAIN h.processed :
       /\ \A e \in h.events : h.processed[i].event.ts <= e.ts
       /\ \A k \in h.processed[i].caused : h.processed[i].event.ts < k.ts
  /\ Current(h)

\* Nothing that is to be executed, or undone and deleted, is before g.
NotBefore(h, g) == \A e \in h.events \union h.cancel_q : e.ts >= g

\* However many events there are, there are finitely many.
FiniteChare(h) ==
  /\ IsFiniteSet(h.events) /\ IsFiniteSet(h.antis)
  /\ \A i \in DOMAIN h.processed : IsFiniteSet(h.processed[i].caused)

FinitelyMany == IsFiniteSet(net) /\ \A c \in Chare : FiniteChare(chare[c])

IInv ==
  /\ TypeOK
  /\ FinitelyMany
  /\ \A c \in Chare : Ordered(chare[c]) /\ NotBefore(chare[c], gvt)
  /\ \A m \in net : m.event.ts >= gvt
  /\ \A p \in PE : g_last_gvt[p] <= gvt

-----------------------------------------------------------------------------
(***************************************************************************)
(* Minima and maxima, finite sets, and the messages taken.                 *)
(***************************************************************************)
\* The earliest of some times (events.min(), the minimum of the cancel queue).
LEMMA MinIsLeast ==
  ASSUME NEW S \in SUBSET Nat, S # {}
  PROVE  Min(S) \in S /\ \A x \in S : Min(S) <= x
<1> DEFINE R == OpToRel(<, Nat)
<1>1. IsWellFoundedOn(R, Nat)
  BY NatLessThanWellFounded
<1>2. \A m, n \in Nat : m < n => <<m, n>> \in R
  BY DEF OpToRel
<1> HIDE DEF R
<1>3. PICK m \in S : \A n \in S : ~ (<<n, m>> \in R)
  BY <1>1, WFMin
<1>4. \A x \in S : m <= x
  <2> TAKE x \in S
  <2>1. m \in Nat /\ x \in Nat
    OBVIOUS
  <2>2. ~ (x < m)
    BY <1>2, <1>3, <2>1, Zenon
  <2>3. QED
    BY <2>1, <2>2
<1>5. QED
  BY <1>4 DEF Min

\* What a function takes on a finite domain is finite.
LEMMA FiniteImage ==
  ASSUME NEW S, IsFiniteSet(S), NEW f, DOMAIN f = S
  PROVE  IsFiniteSet({f[x] : x \in S})
<1> DEFINE T == {f[x] : x \in S}
           g == [x \in S |-> f[x]]
<1>1. g \in Surjection(S, T)
  BY DEF Surjection
<1> HIDE DEF g, T
<1>2. IsFiniteSet(T)
  BY <1>1, FS_Surjection
<1>3. QED
  BY <1>2 DEF T

\* Take removes one message and touches no other.
LEMMA TakeType ==
  ASSUME NEW n \in Flights, NEW p \in PE, NEW t \in EventTime, n[p][t] > 0
  PROVE  /\ Take(n, p, t) \in Flights
         /\ \A q \in PE, u \in EventTime :
              Take(n, p, t)[q][u] = IF q = p /\ u = t THEN n[q][u] - 1 ELSE n[q][u]
BY DEF Flights, Take


\* The oldest of some entries of a processed queue.
LEMMA MaxIsGreatest ==
  ASSUME NEW n \in Nat, NEW S \in SUBSET (1..n), S # {}
  PROVE  Max(S) \in S /\ \A x \in S : Max(S) >= x
<1> DEFINE T == {n - x : x \in S}
<1>1. T \in SUBSET Nat /\ T # {}
  <2>1. \A x \in S : x \in 1..n
    OBVIOUS
  <2>2. \A x \in S : n - x \in Nat
    BY <2>1
  <2>3. QED
    BY <2>2
<1>2. Min(T) \in T /\ \A y \in T : Min(T) <= y
  BY <1>1, MinIsLeast
<1>3. PICK m \in S : \A y \in T : n - m <= y
  BY <1>2
<1>4. \A x \in S : m >= x
  <2> TAKE x \in S
  <2>1. n - m <= n - x /\ m \in Nat /\ x \in Nat
    BY <1>3
  <2>2. QED
    BY <2>1
<1>5. QED
  BY <1>4 DEF Max

\* MinTime is the time of the earliest of some events, or the end of time.
LEMMA MinTimeIsLeast ==
  ASSUME NEW S \in SUBSET Event
  PROVE  /\ MinTime(S) \in Time
         /\ \A e \in S : MinTime(S) <= e.ts
         /\ S # {} => \E e \in S : MinTime(S) = e.ts
<1> DEFINE T == {e.ts : e \in S}
<1>1. \A e \in S : e.ts \in 0..(EndTime - 1)
  BY DEF Event, EventTime
<1>2. T \in SUBSET Nat
  BY <1>1
<1>3. CASE S = {}
  BY <1>3, EndTimeAssumption DEF MinTime, Time
<1>4. CASE S # {}
  <2>1. T # {}
    BY <1>4
  <2>2. Min(T) \in T /\ \A x \in T : Min(T) <= x
    BY <1>2, <2>1, MinIsLeast
  <2>3. MinTime(S) = Min(T)
    BY <1>4 DEF MinTime
  <2>4. PICK e \in S : Min(T) = e.ts
    BY <2>2
  <2>5. \A x \in S : Min(T) <= x.ts
    BY <2>2
  <2>6. Min(T) \in Time
    BY <1>1, <2>4, EndTimeAssumption DEF Time
  <2>7. QED
    BY <2>3, <2>4, <2>5, <2>6
<1>5. QED
  BY <1>3, <1>4

\* A floor of the model's oracle bounds every pending or cancelled event and
\* every message.
LEMMA FloorBounds ==
  ASSUME TypeOK
  PROVE  /\ Floor \in Time
         /\ \A c \in Chare : \A e \in chare[c].events \union chare[c].cancel_q : Floor <= e.ts
         /\ \A m \in net : Floor <= m.event.ts
<1> DEFINE S == {Low(p) : p \in PE} \union {m.event.ts : m \in net} \union {EndTime}
<1>1. \A c \in Chare : chare[c].events \union chare[c].cancel_q \in SUBSET Event
  BY DEF TypeOK, LPChare
<1>2. \A p \in PE : UNION {chare[c].events \union chare[c].cancel_q : c \in ChareOn(p)} \in SUBSET Event
  BY <1>1 DEF ChareOn
<1>3. \A p \in PE : Low(p) \in Time
  BY <1>2, MinTimeIsLeast DEF Low
<1>4. \A m \in net : m.event.ts \in Time
  BY EndTimeAssumption DEF TypeOK, Message, Event, Time, EventTime
<1>5. S \in SUBSET Time /\ S # {}
  BY <1>3, <1>4, EndTimeAssumption DEF Time
<1>6. Min(S) \in S /\ \A x \in S : Min(S) <= x
  <2>1. S \in SUBSET Nat
    BY <1>5 DEF Time
  <2> HIDE DEF S
  <2>2. QED
    BY <1>5, <2>1, MinIsLeast
<1>7. Floor \in Time /\ (\A p \in PE : Floor <= Low(p)) /\ \A m \in net : Floor <= m.event.ts
  BY <1>5, <1>6 DEF Floor
<1>8. ASSUME NEW c \in Chare, NEW e \in chare[c].events \union chare[c].cancel_q
      PROVE  Floor <= e.ts
  <2>1. Home[c] \in PE /\ c \in ChareOn(Home[c])
    BY HomeAssumption DEF ChareOn
  <2>2. Low(Home[c]) <= e.ts
    BY <1>2, <2>1, MinTimeIsLeast DEF Low
  <2>3. e.ts \in Time
    BY <1>1, EndTimeAssumption DEF Event, EventTime, Time
  <2>4. QED
    BY <1>3, <1>7, <2>1, <2>2, <2>3 DEF Time
<1>9. QED
  BY <1>7, <1>8

-----------------------------------------------------------------------------
(***************************************************************************)
(* What is done to one chare, field by field.                              *)
(***************************************************************************)

\* A processed queue is a finite sequence of entries.
LEMMA ProcessedQueue ==
  ASSUME NEW h \in LPChare
  PROVE  /\ h.processed \in Seq(Entry)
         /\ Len(h.processed) \in Nat
         /\ DOMAIN h.processed = 1..Len(h.processed)
         /\ \A i \in DOMAIN h.processed : h.processed[i] \in Entry
<1>1. h.processed \in Seq(Entry)
  BY DEF LPChare
<1>2. QED
  BY <1>1, LenProperties, ElementOfSeq

\* The pending events of h once its n newest entries are undone.
Restored(h, n) ==
  (h.events \union {h.processed[i].event : i \in 1..n}) \ LocalChildren(h, n)

\* u is h with its n newest entries undone, whatever became of its pending and
\* cancelled events: the older entries stay as they are and move up.
RolledBack(h, n, u) ==
  /\ u \in LPChare
  /\ n \in 0..Len(h.processed)
  /\ Len(u.processed) = Len(h.processed) - n
  /\ \A i \in 1..(Len(h.processed) - n) : u.processed[i] = h.processed[n + i]
  /\ Current(h) => Current(u)
  /\ u.antis = h.antis

\* tw_event_undo on the n newest events (Undone): the older entries stay as
\* they are and move up.
LEMMA UndoneFields ==
  ASSUME NEW h \in LPChare, NEW n \in 0..Len(h.processed), NEW g \in Time
  PROVE  LET u == Undone(h, n, g) IN
         /\ RolledBack(h, n, u)
         /\ u.events = Restored(h, n) /\ u.cancel_q = h.cancel_q
<1> DEFINE L == Len(h.processed)
           rest == SubSeq(h.processed, n + 1, L)
           evts == Restored(h, n)
           now == IF rest = << >> THEN g ELSE rest[1].event.ts
           u == Undone(h, n, g)
<1>1. L \in Nat /\ \A i \in 1..L : h.processed[i] \in Entry
  BY ProcessedQueue
<1>2. rest \in Seq(Entry) /\ Len(rest) = L - n /\ \A i \in 1..(L - n) : rest[i] = h.processed[n + i]
  <2>1. \A i \in (n + 1)..L : h.processed[i] \in Entry
    BY <1>1
  <2>2. n + 1 \in Int /\ L \in Int
    BY <1>1
  <2>3. /\ SubSeq(h.processed, n + 1, L) \in Seq(Entry)
        /\ Len(SubSeq(h.processed, n + 1, L)) = IF n + 1 <= L THEN L - (n + 1) + 1 ELSE 0
        /\ \A i \in 1..(L - (n + 1) + 1) : SubSeq(h.processed, n + 1, L)[i] = h.processed[(n + 1) + i - 1]
    BY <2>1, <2>2, SubSeqProperties
  <2>4. (IF n + 1 <= L THEN L - (n + 1) + 1 ELSE 0) = L - n /\ L - (n + 1) + 1 = L - n
    BY <1>1
  <2>5. \A i \in 1..(L - n) : (n + 1) + i - 1 = n + i
    BY <1>1
  <2>6. QED
    BY <2>3, <2>4, <2>5
<1>3. evts \in SUBSET Event
  BY <1>1 DEF LPChare, Entry, Restored
<1>4. StateBefore(h, n) \in LPState
  BY <1>1 DEF StateBefore, LPChare, Entry
<1>5. now \in Time
  <2>1. CASE rest = << >>
    BY <2>1
  <2>2. CASE rest # << >>
    <3>1. Len(rest) >= 1
      BY <1>2, <2>2, EmptySeq
    <3>2. rest[1] \in Entry
      BY <1>2, <3>1, ElementOfSeq
    <3>3. QED
      BY <2>2, <3>2, EndTimeAssumption DEF Entry, Event, EventTime, Time
  <2>3. QED
    BY <2>1, <2>2
<1>6. u = [h EXCEPT !.events = evts, !.processed = rest, !.state = StateBefore(h, n), !.current_time = now]
  BY DEF Undone, Restored
<1> HIDE DEF evts, rest, now, u
<1>7. /\ u \in LPChare
      /\ u.events = evts /\ u.processed = rest /\ u.current_time = now
      /\ u.cancel_q = h.cancel_q /\ u.antis = h.antis /\ u.token = h.token
  BY <1>2, <1>3, <1>4, <1>5, <1>6 DEF LPChare
<1>8. QED
  BY <1>2, <1>7 DEF evts, now, u, RolledBack, Current

\* update_next changes the token alone.
LEMMA UpdateNextFields ==
  ASSUME NEW h \in LPChare
  PROVE  LET u == update_next(h) IN
         /\ u \in LPChare
         /\ u.events = h.events /\ u.processed = h.processed /\ u.cancel_q = h.cancel_q
         /\ u.antis = h.antis /\ u.current_time = h.current_time
<1>1. MinTime(h.events) \in Time
  BY MinTimeIsLeast DEF LPChare
<1>2. QED
  BY <1>1 DEF update_next, LPChare

\* How far a straggler rolls a chare back: exactly the entries at or after it.
LEMMA UndoneSinceRange ==
  ASSUME NEW h \in LPChare, NEW ts \in EventTime
  PROVE  LET n == UndoneSince(h, ts) IN
         /\ n \in 0..Len(h.processed)
         /\ \A i \in 1..n : h.processed[i].event.ts >= ts
         /\ n < Len(h.processed) => h.processed[n + 1].event.ts < ts
<1> DEFINE kept == {i \in DOMAIN h.processed : h.processed[i].event.ts < ts}
           L == Len(h.processed)
<1>1. L \in Nat /\ DOMAIN h.processed = 1..L /\ \A i \in 1..L : h.processed[i] \in Entry
  BY ProcessedQueue
<1>2. \A i \in 1..L : h.processed[i].event.ts \in Nat
  BY <1>1, EndTimeAssumption DEF Entry, Event, EventTime
<1>3. ts \in Nat
  BY DEF EventTime
<1>4. CASE kept = {}
  BY <1>1, <1>2, <1>3, <1>4 DEF UndoneSince
<1>5. CASE kept # {}
  <2>1. kept \in SUBSET Nat
    BY <1>1
  <2> HIDE DEF kept
  <2>2. Min(kept) \in kept /\ \A x \in kept : Min(kept) <= x
    BY <1>5, <2>1, MinIsLeast
  <2>3. UndoneSince(h, ts) = Min(kept) - 1
    BY <1>5 DEF UndoneSince, kept
  <2>4. Min(kept) \in 1..L /\ h.processed[Min(kept)].event.ts < ts
    BY <1>1, <2>2 DEF kept
  <2>5. \A i \in 1..(Min(kept) - 1) : i \notin kept /\ i \in 1..L
    BY <1>1, <2>2, <2>4
  <2>6. \A i \in 1..(Min(kept) - 1) : ~ (h.processed[i].event.ts < ts)
    BY <1>1, <2>5 DEF kept
  <2>7. QED
    BY <1>1, <1>2, <1>3, <2>3, <2>4, <2>5, <2>6
<1>6. QED
  BY <1>4, <1>5

\* How far the cancel queue rolls a chare back: to the oldest cancelled event
\* and no further.
LEMMA UndoneToCancelRange ==
  ASSUME NEW h \in LPChare
  PROVE  LET n == UndoneToCancel(h) IN
         /\ n \in 0..Len(h.processed)
         /\ n > 0 => h.processed[n].event \in h.cancel_q
         /\ \A i \in (n + 1)..Len(h.processed) : h.processed[i].event \notin h.cancel_q
<1> DEFINE cancelled == {i \in DOMAIN h.processed : h.processed[i].event \in h.cancel_q}
           L == Len(h.processed)
<1>1. L \in Nat /\ DOMAIN h.processed = 1..L
  BY ProcessedQueue
<1>2. CASE cancelled = {}
  BY <1>1, <1>2 DEF UndoneToCancel
<1>3. CASE cancelled # {}
  <2>1. cancelled \in SUBSET (1..L)
    BY <1>1
  <2> HIDE DEF cancelled
  <2>2. Max(cancelled) \in cancelled /\ \A x \in cancelled : Max(cancelled) >= x
    BY <1>1, <1>3, <2>1, MaxIsGreatest
  <2>3. UndoneToCancel(h) = Max(cancelled)
    BY <1>3 DEF UndoneToCancel, cancelled
  <2>4. Max(cancelled) \in 1..L /\ h.processed[Max(cancelled)].event \in h.cancel_q
    BY <1>1, <2>2 DEF cancelled
  <2>5. ASSUME NEW i \in (Max(cancelled) + 1)..L PROVE i \notin cancelled /\ i \in 1..L
    <3>1. i \in 1..L /\ ~ (Max(cancelled) >= i)
      BY <1>1, <2>4
    <3>2. QED
      BY <2>2, <3>1
  <2>6. \A i \in (Max(cancelled) + 1)..L : h.processed[i].event \notin h.cancel_q
    BY <1>1, <2>5 DEF cancelled
  <2>7. QED
    BY <1>1, <2>3, <2>4, <2>6
<1>4. QED
  BY <1>2, <1>3

\* process_cancel_q: what is cancelled is deleted, and nothing else but what
\* the undone events sent to their own chare.
LEMMA ProcessCancelFields ==
  ASSUME NEW h \in LPChare, NEW g \in Time
  PROVE  LET u == process_cancel_q(h, g)
             n == UndoneToCancel(h)
         IN  /\ RolledBack(h, n, u)
             /\ u.events = Restored(h, n) \ h.cancel_q /\ u.cancel_q = {}
<1> DEFINE n == UndoneToCancel(h)
           v == IF n = 0 THEN h ELSE Undone(h, n, g)
           w == [v EXCEPT !.events = v.events \ h.cancel_q, !.cancel_q = {}]
<1>1. n \in 0..Len(h.processed)
  BY UndoneToCancelRange
<1>2. Len(h.processed) \in Nat
  BY ProcessedQueue
<1>3. RolledBack(h, n, v) /\ v.events = Restored(h, n)
  <2>1. CASE n = 0
    <3>1. v = h
      BY <2>1
    <3>2. Restored(h, n) = h.events
      BY <2>1 DEF Restored, LocalChildren, CausedBy
    <3>3. \A i \in 1..Len(h.processed) : n + i = i
      BY <1>2, <2>1
    <3>4. Len(h.processed) - n = Len(h.processed) /\ n \in 0..Len(h.processed)
      BY <1>1, <1>2, <2>1
    <3> HIDE DEF v, n
    <3>5. QED
      BY <3>1, <3>2, <3>3, <3>4 DEF RolledBack
  <2>2. CASE n # 0
    BY <1>1, <2>2, UndoneFields
  <2>3. QED
    BY <2>1, <2>2
<1> HIDE DEF v, n
<1>4. v \in LPChare
  BY <1>3 DEF RolledBack
<1>5. /\ w \in LPChare
      /\ w.events = v.events \ h.cancel_q /\ w.cancel_q = {}
      /\ w.processed = v.processed /\ w.antis = v.antis /\ w.current_time = v.current_time
  BY <1>4 DEF LPChare
<1> DEFINE x == update_next(w)
<1> HIDE DEF w
<1>6. /\ x \in LPChare
      /\ x.events = w.events /\ x.processed = w.processed /\ x.cancel_q = w.cancel_q
      /\ x.antis = w.antis /\ x.current_time = w.current_time
  BY <1>5, UpdateNextFields
<1>7. CASE h.cancel_q = {}
  <2>1. n = 0
    BY <1>1, <1>7, UndoneToCancelRange DEF n
  <2>2. v = h
    BY <2>1 DEF v
  <2>3. process_cancel_q(h, g) = h
    BY <1>7 DEF process_cancel_q
  <2>4. QED
    BY <1>3, <1>7, <2>2, <2>3 DEF n
<1>8. CASE h.cancel_q # {}
  <2>1. process_cancel_q(h, g) = x
    BY <1>8 DEF process_cancel_q, n, v, w
  <2>2. RolledBack(h, n, x)
    BY <1>3, <1>5, <1>6 DEF RolledBack, Current
  <2>3. QED
    BY <1>3, <1>5, <1>6, <2>1, <2>2 DEF n
<1>9. QED
  BY <1>7, <1>8

\* recv_local_event: with or without a rollback, the entries at or after the
\* event are undone and the event is pending.
LEMMA RecvLocalFields ==
  ASSUME TypeOK, NEW c \in Chare, Current(chare[c]), NEW e \in Event, recv_local_event(c, e)
  PROVE  LET h == chare[c]
             n == UndoneSince(h, e.ts)
         IN  \E u :
               /\ chare' = [chare EXCEPT ![c] = u]
               /\ RolledBack(h, n, u)
               /\ u.events = Restored(h, n) \union {e} /\ u.cancel_q = h.cancel_q
               /\ net' = (net \ {Positive(e)}) \union Antis(h, n)
<1> DEFINE h == chare[c]
           n == UndoneSince(h, e.ts)
           g == g_last_gvt[Home[c]]
           first == [h EXCEPT !.token = IF e.ts < MinTime(h.events) THEN e.ts ELSE h.token]
           v == Undone(h, n, g)
           back == update_next(v)
<1>1. h \in LPChare /\ g \in Time /\ e.ts \in EventTime
  BY HomeAssumption DEF TypeOK, Event
<1>2. Len(h.processed) \in Nat
  BY <1>1, ProcessedQueue
<1>3. /\ n \in 0..Len(h.processed)
      /\ \A i \in 1..n : h.processed[i].event.ts >= e.ts
      /\ n < Len(h.processed) => h.processed[n + 1].event.ts < e.ts
  BY <1>1, UndoneSinceRange
<1> HIDE DEF n, g, h
<1>4. CASE e.ts <= h.current_time
  <2> DEFINE u == [back EXCEPT !.events = back.events \union {e}]
  <2>1. RolledBack(h, n, v) /\ v.events = Restored(h, n) /\ v.cancel_q = h.cancel_q
    BY <1>1, <1>3, UndoneFields
  <2> HIDE DEF v
  <2>2. v \in LPChare
    BY <2>1 DEF RolledBack
  <2>3. /\ back \in LPChare
        /\ back.events = v.events /\ back.processed = v.processed /\ back.cancel_q = v.cancel_q
        /\ back.antis = v.antis /\ back.current_time = v.current_time
    BY <2>2, UpdateNextFields
  <2> HIDE DEF back
  <2>4. /\ u \in LPChare
        /\ u.events = back.events \union {e} /\ u.processed = back.processed
        /\ u.cancel_q = back.cancel_q /\ u.antis = back.antis
        /\ u.current_time = back.current_time
    BY <2>3 DEF LPChare
  <2>5. chare' = [chare EXCEPT ![c] = u] /\ net' = (net \ {Positive(e)}) \union Antis(h, n)
    BY <1>4 DEF recv_local_event, h, n, v, back, g
  <2> HIDE DEF u
  <2>6. RolledBack(h, n, u)
    BY <2>1, <2>3, <2>4 DEF RolledBack, Current
  <2>7. u.events = Restored(h, n) \union {e} /\ u.cancel_q = h.cancel_q
    BY <2>1, <2>3, <2>4
  <2>8. QED
    BY <2>5, <2>6, <2>7 DEF h, n
<1>5. CASE ~ (e.ts <= h.current_time)
  <2> DEFINE u == [first EXCEPT !.events = h.events \union {e}]
  <2>1. n = 0
    <3>1. ASSUME n # 0 PROVE FALSE
      <4>1. 1 \in 1..n /\ 1 \in 1..Len(h.processed)
        BY <1>2, <1>3, <3>1
      <4>2. h.processed # << >>
        BY <1>1, <4>1, ProcessedQueue, EmptySeq
      <4>3. h.current_time = h.processed[1].event.ts
        BY <4>2 DEF Current, h
      <4>4. QED
        BY <1>3, <1>5, <4>1, <4>3
    <3>2. QED
      BY <3>1
  <2>2. MinTime(h.events) \in Time /\ e.ts \in Time
    BY <1>1, MinTimeIsLeast, EndTimeAssumption DEF LPChare, Time, EventTime
  <2>3. first \in LPChare /\ first.processed = h.processed /\ first.cancel_q = h.cancel_q
        /\ first.antis = h.antis /\ first.current_time = h.current_time
    BY <1>1, <2>2 DEF LPChare
  <2>4. /\ u \in LPChare /\ u.events = h.events \union {e}
        /\ u.processed = h.processed /\ u.cancel_q = h.cancel_q
        /\ u.antis = h.antis /\ u.current_time = h.current_time
    <3> HIDE DEF first
    <3>1. h.events \union {e} \in SUBSET Event
      BY <1>1 DEF LPChare
    <3>2. QED
      BY <2>3, <3>1 DEF LPChare
  <2>5. chare' = [chare EXCEPT ![c] = u] /\ net' = net \ {Positive(e)}
    BY <1>5 DEF recv_local_event, h, first
  <2> HIDE DEF u
  <2>6. Restored(h, n) = h.events /\ Antis(h, n) = {}
    BY <2>1 DEF Restored, LocalChildren, CausedBy, Antis
  <2>7. RolledBack(h, n, u)
    BY <1>2, <2>1, <2>4 DEF RolledBack, Current
  <2>8. QED
    BY <2>4, <2>5, <2>6, <2>7 DEF h, n
<1>6. QED
  BY <1>4, <1>5

-----------------------------------------------------------------------------
(***************************************************************************)
(* What an execution sends.                                                *)
(***************************************************************************)
LEMMA CausedIsFinite ==
  ASSUME NEW h \in LPChare, \A i \in DOMAIN h.processed : IsFiniteSet(h.processed[i].caused),
         NEW n \in 0..Len(h.processed)
  PROVE  /\ IsFiniteSet(CausedBy(h, n))
         /\ IsFiniteSet({h.processed[i].event : i \in 1..n})
         /\ CausedBy(h, n) \in SUBSET Event
<1>1. /\ Len(h.processed) \in Nat
      /\ \A i \in 1..n : i \in DOMAIN h.processed /\ h.processed[i] \in Entry
  BY ProcessedQueue
<1>2. IsFiniteSet(1..n)
  BY <1>1, FS_Interval
<1> DEFINE f == [i \in 1..n |-> h.processed[i].caused]
           g == [i \in 1..n |-> h.processed[i].event]
<1>3. IsFiniteSet({f[i] : i \in 1..n})
  <2>1. DOMAIN f = 1..n
    OBVIOUS
  <2> HIDE DEF f
  <2>2. QED
    BY <1>2, <2>1, FiniteImage
<1>4. IsFiniteSet({g[i] : i \in 1..n})
  <2>1. DOMAIN g = 1..n
    OBVIOUS
  <2> HIDE DEF g
  <2>2. QED
    BY <1>2, <2>1, FiniteImage
<1>5. {f[i] : i \in 1..n} = {h.processed[i].caused : i \in 1..n}
  OBVIOUS
<1>6. {g[i] : i \in 1..n} = {h.processed[i].event : i \in 1..n}
  OBVIOUS
<1>7. \A T \in {h.processed[i].caused : i \in 1..n} : IsFiniteSet(T)
  BY <1>1
<1>8. IsFiniteSet(UNION {h.processed[i].caused : i \in 1..n})
  BY <1>3, <1>5, <1>7, FS_UNION
<1>9. CausedBy(h, n) \in SUBSET Event
  BY <1>1 DEF CausedBy, Entry
<1>10. QED
  BY <1>4, <1>6, <1>8, <1>9 DEF CausedBy

\* Undoing sends finitely many anti-events and restores finitely many events.
LEMMA UndoingIsFinite ==
  ASSUME NEW h \in LPChare, \A i \in DOMAIN h.processed : IsFiniteSet(h.processed[i].caused),
         IsFiniteSet(h.events), NEW n \in 0..Len(h.processed)
  PROVE  IsFiniteSet(Restored(h, n)) /\ IsFiniteSet(Antis(h, n))
<1>1. IsFiniteSet(CausedBy(h, n)) /\ IsFiniteSet({h.processed[i].event : i \in 1..n})
  BY CausedIsFinite
<1>2. IsFiniteSet(Restored(h, n))
  BY <1>1, FS_Union, FS_Difference DEF Restored
<1> DEFINE S == {k \in CausedBy(h, n) : Remote(k)}
           f == [k \in S |-> Anti(k)]
<1>3. IsFiniteSet(S)
  BY <1>1, FS_Subset
<1>4. IsFiniteSet({f[k] : k \in S})
  <2>1. DOMAIN f = S
    OBVIOUS
  <2> HIDE DEF f, S
  <2>2. QED
    BY <1>3, <2>1, FiniteImage
<1>5. Antis(h, n) = {f[k] : k \in S}
  BY DEF Antis
<1>6. QED
  BY <1>2, <1>4, <1>5

\* Only finitely many events are known to anybody, so there is a next id.
LEMMA KnownIsFinite ==
  ASSUME TypeOK, FinitelyMany
  PROVE  IsFiniteSet(Known)
<1> DEFINE OfChare(c) == Held(chare[c]) \union chare[c].antis
                         \union UNION {chare[c].processed[i].caused : i \in DOMAIN chare[c].processed}
           f == [m \in net |-> m.event]
           g == [c \in Chare |-> OfChare(c)]
<1>1. IsFiniteSet({f[m] : m \in net})
  <2>1. DOMAIN f = net
    OBVIOUS
  <2> HIDE DEF f
  <2>2. QED
    BY <2>1, FiniteImage DEF FinitelyMany
<1>2. ASSUME NEW c \in Chare PROVE IsFiniteSet(OfChare(c))
  <2> DEFINE h == chare[c]
             n == Len(h.processed)
  <2>1. /\ h \in LPChare /\ IsFiniteSet(h.events) /\ IsFiniteSet(h.antis)
        /\ \A i \in DOMAIN h.processed : IsFiniteSet(h.processed[i].caused)
    BY DEF TypeOK, FinitelyMany, FiniteChare
  <2>2. n \in Nat /\ DOMAIN h.processed = 1..n
    BY <2>1, ProcessedQueue
  <2>9. n \in 0..Len(h.processed)
    BY <2>2
  <2> HIDE DEF h, n
  <2>3. IsFiniteSet(CausedBy(h, n)) /\ IsFiniteSet({h.processed[i].event : i \in 1..n})
    BY <2>1, <2>9, CausedIsFinite
  <2>4. IsFiniteSet(h.events \union {h.processed[i].event : i \in 1..n})
    BY <2>1, <2>3, FS_Union
  <2>5. IsFiniteSet((h.events \union {h.processed[i].event : i \in 1..n}) \union h.antis)
    BY <2>1, <2>4, FS_Union
  <2>6. IsFiniteSet(((h.events \union {h.processed[i].event : i \in 1..n}) \union h.antis) \union CausedBy(h, n))
    BY <2>3, <2>5, FS_Union
  <2>7. OfChare(c) = ((h.events \union {h.processed[i].event : i \in 1..n}) \union h.antis) \union CausedBy(h, n)
    BY <2>2 DEF Held, Processed, CausedBy, h, n
  <2>8. QED
    BY <2>6, <2>7
<1>3. IsFiniteSet({g[c] : c \in Chare})
  <2>1. DOMAIN g = Chare
    OBVIOUS
  <2> HIDE DEF g
  <2>2. QED
    BY <2>1, FiniteImage, ChareAssumption
<1>4. \A T \in {g[c] : c \in Chare} : IsFiniteSet(T)
  <2>1. \A c \in Chare : g[c] = OfChare(c)
    OBVIOUS
  <2> HIDE DEF OfChare, g
  <2>2. QED
    BY <1>2, <2>1
<1>5. IsFiniteSet(UNION {g[c] : c \in Chare})
  BY <1>3, <1>4, FS_UNION
<1>6. IsFiniteSet({f[m] : m \in net} \union UNION {g[c] : c \in Chare})
  BY <1>1, <1>5, FS_Union
<1>7. Known = {f[m] : m \in net} \union UNION {g[c] : c \in Chare}
  BY DEF Known
<1>8. QED
  BY <1>6, <1>7

\* get_next_event_id() yields an id that nothing in use carries.
LEMMA IdIsFresh ==
  ASSUME IsFiniteSet(Known), NEW c, NEW d, NEW t
  PROVE  LET i == get_next_event_id(c, d, t) IN
         /\ i \in Nat
         /\ [src |-> c, dest |-> d, ts |-> t, id |-> i] \notin Known
<1> DEFINE alike == {k \in Known : k.src = c /\ k.dest = d /\ k.ts = t}
           f == [k \in alike |-> k.id]
           used == {e.id : e \in {k \in Known : k.src = c /\ k.dest = d /\ k.ts = t}}
           free == (0..Cardinality(used)) \ used
<1>1. IsFiniteSet(alike)
  BY FS_Subset
<1>2. IsFiniteSet({f[k] : k \in alike})
  <2>1. DOMAIN f = alike
    OBVIOUS
  <2> HIDE DEF f, alike
  <2>2. QED
    BY <1>1, <2>1, FiniteImage
<1>3. used = {f[k] : k \in alike}
  OBVIOUS
<1>4. IsFiniteSet(used)
  BY <1>2, <1>3
<1>5. get_next_event_id(c, d, t) = Min(free)
  BY DEF get_next_event_id
<1>6. [src |-> c, dest |-> d, ts |-> t, id |-> Min(free)] \in Known => Min(free) \in used
  <2> DEFINE k == [src |-> c, dest |-> d, ts |-> t, id |-> Min(free)]
  <2>1. k.src = c /\ k.dest = d /\ k.ts = t /\ k.id = Min(free)
    OBVIOUS
  <2> HIDE DEF k, free
  <2>2. k \in Known => k.id \in used
    BY <2>1
  <2>3. QED
    BY <2>1, <2>2 DEF k
<1> HIDE DEF used
<1>7. Cardinality(used) \in Nat
  BY <1>4, FS_CardinalityType
<1>8. free # {}
  <2>1. IsFiniteSet(0..Cardinality(used)) /\ Cardinality(0..Cardinality(used)) = Cardinality(used) + 1
    BY <1>7, FS_Interval
  <2>2. ASSUME free = {} PROVE FALSE
    <3>1. 0..Cardinality(used) \in SUBSET used
      BY <2>2
    <3>2. Cardinality(0..Cardinality(used)) <= Cardinality(used)
      BY <1>4, <3>1, FS_Subset
    <3>3. QED
      BY <1>7, <2>1, <3>2
  <2>3. QED
    BY <2>2
<1>9. free \in SUBSET Nat
  BY <1>7
<1>10. Min(free) \in free
  BY <1>8, <1>9, MinIsLeast
<1>11. Min(free) \in Nat /\ Min(free) \notin used
  BY <1>7, <1>10
<1>12. QED
  BY <1>5, <1>6, <1>11

\* What forward() sends is new, comes from c and is later than t.
LEMMA SentFacts ==
  ASSUME IsFiniteSet(Known), NEW c \in Chare, NEW s \in LPState, NEW t \in EventTime
  PROVE  /\ Sent(c, s, t) \in SUBSET Event
         /\ IsFiniteSet(Sent(c, s, t))
         /\ \A k \in Sent(c, s, t) : k.src = c /\ k.ts > t /\ k \notin Known
<1> DEFINE ev(x) == [src |-> c, dest |-> x[1], ts |-> t + x[2], id |-> get_next_event_id(c, x[1], t + x[2])]
           S == {y \in Sends(c, s, t) : t + y[2] < EndTime}
           f == [x \in S |-> ev(x)]
<1>1. Sends(c, s, t) \subseteq Chare \X (1..EndTime)
  BY SendsAssumption
<1>2. Sent(c, s, t) = {ev(x) : x \in S}
  BY DEF Sent
<1>3. \A x \in S : x[1] \in Chare /\ t + x[2] \in EventTime /\ t + x[2] > t
  BY <1>1, EndTimeAssumption DEF EventTime
<1>4. \A x \in S : /\ get_next_event_id(c, x[1], t + x[2]) \in Nat
                   /\ ev(x) \notin Known
  BY IdIsFresh
<1>5. \A x \in S : ev(x) \in Event /\ ev(x).src = c /\ ev(x).ts > t
  BY <1>3, <1>4 DEF Event
<1>6. IsFiniteSet(S)
  <2>1. IsFiniteSet(1..EndTime)
    BY EndTimeAssumption, FS_Interval
  <2>2. IsFiniteSet(Chare \X (1..EndTime))
    BY <2>1, ChareAssumption, FS_Product
  <2>3. S \in SUBSET (Chare \X (1..EndTime))
    BY <1>1
  <2>4. QED
    BY <2>2, <2>3, FS_Subset
<1>7. IsFiniteSet({f[x] : x \in S})
  <2>1. DOMAIN f = S
    OBVIOUS
  <2> HIDE DEF f, S
  <2>2. QED
    BY <1>6, <2>1, FiniteImage
<1>8. {f[x] : x \in S} = {ev(x) : x \in S}
  OBVIOUS
<1> HIDE DEF ev, S, f
<1>9. QED
  BY <1>2, <1>4, <1>5, <1>7, <1>8

\* execute_me: the earliest pending event moves to the front of the processed
\* queue, with what it sends.
Executed(h, e, sent, u) ==
  /\ u \in LPChare
  /\ u.events = (h.events \ {e}) \union {k \in sent : ~Remote(k)}
  /\ Len(u.processed) = Len(h.processed) + 1
  /\ u.processed[1].event = e /\ u.processed[1].caused = sent
  /\ \A i \in 1..Len(h.processed) : u.processed[i + 1] = h.processed[i]
  /\ u.cancel_q = h.cancel_q /\ u.antis = h.antis /\ u.current_time = e.ts

\* What execute_me() does: the earliest event is taken, and what it sends is
\* new and later.
LEMMA ExecuteFields ==
  ASSUME TypeOK, FinitelyMany, NEW c \in Chare, execute_me(c)
  PROVE  LET h == chare[c] IN
         \E e \in h.events, sent \in SUBSET Event, u \in LPChare :
           /\ \A x \in h.events : e.ts <= x.ts
           /\ IsFiniteSet(sent)
           /\ \A k \in sent : k.src = c /\ k.ts > e.ts /\ k \notin Known
           /\ chare' = [chare EXCEPT ![c] = u]
           /\ Executed(h, e, sent, u)
           /\ net' = net \union {Positive(k) : k \in {k \in sent : Remote(k)}}
<1> DEFINE h == chare[c]
<1>1. h \in LPChare /\ h.events \in SUBSET Event /\ h.state \in LPState
  BY DEF TypeOK, LPChare
<1>2. PICK e \in h.events :
        /\ e.ts = MinTime(h.events)
        /\ LET sent == Sent(c, h.state, e.ts)
           IN  /\ chare' = [chare EXCEPT ![c] = update_next(
                    [h EXCEPT !.events = (h.events \ {e}) \union {k \in sent : ~Remote(k)},
                              !.processed = <<[event |-> e, before |-> h.state, caused |-> sent]>>
                                            \o h.processed,
                              !.state = forward_state(h.state),
                              !.current_time = e.ts])]
               /\ net' = net \union {Positive(k) : k \in {k \in sent : Remote(k)}}
  BY DEF execute_me
<1> DEFINE sent == Sent(c, h.state, e.ts)
           entry == [event |-> e, before |-> h.state, caused |-> sent]
           queue == <<entry>> \o h.processed
           evts == (h.events \ {e}) \union {k \in sent : ~Remote(k)}
           v == [h EXCEPT !.events = evts, !.processed = queue,
                          !.state = forward_state(h.state), !.current_time = e.ts]
           u == update_next(v)
<1>3. e \in Event /\ e.ts \in EventTime
  BY <1>1 DEF Event
<1>4. /\ sent \in SUBSET Event /\ IsFiniteSet(sent)
      /\ \A k \in sent : k.src = c /\ k.ts > e.ts /\ k \notin Known
  BY <1>1, <1>3, KnownIsFinite, SentFacts
<1>5. \A x \in h.events : e.ts <= x.ts
  BY <1>1, <1>2, MinTimeIsLeast
<1>6. chare' = [chare EXCEPT ![c] = u]
      /\ net' = net \union {Positive(k) : k \in {k \in sent : Remote(k)}}
  BY <1>2
<1> HIDE DEF h, sent
<1>7. entry \in Entry
  BY <1>1, <1>3, <1>4 DEF Entry
<1>8. entry.event = e /\ entry.caused = sent
  OBVIOUS
<1> HIDE DEF entry
<1>9. /\ queue \in Seq(Entry) /\ Len(queue) = Len(h.processed) + 1
      /\ queue[1] = entry
      /\ \A i \in 1..Len(h.processed) : queue[i + 1] = h.processed[i]
  <2>1. /\ <<entry>> \in Seq(Entry) /\ Len(<<entry>>) = 1 /\ <<entry>>[1] = entry
        /\ h.processed \in Seq(Entry) /\ Len(h.processed) \in Nat
    BY <1>1, <1>7, ProcessedQueue
  <2> DEFINE one == <<entry>>
  <2> HIDE DEF one
  <2>2. /\ one \o h.processed \in Seq(Entry)
        /\ Len(one \o h.processed) = Len(one) + Len(h.processed)
        /\ \A i \in 1..(Len(one) + Len(h.processed)) :
             (one \o h.processed)[i] = IF i <= Len(one) THEN one[i] ELSE h.processed[i - Len(one)]
    BY <2>1, ConcatProperties DEF one
  <2>3. Len(one) = 1 /\ one[1] = entry
    BY <2>1 DEF one
  <2>4. queue = one \o h.processed
    BY DEF one
  <2> HIDE DEF queue
  <2>5. Len(queue) = Len(h.processed) + 1 /\ queue[1] = entry
    BY <2>1, <2>2, <2>3, <2>4
  <2>6. ASSUME NEW i \in 1..Len(h.processed) PROVE queue[i + 1] = h.processed[i]
    <3>1. i + 1 \in 1..(1 + Len(h.processed)) /\ ~ (i + 1 <= 1) /\ (i + 1) - 1 = i
      BY <2>1
    <3>2. queue[i + 1] = IF i + 1 <= 1 THEN one[i + 1] ELSE h.processed[(i + 1) - 1]
      BY <2>2, <2>3, <2>4, <3>1
    <3>3. QED
      BY <3>1, <3>2
  <2>7. QED
    BY <2>2, <2>4, <2>5, <2>6
<1>10. evts \in SUBSET Event
  BY <1>1, <1>4
<1>11. forward_state(h.state) \in LPState
  BY <1>1, PhasesAssumption DEF forward_state, LPState
<1>12. e.ts \in Time
  BY <1>3, EndTimeAssumption DEF Time, EventTime
<1> HIDE DEF queue, evts
<1>13. /\ v \in LPChare /\ v.events = evts /\ v.processed = queue /\ v.cancel_q = h.cancel_q
       /\ v.antis = h.antis /\ v.current_time = e.ts
  BY <1>1, <1>9, <1>10, <1>11, <1>12 DEF LPChare
<1> HIDE DEF v
<1>14. /\ u \in LPChare /\ u.events = v.events /\ u.processed = v.processed
       /\ u.cancel_q = v.cancel_q /\ u.antis = v.antis /\ u.current_time = v.current_time
  BY <1>13, UpdateNextFields
<1> HIDE DEF u
<1>15. Executed(h, e, sent, u)
  BY <1>8, <1>9, <1>13, <1>14 DEF Executed, evts
<1>16. QED
  BY <1>4, <1>5, <1>6, <1>14, <1>15 DEF h

-----------------------------------------------------------------------------
(***************************************************************************)
(* The order of a chare is kept.                                           *)
(***************************************************************************)

\* Undoing and then deleting events, or adding one that the entries left do
\* not follow, keeps the order.
LEMMA RolledBackOrdered ==
  ASSUME NEW h \in LPChare, Ordered(h), NEW n, NEW u, RolledBack(h, n, u),
         NEW S, u.events \subseteq Restored(h, n) \union S,
         \A e \in S : \A i \in (n + 1)..Len(h.processed) : h.processed[i].event.ts <= e.ts
  PROVE  Ordered(u)
<1> DEFINE L == Len(h.processed)
<1>1. L \in Nat /\ DOMAIN h.processed = 1..L /\ \A i \in 1..L : h.processed[i] \in Entry
  BY ProcessedQueue
<1>2. /\ u \in LPChare /\ n \in 0..L /\ Len(u.processed) = L - n
      /\ \A i \in 1..(L - n) : u.processed[i] = h.processed[n + i]
      /\ Current(u)
  BY DEF RolledBack, Ordered
<1>3. DOMAIN u.processed = 1..(L - n)
  BY <1>2, ProcessedQueue
<1>4. \A i \in 1..(L - n) : n + i \in 1..L /\ n + i \in (n + 1)..L
  BY <1>1, <1>2
<1>5. \A i \in 1..L : h.processed[i].event.ts \in Nat
  BY <1>1 DEF Entry, Event, EventTime
<1>6. ASSUME NEW i \in 1..(L - n), NEW j \in 1..(L - n), i < j
      PROVE  u.processed[i].event.ts >= u.processed[j].event.ts
  <2>1. n + i < n + j
    BY <1>2, <1>6
  <2>2. h.processed[n + i].event.ts >= h.processed[n + j].event.ts
    BY <1>1, <1>4, <2>1 DEF Ordered
  <2>3. QED
    BY <1>2, <2>2
<1>7. ASSUME NEW i \in 1..(L - n), NEW e \in u.events
      PROVE  u.processed[i].event.ts <= e.ts
  <2>1. u.processed[i] = h.processed[n + i] /\ n + i \in 1..L
    BY <1>2, <1>4
  <2>2. CASE e \in S
    BY <1>4, <2>1, <2>2
  <2>3. CASE e \in h.events
    BY <1>1, <2>1, <2>3 DEF Ordered
  <2>4. ASSUME NEW j \in 1..n, e = h.processed[j].event PROVE h.processed[n + i].event.ts <= e.ts
    <3>1. j \in 1..L /\ j < n + i
      BY <1>1, <1>2, <2>4
    <3>2. h.processed[j].event.ts >= h.processed[n + i].event.ts
      BY <1>1, <2>1, <3>1 DEF Ordered
    <3>3. QED
      BY <1>5, <2>1, <2>4, <3>1, <3>2
  <2>5. QED
    BY <2>1, <2>2, <2>3, <2>4 DEF Restored
<1>8. ASSUME NEW i \in 1..(L - n), NEW k \in u.processed[i].caused
      PROVE  u.processed[i].event.ts < k.ts
  BY <1>1, <1>2, <1>4 DEF Ordered
<1>9. QED
  BY <1>2, <1>3, <1>6, <1>7, <1>8 DEF Ordered

\* Executing the earliest pending event keeps the order.
LEMMA ExecutedOrdered ==
  ASSUME NEW h \in LPChare, Ordered(h), NEW e \in h.events, \A x \in h.events : e.ts <= x.ts,
         NEW sent \in SUBSET Event, \A k \in sent : k.ts > e.ts,
         NEW u, Executed(h, e, sent, u)
  PROVE  Ordered(u)
<1> DEFINE L == Len(h.processed)
<1>1. L \in Nat /\ DOMAIN h.processed = 1..L /\ \A i \in 1..L : h.processed[i] \in Entry
  BY ProcessedQueue
<1>2. /\ u \in LPChare /\ Len(u.processed) = L + 1 /\ u.current_time = e.ts
      /\ u.events = (h.events \ {e}) \union {k \in sent : ~Remote(k)}
      /\ u.processed[1].event = e /\ u.processed[1].caused = sent
      /\ \A i \in 1..L : u.processed[i + 1] = h.processed[i]
  BY DEF Executed
<1>3. DOMAIN u.processed = 1..(L + 1)
  BY <1>2, ProcessedQueue
<1>4. \A i \in 1..(L + 1) : i # 1 => i - 1 \in 1..L /\ u.processed[i] = h.processed[i - 1]
  BY <1>1, <1>2
<1>5. /\ \A i \in 1..L : h.processed[i].event.ts \in Nat
      /\ e.ts \in Nat /\ (\A x \in h.events : x.ts \in Nat) /\ (\A k \in sent : k.ts \in Nat)
  BY <1>1 DEF LPChare, Entry, Event, EventTime
<1>6. \A i \in 1..(L + 1) : u.processed[i].event.ts <= e.ts /\ u.processed[i].event.ts \in Nat
  <2> TAKE i \in 1..(L + 1)
  <2>1. CASE i = 1
    BY <1>2, <1>5, <2>1
  <2>2. CASE i # 1
    <3>1. h.processed[i - 1].event.ts <= e.ts
      BY <1>1, <1>4, <2>2 DEF Ordered
    <3>2. QED
      BY <1>4, <1>5, <2>2, <3>1
  <2>3. QED
    BY <2>1, <2>2
<1>7. ASSUME NEW i \in 1..(L + 1), NEW j \in 1..(L + 1), i < j
      PROVE  u.processed[i].event.ts >= u.processed[j].event.ts
  <2>1. CASE i = 1
    BY <1>2, <1>5, <1>6, <2>1
  <2>2. CASE i # 1
    <3>1. i - 1 \in 1..L /\ j - 1 \in 1..L /\ i - 1 < j - 1
      BY <1>4, <1>7, <2>2
    <3>2. h.processed[i - 1].event.ts >= h.processed[j - 1].event.ts
      BY <1>1, <3>1 DEF Ordered
    <3>3. j # 1
      BY <1>7
    <3>4. QED
      BY <1>4, <2>2, <3>2, <3>3
  <2>3. QED
    BY <2>1, <2>2
<1>8. ASSUME NEW i \in 1..(L + 1), NEW x \in u.events
      PROVE  u.processed[i].event.ts <= x.ts
  <2>1. e.ts <= x.ts /\ x.ts \in Nat
    BY <1>2, <1>5
  <2>2. QED
    BY <1>5, <1>6, <2>1
<1>9. ASSUME NEW i \in 1..(L + 1), NEW k \in u.processed[i].caused
      PROVE  u.processed[i].event.ts < k.ts
  <2>1. CASE i = 1
    BY <1>2, <1>5, <2>1
  <2>2. CASE i # 1
    BY <1>1, <1>4, <2>2 DEF Ordered
  <2>3. QED
    BY <2>1, <2>2
<1>10. Current(u)
  BY <1>2 DEF Current
<1>11. QED
  BY <1>3, <1>7, <1>8, <1>9, <1>10 DEF Ordered

\* What undoing restores and what it cancels is no earlier than the oldest
\* undone event.
LEMMA UndoingFrom ==
  ASSUME NEW h \in LPChare, Ordered(h), NEW n \in 0..Len(h.processed), NEW f \in Nat,
         \A e \in h.events : e.ts >= f,
         n > 0 => h.processed[n].event.ts >= f
  PROVE  /\ \A e \in Restored(h, n) : e \in Event /\ e.ts >= f
         /\ \A m \in Antis(h, n) : m \in Message /\ m.event.ts >= f
<1> DEFINE L == Len(h.processed)
<1>1. L \in Nat /\ DOMAIN h.processed = 1..L /\ \A i \in 1..L : h.processed[i] \in Entry
  BY ProcessedQueue
<1>2. \A i \in 1..L : /\ h.processed[i].event \in Event /\ h.processed[i].event.ts \in Nat
                      /\ h.processed[i].caused \in SUBSET Event
  BY <1>1 DEF Entry, Event, EventTime
<1>3. ASSUME NEW i \in 1..n PROVE i \in 1..L /\ h.processed[i].event.ts >= f
  <2>1. i \in 1..L /\ n \in 1..L /\ n > 0
    BY <1>1
  <2>2. i = n \/ h.processed[i].event.ts >= h.processed[n].event.ts
    BY <1>1, <2>1 DEF Ordered
  <2>3. QED
    BY <1>2, <2>1, <2>2
<1>4. ASSUME NEW e \in Restored(h, n) PROVE e \in Event /\ e.ts >= f
  BY <1>2, <1>3 DEF Restored, LPChare
<1>5. ASSUME NEW k \in CausedBy(h, n) PROVE k \in Event /\ k.ts >= f
  <2>1. PICK i \in 1..n : k \in h.processed[i].caused
    BY DEF CausedBy
  <2>2. k \in Event /\ k.ts > h.processed[i].event.ts
    BY <1>1, <1>2, <1>3, <2>1 DEF Ordered
  <2>3. k.ts \in Nat
    BY <2>2 DEF Event, EventTime
  <2>4. QED
    BY <1>2, <1>3, <2>2, <2>3
<1>6. ASSUME NEW m \in Antis(h, n) PROVE m \in Message /\ m.event.ts >= f
  <2>1. PICK k \in CausedBy(h, n) : m = Anti(k)
    BY DEF Antis
  <2>2. QED
    BY <1>5, <2>1 DEF Anti, Message
<1>7. QED
  BY <1>4, <1>6

-----------------------------------------------------------------------------
(***************************************************************************)
(* Each step keeps the invariant.                                          *)
(***************************************************************************)

\* A processed queue that lost entries is as finite as before.
LEMMA RolledBackFinite ==
  ASSUME NEW h \in LPChare, FiniteChare(h), NEW n, NEW u, RolledBack(h, n, u),
         IsFiniteSet(u.events)
  PROVE  FiniteChare(u)
<1>1. /\ Len(h.processed) \in Nat /\ DOMAIN h.processed = 1..Len(h.processed)
      /\ u \in LPChare /\ n \in 0..Len(h.processed) /\ Len(u.processed) = Len(h.processed) - n
      /\ \A i \in 1..(Len(h.processed) - n) : u.processed[i] = h.processed[n + i]
      /\ u.antis = h.antis
  BY ProcessedQueue DEF RolledBack
<1>2. DOMAIN u.processed = 1..(Len(h.processed) - n)
  BY <1>1, ProcessedQueue
<1>3. \A i \in DOMAIN u.processed : n + i \in DOMAIN h.processed /\ u.processed[i] = h.processed[n + i]
  BY <1>1, <1>2
<1>4. QED
  BY <1>1, <1>3 DEF FiniteChare

\* A step that changes one chare, the messages and the blocks under way.
LEMMA OneChareChanges ==
  ASSUME IInv, NEW c \in Chare, NEW u \in LPChare, chare' = [chare EXCEPT ![c] = u],
         Ordered(u), NotBefore(u, gvt), FiniteChare(u),
         net' \subseteq Message, IsFiniteSet(net'), \A m \in net' : m.event.ts >= gvt,
         batch' \in [PE -> 0..MBlock], UNCHANGED <<gvt, g_last_gvt, committed>>
  PROVE  IInv'
<1>1. \A d \in Chare : chare'[d] = IF d = c THEN u ELSE chare[d]
  BY DEF IInv, TypeOK
<1>2. TypeOK'
  BY DEF IInv, TypeOK
<1>3. FinitelyMany'
  BY <1>1 DEF IInv, FinitelyMany
<1>4. \A d \in Chare : Ordered(chare'[d]) /\ NotBefore(chare'[d], gvt)
  BY <1>1 DEF IInv
<1>5. QED
  BY <1>2, <1>3, <1>4 DEF IInv

\* Executing the earliest event of a PE.
LEMMA SchedulePreserves ==
  ASSUME IInv, NEW p \in PE, schedule_next_lp(p)
  PROVE  IInv'
<1>1. PICK c \in Chare : execute_me(c)
  BY DEF schedule_next_lp, Top, ChareOn
<1> DEFINE h == chare[c]
<1>2. TypeOK /\ FinitelyMany /\ h \in LPChare /\ FiniteChare(h) /\ Ordered(h) /\ NotBefore(h, gvt)
  BY DEF IInv, TypeOK, FinitelyMany
<1>3. PICK e \in h.events, sent \in SUBSET Event, u \in LPChare :
        /\ \A x \in h.events : e.ts <= x.ts
        /\ IsFiniteSet(sent)
        /\ \A k \in sent : k.src = c /\ k.ts > e.ts /\ k \notin Known
        /\ chare' = [chare EXCEPT ![c] = u]
        /\ Executed(h, e, sent, u)
        /\ net' = net \union {Positive(k) : k \in {k \in sent : Remote(k)}}
  BY <1>1, <1>2, ExecuteFields
<1>4. /\ gvt \in Nat /\ e.ts \in Nat /\ e.ts >= gvt
      /\ \A k \in sent : k \in Event /\ k.ts \in Nat /\ k.ts >= gvt
  <2>1. gvt \in Nat /\ e \in Event /\ e.ts >= gvt
    BY <1>2 DEF TypeOK, Time, LPChare, NotBefore
  <2>2. e.ts \in Nat /\ \A k \in sent : k.ts \in Nat
    BY <2>1 DEF Event, EventTime
  <2>3. QED
    BY <1>3, <2>1, <2>2
<1> HIDE DEF h
<1>5. u \in LPChare
  BY <1>3 DEF Executed
<1>6. Ordered(u)
  BY <1>2, <1>3, ExecutedOrdered
<1>7. NotBefore(u, gvt)
  BY <1>2, <1>3, <1>4 DEF NotBefore, Executed
<1>8. FiniteChare(u)
  <2>1. Len(h.processed) \in Nat /\ DOMAIN h.processed = 1..Len(h.processed)
    BY <1>2, ProcessedQueue
  <2>2. DOMAIN u.processed = 1..(Len(h.processed) + 1)
    BY <1>3, <1>5, ProcessedQueue DEF Executed
  <2>3. \A i \in DOMAIN u.processed : IsFiniteSet(u.processed[i].caused)
    <3> TAKE i \in DOMAIN u.processed
    <3>1. CASE i = 1
      BY <1>3, <3>1 DEF Executed
    <3>2. CASE i # 1
      <4>1. i - 1 \in 1..Len(h.processed) /\ (i - 1) + 1 = i
        BY <2>1, <2>2, <3>2
      <4>2. u.processed[i] = h.processed[i - 1]
        BY <1>3, <4>1 DEF Executed
      <4>3. QED
        BY <1>2, <2>1, <4>1, <4>2 DEF FiniteChare
    <3>3. QED
      BY <3>1, <3>2
  <2>4. IsFiniteSet(h.events \ {e}) /\ IsFiniteSet({k \in sent : ~Remote(k)})
    BY <1>2, <1>3, FS_RemoveElement, FS_Subset DEF FiniteChare
  <2>5. IsFiniteSet((h.events \ {e}) \union {k \in sent : ~Remote(k)})
    BY <2>4, FS_Union
  <2>6. QED
    BY <1>2, <1>3, <2>3, <2>5 DEF FiniteChare, Executed
<1>9. net' \subseteq Message /\ \A m \in net' : m.event.ts >= gvt
  <2>1. \A k \in sent : Positive(k) \in Message /\ Positive(k).event = k
    BY DEF Positive, Message
  <2>2. QED
    BY <1>3, <1>4, <2>1 DEF IInv, TypeOK
<1>10. IsFiniteSet(net')
  <2> DEFINE S == {k \in sent : Remote(k)}
             f == [k \in S |-> Positive(k)]
  <2>1. IsFiniteSet(S)
    BY <1>3, FS_Subset
  <2>2. IsFiniteSet({f[k] : k \in S})
    <3>1. DOMAIN f = S
      OBVIOUS
    <3> HIDE DEF f, S
    <3>2. QED
      BY <2>1, <3>1, FiniteImage
  <2>3. {f[k] : k \in S} = {Positive(k) : k \in S}
    OBVIOUS
  <2>4. IsFiniteSet(net \union {Positive(k) : k \in S})
    BY <1>2, <2>2, <2>3, FS_Union DEF FinitelyMany
  <2>5. QED
    BY <1>3, <2>4
<1>11. batch' \in [PE -> 0..MBlock] /\ UNCHANGED <<gvt, g_last_gvt, committed>>
  BY MBlockAssumption DEF IInv, TypeOK, schedule_next_lp, RoomInBlock
<1>12. QED
  BY <1>3, <1>5, <1>6, <1>7, <1>8, <1>9, <1>10, <1>11, OneChareChanges

\* The arrival of an event, with the rollback a late one causes.
LEMMA RecvEventPreserves ==
  ASSUME IInv, NEW m \in net, recv_remote_event(m.event.dest, m.event)
  PROVE  IInv'
<1> DEFINE e == m.event
           c == e.dest
           h == chare[c]
           n == UndoneSince(h, e.ts)
<1>1. /\ e \in Event /\ c \in Chare /\ e.ts \in EventTime /\ e.ts >= gvt
      /\ TypeOK /\ FinitelyMany /\ gvt \in Nat
  BY DEF IInv, TypeOK, Message, Event, Time
<1>2. h \in LPChare /\ FiniteChare(h) /\ Ordered(h) /\ NotBefore(h, gvt) /\ Current(h)
  BY <1>1 DEF IInv, TypeOK, FinitelyMany, Ordered
<1>3. net \in SUBSET Message /\ IsFiniteSet(net) /\ IsFiniteSet(net \ {Positive(e)})
  BY FS_RemoveElement DEF IInv, TypeOK, FinitelyMany
<1>4. batch' \in [PE -> 0..MBlock] /\ UNCHANGED <<gvt, g_last_gvt, committed>>
  BY <1>1 DEF TypeOK, recv_remote_event
<1>5. CASE Annihilates(h, e)
  <2> DEFINE u == [h EXCEPT !.antis = h.antis \ {e}]
  <2>1. chare' = [chare EXCEPT ![c] = u] /\ net' = net \ {Positive(e)}
    BY <1>1, <1>5 DEF recv_remote_event, TypeOK
  <2>2. /\ u \in LPChare /\ u.events = h.events /\ u.processed = h.processed /\ u.cancel_q = h.cancel_q
        /\ u.antis = h.antis \ {e} /\ u.current_time = h.current_time
    BY <1>2 DEF LPChare
  <2> HIDE DEF u, h
  <2>3. Ordered(u) /\ NotBefore(u, gvt)
    BY <1>2, <2>2 DEF Ordered, Current, NotBefore
  <2>4. FiniteChare(u)
    <3>1. IsFiniteSet(h.antis \ {e})
      BY <1>2, FS_RemoveElement DEF FiniteChare
    <3>2. QED
      BY <1>2, <2>2, <3>1 DEF FiniteChare
  <2>5. QED
    BY <1>1, <1>3, <1>4, <2>1, <2>2, <2>3, <2>4, OneChareChanges DEF IInv
<1>6. CASE ~Annihilates(h, e)
  <2>1. recv_local_event(c, e)
    BY <1>6 DEF recv_remote_event
  <2>2. PICK u : /\ chare' = [chare EXCEPT ![c] = u]
                 /\ RolledBack(h, n, u)
                 /\ u.events = Restored(h, n) \union {e} /\ u.cancel_q = h.cancel_q
                 /\ net' = (net \ {Positive(e)}) \union Antis(h, n)
    BY <1>1, <1>2, <2>1, RecvLocalFields
  <2>3. /\ n \in 0..Len(h.processed) /\ Len(h.processed) \in Nat /\ DOMAIN h.processed = 1..Len(h.processed)
        /\ n > 0 => h.processed[n].event.ts >= e.ts
        /\ n < Len(h.processed) => h.processed[n + 1].event.ts < e.ts
    BY <1>1, <1>2, ProcessedQueue, UndoneSinceRange
  <2> HIDE DEF n, h
  <2>4. e.ts \in Nat /\ \A i \in 1..Len(h.processed) : h.processed[i].event.ts \in Nat
    BY <1>1, <1>2, <2>3, ProcessedQueue DEF Entry, Event, EventTime
  <2>5. \A x \in {e} : \A i \in (n + 1)..Len(h.processed) : h.processed[i].event.ts <= x.ts
    <3> SUFFICES ASSUME NEW i \in (n + 1)..Len(h.processed) PROVE h.processed[i].event.ts <= e.ts
      OBVIOUS
    <3>1. n + 1 \in 1..Len(h.processed) /\ i \in 1..Len(h.processed) /\ n < Len(h.processed)
      BY <2>3
    <3>2. i = n + 1 \/ h.processed[n + 1].event.ts >= h.processed[i].event.ts
      BY <1>2, <2>3, <3>1 DEF Ordered
    <3>3. QED
      BY <2>3, <2>4, <3>1, <3>2
  <2>6. u \in LPChare /\ Ordered(u)
    <3>1. u.events \subseteq Restored(h, n) \union {e}
      BY <2>2
    <3>2. Ordered(u)
      BY <1>2, <2>2, <2>5, <3>1, RolledBackOrdered
    <3>3. QED
      BY <2>2, <3>2 DEF RolledBack
  <2>7. /\ \A x \in Restored(h, n) : x.ts >= gvt
        /\ \A x \in Antis(h, n) : x \in Message /\ x.event.ts >= gvt
    <3>1. \A x \in h.events : x.ts >= gvt
      BY <1>2 DEF NotBefore
    <3>2. n > 0 => h.processed[n].event.ts >= gvt
      <4>1. ASSUME n > 0 PROVE n \in 1..Len(h.processed)
        BY <2>3, <4>1
      <4>2. QED
        BY <1>1, <2>3, <2>4, <4>1
    <3>3. QED
      BY <1>1, <1>2, <2>3, <3>1, <3>2, UndoingFrom
  <2>8. NotBefore(u, gvt)
    BY <1>1, <1>2, <2>2, <2>7 DEF NotBefore
  <2>9. IsFiniteSet(Restored(h, n)) /\ IsFiniteSet(Antis(h, n))
    BY <1>2, <2>3, UndoingIsFinite DEF FiniteChare
  <2>10. FiniteChare(u)
    <3>1. IsFiniteSet(u.events)
      BY <2>2, <2>9, FS_AddElement
    <3>2. QED
      BY <1>2, <2>2, <3>1, RolledBackFinite
  <2>11. net' \subseteq Message /\ IsFiniteSet(net') /\ \A x \in net' : x.event.ts >= gvt
    <3>1. IsFiniteSet(net')
      BY <1>3, <2>2, <2>9, FS_Union
    <3>2. \A x \in net : x.event.ts >= gvt
      BY DEF IInv
    <3>3. QED
      BY <1>3, <2>2, <2>7, <3>1, <3>2
  <2>12. QED
    BY <1>1, <1>4, <2>2, <2>6, <2>8, <2>10, <2>11, OneChareChanges
<1>7. QED
  BY <1>5, <1>6

\* The arrival of an anti-event.
LEMMA RecvAntiPreserves ==
  ASSUME IInv, NEW m \in net, recv_anti_event(m.event.dest, m.event)
  PROVE  IInv'
<1> DEFINE e == m.event
           c == e.dest
           h == chare[c]
           u == IF e \in Cancellable(h) THEN cancel_event(h, e)
                ELSE [h EXCEPT !.antis = h.antis \union {e}]
<1>1. /\ e \in Event /\ c \in Chare /\ e.ts >= gvt
      /\ TypeOK /\ FinitelyMany /\ gvt \in Nat
  BY DEF IInv, TypeOK, Message, Event, Time
<1>2. h \in LPChare /\ FiniteChare(h) /\ Ordered(h) /\ NotBefore(h, gvt)
  BY <1>1 DEF IInv, TypeOK, FinitelyMany
<1>3. /\ chare' = [chare EXCEPT ![c] = u] /\ net' = net \ {Anti(e)}
      /\ batch' \in [PE -> 0..MBlock] /\ UNCHANGED <<gvt, g_last_gvt, committed>>
  BY <1>1 DEF recv_anti_event, TypeOK
<1>4. net' \subseteq Message /\ IsFiniteSet(net') /\ \A x \in net' : x.event.ts >= gvt
  BY <1>3, FS_RemoveElement DEF IInv, TypeOK, FinitelyMany
<1> HIDE DEF h
<1>5. /\ u \in LPChare /\ u.processed = h.processed /\ u.current_time = h.current_time
      /\ \/ u.events = h.events \ {e} /\ u.cancel_q = h.cancel_q /\ u.antis = h.antis
         \/ u.events = h.events /\ u.cancel_q = h.cancel_q \union {e} /\ u.antis = h.antis
         \/ u.events = h.events /\ u.cancel_q = h.cancel_q /\ u.antis = h.antis \union {e}
  <2>1. CASE e \notin Cancellable(h)
    <3>1. u = [h EXCEPT !.antis = h.antis \union {e}]
      BY <2>1
    <3>2. h.antis \union {e} \in SUBSET Event
      BY <1>1, <1>2 DEF LPChare
    <3> HIDE DEF u
    <3>3. QED
      BY <1>2, <3>1, <3>2 DEF LPChare
  <2>2. CASE e \in Cancellable(h) /\ e \in h.events
    <3> DEFINE v == [h EXCEPT !.events = h.events \ {e}]
    <3>1. u = update_next(v)
      BY <2>2 DEF cancel_event
    <3>2. /\ v \in LPChare /\ v.events = h.events \ {e} /\ v.processed = h.processed
          /\ v.cancel_q = h.cancel_q /\ v.antis = h.antis /\ v.current_time = h.current_time
      BY <1>2 DEF LPChare
    <3> HIDE DEF v, u
    <3>3. QED
      BY <3>1, <3>2, UpdateNextFields
  <2>3. CASE e \in Cancellable(h) /\ e \notin h.events
    <3>1. u = [h EXCEPT !.cancel_q = h.cancel_q \union {e}]
      BY <2>3 DEF cancel_event
    <3>2. h.cancel_q \union {e} \in SUBSET Event
      BY <1>1, <1>2 DEF LPChare
    <3> HIDE DEF u
    <3>3. QED
      BY <1>2, <3>1, <3>2 DEF LPChare
  <2>4. QED
    BY <2>1, <2>2, <2>3
<1> HIDE DEF u
<1>6. Ordered(u)
  BY <1>2, <1>5 DEF Ordered, Current
<1>7. NotBefore(u, gvt)
  BY <1>1, <1>2, <1>5 DEF NotBefore
<1>8. FiniteChare(u)
  <2>1. IsFiniteSet(h.events \ {e}) /\ IsFiniteSet(h.antis \union {e})
    BY <1>2, FS_AddElement, FS_RemoveElement DEF FiniteChare
  <2>2. QED
    BY <1>2, <1>5, <2>1 DEF FiniteChare
<1>9. QED
  BY <1>1, <1>3, <1>4, <1>5, <1>6, <1>7, <1>8, OneChareChanges

\* The end of a block of executions, which processes the cancel queues.
LEMMA EndIterationPreserves ==
  ASSUME IInv, NEW p \in PE, end_iteration(p)
  PROVE  IInv'
<1> DEFINE n(c) == UndoneToCancel(chare[c])
           u(c) == IF Home[c] = p THEN process_cancel_q(chare[c], g_last_gvt[p]) ELSE chare[c]
<1>1. /\ chare' = [c \in Chare |-> u(c)]
      /\ net' = net \union UNION {Antis(chare[c], n(c)) : c \in ChareOn(p)}
      /\ batch' = [batch EXCEPT ![p] = 0] /\ UNCHANGED <<gvt, g_last_gvt, committed>>
  BY DEF end_iteration
<1>2. TypeOK /\ FinitelyMany /\ gvt \in Nat /\ g_last_gvt[p] \in Time
  BY DEF IInv, TypeOK, Time
<1>3. ASSUME NEW c \in Chare
      PROVE  /\ n(c) \in 0..Len(chare[c].processed)
             /\ IsFiniteSet(Restored(chare[c], n(c))) /\ IsFiniteSet(Antis(chare[c], n(c)))
             /\ \A x \in Restored(chare[c], n(c)) : x.ts >= gvt
             /\ \A x \in Antis(chare[c], n(c)) : x \in Message /\ x.event.ts >= gvt
  <2> DEFINE h == chare[c]
  <2>1. h \in LPChare /\ FiniteChare(h) /\ Ordered(h) /\ NotBefore(h, gvt)
    BY DEF IInv, TypeOK, FinitelyMany
  <2>2. /\ n(c) \in 0..Len(h.processed)
        /\ n(c) > 0 => h.processed[n(c)].event \in h.cancel_q
    BY <2>1, UndoneToCancelRange
  <2> HIDE DEF h, n
  <2>3. n(c) > 0 => h.processed[n(c)].event.ts >= gvt
    BY <2>1, <2>2 DEF NotBefore
  <2>4. \A x \in h.events : x.ts >= gvt
    BY <2>1 DEF NotBefore
  <2>5. /\ \A x \in Restored(h, n(c)) : x.ts >= gvt
        /\ \A x \in Antis(h, n(c)) : x \in Message /\ x.event.ts >= gvt
    BY <1>2, <2>1, <2>2, <2>3, <2>4, UndoingFrom
  <2>6. IsFiniteSet(Restored(h, n(c))) /\ IsFiniteSet(Antis(h, n(c)))
    BY <2>1, <2>2, UndoingIsFinite DEF FiniteChare
  <2>7. QED
    BY <2>2, <2>5, <2>6 DEF h
<1>4. ASSUME NEW c \in Chare
      PROVE  u(c) \in LPChare /\ Ordered(u(c)) /\ NotBefore(u(c), gvt) /\ FiniteChare(u(c))
  <2> DEFINE h == chare[c]
  <2>1. h \in LPChare /\ FiniteChare(h) /\ Ordered(h) /\ NotBefore(h, gvt)
    BY DEF IInv, TypeOK, FinitelyMany
  <2>2. CASE Home[c] # p
    BY <2>1, <2>2
  <2>3. CASE Home[c] = p
    <3> DEFINE v == process_cancel_q(h, g_last_gvt[p])
    <3>1. /\ RolledBack(h, n(c), v)
          /\ v.events = Restored(h, n(c)) \ h.cancel_q /\ v.cancel_q = {}
      BY <1>2, <2>1, ProcessCancelFields
    <3>2. u(c) = v
      BY <2>3
    <3>3. /\ IsFiniteSet(Restored(h, n(c)))
          /\ \A x \in Restored(h, n(c)) : x.ts >= gvt
      BY <1>3
    <3> HIDE DEF v, u, n, h
    <3>4. v \in LPChare
      BY <3>1 DEF RolledBack
    <3>5. Ordered(v)
      <4>1. v.events \subseteq Restored(h, n(c)) \union {}
        BY <3>1
      <4>2. \A x \in {} : \A i \in (n(c) + 1)..Len(h.processed) : h.processed[i].event.ts <= x.ts
        OBVIOUS
      <4>3. QED
        BY <2>1, <3>1, <4>1, <4>2, RolledBackOrdered
    <3>6. NotBefore(v, gvt)
      BY <3>1, <3>3 DEF NotBefore
    <3>7. FiniteChare(v)
      <4>1. IsFiniteSet(v.events)
        BY <3>1, <3>3, FS_Difference
      <4>2. QED
        BY <2>1, <3>1, <4>1, RolledBackFinite
    <3>8. QED
      BY <3>2, <3>4, <3>5, <3>6, <3>7
  <2>4. QED
    BY <2>2, <2>3
<1>5. net' \subseteq Message /\ \A m \in net' : m.event.ts >= gvt
  BY <1>1, <1>3 DEF IInv, TypeOK, ChareOn
<1>6. IsFiniteSet(net')
  <2> DEFINE f == [c \in ChareOn(p) |-> Antis(chare[c], n(c))]
  <2>1. IsFiniteSet(ChareOn(p))
    BY ChareAssumption, FS_Subset DEF ChareOn
  <2>2. IsFiniteSet({f[c] : c \in ChareOn(p)})
    <3>1. DOMAIN f = ChareOn(p)
      OBVIOUS
    <3> HIDE DEF f
    <3>2. QED
      BY <2>1, <3>1, FiniteImage
  <2>3. \A c \in ChareOn(p) : IsFiniteSet(f[c])
    <3> HIDE DEF n
    <3>1. QED
      BY <1>3 DEF ChareOn
  <2>4. {f[c] : c \in ChareOn(p)} = {Antis(chare[c], n(c)) : c \in ChareOn(p)}
    OBVIOUS
  <2>5. \A T \in {f[c] : c \in ChareOn(p)} : IsFiniteSet(T)
    BY <2>3
  <2> HIDE DEF f, n
  <2>6. IsFiniteSet(UNION {f[c] : c \in ChareOn(p)})
    BY <2>2, <2>5, FS_UNION
  <2>7. QED
    BY <1>1, <1>2, <2>4, <2>6, FS_Union DEF FinitelyMany
<1>7. TypeOK'
  <2> HIDE DEF u, n
  <2>1. batch' \in [PE -> 0..MBlock]
    BY <1>1, <1>2, MBlockAssumption DEF TypeOK
  <2>2. chare' \in [Chare -> LPChare]
    BY <1>1, <1>4
  <2>3. QED
    BY <1>1, <1>2, <1>5, <2>1, <2>2 DEF TypeOK
<1> HIDE DEF u, n
<1>8. FinitelyMany'
  BY <1>1, <1>4, <1>6 DEF FinitelyMany
<1>9. \A c \in Chare : Ordered(chare'[c]) /\ NotBefore(chare'[c], gvt)
  BY <1>1, <1>4
<1>10. QED
  BY <1>1, <1>5, <1>7, <1>8, <1>9 DEF IInv

\* A new GVT: some time up to everything pending, cancelled or in flight.
LEMMA ComputePreserves ==
  ASSUME IInv, compute_gvt
  PROVE  IInv'
<1>1. PICK g \in (gvt + 1)..Floor : gvt' = g
  BY DEF compute_gvt
<1>2. TypeOK /\ FinitelyMany /\ UNCHANGED <<chare, net, batch, g_last_gvt, committed>>
  BY DEF IInv, compute_gvt
<1>3. /\ Floor \in Time
      /\ \A c \in Chare : \A e \in chare[c].events \union chare[c].cancel_q : Floor <= e.ts
      /\ \A m \in net : Floor <= m.event.ts
  BY <1>2, FloorBounds
<1>4. gvt \in Nat /\ g \in Time /\ gvt <= g /\ g <= Floor
  BY <1>1, <1>2, <1>3, EndTimeAssumption DEF TypeOK, Time
<1>5. TypeOK' /\ FinitelyMany'
  BY <1>1, <1>2, <1>4 DEF TypeOK, FinitelyMany
<1>6. ASSUME NEW c \in Chare PROVE NotBefore(chare'[c], gvt')
  <2>1. \A e \in chare[c].events \union chare[c].cancel_q : e \in Event
    BY <1>2 DEF TypeOK, LPChare
  <2>2. \A e \in chare[c].events \union chare[c].cancel_q : e.ts \in Nat
    BY <2>1 DEF Event, EventTime
  <2>3. QED
    BY <1>1, <1>2, <1>3, <1>4, <2>2 DEF NotBefore, Time
<1>7. ASSUME NEW m \in net PROVE m.event.ts >= gvt'
  <2>1. m.event.ts \in Nat
    BY <1>2 DEF TypeOK, Message, Event, EventTime
  <2>2. QED
    BY <1>1, <1>3, <1>4, <2>1 DEF Time
<1>8. \A p \in PE : g_last_gvt[p] <= g
  BY <1>2, <1>4 DEF IInv, TypeOK, Time
<1>9. QED
  BY <1>1, <1>2, <1>5, <1>6, <1>7, <1>8 DEF IInv

\* fossil_me: the entries before g are the last ones of the queue, and only
\* they go.
LEMMA FossilFields ==
  ASSUME NEW h \in LPChare, NEW g \in Time
  PROVE  LET u == fossil_me(h, g) IN
         /\ u \in LPChare
         /\ u.events = h.events /\ u.cancel_q = h.cancel_q /\ u.antis = h.antis
         /\ u.current_time = h.current_time
         /\ IsFiniteSet(Fossils(h, g))
         /\ Len(u.processed) <= Len(h.processed)
         /\ \A i \in 1..Len(u.processed) : u.processed[i] = h.processed[i]
         /\ \A i \in (Len(u.processed) + 1)..Len(h.processed) : h.processed[i].event.ts < g
<1> DEFINE L == Len(h.processed)
           F == Fossils(h, g)
           k == IF F = {} THEN L ELSE Min(F) - 1
           u == fossil_me(h, g)
<1>1. L \in Nat /\ DOMAIN h.processed = 1..L /\ \A i \in 1..L : h.processed[i] \in Entry
  BY ProcessedQueue
<1>2. F = {i \in 1..L : \A j \in i..L : h.processed[j].event.ts < g}
  BY <1>1 DEF Fossils
<1>3. F \in SUBSET Nat /\ IsFiniteSet(1..L) /\ F \in SUBSET (1..L)
  BY <1>1, <1>2, FS_Interval
<1>4. IsFiniteSet(F)
  BY <1>3, FS_Subset
<1>5. k \in 0..L /\ F = (k + 1)..L
  <2>1. CASE F = {}
    BY <1>1, <2>1
  <2>2. CASE F # {}
    <3> HIDE DEF F
    <3>1. Min(F) \in F /\ \A x \in F : Min(F) <= x
      BY <1>3, <2>2, MinIsLeast
    <3>2. k = Min(F) - 1 /\ Min(F) \in 1..L
      BY <1>3, <2>2, <3>1
    <3>3. \A i \in Min(F)..L : i \in F
      BY <1>2, <3>1, <3>2
    <3>4. \A i \in F : i \in Min(F)..L
      BY <1>3, <3>1, <3>2
    <3> HIDE DEF k
    <3>5. F = Min(F)..L
      BY <3>3, <3>4
    <3>6. k + 1 = Min(F) /\ k \in 0..L
      BY <3>2
    <3>7. QED
      BY <3>5, <3>6
  <2>3. QED
    BY <2>1, <2>2
<1> HIDE DEF F, k
<1>6. Cardinality(F) = L - k
  <2>1. Cardinality((k + 1)..L) = IF k + 1 > L THEN 0 ELSE L - (k + 1) + 1
    <3>1. k + 1 \in Int /\ L \in Int
      BY <1>1, <1>5
    <3>2. QED
      BY <3>1, FS_Interval
  <2>2. QED
    BY <1>1, <1>5, <2>1
<1> DEFINE rest == SubSeq(h.processed, 1, k)
<1>7. u = [h EXCEPT !.processed = rest]
  <2>1. L - Cardinality(F) = k
    BY <1>1, <1>5, <1>6
  <2>2. QED
    BY <2>1 DEF fossil_me, F
<1>8. rest \in Seq(Entry) /\ Len(rest) = k /\ \A i \in 1..k : rest[i] = h.processed[i]
  <2>1. /\ SubSeq(h.processed, 1, k) \in Seq(Entry)
        /\ Len(SubSeq(h.processed, 1, k)) = IF 1 <= k THEN k - 1 + 1 ELSE 0
        /\ \A i \in 1..(k - 1 + 1) : SubSeq(h.processed, 1, k)[i] = h.processed[1 + i - 1]
    <3>1. \A i \in 1..k : h.processed[i] \in Entry
      BY <1>1, <1>5
    <3>2. k \in Int /\ 1 \in Int
      BY <1>5
    <3>3. QED
      BY <3>1, <3>2, SubSeqProperties
  <2>2. (IF 1 <= k THEN k - 1 + 1 ELSE 0) = k /\ k - 1 + 1 = k /\ \A i \in 1..k : 1 + i - 1 = i
    BY <1>5
  <2>3. QED
    BY <2>1, <2>2
<1> HIDE DEF rest, u
<1>9. /\ u \in LPChare /\ u.processed = rest
      /\ u.events = h.events /\ u.cancel_q = h.cancel_q /\ u.antis = h.antis
      /\ u.current_time = h.current_time
  BY <1>7, <1>8 DEF LPChare
<1>10. \A i \in (k + 1)..L : h.processed[i].event.ts < g
  <2> TAKE i \in (k + 1)..L
  <2>1. i \in F /\ i \in i..L
    BY <1>1, <1>5
  <2>2. QED
    BY <1>2, <2>1
<1>11. QED
  BY <1>1, <1>4, <1>5, <1>8, <1>9, <1>10 DEF u, F

\* A PE is told the GVT and collects its fossils.
LEMMA GvtDonePreserves ==
  ASSUME IInv, NEW p \in PE, gvt_done(p)
  PROVE  IInv'
<1> DEFINE u(c) == IF Home[c] = p THEN fossil_me(chare[c], gvt) ELSE chare[c]
           here(c, t) == IF Home[c] = p
             THEN Cardinality({i \in Fossils(chare[c], gvt) : chare[c].processed[i].event.ts = t})
             ELSE 0
<1>1. /\ chare' = [c \in Chare |-> u(c)]
      /\ committed' = [c \in Chare |-> [t \in EventTime |-> committed[c][t] + here(c, t)]]
      /\ g_last_gvt' = [g_last_gvt EXCEPT ![p] = gvt]
      /\ UNCHANGED <<net, batch, gvt>>
  BY DEF gvt_done
<1>2. TypeOK /\ FinitelyMany /\ gvt \in Time
  BY DEF IInv, TypeOK
<1>3. ASSUME NEW c \in Chare
      PROVE  u(c) \in LPChare /\ Ordered(u(c)) /\ NotBefore(u(c), gvt) /\ FiniteChare(u(c))
  <2> DEFINE h == chare[c]
  <2>1. h \in LPChare /\ FiniteChare(h) /\ Ordered(h) /\ NotBefore(h, gvt)
    BY DEF IInv, TypeOK, FinitelyMany
  <2>2. CASE Home[c] # p
    BY <2>1, <2>2
  <2>3. CASE Home[c] = p
    <3> DEFINE v == fossil_me(h, gvt)
    <3>1. u(c) = v
      BY <2>3
    <3>2. /\ v \in LPChare
          /\ v.events = h.events /\ v.cancel_q = h.cancel_q /\ v.antis = h.antis
          /\ v.current_time = h.current_time
          /\ Len(v.processed) <= Len(h.processed)
          /\ \A i \in 1..Len(v.processed) : v.processed[i] = h.processed[i]
      BY <1>2, <2>1, FossilFields
    <3> HIDE DEF u, v, h
    <3>3. /\ Len(h.processed) \in Nat /\ DOMAIN h.processed = 1..Len(h.processed)
          /\ Len(v.processed) \in Nat /\ DOMAIN v.processed = 1..Len(v.processed)
          /\ v.processed \in Seq(Entry) /\ h.processed \in Seq(Entry)
      BY <2>1, <3>2, ProcessedQueue
    <3>4. \A i \in DOMAIN v.processed : i \in DOMAIN h.processed /\ v.processed[i] = h.processed[i]
      BY <3>2, <3>3
    <3>5. Current(v)
      <4>1. ASSUME v.processed # << >> PROVE v.current_time = v.processed[1].event.ts
        <5>1. 1 \in DOMAIN v.processed
          BY <3>3, <4>1, EmptySeq
        <5>2. h.processed # << >>
          BY <3>3, <3>4, <5>1, EmptySeq
        <5>3. QED
          BY <2>1, <3>2, <3>4, <5>1, <5>2 DEF Ordered, Current
      <4>2. QED
        BY <4>1 DEF Current
    <3>6. Ordered(v)
      BY <2>1, <3>2, <3>4, <3>5 DEF Ordered
    <3>7. NotBefore(v, gvt) /\ FiniteChare(v)
      BY <2>1, <3>2, <3>4 DEF NotBefore, FiniteChare
    <3>8. QED
      BY <3>1, <3>2, <3>6, <3>7
  <2>4. QED
    BY <2>2, <2>3
<1>4. committed' \in [Chare -> [EventTime -> Nat]]
  <2>1. ASSUME NEW c \in Chare, NEW t \in EventTime PROVE here(c, t) \in Nat
    <3>1. IsFiniteSet(Fossils(chare[c], gvt))
      BY <1>2, FossilFields DEF TypeOK
    <3>2. IsFiniteSet({i \in Fossils(chare[c], gvt) : chare[c].processed[i].event.ts = t})
      BY <3>1, FS_Subset
    <3>3. QED
      BY <3>2, FS_CardinalityType
  <2> HIDE DEF here, u
  <2>2. \A c \in Chare, t \in EventTime : committed[c][t] + here(c, t) \in Nat
    BY <1>2, <2>1 DEF TypeOK
  <2>3. QED
    BY <1>1, <2>2
<1> HIDE DEF u, here
<1>5. TypeOK'
  BY <1>1, <1>2, <1>3, <1>4 DEF TypeOK
<1>6. FinitelyMany'
  BY <1>1, <1>2, <1>3 DEF FinitelyMany
<1>7. \A c \in Chare : Ordered(chare'[c]) /\ NotBefore(chare'[c], gvt)
  BY <1>1, <1>3
<1>8. \A q \in PE : g_last_gvt'[q] <= gvt
  BY <1>1, <1>2 DEF IInv, TypeOK, Time
<1>9. QED
  BY <1>1, <1>5, <1>6, <1>7, <1>8 DEF IInv

\* The initial state, where each chare has its initial events.
LEMMA InitIInv ==
  ASSUME Init
  PROVE  IInv
<1> DEFINE start(c) == {[src |-> c, dest |-> c, ts |-> t, id |-> 0] : t \in Initial(c)}
           h(c) == [events |-> start(c),
                    processed |-> << >>, cancel_q |-> {}, antis |-> {}, token |-> EndTime,
                    state |-> 0, current_time |-> 0]
           u(c) == update_next(h(c))
<1>1. chare = [c \in Chare |-> u(c)]
  BY DEF Init
<1>2. ASSUME NEW c \in Chare
      PROVE  /\ u(c) \in LPChare /\ FiniteChare(u(c)) /\ Ordered(u(c)) /\ NotBefore(u(c), 0)
  <2>1. Initial(c) \subseteq EventTime /\ 0 \in Nat
    BY InitialAssumption
  <2>2. start(c) \in SUBSET Event
    BY <2>1 DEF Event
  <2>3. IsFiniteSet(start(c))
    <3> DEFINE f == [t \in Initial(c) |-> [src |-> c, dest |-> c, ts |-> t, id |-> 0]]
    <3>1. IsFiniteSet(EventTime)
      BY EndTimeAssumption, FS_Interval DEF EventTime
    <3>2. IsFiniteSet(Initial(c))
      BY <2>1, <3>1, FS_Subset
    <3>3. IsFiniteSet({f[t] : t \in Initial(c)})
      <4>1. DOMAIN f = Initial(c)
        OBVIOUS
      <4> HIDE DEF f
      <4>2. QED
        BY <3>2, <4>1, FiniteImage
    <3>4. {f[t] : t \in Initial(c)} = start(c)
      OBVIOUS
    <3>5. QED
      BY <3>3, <3>4
  <2> HIDE DEF start
  <2>4. h(c) \in LPChare
    <3>1. << >> \in Seq(Entry)
      BY EmptySeq
    <3>2. 0 \in Time /\ EndTime \in Time /\ 0 \in LPState
      BY EndTimeAssumption, PhasesAssumption DEF Time, LPState
    <3>3. QED
      BY <2>2, <3>1, <3>2 DEF LPChare
  <2>5. /\ u(c) \in LPChare /\ u(c).events = h(c).events /\ u(c).processed = h(c).processed
        /\ u(c).cancel_q = h(c).cancel_q /\ u(c).antis = h(c).antis
    BY <2>4, UpdateNextFields
  <2>6. h(c).events = start(c) /\ h(c).processed = << >> /\ h(c).cancel_q = {} /\ h(c).antis = {}
    OBVIOUS
  <2> HIDE DEF h, u
  <2>7. DOMAIN u(c).processed = {}
    <3>1. Len(<< >>) = 0
      BY EmptySeq
    <3>2. DOMAIN u(c).processed = 1..0
      BY <2>5, <2>6, <3>1, ProcessedQueue
    <3>3. QED
      BY <3>2
  <2>8. FiniteChare(u(c))
    BY <2>3, <2>5, <2>6, <2>7, FS_EmptySet DEF FiniteChare
  <2>9. Ordered(u(c))
    BY <2>5, <2>6, <2>7 DEF Ordered, Current
  <2>10. NotBefore(u(c), 0)
    <3>1. \A e \in start(c) : e.ts \in Nat
      BY <2>2 DEF Event, EventTime
    <3>2. QED
      BY <2>5, <2>6, <3>1 DEF NotBefore
  <2>11. QED
    BY <2>5, <2>8, <2>9, <2>10
<1> HIDE DEF u
<1>3. 0 \in Time /\ 0 \in 0..MBlock
  BY EndTimeAssumption, MBlockAssumption DEF Time
<1>4. TypeOK
  BY <1>1, <1>2, <1>3 DEF TypeOK, Init
<1>5. FinitelyMany
  BY <1>1, <1>2, FS_EmptySet DEF FinitelyMany, Init
<1>6. gvt = 0 /\ net = {} /\ \A p \in PE : g_last_gvt[p] <= gvt
  BY DEF Init
<1>7. \A c \in Chare : Ordered(chare[c]) /\ NotBefore(chare[c], gvt)
  BY <1>1, <1>2, <1>6
<1>8. QED
  BY <1>4, <1>5, <1>6, <1>7 DEF IInv

\* Every step keeps the invariant, action by action.
LEMMA NextPreserves ==
  ASSUME IInv, [Next]_vars
  PROVE  IInv'
<1>1. ASSUME UNCHANGED vars PROVE IInv'
  BY <1>1 DEF vars, IInv, TypeOK, FinitelyMany
<1>2. ASSUME Next PROVE IInv'
  BY <1>1, <1>2, SchedulePreserves, EndIterationPreserves, GvtDonePreserves, RecvEventPreserves,
     RecvAntiPreserves, ComputePreserves DEF Next, over
<1>3. QED
  BY <1>1, <1>2

\* The engine's state stays in order whatever messages are late, undone or
\* cancelled.
THEOREM Invariance == Spec => []IInv
<1>1. Init => IInv
  BY InitIInv
<1>2. IInv /\ [Next]_vars => IInv'
  BY NextPreserves
<1>3. QED
  BY <1>1, <1>2, PTL DEF Spec

\* Whatever the model, the mapping of chares to PEs and the size of a block:
\* what a GVT has passed is never pending or cancelled again, and processed
\* queues are in the order that rollback_me and fossil_me rely on.
THEOREM NothingCancelled == Spec => []NothingCancelledCommits
<1>1. IInv => NothingCancelledCommits
  <2> SUFFICES ASSUME IInv, NEW c \in Chare, NEW e \in chare[c].cancel_q \union chare[c].events
               PROVE  e.ts >= g_last_gvt[Home[c]]
    BY DEF IInv, Ordered, NothingCancelledCommits
  <2>1. e \in Event
    BY DEF IInv, TypeOK, LPChare
  <2>2. e.ts \in Nat /\ g_last_gvt[Home[c]] \in Nat /\ gvt \in Nat
    BY <2>1, HomeAssumption DEF IInv, TypeOK, Time, Event, EventTime
  <2>3. e.ts >= gvt /\ g_last_gvt[Home[c]] <= gvt
    BY HomeAssumption DEF IInv, NotBefore
  <2>4. QED
    BY <2>2, <2>3
<1>2. QED
  BY <1>1, Invariance, PTL

-----------------------------------------------------------------------------
(***************************************************************************)
(* The optimistic engine keeps the schedulers' half of the contract of     *)
(* VirtualTime: executing, rolling back and cancelling never make a PE     *)
(* earlier, and never send a message earlier, than the work it has or the  *)
(* message it was just given.                                              *)
(*                                                                         *)
(* A step of the engine maps to Work, Receive or Commit of VirtualTime, or *)
(* to no step at all.  The invariant IInv is what makes this               *)
(* true: a rollback may restore and cancel only what is no earlier than    *)
(* its cause because a processed queue goes back in time and what an event *)
(* caused is later than the event.                                         *)
(***************************************************************************)

\* The refinement mapping, named: VT's low and net.
Lows == [p \in PE |-> Low(p)]

Bound(p, t) == {m \in net : Home[m.event.dest] = p /\ m.event.ts = t}

InFlight == [p \in PE |-> [t \in EventTime |-> Cardinality(Bound(p, t))]]

\* What p has to execute or to cancel.
Work(p) == UNION {chare[c].events \union chare[c].cancel_q : c \in ChareOn(p)}

\* Low(p) is the time of the earliest of it.
LeastLows ==
  /\ Lows \in [PE -> Time]
  /\ \A p \in PE : Lows[p] = Low(p) /\ Low(p) \in Nat
  /\ \A c \in Chare : \A e \in chare[c].events \union chare[c].cancel_q : Low(Home[c]) <= e.ts
  /\ \A p \in PE, f \in Time :
       (\A c \in ChareOn(p) : \A e \in chare[c].events \union chare[c].cancel_q : e.ts >= f)
       => Low(p) >= f

\* What get_min_time stands for in the contract is a minimum.
LEMMA LowIsLeast == TypeOK => LeastLows
<1> SUFFICES ASSUME TypeOK PROVE LeastLows
  OBVIOUS
<1>1. \A c \in Chare : chare[c].events \union chare[c].cancel_q \in SUBSET Event
  BY DEF TypeOK, LPChare
<1>2. \A p \in PE : Work(p) \in SUBSET Event
  BY <1>1 DEF ChareOn, Work
<1>3. \A p \in PE : Low(p) = MinTime(Work(p))
  BY DEF Low, Work
<1>4. \A p \in PE : /\ Low(p) \in Time
                    /\ \A e \in Work(p) : Low(p) <= e.ts
                    /\ Work(p) # {} => \E e \in Work(p) : Low(p) = e.ts
  BY <1>2, <1>3, MinTimeIsLeast
<1>5. \A c \in Chare : \A e \in chare[c].events \union chare[c].cancel_q :
        Home[c] \in PE /\ e \in Work(Home[c])
  BY HomeAssumption DEF Work, ChareOn
<1>6. ASSUME NEW p \in PE, NEW f \in Time,
             \A c \in ChareOn(p) : \A e \in chare[c].events \union chare[c].cancel_q : e.ts >= f
      PROVE  Low(p) >= f
  <2>1. \A e \in Work(p) : e.ts >= f
    BY <1>6 DEF Work
  <2>2. CASE Work(p) = {}
    <3>1. Low(p) = EndTime
      BY <1>3, <2>2 DEF MinTime
    <3>2. QED
      BY <3>1, EndTimeAssumption DEF Time
  <2>3. CASE Work(p) # {}
    BY <1>4, <2>1, <2>3
  <2>4. QED
    BY <2>2, <2>3
<1>7. Lows \in [PE -> Time] /\ \A p \in PE : Lows[p] = Low(p) /\ Low(p) \in Nat
  BY <1>4, EndTimeAssumption DEF Lows, Time
<1>8. QED
  BY <1>4, <1>5, <1>6, <1>7 DEF LeastLows

\* The messages for a PE at a time are finitely many, and counted.
Counted ==
  /\ InFlight \in Flights
  /\ \A p \in PE, t \in EventTime :
       /\ IsFiniteSet(Bound(p, t))
       /\ InFlight[p][t] = Cardinality(Bound(p, t))
       /\ InFlight[p][t] \in Nat
       /\ InFlight[p][t] > 0 <=> Bound(p, t) # {}

\* What is in flight has a count, which is what VirtualTime's net holds.
LEMMA InFlightType == FinitelyMany => Counted
<1> SUFFICES ASSUME FinitelyMany PROVE Counted
  OBVIOUS
<1>1. ASSUME NEW p \in PE, NEW t \in EventTime
      PROVE  /\ IsFiniteSet(Bound(p, t)) /\ Cardinality(Bound(p, t)) \in Nat
             /\ Cardinality(Bound(p, t)) > 0 <=> Bound(p, t) # {}
  <2>1. IsFiniteSet(Bound(p, t))
    BY FS_Subset DEF Bound, FinitelyMany
  <2>2. Cardinality(Bound(p, t)) \in Nat
    BY <2>1, FS_CardinalityType
  <2>3. Cardinality(Bound(p, t)) = 0 <=> Bound(p, t) = {}
    BY <2>1, FS_EmptySet
  <2>4. QED
    BY <2>1, <2>2, <2>3
<1>2. \A p \in PE, t \in EventTime : InFlight[p][t] = Cardinality(Bound(p, t))
  BY DEF InFlight
<1>3. InFlight \in Flights
  BY <1>1 DEF InFlight, Flights
<1>4. QED
  BY <1>1, <1>2, <1>3 DEF Counted

\* Messages that are delivered leave the count, those that are sent join it:
\* when these are at or after f the step is a SendsFrom(f) of VirtualTime.
LEMMA SentFrom ==
  ASSUME IsFiniteSet(net), IsFiniteSet(net'), NEW gone \in SUBSET net, NEW f \in Nat,
         net \ gone \subseteq net',
         \A m \in net' : m \in net \ gone \/ m.event.ts >= f
  PROVE  \A q \in PE, t \in EventTime :
           LET before == Cardinality({m \in net \ gone : Home[m.event.dest] = q /\ m.event.ts = t})
           IN  /\ InFlight'[q][t] >= before
               /\ InFlight'[q][t] > before => t >= f
<1> SUFFICES ASSUME NEW q \in PE, NEW t \in EventTime
             PROVE  LET before == Cardinality({m \in net \ gone : Home[m.event.dest] = q /\ m.event.ts = t})
                    IN  /\ InFlight'[q][t] >= before
                        /\ InFlight'[q][t] > before => t >= f
  OBVIOUS
<1> DEFINE B == {m \in net \ gone : Home[m.event.dest] = q /\ m.event.ts = t}
           A == {m \in net' : Home[m.event.dest] = q /\ m.event.ts = t}
<1>1. IsFiniteSet(A) /\ B \in SUBSET A
  BY FS_Subset
<1>2. IsFiniteSet(B) /\ Cardinality(B) <= Cardinality(A)
  BY <1>1, FS_Subset
<1>3. Cardinality(A) \in Nat /\ Cardinality(B) \in Nat
  BY <1>1, <1>2, FS_CardinalityType
<1>4. InFlight'[q][t] = Cardinality(A)
  BY DEF InFlight, Bound
<1>5. ASSUME Cardinality(A) > Cardinality(B) PROVE t >= f
  <2> HIDE DEF A, B
  <2>1. A # B
    BY <1>3, <1>5
  <2> USE DEF A, B
  <2>2. PICK m \in A : m \notin B
    BY <1>1, <2>1
  <2>3. QED
    BY <2>2
<1>6. QED
  BY <1>2, <1>3, <1>4, <1>5

-----------------------------------------------------------------------------
(***************************************************************************)
(* Each step of the engine is a step of VirtualTime, or none.              *)
(***************************************************************************)

\* Low looks only at what p's own chares have pending or cancelled.
LEMMA LowUnchanged ==
  ASSUME NEW p \in PE,
         \A c \in Chare : Home[c] = p =>
           chare'[c].events = chare[c].events /\ chare'[c].cancel_q = chare[c].cancel_q
  PROVE  Low(p)' = Low(p)
<1>1. \A c \in ChareOn(p) :
        chare'[c].events \union chare'[c].cancel_q = chare[c].events \union chare[c].cancel_q
  BY DEF ChareOn
<1>2. UNION {chare'[c].events \union chare'[c].cancel_q : c \in ChareOn(p)}
      = UNION {chare[c].events \union chare[c].cancel_q : c \in ChareOn(p)}
  BY <1>1
<1>3. QED
  BY <1>2 DEF Low, MinTime, ChareOn

\* VirtualTime's MinimumFrom(p, f): p's minimum is at or after f, the others'
\* stay.
LEMMA MinimumStaysFrom ==
  ASSUME TypeOK, TypeOK', NEW p \in PE, NEW f \in Time,
         \A c \in Chare : Home[c] # p =>
           chare'[c].events = chare[c].events /\ chare'[c].cancel_q = chare[c].cancel_q,
         \A c \in Chare : Home[c] = p =>
           \A e \in chare'[c].events \union chare'[c].cancel_q : e.ts >= f
  PROVE  VT!MinimumFrom(p, f)
<1>1. LeastLows'
  BY LowIsLeast, PTL
<1>2. \A q \in PE : Lows[q] = Low(q) /\ Lows'[q] = Low(q)'
  BY DEF Lows
<1>3. Lows'[p] >= f /\ Lows' \in [PE -> Time]
  BY <1>1, <1>2 DEF LeastLows, ChareOn
<1>4. \A q \in PE \ {p} : Lows'[q] = Lows[q]
  BY <1>2, LowUnchanged
<1>5. QED
  BY <1>3, <1>4 DEF VT!MinimumFrom, VT!Time, Time, Lows

\* VirtualTime's SendsFrom(f, net), when nothing is delivered.
LEMMA SendsStayFrom ==
  ASSUME FinitelyMany, FinitelyMany', NEW f \in Nat, net \subseteq net',
         \A m \in net' : m \in net \/ m.event.ts >= f
  PROVE  VT!SendsFrom(f, InFlight)
<1>1. InFlight' \in Flights
  <2>1. Counted'
    BY InFlightType, PTL
  <2>2. QED
    BY <2>1 DEF Counted
<1>2. \A q \in PE, t \in EventTime :
        LET before == Cardinality({m \in net \ {} : Home[m.event.dest] = q /\ m.event.ts = t})
        IN  /\ InFlight'[q][t] >= before
            /\ InFlight'[q][t] > before => t >= f
  BY SentFrom DEF FinitelyMany
<1>3. \A q \in PE, t \in EventTime :
        /\ InFlight'[q][t] >= InFlight[q][t]
        /\ InFlight'[q][t] > InFlight[q][t] => t >= f
  BY <1>2 DEF InFlight, Bound
<1>4. QED
  BY <1>1, <1>3 DEF VT!SendsFrom, VT!Flights, VT!EventTime, Flights, EventTime, InFlight, Bound

\* VirtualTime's SendsFrom(f, Take(net, p, t)), when a message for p is.
LEMMA SendsAfterDelivery ==
  ASSUME FinitelyMany, FinitelyMany', NEW f \in Nat, NEW m \in net,
         Home[m.event.dest] \in PE, m.event.ts \in EventTime, net \ {m} \subseteq net',
         \A x \in net' : x \in net \ {m} \/ x.event.ts >= f
  PROVE  LET p == Home[m.event.dest]
             t == m.event.ts
         IN  /\ InFlight[p][t] > 0
             /\ VT!SendsFrom(f, VT!Take(InFlight, p, t))
<1> DEFINE p == Home[m.event.dest]
           t == m.event.ts
           Left(q, u) == {x \in net \ {m} : Home[x.event.dest] = q /\ x.event.ts = u}
           before == Take(InFlight, p, t)
<1>1. InFlight' \in Flights
  <2>1. Counted'
    BY InFlightType, PTL
  <2>2. QED
    BY <2>1 DEF Counted
<1>2. m \in Bound(p, t) /\ InFlight[p][t] > 0 /\ InFlight \in Flights
  BY InFlightType DEF Bound, Counted
<1>3. before \in Flights
      /\ \A q \in PE, u \in EventTime :
           before[q][u] = IF q = p /\ u = t THEN InFlight[q][u] - 1 ELSE InFlight[q][u]
  BY <1>2, TakeType
<1>4. ASSUME NEW q \in PE, NEW u \in EventTime PROVE before[q][u] = Cardinality(Left(q, u))
  <2>1. IsFiniteSet(Bound(q, u)) /\ InFlight[q][u] = Cardinality(Bound(q, u))
    BY InFlightType DEF Counted
  <2>2. Left(q, u) = Bound(q, u) \ {m}
    BY DEF Bound
  <2>3. Cardinality(Bound(q, u) \ {m})
        = IF m \in Bound(q, u) THEN Cardinality(Bound(q, u)) - 1 ELSE Cardinality(Bound(q, u))
    BY <2>1, FS_RemoveElement
  <2>4. m \in Bound(q, u) <=> q = p /\ u = t
    BY DEF Bound
  <2> HIDE DEF Left, before, p, t
  <2>5. QED
    BY <1>3, <2>1, <2>2, <2>3, <2>4
<1>5. \A q \in PE, u \in EventTime :
        /\ InFlight'[q][u] >= Cardinality(Left(q, u))
        /\ InFlight'[q][u] > Cardinality(Left(q, u)) => u >= f
  BY SentFrom DEF FinitelyMany
<1> HIDE DEF Left
<1>6. \A q \in PE, u \in EventTime :
        /\ InFlight'[q][u] >= before[q][u]
        /\ InFlight'[q][u] > before[q][u] => u >= f
  BY <1>4, <1>5
<1>7. VT!Take(InFlight, p, t) = before
  BY DEF VT!Take, Take
<1> HIDE DEF before
<1>8. VT!SendsFrom(f, before)
  BY <1>1, <1>6 DEF VT!SendsFrom, VT!Flights, VT!EventTime, Flights, EventTime, InFlight, Bound
<1>9. QED
  BY <1>2, <1>7, <1>8

\* Executing an event: nothing is earlier than it was.
LEMMA ScheduleIsWork ==
  ASSUME IInv, IInv', NEW p \in PE, schedule_next_lp(p)
  PROVE  VT!Work(p)
<1>1. PICK c \in Chare : Home[c] = p /\ execute_me(c)
  BY DEF schedule_next_lp, Top, ChareOn
<1> DEFINE h == chare[c]
           f == Low(p)
<1>2. /\ TypeOK /\ TypeOK' /\ FinitelyMany /\ FinitelyMany' /\ LeastLows
      /\ h.events \in SUBSET Event /\ Lows \in [PE -> Time] /\ Lows[p] = f
      /\ f \in Time /\ f \in Nat
  BY LowIsLeast DEF IInv, TypeOK, LPChare, LeastLows
<1>3. PICK e \in h.events, sent \in SUBSET Event, u \in LPChare :
        /\ \A k \in sent : k.ts > e.ts
        /\ chare' = [chare EXCEPT ![c] = u]
        /\ Executed(h, e, sent, u)
        /\ net' = net \union {Positive(k) : k \in {k \in sent : Remote(k)}}
  BY <1>1, <1>2, ExecuteFields
<1>4. \A x \in h.events \union h.cancel_q : x.ts >= f
  BY <1>1, <1>2 DEF LeastLows
<1>5. \A k \in sent : k.ts >= f
  <2>1. e.ts \in Nat /\ \A k \in sent : k.ts \in Nat
    BY <1>2 DEF Event, EventTime
  <2>2. QED
    BY <1>2, <1>3, <1>4, <2>1
<1>6. VT!MinimumFrom(p, f)
  <2>1. \A d \in Chare : chare'[d] = IF d = c THEN u ELSE chare[d]
    BY <1>2, <1>3 DEF TypeOK
  <2>2. \A x \in u.events \union u.cancel_q : x.ts >= f
    BY <1>3, <1>4, <1>5 DEF Executed
  <2>3. \A d \in Chare : Home[d] = p =>
          \A x \in chare'[d].events \union chare'[d].cancel_q : x.ts >= f
    BY <1>2, <2>1, <2>2 DEF LeastLows
  <2> HIDE DEF f
  <2>4. QED
    BY <1>1, <1>2, <2>1, <2>3, MinimumStaysFrom
<1>7. VT!SendsFrom(f, InFlight)
  <2>1. \A k \in sent : Positive(k).event = k
    BY DEF Positive
  <2>2. net \subseteq net' /\ \A m \in net' : m \in net \/ m.event.ts >= f
    BY <1>3, <1>5, <2>1
  <2> HIDE DEF f
  <2>3. QED
    BY <1>2, <2>2, SendsStayFrom
<1>8. UNCHANGED g_last_gvt
  BY DEF schedule_next_lp
<1>9. QED
  BY <1>2, <1>6, <1>7, <1>8 DEF VT!Work, Lows, InFlight, Bound

\* The cancel queue of a PE's chares: the rollbacks go back to a cancelled
\* event, which was unfinished work of the PE already.
LEMMA EndIterationIsWork ==
  ASSUME IInv, IInv', NEW p \in PE, end_iteration(p)
  PROVE  VT!Work(p)
<1> DEFINE n(c) == UndoneToCancel(chare[c])
           u(c) == process_cancel_q(chare[c], g_last_gvt[p])
           f == Low(p)
<1>1. /\ chare' = [c \in Chare |-> IF Home[c] = p THEN u(c) ELSE chare[c]]
      /\ net' = net \union UNION {Antis(chare[c], n(c)) : c \in ChareOn(p)}
      /\ UNCHANGED g_last_gvt
  BY DEF end_iteration
<1>2. /\ TypeOK /\ TypeOK' /\ FinitelyMany /\ FinitelyMany' /\ LeastLows
      /\ Lows \in [PE -> Time] /\ Lows[p] = f /\ g_last_gvt[p] \in Time
      /\ f \in Time /\ f \in Nat
  BY LowIsLeast DEF IInv, TypeOK, LeastLows
<1>3. ASSUME NEW c \in Chare, Home[c] = p
      PROVE  /\ \A x \in u(c).events \union u(c).cancel_q : x.ts >= f
             /\ \A m \in Antis(chare[c], n(c)) : m.event.ts >= f
  <2> DEFINE h == chare[c]
  <2>1. h \in LPChare /\ Ordered(h) /\ \A x \in h.events \union h.cancel_q : x.ts >= f
    BY <1>2, <1>3 DEF IInv, TypeOK, LeastLows
  <2>2. n(c) \in 0..Len(h.processed) /\ (n(c) > 0 => h.processed[n(c)].event \in h.cancel_q)
    BY <2>1, UndoneToCancelRange
  <2>3. u(c).events = Restored(h, n(c)) \ h.cancel_q /\ u(c).cancel_q = {}
    BY <1>2, <2>1, ProcessCancelFields
  <2> HIDE DEF h, n, u, f
  <2>4. /\ \A x \in Restored(h, n(c)) : x.ts >= f
        /\ \A m \in Antis(h, n(c)) : m.event.ts >= f
    BY <1>2, <2>1, <2>2, UndoingFrom
  <2>5. QED
    BY <2>3, <2>4 DEF h
<1> HIDE DEF n, u, f
<1>4. VT!MinimumFrom(p, f)
  BY <1>1, <1>2, <1>3, MinimumStaysFrom
<1>5. VT!SendsFrom(f, InFlight)
  <2>1. net \subseteq net' /\ \A m \in net' : m \in net \/ m.event.ts >= f
    BY <1>1, <1>3 DEF ChareOn
  <2>2. QED
    BY <1>2, <2>1, SendsStayFrom
<1>6. QED
  BY <1>1, <1>2, <1>4, <1>5 DEF VT!Work, Lows, InFlight, Bound

\* What a delivery may bring down to: the earlier of the PE's work and the
\* message.
LEMMA EarlierIsFloor ==
  ASSUME NEW a \in Time, NEW b \in EventTime
  PROVE  /\ Earlier(a, b) \in Time /\ Earlier(a, b) \in Nat
         /\ Earlier(a, b) <= a /\ Earlier(a, b) <= b
BY EndTimeAssumption DEF Earlier, Time, EventTime

\* An event arrives: a rollback restores and cancels only what is no earlier
\* than the event.
LEMMA RecvEventIsReceive ==
  ASSUME IInv, IInv', NEW m \in net, recv_remote_event(m.event.dest, m.event)
  PROVE  VT!Receive(Home[m.event.dest], m.event.ts)
<1> DEFINE e == m.event
           c == e.dest
           h == chare[c]
           p == Home[c]
           n == UndoneSince(h, e.ts)
           f == Earlier(Low(p), e.ts)
<1>1. /\ TypeOK /\ TypeOK' /\ FinitelyMany /\ FinitelyMany' /\ LeastLows
      /\ e \in Event /\ c \in Chare /\ p \in PE /\ e.ts \in EventTime
      /\ h \in LPChare /\ Ordered(h) /\ Current(h)
      /\ Lows[p] = Low(p) /\ Low(p) \in Time /\ Low(p) \in Nat
  BY LowIsLeast, HomeAssumption DEF IInv, TypeOK, Message, Event, LeastLows, Ordered
<1>2. f \in Time /\ f \in Nat /\ f <= Low(p) /\ f <= e.ts /\ e.ts \in Nat
  BY <1>1, EarlierIsFloor DEF EventTime
<1>3. \A d \in Chare : Home[d] = p => \A x \in chare[d].events \union chare[d].cancel_q : x.ts >= f
  <2> SUFFICES ASSUME NEW d \in Chare, Home[d] = p, NEW x \in chare[d].events \union chare[d].cancel_q
               PROVE  x.ts >= f
    OBVIOUS
  <2>1. Low(p) <= x.ts /\ x \in Event
    BY <1>1 DEF LeastLows, TypeOK, LPChare
  <2>2. x.ts \in Nat
    BY <2>1 DEF Event, EventTime
  <2> HIDE DEF f
  <2>3. QED
    BY <1>1, <1>2, <2>1, <2>2
<1>4. UNCHANGED g_last_gvt
  BY DEF recv_remote_event
\* The message brought Positive(e), whichever message of the event it was.
<1>5. Positive(e) \in net /\ Positive(e).event = e
  BY DEF recv_remote_event, Positive
<1>6. \E u \in LPChare :
        /\ chare' = [chare EXCEPT ![c] = u]
        /\ \A x \in u.events \union u.cancel_q : x.ts >= f
        /\ net \ {Positive(e)} \subseteq net'
        /\ \A x \in net' : x \in net \ {Positive(e)} \/ x.event.ts >= f
  <2>1. CASE Annihilates(h, e)
    <3> DEFINE u == [h EXCEPT !.antis = h.antis \ {e}]
    <3>1. chare' = [chare EXCEPT ![c] = u] /\ net' = net \ {Positive(e)}
      BY <1>1, <2>1 DEF recv_remote_event, TypeOK
    <3>2. u \in LPChare /\ u.events = h.events /\ u.cancel_q = h.cancel_q
      BY <1>1 DEF LPChare
    <3> HIDE DEF u, f
    <3>3. QED
      BY <1>1, <1>3, <3>1, <3>2
  <2>2. CASE ~Annihilates(h, e)
    <3>1. recv_local_event(c, e)
      BY <2>2 DEF recv_remote_event
    <3>2. PICK u : /\ chare' = [chare EXCEPT ![c] = u]
                   /\ RolledBack(h, n, u)
                   /\ u.events = Restored(h, n) \union {e} /\ u.cancel_q = h.cancel_q
                   /\ net' = (net \ {Positive(e)}) \union Antis(h, n)
      BY <1>1, <3>1, RecvLocalFields
    <3>3. /\ n \in 0..Len(h.processed) /\ Len(h.processed) \in Nat /\ DOMAIN h.processed = 1..Len(h.processed)
          /\ n > 0 => h.processed[n].event.ts >= e.ts
      BY <1>1, ProcessedQueue, UndoneSinceRange
    <3>4. \A x \in h.events \union h.cancel_q : x.ts >= f
      BY <1>1, <1>3
    <3> HIDE DEF n, f, h
    <3>5. \A i \in 1..Len(h.processed) : h.processed[i].event.ts \in Nat
      BY <1>1, <3>3, ProcessedQueue DEF Entry, Event, EventTime
    <3>6. n > 0 => h.processed[n].event.ts >= f
      <4> SUFFICES ASSUME n > 0 PROVE h.processed[n].event.ts >= f
        OBVIOUS
      <4>1. h.processed[n].event.ts \in Nat /\ h.processed[n].event.ts >= e.ts
        BY <3>3, <3>5
      <4>2. QED
        BY <1>2, <4>1
    <3>7. /\ \A x \in Restored(h, n) : x.ts >= f
          /\ \A x \in Antis(h, n) : x.event.ts >= f
      BY <1>1, <1>2, <3>3, <3>4, <3>6, UndoingFrom
    <3>8. u \in LPChare /\ \A x \in u.events \union u.cancel_q : x.ts >= f
      BY <1>1, <1>2, <3>2, <3>4, <3>7 DEF RolledBack
    <3>9. QED
      BY <3>2, <3>7, <3>8
  <2>3. QED
    BY <2>1, <2>2
<1>7. PICK u \in LPChare :
        /\ chare' = [chare EXCEPT ![c] = u]
        /\ \A x \in u.events \union u.cancel_q : x.ts >= f
        /\ net \ {Positive(e)} \subseteq net'
        /\ \A x \in net' : x \in net \ {Positive(e)} \/ x.event.ts >= f
  BY <1>6
<1> HIDE DEF f, h
<1>8. VT!MinimumFrom(p, f)
  <2>1. \A d \in Chare : chare'[d] = IF d = c THEN u ELSE chare[d]
    BY <1>1, <1>7 DEF TypeOK
  <2>2. \A d \in Chare : Home[d] = p =>
          \A x \in chare'[d].events \union chare'[d].cancel_q : x.ts >= f
    BY <1>3, <1>7, <2>1
  <2>3. \A d \in Chare : Home[d] # p => chare'[d] = chare[d]
    BY <2>1
  <2>4. QED
    BY <1>1, <1>2, <2>2, <2>3, MinimumStaysFrom
<1>9. InFlight[p][e.ts] > 0 /\ VT!SendsFrom(f, VT!Take(InFlight, p, e.ts))
  BY <1>1, <1>2, <1>5, <1>7, SendsAfterDelivery
<1>10. f = VT!Earlier(Lows[p], e.ts)
  BY <1>1 DEF f, Earlier, VT!Earlier
<1>11. QED
  BY <1>4, <1>8, <1>9, <1>10 DEF VT!Receive, Lows, InFlight, Bound

\* An anti-event arrives: it waits, deletes a pending event, or is one more
\* cancellation at its own time.
LEMMA RecvAntiIsReceive ==
  ASSUME IInv, IInv', NEW m \in net, recv_anti_event(m.event.dest, m.event)
  PROVE  VT!Receive(Home[m.event.dest], m.event.ts)
<1> DEFINE e == m.event
           c == e.dest
           h == chare[c]
           p == Home[c]
           f == Earlier(Low(p), e.ts)
           u == IF e \in Cancellable(h) THEN cancel_event(h, e)
                ELSE [h EXCEPT !.antis = h.antis \union {e}]
<1>1. /\ TypeOK /\ TypeOK' /\ FinitelyMany /\ FinitelyMany' /\ LeastLows
      /\ e \in Event /\ c \in Chare /\ p \in PE /\ e.ts \in EventTime /\ h \in LPChare
      /\ Lows[p] = Low(p) /\ Low(p) \in Time /\ Low(p) \in Nat
  BY LowIsLeast, HomeAssumption DEF IInv, TypeOK, Message, Event, LeastLows
<1>2. f \in Time /\ f \in Nat /\ f <= Low(p) /\ f <= e.ts /\ e.ts \in Nat
  BY <1>1, EarlierIsFloor DEF EventTime
<1>3. \A d \in Chare : Home[d] = p => \A x \in chare[d].events \union chare[d].cancel_q : x.ts >= f
  <2> SUFFICES ASSUME NEW d \in Chare, Home[d] = p, NEW x \in chare[d].events \union chare[d].cancel_q
               PROVE  x.ts >= f
    OBVIOUS
  <2>1. Low(p) <= x.ts /\ x \in Event
    BY <1>1 DEF LeastLows, TypeOK, LPChare
  <2>2. x.ts \in Nat
    BY <2>1 DEF Event, EventTime
  <2> HIDE DEF f
  <2>3. QED
    BY <1>1, <1>2, <2>1, <2>2
<1>4. /\ chare' = [chare EXCEPT ![c] = u] /\ net' = net \ {Anti(e)} /\ Anti(e) \in net
      /\ Anti(e).event = e /\ UNCHANGED g_last_gvt
  BY <1>1 DEF recv_anti_event, TypeOK, Anti
<1>5. u.events \subseteq h.events /\ u.cancel_q \subseteq h.cancel_q \union {e}
  <2> HIDE DEF h
  <2>1. CASE e \in Cancellable(h) /\ e \in h.events
    <3> DEFINE v == [h EXCEPT !.events = h.events \ {e}]
    <3>1. u = update_next(v)
      BY <2>1 DEF cancel_event
    <3>2. v \in LPChare /\ v.events = h.events \ {e} /\ v.cancel_q = h.cancel_q
      BY <1>1 DEF LPChare
    <3> HIDE DEF u, v
    <3>3. QED
      BY <3>1, <3>2, UpdateNextFields
  <2>2. CASE e \in Cancellable(h) /\ e \notin h.events
    BY <1>1, <2>2 DEF cancel_event, LPChare
  <2>3. CASE e \notin Cancellable(h)
    BY <1>1, <2>3 DEF LPChare
  <2>4. QED
    BY <2>1, <2>2, <2>3
<1> HIDE DEF u, f
<1>6. VT!MinimumFrom(p, f)
  <2>1. \A d \in Chare : chare'[d] = IF d = c THEN u ELSE chare[d]
    BY <1>1, <1>4 DEF TypeOK
  <2>2. \A x \in u.events \union u.cancel_q : x.ts >= f
    BY <1>1, <1>2, <1>3, <1>5
  <2>3. \A d \in Chare : Home[d] = p =>
          \A x \in chare'[d].events \union chare'[d].cancel_q : x.ts >= f
    BY <1>3, <2>1, <2>2
  <2>4. \A d \in Chare : Home[d] # p => chare'[d] = chare[d]
    BY <2>1
  <2>5. QED
    BY <1>1, <1>2, <2>3, <2>4, MinimumStaysFrom
<1>7. InFlight[p][e.ts] > 0 /\ VT!SendsFrom(f, VT!Take(InFlight, p, e.ts))
  BY <1>1, <1>2, <1>4, SendsAfterDelivery
<1>8. f = VT!Earlier(Lows[p], e.ts)
  BY <1>1 DEF f, Earlier, VT!Earlier
<1>9. QED
  BY <1>4, <1>6, <1>7, <1>8 DEF VT!Receive, Lows, InFlight, Bound

\* Fossils are no one's work any more: a PE's minimum and the messages stay,
\* and what it is told bounds both.
LEMMA GvtDoneIsCommit ==
  ASSUME IInv, NEW p \in PE, gvt_done(p)
  PROVE  VT!Commit(p)
<1>1. /\ TypeOK /\ Counted /\ LeastLows /\ gvt \in Time /\ g_last_gvt[p] <= gvt
      /\ g_last_gvt' = [g_last_gvt EXCEPT ![p] = gvt]
      /\ net' = net
      /\ chare' = [c \in Chare |-> IF Home[c] = p THEN fossil_me(chare[c], gvt) ELSE chare[c]]
  BY LowIsLeast, InFlightType DEF IInv, TypeOK, gvt_done
<1>2. \A q \in PE : Lows[q] = Low(q) /\ Low(q) \in Nat /\ gvt \in Nat
  BY <1>1, EndTimeAssumption DEF LeastLows, Time
<1>3. \A q \in PE : gvt <= Lows[q]
  <2> TAKE q \in PE
  <2>1. Low(q) >= gvt
    BY <1>1 DEF IInv, NotBefore, LeastLows, ChareOn
  <2>2. QED
    BY <1>2, <2>1
<1>4. ASSUME NEW q \in PE, NEW t \in EventTime, InFlight[q][t] > 0 PROVE gvt <= t
  <2>1. Bound(q, t) # {}
    BY <1>1, <1>4 DEF Counted
  <2>2. PICK m \in net : m.event.ts = t
    BY <2>1 DEF Bound
  <2>3. t \in Nat /\ t >= gvt
    BY <2>2 DEF IInv, EventTime
  <2>4. QED
    BY <1>2, <2>3
<1>5. VT!IsFloor(gvt, Lows, InFlight)
  BY <1>3, <1>4 DEF VT!IsFloor, VT!EventTime, EventTime
<1>6. \A c \in Chare : chare'[c].events = chare[c].events /\ chare'[c].cancel_q = chare[c].cancel_q
  BY <1>1, FossilFields DEF TypeOK
<1>7. Lows' = Lows /\ InFlight' = InFlight
  <2>1. \A q \in PE : Low(q)' = Low(q)
    BY <1>6, LowUnchanged
  <2>2. QED
    BY <1>1, <2>1 DEF Lows, InFlight, Bound
<1>8. gvt \in VT!Time /\ gvt >= g_last_gvt[p]
  <2>1. g_last_gvt[p] \in Nat
    BY <1>1 DEF TypeOK, Time
  <2>2. QED
    BY <1>1, <1>2, <2>1 DEF VT!Time, Time
<1>9. QED
  BY <1>1, <1>5, <1>7, <1>8 DEF VT!Commit, Lows, InFlight, Bound

\* A step that leaves the chares, the messages and what the PEs were told.
LEMMA Stutters ==
  ASSUME UNCHANGED <<chare, net, g_last_gvt>>
  PROVE  UNCHANGED VT!vars
<1>1. \A q \in PE : Low(q)' = Low(q)
  BY LowUnchanged
<1>2. QED
  BY <1>1 DEF VT!vars

\* The engine starts as VirtualTime does.
LEMMA InitIsInit ==
  ASSUME Init
  PROVE  VT!Init
<1>1. IInv
  BY InitIInv
<1>2. Lows \in [PE -> Time] /\ InFlight \in Flights
  BY <1>1, LowIsLeast, InFlightType DEF IInv, LeastLows, Counted
<1>3. QED
  BY <1>2 DEF Init, VT!Init, VT!Time, VT!Flights, VT!EventTime, Time, Flights, EventTime,
              Lows, InFlight, Bound

\* Every step of the engine is one of VirtualTime's, or none.
LEMMA NextIsNext ==
  ASSUME IInv, [Next]_vars
  PROVE  [VT!Next]_(VT!vars)
<1>1. IInv'
  BY NextPreserves
<1>2. CASE UNCHANGED vars
  BY <1>2, Stutters DEF vars
<1>3. ASSUME NEW p \in PE, schedule_next_lp(p) \/ end_iteration(p) PROVE VT!Work(p)
  BY <1>1, <1>3, ScheduleIsWork, EndIterationIsWork
<1>4. ASSUME NEW p \in PE, gvt_done(p) PROVE VT!Commit(p)
  BY <1>4, GvtDoneIsCommit
<1>5. ASSUME NEW m \in net,
             recv_remote_event(m.event.dest, m.event) \/ recv_anti_event(m.event.dest, m.event)
      PROVE  \E p \in PE, t \in VT!EventTime : VT!Receive(p, t)
  <2>1. Home[m.event.dest] \in PE /\ m.event.ts \in VT!EventTime
    BY HomeAssumption DEF IInv, TypeOK, Message, Event, EventTime, VT!EventTime
  <2>2. VT!Receive(Home[m.event.dest], m.event.ts)
    BY <1>1, <1>5, RecvEventIsReceive, RecvAntiIsReceive
  <2>3. QED
    BY <2>1, <2>2
<1>6. CASE compute_gvt \/ over
  BY <1>6, Stutters DEF compute_gvt, over, vars
<1>7. QED
  BY <1>2, <1>3, <1>4, <1>5, <1>6 DEF Next, VT!Next

\* The optimistic engine implements VirtualTime, for every simulated model,
\* every mapping of chares to PEs and every block size: stragglers, rollbacks
\* and cancellations never take a PE, or what it sends, to before its own work
\* and what it is given, so a GVT computed on that promise is safe to commit.
THEOREM Refinement == Spec => ImplementsVirtualTime
<1>1. Init => VT!Init
  BY InitIsInit
<1>2. IInv /\ [Next]_vars => [VT!Next]_(VT!vars)
  BY NextIsNext
<1>3. QED
  BY <1>1, <1>2, Invariance, PTL DEF Spec, VT!Spec, ImplementsVirtualTime

-----------------------------------------------------------------------------
(***************************************************************************)
(* Anti-events meet the events they cancel, and nothing a chare still      *)
(* claims to have sent has been cancelled.                                 *)
(*                                                                         *)
(* Why the invariant is what it is.  An anti-event leaves when the entry   *)
(* that lists its event is undone, so until then no list shares the event  *)
(* (Linked) and nobody has cancelled it (Claimed); from then on nobody     *)
(* lists it, so no second anti-event follows (Travelling).  The event it   *)
(* is sent after is in flight or held, because what is claimed can be      *)
(* missing only if it was committed, and a chare that is rolled back has   *)
(* not committed what its undone entries caused: that is where the         *)
(* invariant IInv comes in.                                                *)
(***************************************************************************)
\* The events on the caused_by_me lists of h.
Claims(h) == UNION {h.processed[i].caused : i \in DOMAIN h.processed}

\* No event is on two lists, and one a chare sent itself is still pending or
\* was executed after the event that sent it.
Linked(h) ==
  /\ \A i, j \in DOMAIN h.processed :
       \A k \in h.processed[i].caused : k \in h.processed[j].caused => i = j
  /\ \A i \in DOMAIN h.processed : \A k \in h.processed[i].caused :
       ~Remote(k) => k \in h.events \/ \E j \in 1..(i - 1) : h.processed[j].event = k

\* What waits in the cancel queue is held, and was sent by another chare.
Queued(h) == \A e \in h.cancel_q : e \in Held(h) /\ Remote(e)

\* An anti-event in the tree waits where its event will arrive.
Waiting(c) == \A e \in chare[c].antis : e.dest = c /\ Positive(e) \in net

\* An event in flight is held by no one; the target of an anti-event in flight
\* is in flight or held, and not cancelled yet.
Travelling(e) ==
  LET h == chare[e.dest] IN
  /\ Positive(e) \in net => Remote(e) /\ e \notin Held(h)
  /\ Anti(e) \in net => /\ Remote(e)
                        /\ Positive(e) \in net \/ e \in Held(h)
                        /\ e \notin h.antis /\ e \notin h.cancel_q

\* What c claims to have sent is not cancelled, and is in flight, held or past.
Claimed(c, k) ==
  LET h == chare[k.dest] IN
  /\ k.src = c
  /\ Anti(k) \notin net /\ k \notin h.antis /\ k \notin h.cancel_q
  /\ Positive(k) \in net \/ k \in Held(h) \/ k.ts < g_last_gvt[Home[k.dest]]

AntiInv ==
  /\ \A c \in Chare : Linked(chare[c]) /\ Queued(chare[c]) /\ Waiting(c)
  /\ \A e \in Event : Travelling(e)
  /\ \A c \in Chare : \A k \in Claims(chare[c]) : Claimed(c, k)

-----------------------------------------------------------------------------
(***************************************************************************)
(* What the operations on a chare do to the sets of events it holds and    *)
(* claims.                                                                 *)
(***************************************************************************)
LEMMA MessagesDiffer ==
  /\ \A x, y : Positive(x) # Anti(y)
  /\ \A x, y : Positive(x) = Positive(y) => x = y
  /\ \A x, y : Anti(x) = Anti(y) => x = y
<1>1. \A x : Positive(x).kind = "event" /\ Anti(x).kind = "anti" /\ Positive(x).event = x /\ Anti(x).event = x
  BY DEF Positive, Anti
<1>2. QED
  BY <1>1

\* A message is the event or the anti-event of what it carries.
LEMMA MessageIs ==
  ASSUME NEW m \in Message
  PROVE  /\ m.event \in Event
         /\ m = Positive(m.event) \/ m = Anti(m.event)
         /\ m.kind = "anti" <=> m = Anti(m.event)
BY DEF Message, Positive, Anti

\* What a chare claims and holds are events.
LEMMA ClaimsAreEvents ==
  ASSUME NEW h \in LPChare
  PROVE  Claims(h) \subseteq Event /\ Held(h) \subseteq Event
<1>1. \A i \in DOMAIN h.processed : h.processed[i] \in Entry
  BY ProcessedQueue
<1>2. QED
  BY <1>1 DEF Claims, Held, Processed, Entry, LPChare

\* Undoing deletes nothing but what the undone entries sent to their own chare,
\* and gives up the claims of those entries.
LEMMA RolledBackSets ==
  ASSUME NEW h \in LPChare, NEW n, NEW u, RolledBack(h, n, u), Linked(h)
  PROVE  /\ \A x : x \in Processed(u) \/ x \in Restored(h, n) => x \in Held(h)
         /\ \A x \in Held(h) : x \in Processed(u) \/ x \in Restored(h, n) \/ x \in LocalChildren(h, n)
         /\ \A k : k \in Claims(u) <=> k \in Claims(h) /\ k \notin CausedBy(h, n)
         /\ CausedBy(h, n) \subseteq Claims(h)
         /\ \A i \in (n + 1)..Len(h.processed) : h.processed[i].event \in Processed(u)
         /\ \A x \in Processed(u) : \E i \in (n + 1)..Len(h.processed) : x = h.processed[i].event
<1> DEFINE L == Len(h.processed)
<1>1. /\ L \in Nat /\ DOMAIN h.processed = 1..L /\ n \in 0..L
      /\ u \in LPChare /\ Len(u.processed) = L - n
      /\ \A i \in 1..(L - n) : u.processed[i] = h.processed[n + i]
  BY ProcessedQueue DEF RolledBack
<1>2. DOMAIN u.processed = 1..(L - n)
  BY <1>1, ProcessedQueue
<1>3. \A i \in (n + 1)..L : i - n \in 1..(L - n) /\ u.processed[i - n] = h.processed[i] /\ i \in 1..L
  BY <1>1
<1>4. \A i \in 1..(L - n) : n + i \in (n + 1)..L /\ n + i \in 1..L
  BY <1>1
<1>5. \A i \in (n + 1)..L : h.processed[i].event \in Processed(u)
  BY <1>2, <1>3 DEF Processed
<1>6. ASSUME NEW x \in Processed(u) PROVE \E i \in (n + 1)..L : x = h.processed[i].event
  BY <1>1, <1>2, <1>4 DEF Processed
<1>7. \A i \in 1..n : i \in 1..L
  BY <1>1
<1>8. ASSUME NEW x, x \in Processed(u) \/ x \in Restored(h, n) PROVE x \in Held(h)
  <2>1. CASE x \in Processed(u)
    BY <1>1, <1>3, <1>6, <2>1 DEF Held, Processed
  <2>2. CASE x \in Restored(h, n)
    BY <1>1, <1>7, <2>2 DEF Held, Processed, Restored
  <2>3. QED
    BY <1>8, <2>1, <2>2
<1>9. ASSUME NEW x \in Held(h)
      PROVE  x \in Processed(u) \/ x \in Restored(h, n) \/ x \in LocalChildren(h, n)
  <2>1. CASE x \in h.events
    BY <2>1 DEF Restored
  <2>2. ASSUME NEW i \in 1..L, x = h.processed[i].event
        PROVE  x \in Processed(u) \/ x \in Restored(h, n) \/ x \in LocalChildren(h, n)
    <3>1. i \in 1..n \/ i \in (n + 1)..L
      BY <1>1
    <3>2. QED
      BY <1>5, <2>2, <3>1 DEF Restored
  <2>3. QED
    BY <1>1, <2>1, <2>2 DEF Held, Processed
<1>10. CausedBy(h, n) \subseteq Claims(h)
  BY <1>1, <1>7 DEF CausedBy, Claims
<1>11. ASSUME NEW k \in Claims(u) PROVE k \in Claims(h) /\ k \notin CausedBy(h, n)
  <2>1. PICK i \in 1..(L - n) : k \in h.processed[n + i].caused
    BY <1>1, <1>2 DEF Claims
  <2>2. k \in Claims(h)
    BY <1>1, <1>4, <2>1 DEF Claims
  <2>3. ASSUME NEW j \in 1..n, k \in h.processed[j].caused PROVE FALSE
    <3>1. j \in 1..L /\ n + i \in 1..L /\ j # n + i
      BY <1>1
    <3>2. QED
      BY <1>1, <2>1, <2>3, <3>1 DEF Linked
  <2>4. QED
    BY <2>2, <2>3 DEF CausedBy
<1>12. ASSUME NEW k \in Claims(h), k \notin CausedBy(h, n) PROVE k \in Claims(u)
  <2>1. PICK i \in 1..L : k \in h.processed[i].caused
    BY <1>1 DEF Claims
  <2>2. i \notin 1..n
    BY <1>12, <2>1 DEF CausedBy
  <2>3. i \in (n + 1)..L
    BY <1>1, <2>2
  <2>4. QED
    BY <1>2, <1>3, <2>1, <2>3 DEF Claims
<1>13. QED
  BY <1>5, <1>6, <1>8, <1>9, <1>10, <1>11, <1>12

\* Undoing the newest entries keeps the lists of the others disjoint, and
\* returns what the chare sent itself to its pending events.
LEMMA RolledBackLinked ==
  ASSUME NEW h \in LPChare, NEW n, NEW u, RolledBack(h, n, u), Linked(h),
         \A k \in Restored(h, n) : ~Remote(k) => k \in u.events
  PROVE  Linked(u)
<1> DEFINE L == Len(h.processed)
<1>1. /\ L \in Nat /\ DOMAIN h.processed = 1..L /\ n \in 0..L
      /\ u \in LPChare /\ Len(u.processed) = L - n
      /\ \A i \in 1..(L - n) : u.processed[i] = h.processed[n + i]
  BY ProcessedQueue DEF RolledBack
<1>2. DOMAIN u.processed = 1..(L - n)
  BY <1>1, ProcessedQueue
<1>3. \A i \in 1..(L - n) : n + i \in 1..L
  BY <1>1
<1>4. ASSUME NEW i \in 1..(L - n), NEW j \in 1..(L - n), NEW k \in u.processed[i].caused,
             k \in u.processed[j].caused
      PROVE  i = j
  <2>1. n + i = n + j
    BY <1>1, <1>3, <1>4 DEF Linked
  <2>2. QED
    BY <1>1, <2>1
<1>5. ASSUME NEW i \in 1..(L - n), NEW k \in u.processed[i].caused, ~Remote(k)
      PROVE  k \in u.events \/ \E j \in 1..(i - 1) : u.processed[j].event = k
  <2>1. k \in h.processed[n + i].caused /\ n + i \in 1..L
    BY <1>1, <1>3
  <2>2. k \notin LocalChildren(h, n)
    <3>1. ASSUME NEW j \in 1..n, k \in h.processed[j].caused PROVE FALSE
      <4>1. j \in 1..L /\ j # n + i
        BY <1>1
      <4>2. QED
        BY <1>1, <2>1, <3>1, <4>1 DEF Linked
    <3>2. QED
      BY <3>1 DEF LocalChildren, CausedBy
  <2>3. CASE k \in h.events
    BY <1>5, <2>2, <2>3 DEF Restored
  <2>4. ASSUME NEW j \in 1..(n + i - 1), h.processed[j].event = k
        PROVE  k \in u.events \/ \E l \in 1..(i - 1) : u.processed[l].event = k
    <3>1. CASE j \in 1..n
      BY <1>5, <2>2, <2>4, <3>1 DEF Restored
    <3>2. CASE j \notin 1..n
      <4>1. j - n \in 1..(i - 1) /\ j - n \in 1..(L - n) /\ n + (j - n) = j
        BY <1>1, <3>2
      <4>2. u.processed[j - n].event = k
        BY <1>1, <2>4, <4>1
      <4>3. QED
        BY <4>1, <4>2
    <3>3. QED
      BY <3>1, <3>2
  <2>5. k \in h.events \/ \E j \in 1..(n + i - 1) : h.processed[j].event = k
    BY <1>1, <1>5, <2>1 DEF Linked
  <2>6. QED
    BY <2>3, <2>4, <2>5
<1>6. QED
  BY <1>2, <1>4, <1>5 DEF Linked

\* Executing holds and claims what was sent besides.
LEMMA ExecutedSets ==
  ASSUME NEW h \in LPChare, Linked(h), NEW e \in h.events, NEW sent, NEW u, Executed(h, e, sent, u),
         \A k \in sent : k \notin Claims(h)
  PROVE  /\ \A x : x \in Held(u) <=> x \in Held(h) \/ (x \in sent /\ ~Remote(x))
         /\ \A k : k \in Claims(u) <=> k \in Claims(h) \/ k \in sent
         /\ Linked(u)
<1> DEFINE L == Len(h.processed)
<1>1. /\ L \in Nat /\ DOMAIN h.processed = 1..L
      /\ u \in LPChare /\ Len(u.processed) = L + 1
      /\ u.events = (h.events \ {e}) \union {k \in sent : ~Remote(k)}
      /\ u.processed[1].event = e /\ u.processed[1].caused = sent
      /\ \A i \in 1..L : u.processed[i + 1] = h.processed[i]
  BY ProcessedQueue DEF Executed
<1>2. DOMAIN u.processed = 1..(L + 1)
  BY <1>1, ProcessedQueue
<1>3. \A i \in 1..(L + 1) : i # 1 => i - 1 \in 1..L /\ u.processed[i] = h.processed[i - 1]
  BY <1>1
<1>4. 1 \in 1..(L + 1) /\ \A i \in 1..L : i + 1 \in 1..(L + 1)
  BY <1>1
<1>5. \A x : x \in Processed(u) <=> x = e \/ x \in Processed(h)
  <2>1. ASSUME NEW i \in 1..(L + 1) PROVE u.processed[i].event = e \/ u.processed[i].event \in Processed(h)
    BY <1>1, <1>3 DEF Processed
  <2>2. e \in Processed(u)
    BY <1>1, <1>2, <1>4 DEF Processed
  <2>3. ASSUME NEW i \in 1..L PROVE h.processed[i].event \in Processed(u)
    <3>1. i + 1 \in DOMAIN u.processed /\ u.processed[i + 1].event = h.processed[i].event
      BY <1>1, <1>2, <1>4
    <3>2. QED
      BY <3>1 DEF Processed
  <2>4. \A x \in Processed(u) : x = e \/ x \in Processed(h)
    BY <1>2, <2>1 DEF Processed
  <2>5. \A x \in Processed(h) : x \in Processed(u)
    <3>1. Processed(h) = {h.processed[i].event : i \in 1..L}
      BY <1>1 DEF Processed
    <3>2. QED
      BY <2>3, <3>1
  <2>6. QED
    BY <2>2, <2>4, <2>5
<1>6. \A x : x \in Held(u) <=> x \in Held(h) \/ (x \in sent /\ ~Remote(x))
  BY <1>1, <1>5 DEF Held
<1>7. \A k : k \in Claims(u) <=> k \in Claims(h) \/ k \in sent
  <2>1. ASSUME NEW i \in 1..(L + 1), NEW k \in u.processed[i].caused PROVE k \in sent \/ k \in Claims(h)
    <3>1. CASE i = 1
      BY <1>1, <3>1
    <3>2. CASE i # 1
      <4>1. i - 1 \in DOMAIN h.processed /\ k \in h.processed[i - 1].caused
        BY <1>1, <1>3, <3>2
      <4>2. QED
        BY <4>1 DEF Claims
    <3>3. QED
      BY <3>1, <3>2
  <2>2. \A k \in sent : k \in Claims(u)
    BY <1>1, <1>2, <1>4 DEF Claims
  <2>3. ASSUME NEW i \in 1..L, NEW k \in h.processed[i].caused PROVE k \in Claims(u)
    <3>1. i + 1 \in DOMAIN u.processed /\ k \in u.processed[i + 1].caused
      BY <1>1, <1>2, <1>4
    <3>2. QED
      BY <3>1 DEF Claims
  <2>4. \A k \in Claims(u) : k \in sent \/ k \in Claims(h)
    BY <1>2, <2>1 DEF Claims
  <2>5. \A k \in Claims(h) : k \in Claims(u)
    <3>1. Claims(h) = UNION {h.processed[i].caused : i \in 1..L}
      BY <1>1 DEF Claims
    <3>2. QED
      BY <2>3, <3>1
  <2>6. QED
    BY <2>2, <2>4, <2>5
<1>8. \A i \in 1..L : \A k \in h.processed[i].caused : k \notin sent
  BY <1>1 DEF Claims
<1>9. ASSUME NEW i \in 1..(L + 1), NEW j \in 1..(L + 1), NEW k \in u.processed[i].caused,
             k \in u.processed[j].caused
      PROVE  i = j
  <2>1. CASE i = 1 \/ j = 1
    BY <1>1, <1>3, <1>8, <1>9, <2>1
  <2>2. CASE i # 1 /\ j # 1
    <3>1. i - 1 \in 1..L /\ j - 1 \in 1..L
      BY <1>3, <2>2
    <3>2. i - 1 = j - 1
      <4>1. k \in h.processed[i - 1].caused /\ k \in h.processed[j - 1].caused
        BY <1>3, <1>9, <2>2
      <4>2. QED
        BY <1>1, <3>1, <4>1 DEF Linked
    <3>3. QED
      BY <3>1, <3>2
  <2>3. QED
    BY <2>1, <2>2
<1>10. ASSUME NEW i \in 1..(L + 1), NEW k \in u.processed[i].caused, ~Remote(k)
       PROVE  k \in u.events \/ \E j \in 1..(i - 1) : u.processed[j].event = k
  <2>1. CASE i = 1
    BY <1>1, <1>10, <2>1
  <2>2. CASE i # 1
    <3>1. i - 1 \in 1..L /\ k \in h.processed[i - 1].caused
      BY <1>3, <1>10, <2>2
    <3>2. k \in h.events \/ \E j \in 1..(i - 1 - 1) : h.processed[j].event = k
      BY <1>1, <1>10, <3>1 DEF Linked
    <3>3. CASE k \in h.events
      <4>1. 1 \in 1..(i - 1)
        BY <1>1, <3>1
      <4>2. QED
        BY <1>1, <3>3, <4>1
    <3>4. ASSUME NEW j \in 1..(i - 1 - 1), h.processed[j].event = k
          PROVE  \E l \in 1..(i - 1) : u.processed[l].event = k
      <4>1. j \in 1..L /\ j + 1 \in 1..(i - 1)
        BY <1>1, <3>1
      <4>2. QED
        BY <1>1, <3>4, <4>1
    <3>5. QED
      BY <3>2, <3>3, <3>4
  <2>3. QED
    BY <2>1, <2>2
<1>11. QED
  BY <1>2, <1>6, <1>7, <1>9, <1>10 DEF Linked

\* Collecting fossils lets go of nothing at or after g.
LEMMA FossilSets ==
  ASSUME NEW h \in LPChare, Linked(h), NEW g \in Time
  PROVE  LET u == fossil_me(h, g) IN
         /\ \A x : x \in Held(u) => x \in Held(h)
         /\ \A x \in Held(h) : x \in Held(u) \/ x.ts < g
         /\ \A k : k \in Claims(u) => k \in Claims(h)
         /\ Linked(u)
<1> DEFINE u == fossil_me(h, g)
           L == Len(h.processed)
           M == Len(u.processed)
<1>1. /\ u \in LPChare /\ u.events = h.events /\ M <= L
      /\ \A i \in 1..M : u.processed[i] = h.processed[i]
      /\ \A i \in (M + 1)..L : h.processed[i].event.ts < g
  BY FossilFields
<1> HIDE DEF u
<1>2. L \in Nat /\ DOMAIN h.processed = 1..L /\ M \in Nat /\ DOMAIN u.processed = 1..M
  BY <1>1, ProcessedQueue
<1>3. \A i \in 1..M : i \in 1..L
  BY <1>1, <1>2
<1>4. \A i \in 1..L : i \in 1..M \/ i \in (M + 1)..L
  BY <1>1, <1>2
<1>5. \A x : x \in Held(u) => x \in Held(h)
  BY <1>1, <1>2, <1>3 DEF Held, Processed
<1>6. \A x \in Held(h) : x \in Held(u) \/ x.ts < g
  BY <1>1, <1>2, <1>4 DEF Held, Processed
<1>7. \A k : k \in Claims(u) => k \in Claims(h)
  BY <1>1, <1>2, <1>3 DEF Claims
<1>8. \A i \in 1..M : \A j \in 1..(i - 1) : j \in 1..M
  BY <1>2
<1>9. Linked(u)
  <2>1. ASSUME NEW i \in 1..M, NEW j \in 1..M, NEW k \in u.processed[i].caused, k \in u.processed[j].caused
        PROVE  i = j
    BY <1>1, <1>2, <1>3, <2>1 DEF Linked
  <2>2. ASSUME NEW i \in 1..M, NEW k \in u.processed[i].caused, ~Remote(k)
        PROVE  k \in u.events \/ \E j \in 1..(i - 1) : u.processed[j].event = k
    <3>1. k \in h.events \/ \E j \in 1..(i - 1) : h.processed[j].event = k
      BY <1>1, <1>2, <1>3, <2>2 DEF Linked
    <3>2. QED
      BY <1>1, <1>8, <3>1
  <2>3. QED
    BY <1>2, <2>1, <2>2 DEF Linked
<1>10. QED
  BY <1>5, <1>6, <1>7, <1>9 DEF u

-----------------------------------------------------------------------------
(***************************************************************************)
(* Each step keeps the invariant.                                          *)
(***************************************************************************)

\* What is not Known is in no message, held by no chare and claimed by none.
LEMMA UnknownIsNowhere ==
  ASSUME NEW k, k \notin Known
  PROVE  /\ Positive(k) \notin net /\ Anti(k) \notin net
         /\ \A c \in Chare : /\ k \notin Held(chare[c]) /\ k \notin chare[c].antis
                             /\ k \notin Claims(chare[c])
<1>1. Positive(k).event = k /\ Anti(k).event = k
  BY DEF Positive, Anti
<1>2. \A m \in net : m.event # k
  BY DEF Known
<1>3. \A c \in Chare : k \notin Held(chare[c]) \union chare[c].antis \union Claims(chare[c])
  BY DEF Known, Claims
<1>4. QED
  BY <1>1, <1>2, <1>3

\* Executing: the events sent are new, so no one holds, awaits or cancels them.
LEMMA ScheduleKeepsAnti ==
  ASSUME IInv, AntiInv, NEW p \in PE, schedule_next_lp(p)
  PROVE  AntiInv'
<1>1. PICK c \in Chare : execute_me(c)
  BY DEF schedule_next_lp, Top, ChareOn
<1> DEFINE h == chare[c]
<1>2. /\ TypeOK /\ FinitelyMany /\ h \in LPChare /\ chare \in [Chare -> LPChare]
      /\ g_last_gvt' = g_last_gvt
  BY DEF IInv, TypeOK, schedule_next_lp
<1>3. PICK e \in h.events, sent \in SUBSET Event, u \in LPChare :
        /\ \A x \in h.events : e.ts <= x.ts
        /\ IsFiniteSet(sent)
        /\ \A k \in sent : k.src = c /\ k.ts > e.ts /\ k \notin Known
        /\ chare' = [chare EXCEPT ![c] = u]
        /\ Executed(h, e, sent, u)
        /\ net' = net \union {Positive(k) : k \in {k \in sent : Remote(k)}}
  BY <1>1, <1>2, ExecuteFields
<1>4. \A k \in sent :
        /\ Positive(k) \notin net /\ Anti(k) \notin net
        /\ \A d \in Chare : /\ k \notin Held(chare[d]) /\ k \notin chare[d].antis
                            /\ k \notin Claims(chare[d])
  BY <1>3, UnknownIsNowhere
<1>5. Linked(h) /\ Queued(h)
  BY DEF AntiInv
<1>6. \A k \in sent : k.src = c /\ k \in Event /\ k.dest \in Chare /\ (~Remote(k) <=> k.dest = c)
  BY <1>3 DEF Event, Remote
<1>7. \A d \in Chare : chare'[d] = IF d = c THEN u ELSE chare[d]
  BY <1>2, <1>3
<1> HIDE DEF h
<1>8. /\ \A x : x \in Held(u) <=> x \in Held(h) \/ (x \in sent /\ ~Remote(x))
      /\ \A k : k \in Claims(u) <=> k \in Claims(h) \/ k \in sent
      /\ Linked(u)
  BY <1>2, <1>3, <1>4, <1>5, ExecutedSets DEF h
<1>9. u.antis = h.antis /\ u.cancel_q = h.cancel_q
  BY <1>3 DEF Executed
<1>10. /\ \A x : Positive(x) \in net' <=> Positive(x) \in net \/ (x \in sent /\ Remote(x))
       /\ \A x : Anti(x) \in net' <=> Anti(x) \in net
  BY <1>3, MessagesDiffer
<1>11. ASSUME NEW d \in Chare PROVE Linked(chare'[d]) /\ Queued(chare'[d]) /\ Waiting(d)'
  <2>1. Linked(chare[d]) /\ Queued(chare[d]) /\ Waiting(d)
    BY DEF AntiInv
  <2>2. Linked(chare'[d]) /\ Queued(chare'[d])
    BY <1>5, <1>7, <1>8, <1>9, <2>1 DEF Queued
  <2>3. chare'[d].antis = chare[d].antis
    BY <1>7, <1>9 DEF h
  <2>4. QED
    BY <1>10, <2>1, <2>2, <2>3 DEF Waiting
<1>12. ASSUME NEW d \in Chare
       PROVE  /\ \A x : x \in Held(chare'[d]) <=>
                        x \in Held(chare[d]) \/ (d = c /\ x \in sent /\ ~Remote(x))
              /\ chare'[d].antis = chare[d].antis /\ chare'[d].cancel_q = chare[d].cancel_q
              /\ \A k : k \in Claims(chare'[d]) <=> k \in Claims(chare[d]) \/ (d = c /\ k \in sent)
  BY <1>7, <1>8, <1>9 DEF h
<1>13. ASSUME NEW x \in Event PROVE Travelling(x)'
  <2>1. x.dest \in Chare /\ Travelling(x)
    BY DEF Event, AntiInv
  <2>2. CASE x \in sent
    <3>1. \A y \in chare[x.dest].cancel_q : y \in Held(chare[x.dest])
      BY <2>1 DEF AntiInv, Queued
    <3>2. QED
      BY <1>4, <1>10, <1>12, <2>1, <2>2, <3>1 DEF Travelling
  <2>3. CASE x \notin sent
    BY <1>10, <1>12, <2>1, <2>3 DEF Travelling
  <2>4. QED
    BY <2>2, <2>3
<1>14. ASSUME NEW d \in Chare, NEW k \in Claims(chare'[d]) PROVE Claimed(d, k)'
  <2>1. CASE k \in Claims(chare[d])
    <3>1. Claimed(d, k)
      BY <2>1 DEF AntiInv
    <3>2. k.dest \in Chare
      BY <1>2, <2>1, ClaimsAreEvents DEF Event
    <3>3. QED
      BY <1>2, <1>10, <1>12, <3>1, <3>2 DEF Claimed
  <2>2. CASE d = c /\ k \in sent
    <3>1. k \notin chare[k.dest].cancel_q
      BY <1>4, <1>6, <2>2 DEF AntiInv, Queued
    <3>2. QED
      BY <1>4, <1>6, <1>10, <1>12, <2>2, <3>1 DEF Claimed
  <2>3. QED
    BY <1>12, <2>1, <2>2
<1>15. QED
  BY <1>11, <1>13, <1>14 DEF AntiInv

\* What the undone entries of c sent elsewhere can be cancelled: it is in
\* flight or held, for no GVT has passed it.
LEMMA UndoneCanBeCancelled ==
  ASSUME IInv, AntiInv, NEW c \in Chare, NEW n \in 0..Len(chare[c].processed),
         CausedBy(chare[c], n) \subseteq Claims(chare[c]),
         n > 0 => chare[c].processed[n].event.ts >= gvt,
         NEW k \in CausedBy(chare[c], n), Remote(k)
  PROVE  /\ k \in Event /\ k.dest \in Chare /\ k.src = c /\ k.dest # c
         /\ Positive(k) \in net \/ k \in Held(chare[k.dest])
         /\ k \notin chare[k.dest].antis /\ k \notin chare[k.dest].cancel_q
         /\ Anti(k) \notin net
<1> DEFINE h == chare[c]
<1>1. h \in LPChare /\ Ordered(h) /\ NotBefore(h, gvt) /\ gvt \in Nat /\ TypeOK
  BY DEF IInv, TypeOK, Time
<1>2. Claimed(c, k)
  BY DEF AntiInv
<1>3. k \in Event
  BY <1>1, ClaimsAreEvents
<1>4. k.dest \in Chare /\ k.ts \in Nat
  BY <1>3 DEF Event, EventTime
<1>5. k.src = c /\ k.dest # c
  BY <1>2 DEF Claimed, Remote
<1>6. k.ts >= gvt
  <2>1. \A m \in Antis(h, n) : m.event.ts >= gvt
    BY <1>1, UndoingFrom DEF NotBefore
  <2>2. Anti(k) \in Antis(h, n) /\ Anti(k).event = k
    BY DEF Antis, Anti
  <2>3. QED
    BY <2>1, <2>2
<1>7. ~ (k.ts < g_last_gvt[Home[k.dest]])
  <2>1. Home[k.dest] \in PE
    BY <1>4, HomeAssumption
  <2>2. g_last_gvt[Home[k.dest]] \in Nat /\ g_last_gvt[Home[k.dest]] <= gvt
    BY <1>1, <2>1 DEF IInv, TypeOK, Time
  <2>3. QED
    BY <1>1, <1>4, <1>6, <2>2
<1>8. QED
  BY <1>2, <1>3, <1>4, <1>5, <1>7 DEF Claimed

\* The arrival of an event: it meets a waiting anti-event, rolls the chare
\* back if it is late, or becomes pending.
LEMMA RecvEventKeepsAnti ==
  ASSUME IInv, AntiInv, NEW m \in net, recv_remote_event(m.event.dest, m.event)
  PROVE  AntiInv'
<1> DEFINE e == m.event
           c == e.dest
           h == chare[c]
           n == UndoneSince(h, e.ts)
<1>1. /\ e \in Event /\ c \in Chare /\ e.ts \in EventTime /\ e.ts >= gvt /\ e.dest = c
      /\ TypeOK /\ gvt \in Nat /\ chare \in [Chare -> LPChare] /\ h \in LPChare
      /\ Positive(e) \in net
  BY DEF IInv, TypeOK, Message, Event, Time, recv_remote_event
<1>2. g_last_gvt' = g_last_gvt
  BY DEF recv_remote_event
<1>3. Linked(h) /\ Queued(h) /\ Ordered(h) /\ Current(h) /\ NotBefore(h, gvt)
  BY <1>1 DEF AntiInv, IInv, Ordered
<1>4. Remote(e) /\ e \notin Held(h) /\ (Anti(e) \in net => e \notin h.antis /\ e \notin h.cancel_q)
  BY <1>1 DEF AntiInv, Travelling
<1>5. CASE Annihilates(h, e)
  <2> DEFINE u == [h EXCEPT !.antis = h.antis \ {e}]
  <2>1. chare' = [chare EXCEPT ![c] = u] /\ net' = net \ {Positive(e)}
    BY <1>1, <1>5 DEF recv_remote_event
  <2>2. /\ u.events = h.events /\ u.processed = h.processed /\ u.cancel_q = h.cancel_q
        /\ u.antis = h.antis \ {e}
    BY <1>1 DEF LPChare
  <2>3. e \in h.antis
    BY <1>5 DEF Annihilates
  <2> HIDE DEF u, h
  <2>4. Held(u) = Held(h) /\ Claims(u) = Claims(h) /\ Linked(u) /\ Queued(u)
    BY <1>3, <2>2 DEF Held, Processed, Claims, Linked, Queued
  <2>5. \A d \in Chare : chare'[d] = IF d = c THEN u ELSE chare[d]
    BY <1>1, <2>1
  <2>6. /\ \A x : Positive(x) \in net' <=> Positive(x) \in net /\ x # e
        /\ \A x : Anti(x) \in net' <=> Anti(x) \in net
    BY <2>1, MessagesDiffer
  <2>7. \A d \in Chare : /\ Held(chare'[d]) = Held(chare[d]) /\ Claims(chare'[d]) = Claims(chare[d])
                         /\ chare'[d].cancel_q = chare[d].cancel_q
                         /\ \A x : x \in chare'[d].antis <=> x \in chare[d].antis /\ ~(d = c /\ x = e)
    BY <2>2, <2>4, <2>5 DEF h
  <2>8. ASSUME NEW d \in Chare PROVE Linked(chare'[d]) /\ Queued(chare'[d]) /\ Waiting(d)'
    <3>1. Linked(chare[d]) /\ Queued(chare[d]) /\ Waiting(d)
      BY DEF AntiInv
    <3>2. Linked(chare'[d]) /\ Queued(chare'[d])
      BY <2>4, <2>5, <3>1
    <3>3. Waiting(d)'
      BY <1>1, <2>6, <2>7, <3>1 DEF Waiting
    <3>4. QED
      BY <3>2, <3>3
  <2>9. ASSUME NEW x \in Event PROVE Travelling(x)'
    <3>1. x.dest \in Chare /\ Travelling(x)
      BY DEF Event, AntiInv
    <3>2. QED
      BY <1>4, <2>3, <2>6, <2>7, <3>1 DEF Travelling, h
  <2>10. ASSUME NEW d \in Chare, NEW k \in Claims(chare'[d]) PROVE Claimed(d, k)'
    <3>1. k \in Claims(chare[d]) /\ Claimed(d, k)
      BY <2>7 DEF AntiInv
    <3>2. k.dest \in Chare
      BY <1>1, <3>1, ClaimsAreEvents DEF Event
    <3>3. k # e
      BY <2>3, <3>1 DEF Claimed, h
    <3>4. QED
      BY <1>2, <2>6, <2>7, <3>1, <3>2, <3>3 DEF Claimed
  <2>11. QED
    BY <2>8, <2>9, <2>10 DEF AntiInv
<1>6. CASE ~Annihilates(h, e)
  <2>1. recv_local_event(c, e) /\ e \notin h.antis
    BY <1>6 DEF recv_remote_event, Annihilates
  <2>2. PICK u : /\ chare' = [chare EXCEPT ![c] = u]
                 /\ RolledBack(h, n, u)
                 /\ u.events = Restored(h, n) \union {e} /\ u.cancel_q = h.cancel_q
                 /\ net' = (net \ {Positive(e)}) \union Antis(h, n)
    BY <1>1, <1>3, <2>1, RecvLocalFields
  <2>3. /\ n \in 0..Len(h.processed) /\ Len(h.processed) \in Nat
        /\ n > 0 => h.processed[n].event.ts >= gvt
    <3>1. /\ n \in 0..Len(h.processed) /\ Len(h.processed) \in Nat
          /\ \A i \in 1..n : h.processed[i].event.ts >= e.ts
          /\ \A i \in 1..Len(h.processed) : h.processed[i] \in Entry
      BY <1>1, ProcessedQueue, UndoneSinceRange
    <3>2. ASSUME n > 0 PROVE h.processed[n].event.ts >= gvt
      <4>1. n \in 1..n /\ n \in 1..Len(h.processed)
        BY <3>1, <3>2
      <4>2. h.processed[n].event.ts \in Nat /\ e.ts \in Nat
        BY <1>1, <3>1, <4>1 DEF Entry, Event, EventTime
      <4>3. QED
        BY <1>1, <3>1, <4>1, <4>2
    <3>3. QED
      BY <3>1, <3>2
  <2> HIDE DEF n, h
  <2>4. /\ \A x : x \in Processed(u) \/ x \in Restored(h, n) => x \in Held(h)
        /\ \A x \in Held(h) : x \in Processed(u) \/ x \in Restored(h, n) \/ x \in LocalChildren(h, n)
        /\ \A k : k \in Claims(u) <=> k \in Claims(h) /\ k \notin CausedBy(h, n)
        /\ CausedBy(h, n) \subseteq Claims(h)
    BY <1>1, <1>3, <2>2, RolledBackSets
  <2>5. Linked(u) /\ u.antis = h.antis
    BY <1>1, <1>3, <2>2, RolledBackLinked DEF RolledBack
  <2>6. /\ \A x : x \in Held(u) => x \in Held(h) \/ x = e
        /\ \A x : x \in Held(h) => x \in Held(u) \/ (x \in CausedBy(h, n) /\ ~Remote(x))
        /\ e \in Held(u)
    BY <2>2, <2>4 DEF Held, LocalChildren
  <2>7. \A k \in CausedBy(h, n) : Remote(k) =>
          /\ k \in Event /\ k.dest \in Chare /\ k.src = c /\ k.dest # c
          /\ Positive(k) \in net \/ k \in Held(chare[k.dest])
          /\ k \notin chare[k.dest].antis /\ k \notin chare[k.dest].cancel_q
          /\ Anti(k) \notin net
    BY <1>1, <2>3, <2>4, UndoneCanBeCancelled DEF h
  <2>8. \A d \in Chare : chare'[d] = IF d = c THEN u ELSE chare[d]
    BY <1>1, <2>2
  <2>9. /\ \A x : Positive(x) \in net' <=> Positive(x) \in net /\ x # e
        /\ \A x : Anti(x) \in net' <=> Anti(x) \in net \/ (x \in CausedBy(h, n) /\ Remote(x))
    BY <2>2, MessagesDiffer DEF Antis
  <2>10. \A d \in Chare : chare'[d].antis = chare[d].antis /\ chare'[d].cancel_q = chare[d].cancel_q
    BY <2>2, <2>5, <2>8 DEF h
  <2>11. e \notin CausedBy(h, n)
    <3>1. ASSUME e \in Claims(h) PROVE e.src = c
      BY <1>1, <3>1 DEF AntiInv, Claimed, h
    <3>2. QED
      BY <1>1, <1>4, <2>4, <3>1 DEF Remote
  <2>12. ASSUME NEW d \in Chare PROVE Linked(chare'[d]) /\ Queued(chare'[d]) /\ Waiting(d)'
    <3>1. Linked(chare[d]) /\ Queued(chare[d]) /\ Waiting(d)
      BY DEF AntiInv
    <3>2. Linked(chare'[d])
      BY <2>5, <2>8, <3>1
    <3>3. Queued(u)
      BY <1>3, <2>2, <2>6 DEF Queued
    <3>4. ASSUME NEW x \in chare'[d].antis PROVE x.dest = d /\ Positive(x) \in net'
      <4>1. x \in chare[d].antis /\ x.dest = d /\ Positive(x) \in net
        BY <2>10, <3>1, <3>4 DEF Waiting
      <4>2. x # e
        BY <1>1, <2>1, <4>1 DEF h
      <4>3. QED
        BY <2>9, <4>1, <4>2
    <3>5. Waiting(d)'
      BY <3>4 DEF Waiting
    <3>6. QED
      BY <2>8, <3>1, <3>2, <3>3, <3>5
  <2>13. ASSUME NEW d \in Chare
         PROVE  /\ \A x : x \in Held(chare'[d]) => x \in Held(chare[d]) \/ (d = c /\ x = e)
                /\ \A x : x \in Held(chare[d]) =>
                     x \in Held(chare'[d]) \/ (d = c /\ x \in CausedBy(h, n) /\ ~Remote(x))
                /\ \A k : k \in Claims(chare'[d]) <=>
                     k \in Claims(chare[d]) /\ ~(d = c /\ k \in CausedBy(h, n))
    BY <2>4, <2>6, <2>8 DEF h
  <2>14. e \in Held(chare'[c])
    BY <1>1, <2>6, <2>8
  <2>15. ASSUME NEW x \in Event PROVE Travelling(x)'
    <3>1. x.dest \in Chare /\ Travelling(x)
      BY DEF Event, AntiInv
    <3>2. Positive(x) \in net' => Remote(x) /\ x \notin Held(chare'[x.dest])
      BY <2>9, <2>13, <3>1 DEF Travelling
    <3>3. ASSUME Anti(x) \in net
          PROVE  /\ Remote(x) /\ (Positive(x) \in net' \/ x \in Held(chare'[x.dest]))
                 /\ x \notin chare'[x.dest].antis /\ x \notin chare'[x.dest].cancel_q
      <4>1. /\ Remote(x) /\ (Positive(x) \in net \/ x \in Held(chare[x.dest]))
            /\ x \notin chare[x.dest].antis /\ x \notin chare[x.dest].cancel_q
        BY <3>1, <3>3 DEF Travelling
      <4>2. CASE x = e
        BY <2>10, <2>14, <3>1, <4>1, <4>2
      <4>3. CASE x # e
        BY <2>9, <2>10, <2>13, <3>1, <4>1, <4>3
      <4>4. QED
        BY <4>2, <4>3
    <3>4. ASSUME x \in CausedBy(h, n), Remote(x)
          PROVE  /\ Positive(x) \in net' \/ x \in Held(chare'[x.dest])
                 /\ x \notin chare'[x.dest].antis /\ x \notin chare'[x.dest].cancel_q
      BY <2>7, <2>9, <2>10, <2>11, <2>13, <3>1, <3>4
    <3>5. QED
      BY <2>9, <3>2, <3>3, <3>4 DEF Travelling
  <2>16. ASSUME NEW d \in Chare, NEW k \in Claims(chare'[d]) PROVE Claimed(d, k)'
    <3>1. k \in Claims(chare[d]) /\ Claimed(d, k) /\ ~(d = c /\ k \in CausedBy(h, n))
      BY <2>13 DEF AntiInv
    <3>2. k.dest \in Chare /\ k.src = d
      BY <1>1, <3>1, ClaimsAreEvents DEF Event, Claimed
    <3>3. k \notin CausedBy(h, n)
      <4>1. ASSUME k \in CausedBy(h, n) PROVE FALSE
        <5>1. k.src = c
          BY <1>1, <2>4, <4>1 DEF AntiInv, Claimed, h
        <5>2. QED
          BY <3>1, <3>2, <4>1, <5>1
      <4>2. QED
        BY <4>1
    <3>4. CASE k = e
      BY <1>1, <2>9, <2>10, <2>14, <3>1, <3>2, <3>3, <3>4 DEF Claimed
    <3>5. CASE k # e
      BY <1>2, <2>9, <2>10, <2>13, <3>1, <3>2, <3>3, <3>5 DEF Claimed
    <3>6. QED
      BY <3>4, <3>5
  <2>17. QED
    BY <2>12, <2>15, <2>16 DEF AntiInv
<1>7. QED
  BY <1>5, <1>6

\* The arrival of an anti-event: its event is queued to be cancelled, or the
\* anti-event waits.
LEMMA RecvAntiKeepsAnti ==
  ASSUME IInv, AntiInv, NEW m \in net, recv_anti_event(m.event.dest, m.event)
  PROVE  AntiInv'
<1> DEFINE e == m.event
           c == e.dest
           h == chare[c]
           u == IF e \in Cancellable(h) THEN cancel_event(h, e)
                ELSE [h EXCEPT !.antis = h.antis \union {e}]
<1>1. /\ e \in Event /\ c \in Chare /\ e.dest = c
      /\ TypeOK /\ chare \in [Chare -> LPChare] /\ h \in LPChare
      /\ Anti(e) \in net
  BY DEF IInv, TypeOK, Message, Event, recv_anti_event
<1>2. g_last_gvt' = g_last_gvt /\ chare' = [chare EXCEPT ![c] = u] /\ net' = net \ {Anti(e)}
  BY <1>1 DEF recv_anti_event
<1>3. Linked(h) /\ Queued(h) /\ Waiting(c) /\ Travelling(e)
  BY <1>1 DEF AntiInv
<1>4. /\ Remote(e) /\ e \notin h.antis /\ e \notin h.cancel_q
      /\ Positive(e) \in net \/ e \in Held(h)
      /\ Positive(e) \in net => e \notin Held(h)
  BY <1>1, <1>3 DEF Travelling
<1>5. \A d \in Chare : \A k \in Claims(chare[d]) : k # e
  BY <1>1 DEF AntiInv, Claimed
<1> HIDE DEF h
<1>6. /\ u.processed = h.processed
      /\ \/ /\ e \in Held(h)
            /\ \/ e \in h.events /\ u.events = h.events \ {e} /\ u.cancel_q = h.cancel_q
               \/ u.events = h.events /\ u.cancel_q = h.cancel_q \union {e}
            /\ u.antis = h.antis
         \/ /\ e \notin Held(h)
            /\ u.events = h.events /\ u.cancel_q = h.cancel_q /\ u.antis = h.antis \union {e}
  <2>1. e \in Cancellable(h) <=> e \in Held(h)
    BY <1>4 DEF Cancellable
  <2>2. CASE e \notin Held(h)
    <3>1. u = [h EXCEPT !.antis = h.antis \union {e}]
      BY <2>1, <2>2
    <3> HIDE DEF u
    <3>2. QED
      BY <1>1, <2>2, <3>1 DEF LPChare
  <2>3. CASE e \in Held(h) /\ e \in h.events
    <3> DEFINE v == [h EXCEPT !.events = h.events \ {e}]
    <3>1. u = update_next(v)
      BY <2>1, <2>3 DEF cancel_event
    <3>2. /\ v \in LPChare /\ v.events = h.events \ {e} /\ v.processed = h.processed
          /\ v.cancel_q = h.cancel_q /\ v.antis = h.antis
      BY <1>1 DEF LPChare
    <3> HIDE DEF v, u
    <3>3. QED
      BY <2>3, <3>1, <3>2, UpdateNextFields
  <2>4. CASE e \in Held(h) /\ e \notin h.events
    <3>1. u = [h EXCEPT !.cancel_q = h.cancel_q \union {e}]
      BY <2>1, <2>4 DEF cancel_event
    <3> HIDE DEF u
    <3>2. QED
      BY <1>1, <2>4, <3>1 DEF LPChare
  <2>5. QED
    BY <2>2, <2>3, <2>4
<1> HIDE DEF u
<1>7. Processed(u) = Processed(h) /\ Claims(u) = Claims(h)
  BY <1>6 DEF Processed, Claims
<1>8. \A x : x \in Held(u) <=> x \in Held(h) /\ (x = e => x \in Held(u))
  BY <1>6, <1>7 DEF Held
<1>9. Linked(u)
  <2>1. \A k : ~Remote(k) /\ k \in h.events => k \in u.events
    BY <1>4, <1>6
  <2>2. QED
    BY <1>3, <1>6, <2>1 DEF Linked
<1>10. Queued(u)
  BY <1>3, <1>4, <1>6, <1>7 DEF Queued, Held
<1>11. \A d \in Chare : chare'[d] = IF d = c THEN u ELSE chare[d]
  BY <1>1, <1>2
<1>12. /\ \A x : Positive(x) \in net' <=> Positive(x) \in net
       /\ \A x : Anti(x) \in net' <=> Anti(x) \in net /\ x # e
  BY <1>2, MessagesDiffer
<1>13. ASSUME NEW d \in Chare
       PROVE  /\ \A x : x \in Held(chare'[d]) => x \in Held(chare[d])
              /\ \A x \in Held(chare[d]) : x # e => x \in Held(chare'[d])
              /\ Claims(chare'[d]) = Claims(chare[d])
              /\ \A x : x # e => (x \in chare'[d].antis <=> x \in chare[d].antis)
              /\ \A x : x # e => (x \in chare'[d].cancel_q <=> x \in chare[d].cancel_q)
  <2>1. CASE d # c
    BY <1>11, <2>1
  <2>2. CASE d = c
    <3>1. /\ \A x : x \in Held(u) => x \in Held(h)
          /\ \A x \in Held(h) : x # e => x \in Held(u)
      BY <1>8
    <3>2. /\ \A x : x # e => (x \in u.antis <=> x \in h.antis)
          /\ \A x : x # e => (x \in u.cancel_q <=> x \in h.cancel_q)
      BY <1>6
    <3>3. QED
      BY <1>7, <1>11, <2>2, <3>1, <3>2 DEF h
  <2>3. QED
    BY <2>1, <2>2
<1>14. ASSUME NEW d \in Chare PROVE Linked(chare'[d]) /\ Queued(chare'[d]) /\ Waiting(d)'
  <2>1. Linked(chare[d]) /\ Queued(chare[d]) /\ Waiting(d)
    BY DEF AntiInv
  <2>2. Linked(chare'[d]) /\ Queued(chare'[d])
    BY <1>9, <1>10, <1>11, <2>1
  <2>3. ASSUME NEW x \in chare'[d].antis PROVE x.dest = d /\ Positive(x) \in net'
    <3>1. CASE x = e
      <4>1. d = c \/ x \in chare[d].antis
        BY <1>11, <2>3
      <4>2. CASE d = c
        <5>1. e \notin Held(h)
          BY <1>4, <1>6, <1>11, <2>3, <3>1, <4>2 DEF h
        <5>2. QED
          BY <1>1, <1>4, <1>12, <3>1, <4>2, <5>1
      <4>3. CASE x \in chare[d].antis
        BY <1>12, <2>1, <4>3 DEF Waiting
      <4>4. QED
        BY <4>1, <4>2, <4>3
    <3>2. CASE x # e
      BY <1>12, <1>13, <2>1, <2>3, <3>2 DEF Waiting
    <3>3. QED
      BY <3>1, <3>2
  <2>4. Waiting(d)'
    BY <2>3 DEF Waiting
  <2>5. QED
    BY <2>2, <2>4
<1>15. ASSUME NEW x \in Event PROVE Travelling(x)'
  <2>1. x.dest \in Chare /\ Travelling(x)
    BY DEF Event, AntiInv
  <2>2. CASE x = e
    BY <1>12, <1>13, <2>1, <2>2 DEF Travelling
  <2>3. CASE x # e
    BY <1>12, <1>13, <2>1, <2>3 DEF Travelling
  <2>4. QED
    BY <2>2, <2>3
<1>16. ASSUME NEW d \in Chare, NEW k \in Claims(chare'[d]) PROVE Claimed(d, k)'
  <2>1. k \in Claims(chare[d]) /\ Claimed(d, k) /\ k # e
    BY <1>5, <1>13 DEF AntiInv
  <2>2. k.dest \in Chare
    BY <1>1, <2>1, ClaimsAreEvents DEF Event
  <2>3. QED
    BY <1>2, <1>12, <1>13, <2>1, <2>2 DEF Claimed
<1>17. QED
  BY <1>14, <1>15, <1>16 DEF AntiInv

\* The end of a block of executions: each chare with cancelled events rolls
\* back to the earliest of them and deletes them.
LEMMA EndIterationKeepsAnti ==
  ASSUME IInv, AntiInv, NEW p \in PE, end_iteration(p)
  PROVE  AntiInv'
<1> DEFINE on(d) == Home[d] = p
           n(d) == UndoneToCancel(chare[d])
           undone(d) == IF on(d) THEN CausedBy(chare[d], n(d)) ELSE {}
           gone(d) == IF on(d) THEN chare[d].cancel_q ELSE {}
           u(d) == IF on(d) THEN process_cancel_q(chare[d], g_last_gvt[p]) ELSE chare[d]
<1>1. /\ chare' = [d \in Chare |-> u(d)]
      /\ net' = net \union UNION {Antis(chare[d], n(d)) : d \in ChareOn(p)}
      /\ g_last_gvt' = g_last_gvt
  BY DEF end_iteration
<1>2. TypeOK /\ gvt \in Nat /\ g_last_gvt[p] \in Time /\ chare \in [Chare -> LPChare]
  BY DEF IInv, TypeOK, Time
<1>3. ASSUME NEW d \in Chare
      PROVE  /\ \A x : x \in Held(chare'[d]) => x \in Held(chare[d]) /\ x \notin gone(d)
             /\ \A x \in Held(chare[d]) :
                  x \in Held(chare'[d]) \/ x \in gone(d) \/ (x \in undone(d) /\ ~Remote(x))
             /\ \A k : k \in Claims(chare'[d]) <=> k \in Claims(chare[d]) /\ k \notin undone(d)
             /\ undone(d) \subseteq Claims(chare[d])
             /\ chare'[d].antis = chare[d].antis
             /\ chare'[d].cancel_q = chare[d].cancel_q \ gone(d)
             /\ Linked(chare'[d])
  <2> DEFINE h == chare[d]
  <2>1. h \in LPChare /\ Linked(h) /\ Queued(h)
    BY <1>2 DEF AntiInv
  <2>2. chare'[d] = u(d)
    BY <1>1
  <2>3. CASE ~on(d)
    BY <2>1, <2>2, <2>3
  <2>4. CASE on(d)
    <3> DEFINE v == process_cancel_q(h, g_last_gvt[p])
    <3>1. /\ RolledBack(h, n(d), v)
          /\ v.events = Restored(h, n(d)) \ h.cancel_q /\ v.cancel_q = {}
      BY <1>2, <2>1, ProcessCancelFields
    <3>2. \A i \in (n(d) + 1)..Len(h.processed) : h.processed[i].event \notin h.cancel_q
      BY <2>1, UndoneToCancelRange
    <3>3. /\ chare'[d] = v /\ gone(d) = h.cancel_q /\ undone(d) = CausedBy(h, n(d))
      BY <2>2, <2>4
    <3> HIDE DEF h, v, u, gone, undone, n
    <3>4. /\ \A x : x \in Processed(v) \/ x \in Restored(h, n(d)) => x \in Held(h)
          /\ \A x \in Held(h) : x \in Processed(v) \/ x \in Restored(h, n(d)) \/ x \in LocalChildren(h, n(d))
          /\ \A k : k \in Claims(v) <=> k \in Claims(h) /\ k \notin CausedBy(h, n(d))
          /\ CausedBy(h, n(d)) \subseteq Claims(h)
          /\ \A x \in Processed(v) : \E i \in (n(d) + 1)..Len(h.processed) : x = h.processed[i].event
      BY <2>1, <3>1, RolledBackSets
    <3>5. \A x : x \in Held(v) => x \in Held(h) /\ x \notin h.cancel_q
      BY <3>1, <3>2, <3>4 DEF Held
    <3>6. \A x \in Held(h) : x \in Held(v) \/ x \in h.cancel_q \/ (x \in CausedBy(h, n(d)) /\ ~Remote(x))
      BY <3>1, <3>4 DEF Held, LocalChildren
    <3>7. Linked(v)
      <4>1. \A k \in Restored(h, n(d)) : ~Remote(k) => k \in v.events
        BY <2>1, <3>1 DEF Queued
      <4>2. QED
        BY <2>1, <3>1, <4>1, RolledBackLinked
    <3>8. v.antis = h.antis
      BY <3>1 DEF RolledBack
    <3>9. v.cancel_q = h.cancel_q \ h.cancel_q
      BY <3>1
    <3>10. QED
      BY <3>3, <3>4, <3>5, <3>6, <3>7, <3>8, <3>9 DEF h
  <2>5. QED
    BY <2>3, <2>4
<1>4. ASSUME NEW d \in Chare, NEW k \in undone(d), Remote(k)
      PROVE  /\ k \in Event /\ k.dest \in Chare /\ k.src = d /\ k.dest # d
             /\ Positive(k) \in net \/ k \in Held(chare[k.dest])
             /\ k \notin chare[k.dest].antis /\ k \notin chare[k.dest].cancel_q
             /\ Anti(k) \notin net
  <2>1. on(d) /\ k \in CausedBy(chare[d], n(d)) /\ CausedBy(chare[d], n(d)) \subseteq Claims(chare[d])
    BY <1>3, <1>4
  <2>2. chare[d] \in LPChare /\ NotBefore(chare[d], gvt)
    BY <1>2 DEF IInv
  <2>3. /\ n(d) \in 0..Len(chare[d].processed)
        /\ n(d) > 0 => chare[d].processed[n(d)].event \in chare[d].cancel_q
    BY <2>2, UndoneToCancelRange
  <2> HIDE DEF n
  <2>4. n(d) > 0 => chare[d].processed[n(d)].event.ts >= gvt
    BY <2>2, <2>3 DEF NotBefore
  <2>5. QED
    BY <1>4, <2>1, <2>3, <2>4, UndoneCanBeCancelled
<1>5. /\ \A x : Positive(x) \in net' <=> Positive(x) \in net
      /\ \A x : Anti(x) \in net' <=> Anti(x) \in net \/ \E d \in Chare : x \in undone(d) /\ Remote(x)
  <2>1. \A d \in ChareOn(p) : d \in Chare /\ undone(d) = CausedBy(chare[d], n(d))
    BY DEF ChareOn
  <2>2. \A d \in Chare : undone(d) # {} => d \in ChareOn(p)
    BY DEF ChareOn
  <2>3. \A d : \A x : Anti(x) \in Antis(chare[d], n(d)) <=> x \in CausedBy(chare[d], n(d)) /\ Remote(x)
    BY MessagesDiffer DEF Antis
  <2>4. \A d : \A x : Positive(x) \notin Antis(chare[d], n(d))
    BY MessagesDiffer DEF Antis
  <2> HIDE DEF undone, n, u, gone, on
  <2>5. QED
    BY <1>1, <2>1, <2>2, <2>3, <2>4
<1>6. \A d \in Chare : gone(d) \subseteq chare[d].cancel_q
  OBVIOUS
<1>11. \A d \in Chare : gone(d) = {} \/ gone(d) = chare[d].cancel_q
  OBVIOUS
<1> HIDE DEF undone, gone, u, n, on
<1>7. \A d \in Chare : \A k \in Claims(chare[d]) : Claimed(d, k) /\ k.src = d /\ k \in Event /\ k.dest \in Chare
  BY <1>2, ClaimsAreEvents DEF AntiInv, Claimed, Event
<1>8. ASSUME NEW d \in Chare PROVE Linked(chare'[d]) /\ Queued(chare'[d]) /\ Waiting(d)'
  <2>1. Queued(chare[d]) /\ Waiting(d)
    BY DEF AntiInv
  <2>2. Queued(chare'[d])
    <3> SUFFICES ASSUME NEW x \in chare'[d].cancel_q PROVE x \in Held(chare'[d]) /\ Remote(x)
      BY DEF Queued
    <3>1. x \in chare[d].cancel_q /\ x \notin gone(d)
      BY <1>3
    <3>2. x \in Held(chare[d]) /\ Remote(x)
      BY <2>1, <3>1 DEF Queued
    <3>3. QED
      BY <1>3, <3>1, <3>2
  <2>3. Waiting(d)'
    BY <1>3, <1>5, <2>1 DEF Waiting
  <2>4. QED
    BY <1>3, <2>2, <2>3
<1>9. ASSUME NEW x \in Event PROVE Travelling(x)'
  <2>1. x.dest \in Chare /\ Travelling(x)
    BY DEF Event, AntiInv
  <2>2. Positive(x) \in net' => Remote(x) /\ x \notin Held(chare'[x.dest])
    BY <1>3, <1>5, <2>1 DEF Travelling
  <2>3. ASSUME Anti(x) \in net
        PROVE  /\ Remote(x) /\ (Positive(x) \in net' \/ x \in Held(chare'[x.dest]))
               /\ x \notin chare'[x.dest].antis /\ x \notin chare'[x.dest].cancel_q
    BY <1>3, <1>5, <1>6, <2>1, <2>3 DEF Travelling
  <2>4. ASSUME NEW d \in Chare, x \in undone(d), Remote(x)
        PROVE  /\ Positive(x) \in net' \/ x \in Held(chare'[x.dest])
               /\ x \notin chare'[x.dest].antis /\ x \notin chare'[x.dest].cancel_q
    <3>1. /\ Positive(x) \in net \/ x \in Held(chare[x.dest])
          /\ x \notin chare[x.dest].antis /\ x \notin chare[x.dest].cancel_q
      BY <1>4, <2>4
    <3>2. QED
      BY <1>3, <1>5, <1>6, <2>1, <2>4, <3>1
  <2>5. QED
    BY <1>5, <2>2, <2>3, <2>4 DEF Travelling
<1>10. ASSUME NEW d \in Chare, NEW k \in Claims(chare'[d]) PROVE Claimed(d, k)'
  <2>1. k \in Claims(chare[d]) /\ k \notin undone(d) /\ Claimed(d, k) /\ k.dest \in Chare /\ k.src = d
    BY <1>3, <1>7
  <2>2. \A f \in Chare : k \notin undone(f)
    <3>1. ASSUME NEW f \in Chare, k \in undone(f) PROVE FALSE
      <4>1. k \in Claims(chare[f])
        BY <1>3, <3>1
      <4>2. k.src = f
        BY <1>7, <4>1
      <4>3. QED
        BY <2>1, <3>1, <4>2
    <3>2. QED
      BY <3>1
  <2>3. k \notin gone(k.dest)
    BY <1>6, <2>1 DEF Claimed
  <2>4. Anti(k) \notin net' /\ k \notin chare'[k.dest].antis /\ k \notin chare'[k.dest].cancel_q
    BY <1>3, <1>5, <2>1, <2>2 DEF Claimed
  <2>5. Positive(k) \in net' \/ k \in Held(chare'[k.dest]) \/ k.ts < g_last_gvt'[Home[k.dest]]
    BY <1>1, <1>3, <1>5, <2>1, <2>2, <2>3 DEF Claimed
  <2>6. QED
    BY <2>1, <2>4, <2>5 DEF Claimed
<1>12. QED
  BY <1>8, <1>9, <1>10 DEF AntiInv

\* Fossil collection: what a committed event caused is no longer claimed.
LEMMA GvtDoneKeepsAnti ==
  ASSUME IInv, AntiInv, NEW p \in PE, gvt_done(p)
  PROVE  AntiInv'
<1> DEFINE u(d) == IF Home[d] = p THEN fossil_me(chare[d], gvt) ELSE chare[d]
<1>1. /\ chare' = [d \in Chare |-> u(d)]
      /\ g_last_gvt' = [g_last_gvt EXCEPT ![p] = gvt]
      /\ net' = net
  BY DEF gvt_done
<1>2. TypeOK /\ gvt \in Time /\ gvt \in Nat /\ chare \in [Chare -> LPChare]
  BY DEF IInv, TypeOK, Time
<1>3. ASSUME NEW d \in Chare
      PROVE  /\ \A x : x \in Held(chare'[d]) => x \in Held(chare[d])
             /\ \A x \in Held(chare[d]) : x \in Held(chare'[d]) \/ (Home[d] = p /\ x.ts < gvt)
             /\ \A k : k \in Claims(chare'[d]) => k \in Claims(chare[d])
             /\ chare'[d].antis = chare[d].antis /\ chare'[d].cancel_q = chare[d].cancel_q
             /\ Linked(chare'[d])
  <2>1. chare[d] \in LPChare /\ Linked(chare[d])
    BY <1>2 DEF AntiInv
  <2>2. chare'[d] = u(d)
    BY <1>1
  <2>3. CASE Home[d] # p
    BY <2>1, <2>2, <2>3
  <2>4. CASE Home[d] = p
    BY <1>2, <2>1, <2>2, <2>4, FossilSets, FossilFields
  <2>5. QED
    BY <2>3, <2>4
<1> HIDE DEF u
<1>4. ASSUME NEW q \in PE PROVE g_last_gvt'[q] = (IF q = p THEN gvt ELSE g_last_gvt[q])
                                /\ g_last_gvt[q] \in Nat /\ g_last_gvt[q] <= gvt
  BY <1>1, <1>2 DEF IInv, TypeOK, Time
<1>5. ASSUME NEW x \in Event PROVE x.dest \in Chare /\ x.ts \in Nat
  BY DEF Event, EventTime
<1>6. ASSUME NEW d \in Chare PROVE Linked(chare'[d]) /\ Queued(chare'[d]) /\ Waiting(d)'
  <2>1. Queued(chare[d]) /\ Waiting(d) /\ NotBefore(chare[d], gvt) /\ chare[d].cancel_q \subseteq Event
    BY <1>2 DEF AntiInv, IInv, LPChare
  <2>2. \A x \in chare[d].cancel_q : ~ (x.ts < gvt)
    BY <1>2, <1>5, <2>1 DEF NotBefore
  <2>3. QED
    BY <1>1, <1>3, <2>1, <2>2 DEF Queued, Waiting
<1>7. ASSUME NEW x \in Event PROVE Travelling(x)'
  <2>1. x.dest \in Chare /\ Travelling(x) /\ x.ts \in Nat
    BY <1>5 DEF AntiInv
  <2>2. ASSUME Anti(x) \in net PROVE ~ (x.ts < gvt)
    <3>1. Anti(x).event = x
      BY DEF Anti
    <3>2. QED
      BY <1>2, <2>1, <2>2, <3>1 DEF IInv
  <2>3. QED
    BY <1>1, <1>3, <2>1, <2>2 DEF Travelling
<1>8. ASSUME NEW d \in Chare, NEW k \in Claims(chare'[d]) PROVE Claimed(d, k)'
  <2>1. k \in Claims(chare[d]) /\ Claimed(d, k) /\ k \in Event
    BY <1>2, <1>3, ClaimsAreEvents DEF AntiInv
  <2>2. k.dest \in Chare /\ k.ts \in Nat /\ Home[k.dest] \in PE
    BY <1>5, <2>1, HomeAssumption
  <2>3. k.ts < g_last_gvt[Home[k.dest]] => k.ts < g_last_gvt'[Home[k.dest]]
    BY <1>2, <1>4, <2>2
  <2>4. Home[k.dest] = p /\ k.ts < gvt => k.ts < g_last_gvt'[Home[k.dest]]
    BY <1>4, <2>2
  <2>5. QED
    BY <1>1, <1>3, <2>1, <2>2, <2>3, <2>4 DEF Claimed
<1>9. QED
  BY <1>6, <1>7, <1>8 DEF AntiInv

\* At the start nothing is claimed, cancelled or in flight.
LEMMA InitAntiInv ==
  ASSUME Init
  PROVE  AntiInv
<1>1. ASSUME NEW c \in Chare
      PROVE  /\ chare[c] \in LPChare /\ chare[c].processed = << >> /\ chare[c].cancel_q = {}
             /\ chare[c].antis = {}
  <2> DEFINE start == {[src |-> c, dest |-> c, ts |-> t, id |-> 0] : t \in Initial(c)}
             h == [events |-> start,
                   processed |-> << >>, cancel_q |-> {}, antis |-> {}, token |-> EndTime,
                   state |-> 0, current_time |-> 0]
  <2>1. chare[c] = update_next(h)
    BY DEF Init
  <2>2. h.processed = << >> /\ h.cancel_q = {} /\ h.antis = {}
    OBVIOUS
  <2>3. update_next(h) = [h EXCEPT !.token = MinTime(h.events)]
    BY DEF update_next
  <2>4. chare[c].processed = << >> /\ chare[c].cancel_q = {} /\ chare[c].antis = {}
    BY <2>1, <2>3
  <2>5. chare[c] \in LPChare
    BY InitIInv DEF IInv, TypeOK
  <2>6. QED
    BY <2>4, <2>5
<1>2. \A c \in Chare : DOMAIN chare[c].processed = {}
  <2>1. Len(<< >>) = 0
    BY EmptySeq
  <2>2. \A c \in Chare : DOMAIN chare[c].processed = 1..0
    BY <1>1, <2>1, ProcessedQueue
  <2>3. QED
    BY <2>2
<1>3. net = {}
  BY DEF Init
<1>4. \A c \in Chare : Claims(chare[c]) = {}
  BY <1>2 DEF Claims
<1>5. QED
  BY <1>1, <1>2, <1>3, <1>4 DEF AntiInv, Linked, Queued, Waiting, Travelling

\* Every step keeps the invariant, action by action.
LEMMA NextKeepsAnti ==
  ASSUME IInv, AntiInv, [Next]_vars
  PROVE  AntiInv'
<1>1. ASSUME UNCHANGED <<chare, net, g_last_gvt>> PROVE AntiInv'
  BY <1>1 DEF AntiInv, Waiting, Travelling, Claimed
<1>2. ASSUME UNCHANGED vars PROVE AntiInv'
  BY <1>1, <1>2 DEF vars
<1>3. ASSUME Next PROVE AntiInv'
  BY <1>1, <1>2, <1>3, ScheduleKeepsAnti, EndIterationKeepsAnti, GvtDoneKeepsAnti,
     RecvEventKeepsAnti, RecvAntiKeepsAnti DEF Next, over, compute_gvt
<1>4. QED
  BY <1>2, <1>3

\* Sending, undoing and cancelling keep their books, whatever the order in
\* which events and anti-events arrive.
THEOREM AntiInvariance == Spec => []AntiInv
<1>1. Init => AntiInv
  BY InitAntiInv
<1>2. IInv /\ AntiInv /\ [Next]_vars => AntiInv'
  BY NextKeepsAnti
<1>3. QED
  BY <1>1, <1>2, Invariance, PTL DEF Spec

\* Whatever the model and the mapping of chares to PEs, an anti-event finds its
\* event: the CkAbort branches of cancel_event() and process_cancel_q() are
\* never taken.
THEOREM AntisMeet == Spec => []AntisMeetTheirEvent
<1>1. IInv /\ AntiInv => AntisMeetTheirEvent
  <2> SUFFICES ASSUME IInv, AntiInv, NEW c \in Chare
               PROVE  /\ chare[c].cancel_q \subseteq Held(chare[c])
                      /\ \A e \in chare[c].antis : Positive(e) \in net
                      /\ \A m \in net : m.kind = "anti" /\ m.event.dest = c =>
                           /\ Positive(m.event) \in net <=> m.event \notin Cancellable(chare[c])
                           /\ m.event \notin chare[c].antis \union chare[c].cancel_q
    BY DEF AntisMeetTheirEvent
  <2>1. chare[c].cancel_q \subseteq Held(chare[c]) /\ \A e \in chare[c].antis : Positive(e) \in net
    BY DEF AntiInv, Queued, Waiting
  <2>2. ASSUME NEW m \in net, m.kind = "anti", m.event.dest = c
        PROVE  /\ Positive(m.event) \in net <=> m.event \notin Cancellable(chare[c])
               /\ m.event \notin chare[c].antis \union chare[c].cancel_q
    <3>1. m.event \in Event /\ Anti(m.event) \in net
      BY <2>2, MessageIs DEF IInv, TypeOK
    <3>2. Travelling(m.event)
      BY <3>1 DEF AntiInv
    <3>3. QED
      BY <2>2, <3>1, <3>2 DEF Travelling, Cancellable
  <2>3. QED
    BY <2>1, <2>2
<1>2. QED
  BY <1>1, Invariance, AntiInvariance, PTL

\* Every event an entry claims to have sent is still to be cancelled, once, if
\* the entry is undone, and no other event is.
THEOREM ClaimedXorCancelled == Spec => []ClaimedOrCancelled
<1>1. IInv /\ AntiInv => ClaimedOrCancelled
  <2> SUFFICES ASSUME IInv, AntiInv, NEW c \in Chare, NEW i \in DOMAIN chare[c].processed,
                      NEW k \in chare[c].processed[i].caused
               PROVE  LET h == chare[k.dest] IN
                      /\ Anti(k) \notin net /\ k \notin h.antis \union h.cancel_q
                      /\ Positive(k) \in net \/ k \in Held(h) \/ k.ts < g_last_gvt[Home[k.dest]]
                      /\ ~Remote(k) => k \in h.events \/ \E j \in 1..(i - 1) : h.processed[j].event = k
    BY DEF ClaimedOrCancelled
  <2>1. k \in Claims(chare[c])
    BY DEF Claims
  <2>2. Claimed(c, k)
    BY <2>1 DEF AntiInv
  <2>3. ~Remote(k) => k.dest = c
    BY <2>2 DEF Claimed, Remote
  <2>4. ~Remote(k) => k \in chare[c].events \/ \E j \in 1..(i - 1) : chare[c].processed[j].event = k
    BY DEF AntiInv, Linked
  <2>5. QED
    BY <2>2, <2>3, <2>4 DEF Claimed
<1>2. QED
  BY <1>1, Invariance, AntiInvariance, PTL
=============================================================================
