------------------------ MODULE CandleBackfillProofs ------------------------
(***************************************************************************)
(* Proofs about CandleBackfill for every set of workers, requests and      *)
(* venue bars and every page size.                                         *)
(***************************************************************************)
EXTENDS CandleBackfill, FiniteSetTheorems, TLAPS

(* A bounded non-empty set of naturals has a greatest element. *)
LEMMA BoundedSetHasMax ==
  ASSUME NEW S, S \subseteq Nat, S # {}, NEW n \in Nat, \A s \in S : s <= n
  PROVE  \E m \in S : \A s \in S : s <= m
<1> DEFINE T == {n - s : s \in S}
           R == {ss \in Nat \X Nat : ss[1] < ss[2]}
<1>1. T \subseteq Nat /\ T # {}
  <2>1. \A s \in S : n - s \in Nat
    OBVIOUS
  <2>2. T # {}
    OBVIOUS
  <2> QED BY <2>1, <2>2
<1>2. IsWellFoundedOn(R, Nat)
  <2>1. R = OpToRel(<, Nat)
    BY DEF OpToRel
  <2> QED BY <2>1, NatLessThanWellFounded
<1>3. \E x \in T : \A y \in T : <<y, x>> \notin R
  <2> HIDE DEF T, R
  <2> QED BY <1>1, <1>2, WFMin
<1>4. PICK x \in T : \A y \in T : ~ (y < x)
  BY <1>1, <1>3
<1>5. PICK m \in S : x = n - m
  OBVIOUS
<1>6. ASSUME NEW s \in S PROVE s <= m
  <2>1. ~ (n - s < n - m)
    BY <1>4, <1>5
  <2>2. s \in Nat /\ m \in Nat
    OBVIOUS
  <2> HIDE DEF T
  <2> QED BY <2>1, <2>2
<1> QED BY <1>6

LEMMA OpenGrows ==
  ASSUME NEW s \in Nat, NEW t \in Nat, s <= t
  PROVE  Open(s) \subseteq Open(t)
<1> SUFFICES ASSUME NEW b \in VenueBars, b <= s PROVE b <= t
  BY DEF Open
<1>1. b \in Nat
  BY VenueAssumption
<1> QED BY <1>1

(* The last bar of a non-empty page is the greatest of its bars. *)
LEMMA LastOfPage ==
  ASSUME NEW k, NEW t \in Nat, k \subseteq Open(t), k # {}
  PROVE  /\ LastOf(k) \in k
         /\ LastOf(k) \in Nat
         /\ \A a \in k : a <= LastOf(k)
<1>1. k \subseteq Nat /\ \A a \in k : a <= t
  BY VenueAssumption DEF Open
<1>2. \E m \in k : \A a \in k : a <= m
  BY <1>1, BoundedSetHasMax
<1> QED BY <1>1, <1>2 DEF LastOf
-----------------------------------------------------------------------------
(* What a call in progress knows: the bars before fetch_from are stored,   *)
(* and a page it holds is what the venue had when it was served.           *)
CallInv ==
  \A w \in Workers : pc[w] # "idle" =>
    /\ fetch_from[w] \in range[w][1] .. range[w][2]
    /\ Expected(range[w][1], fetch_from[w] - 1) \subseteq candle
    /\ ts[w] <= now
    /\ pc[w] = "committing" =>
         /\ klines[w] # {}
         /\ IsPage(klines[w], fetch_from[w], range[w][2], fetched_at[w])
         /\ ts[w] <= fetched_at[w] /\ fetched_at[w] <= now

(* An in_progress or completed checkpoint has a position. *)
CheckpointShape ==
  \A r \in Ranges : checkpoint[r].status = "absent" <=> checkpoint[r].last = NoBar

IInv ==
  /\ TypeOK
  /\ CallInv
  /\ CheckpointShape
  /\ CheckpointCovers
  /\ CompletedIsComplete
  /\ ClosedIsFinal

LEMMA RangeTypes ==
  ASSUME NEW r \in Ranges
  PROVE  r \in Nat \X Nat /\ r[1] \in Nat /\ r[2] \in Nat /\ r[1] <= r[2]
BY RangesAssumption

(* A page continues the covered prefix of its request up to its last bar,  *)
(* and a short one reaches the end of what the venue had.                  *)
LEMMA PageExtends ==
  ASSUME NEW k, NEW from \in Nat, NEW to \in Nat, NEW t \in Nat,
         IsPage(k, from, to, t), k # {}
  PROVE  /\ LastOf(k) \in k
         /\ LastOf(k) \in from .. to
         /\ LastOf(k) <= t
         /\ LastOf(k) \in VenueBars
         /\ k \subseteq Open(t)
         /\ Expected(from, LastOf(k)) \subseteq k
         /\ Cardinality(k) < ChunkSize /\ to <= t => Expected(from, to) \subseteq k
<1>1. k \subseteq Open(t) /\ k \subseteq from .. to
  BY DEF IsPage
<1>2. LastOf(k) \in k /\ LastOf(k) \in Nat /\ \A a \in k : a <= LastOf(k)
  BY <1>1, LastOfPage
<1>3. LastOf(k) <= t /\ LastOf(k) \in VenueBars /\ LastOf(k) \in from .. to
  BY <1>1, <1>2 DEF Open
<1>4. Expected(from, LastOf(k)) \subseteq k
  <2> SUFFICES ASSUME NEW a \in VenueBars, a \in from .. LastOf(k)
               PROVE  a \in k
    BY DEF Expected
  <2>1. a \in Open(t) \cap (from .. to)
    BY <1>3, VenueAssumption DEF Open
  <2> QED BY <2>1, <1>2 DEF IsPage
<1>5. Cardinality(k) < ChunkSize /\ to <= t => Expected(from, to) \subseteq k
  <2> SUFFICES ASSUME Cardinality(k) < ChunkSize, to <= t,
                      NEW a \in VenueBars, a \in from .. to
               PROVE  a \in k
    BY DEF Expected
  <2>1. Cardinality(k) # ChunkSize
    BY ChunkAssumption
  <2>2. k = Open(t) \cap (from .. to)
    BY <2>1 DEF IsPage
  <2> QED BY <2>2, VenueAssumption DEF Open
<1> QED BY <1>1, <1>2, <1>3, <1>4, <1>5
-----------------------------------------------------------------------------
LEMMA IInvInit == Init => IInv
<1> SUFFICES ASSUME Init PROVE IInv
  OBVIOUS
<1>1. (CHOOSE r \in Ranges : TRUE) \in Ranges
  BY RangesAssumption
<1>2. TypeOK
  BY <1>1, TimeAssumption DEF Init, TypeOK, NoCheckpoint, Checkpoints, NoBar, Open
<1>3. CallInv /\ CheckpointShape /\ CheckpointCovers /\ CompletedIsComplete /\ ClosedIsFinal
  BY DEF Init, CallInv, CheckpointShape, CheckpointCovers, CompletedIsComplete,
         ClosedIsFinal, NoCheckpoint, NoBar
<1> QED BY <1>2, <1>3 DEF IInv

LEMMA TickStep == IInv /\ Tick => IInv'
<1> SUFFICES ASSUME IInv, Tick PROVE IInv'
  OBVIOUS
<1> USE DEF IInv, Tick, database, calls
<1>1. Open(now) \subseteq Open(now')
  <2>1. now \in Nat /\ now' = now + 1
    BY TimeAssumption DEF TypeOK
  <2> QED BY <2>1, OpenGrows
<1>2. TypeOK'
  <2>1. now' \in StartTime .. MaxTime
    BY TimeAssumption DEF TypeOK
  <2>2. klines' \in [Workers -> SUBSET Open(now')]
    BY <1>1 DEF TypeOK
  <2> QED BY <1>1, <2>1, <2>2 DEF TypeOK
<1>3. CallInv'
  BY TimeAssumption DEF CallInv, TypeOK, IsPage, Open, Expected
<1>4. CheckpointShape' /\ CheckpointCovers' /\ CompletedIsComplete' /\ ClosedIsFinal'
  BY DEF CheckpointShape, CheckpointCovers, CompletedIsComplete, ClosedIsFinal, Expected
<1> QED BY <1>2, <1>3, <1>4

LEMMA BeginStep ==
  ASSUME NEW w \in Workers, NEW r \in Ranges, IInv, Begin(w, r)
  PROVE  IInv'
<1> USE DEF IInv, Begin, CallTime, database
<1>1. r[1] \in Nat /\ r[2] \in Nat /\ r[1] <= r[2]
  BY RangeTypes
<1>2. ResumePoint(r) \in Nat /\ r[1] <= ResumePoint(r)
  BY <1>1 DEF ResumePoint, TypeOK, Checkpoints, NoBar, CheckpointShape, CheckpointCovers
<1>3. Expected(r[1], ResumePoint(r) - 1) \subseteq candle
  <2>1. CASE checkpoint[r].last = NoBar
    BY <2>1, <1>1 DEF ResumePoint, Expected
  <2>2. CASE checkpoint[r].last # NoBar
    <3>1. checkpoint[r].last \in Nat
      BY <2>2 DEF TypeOK, Checkpoints
    <3>2. ResumePoint(r) - 1 = checkpoint[r].last
      BY <2>2, <3>1 DEF ResumePoint
    <3> QED BY <2>2, <3>2 DEF CheckpointShape, CheckpointCovers
  <2> QED BY <2>1, <2>2
<1>4. TypeOK'
  BY <1>2, TimeAssumption DEF TypeOK
<1>5. CallInv'
  <2> SUFFICES ASSUME NEW v \in Workers, pc'[v] # "idle"
               PROVE  /\ fetch_from'[v] \in range'[v][1] .. range'[v][2]
                      /\ Expected(range'[v][1], fetch_from'[v] - 1) \subseteq candle'
                      /\ ts'[v] <= now'
                      /\ pc'[v] = "committing" =>
                           /\ klines'[v] # {}
                           /\ IsPage(klines'[v], fetch_from'[v], range'[v][2], fetched_at'[v])
                           /\ ts'[v] <= fetched_at'[v] /\ fetched_at'[v] <= now'
    BY DEF CallInv, IsPage, Open, Expected
  <2>1. CASE v # w
    BY <2>1 DEF CallInv, TypeOK
  <2>2. CASE v = w
    BY <2>2, <1>1, <1>2, <1>3, TimeAssumption DEF TypeOK
  <2> QED BY <2>1, <2>2
<1>6. CheckpointShape' /\ CheckpointCovers' /\ CompletedIsComplete' /\ ClosedIsFinal'
  BY DEF CheckpointShape, CheckpointCovers, CompletedIsComplete, ClosedIsFinal, Expected
<1> QED BY <1>4, <1>5, <1>6

LEMMA FetchStep ==
  ASSUME NEW w \in Workers, IInv, Fetch(w)
  PROVE  IInv'
<1> USE DEF IInv, database
<1>1. PICK k \in SUBSET Open(now) :
        /\ IsPage(k, fetch_from[w], range[w][2], now)
        /\ klines' = [klines EXCEPT ![w] = k]
        /\ alerts' = alerts \cup FindGaps(k, PreviousOpenTime(w))
        /\ pc' = [pc EXCEPT ![w] = IF k = {} THEN "idle" ELSE "committing"]
  BY DEF Fetch
<1>2. /\ fetched_at' = [fetched_at EXCEPT ![w] = now]
      /\ UNCHANGED <<now, database, range, ts, fetch_from>>
      /\ pc[w] = "fetching"
  BY DEF Fetch
<1>3. now \in Nat
  BY TimeAssumption DEF TypeOK
<1>4. TypeOK'
  <2>1. alerts' \subseteq Nat \X Nat
    <3>1. k \subseteq Nat
      BY VenueAssumption DEF Open
    <3>2. PreviousOpenTime(w) \in Nat \cup {NoBar}
      <4>1. range[w][1] \in Nat /\ fetch_from[w] \in range[w][1] .. range[w][2]
        BY <1>2, RangeTypes DEF TypeOK, CallInv
      <4> QED BY <4>1 DEF PreviousOpenTime, NoBar
    <3>3. FindGaps(k, PreviousOpenTime(w)) \subseteq Nat \X Nat
      BY <3>1, <3>2 DEF FindGaps
    <3> QED BY <1>1, <3>3 DEF TypeOK
  <2> QED BY <1>1, <1>2, <1>3, <2>1 DEF TypeOK
<1>5. CallInv'
  <2> SUFFICES ASSUME NEW v \in Workers, pc'[v] # "idle"
               PROVE  /\ fetch_from[v] \in range[v][1] .. range[v][2]
                      /\ Expected(range[v][1], fetch_from[v] - 1) \subseteq candle
                      /\ ts[v] <= now
                      /\ pc'[v] = "committing" =>
                           /\ klines'[v] # {}
                           /\ IsPage(klines'[v], fetch_from[v], range[v][2], fetched_at'[v])
                           /\ ts[v] <= fetched_at'[v] /\ fetched_at'[v] <= now
    BY <1>2 DEF CallInv, IsPage, Open, Expected
  <2>1. CASE v # w
    BY <2>1, <1>1, <1>2 DEF CallInv, TypeOK
  <2>2. CASE v = w
    BY <2>2, <1>1, <1>2, <1>3 DEF CallInv, TypeOK
  <2> QED BY <2>1, <2>2
<1>6. CheckpointShape' /\ CheckpointCovers' /\ CompletedIsComplete' /\ ClosedIsFinal'
  BY <1>2 DEF CheckpointShape, CheckpointCovers, CompletedIsComplete, ClosedIsFinal, Expected
<1> QED BY <1>4, <1>5, <1>6

LEMMA AbortStep ==
  ASSUME NEW w \in Workers, IInv, Abort(w)
  PROVE  IInv'
<1> USE DEF IInv, Abort, database
<1>1. TypeOK'
  BY DEF TypeOK
<1>2. CallInv'
  BY DEF CallInv, TypeOK, IsPage, Open, Expected
<1>3. CheckpointShape' /\ CheckpointCovers' /\ CompletedIsComplete' /\ ClosedIsFinal'
  BY DEF CheckpointShape, CheckpointCovers, CompletedIsComplete, ClosedIsFinal, Expected
<1> QED BY <1>1, <1>2, <1>3

(* The facts about the committed page that the step's conjuncts share. *)
LEMMA CommitFacts ==
  ASSUME NEW w \in Workers, IInv, Commit(w)
  PROVE  LET k == klines[w]
             r == range[w]
         IN  /\ r \in Ranges /\ r[1] \in Nat /\ r[2] \in Nat
             /\ fetch_from[w] \in r[1] .. r[2]
             /\ k \subseteq Open(now) /\ LastOf(k) \in k
             /\ LastOf(k) \in r[1] .. r[2] /\ LastOf(k) \in VenueBars
             /\ Expected(r[1], LastOf(k)) \subseteq candle'
             /\ Cardinality(k) < ChunkSize /\ r[2] <= ts[w] => Expected(r[1], r[2]) \subseteq candle'
             /\ ts[w] <= fetched_at[w] /\ ts[w] \in Nat /\ fetched_at[w] \in Nat
<1> DEFINE k == klines[w]
           r == range[w]
           from == fetch_from[w]
<1>1. r \in Ranges /\ r[1] \in Nat /\ r[2] \in Nat
  BY RangeTypes DEF IInv, TypeOK
<1>2. /\ from \in r[1] .. r[2] /\ from \in Nat
      /\ Expected(r[1], from - 1) \subseteq candle
      /\ k # {} /\ IsPage(k, from, r[2], fetched_at[w])
      /\ ts[w] <= fetched_at[w]
  BY <1>1 DEF IInv, CallInv, Commit, TypeOK
<1>3. ts[w] \in Nat /\ fetched_at[w] \in Nat /\ k \subseteq Open(now) /\ candle' = candle \cup k
  BY DEF IInv, TypeOK, Commit
<1> HIDE DEF k, r, from
<1>4. /\ LastOf(k) \in k /\ LastOf(k) \in from .. r[2] /\ LastOf(k) \in VenueBars
      /\ Expected(from, LastOf(k)) \subseteq k
      /\ Cardinality(k) < ChunkSize /\ r[2] <= fetched_at[w] => Expected(from, r[2]) \subseteq k
  BY <1>1, <1>2, <1>3, PageExtends
<1>5. Expected(r[1], LastOf(k)) \subseteq candle'
  BY <1>1, <1>2, <1>3, <1>4, VenueAssumption DEF Expected
<1>6. Cardinality(k) < ChunkSize /\ r[2] <= ts[w] => Expected(r[1], r[2]) \subseteq candle'
  <2> SUFFICES ASSUME Cardinality(k) < ChunkSize, r[2] <= ts[w]
               PROVE  Expected(r[1], r[2]) \subseteq candle'
    OBVIOUS
  <2>1. Expected(from, r[2]) \subseteq k
    BY <1>1, <1>2, <1>3, <1>4
  <2> QED BY <2>1, <1>1, <1>2, <1>3, VenueAssumption DEF Expected
<1>7. LastOf(k) \in r[1] .. r[2]
  BY <1>1, <1>2, <1>4
<1> QED BY <1>1, <1>2, <1>3, <1>4, <1>5, <1>6, <1>7 DEF k, r, from

LEMMA CommitStep ==
  ASSUME NEW w \in Workers, IInv, Commit(w)
  PROVE  IInv'
<1> DEFINE k == klines[w]
           r == range[w]
           last == Cardinality(k) < ChunkSize \/ LastOf(k) + 1 > r[2]
<1>1. /\ r \in Ranges /\ r[1] \in Nat /\ r[2] \in Nat
      /\ fetch_from[w] \in r[1] .. r[2]
      /\ k \subseteq Open(now) /\ LastOf(k) \in k
      /\ LastOf(k) \in r[1] .. r[2] /\ LastOf(k) \in VenueBars
      /\ Expected(r[1], LastOf(k)) \subseteq candle'
      /\ Cardinality(k) < ChunkSize /\ r[2] <= ts[w] => Expected(r[1], r[2]) \subseteq candle'
      /\ ts[w] <= fetched_at[w] /\ ts[w] \in Nat /\ fetched_at[w] \in Nat
  BY CommitFacts
<1>2. /\ candle' = candle \cup k
      /\ is_closed' = (is_closed \ k) \cup {b \in k : b + 1 <= ts[w]}
      /\ final' = (final \ k) \cup {b \in k : b + 1 <= fetched_at[w]}
      /\ checkpoint' = [checkpoint EXCEPT ![r] =
           [status     |-> IF last THEN "completed" ELSE "in_progress",
            last       |-> LastOf(k),
            updated_at |-> ts[w]]]
      /\ fetch_from' = [fetch_from EXCEPT ![w] = LastOf(k) + 1]
      /\ pc' = [pc EXCEPT ![w] = IF last THEN "idle" ELSE "fetching"]
      /\ klines' = [klines EXCEPT ![w] = {}]
      /\ fetched_at' = [fetched_at EXCEPT ![w] = 0]
      /\ UNCHANGED <<now, alerts, range, ts>>
  BY DEF Commit, ShortPage, ClosedAt
<1>3. /\ TypeOK /\ CallInv /\ CheckpointShape /\ CheckpointCovers
      /\ CompletedIsComplete /\ ClosedIsFinal
  BY DEF IInv
<1> HIDE DEF k, last
<1>4. LastOf(k) \in Nat /\ k \subseteq Nat
  BY <1>1, VenueAssumption DEF Open
<1>5. TypeOK'
  <2>1. checkpoint' \in [Ranges -> Checkpoints]
    BY <1>1, <1>2, <1>3, <1>4 DEF TypeOK, Checkpoints
  <2>2. candle' \subseteq Open(now') /\ is_closed' \subseteq candle' /\ final' \subseteq candle'
    BY <1>1, <1>2, <1>3 DEF TypeOK
  <2> QED BY <2>1, <2>2, <1>2, <1>3, <1>4 DEF TypeOK
<1>6. CallInv'
  <2> SUFFICES ASSUME NEW v \in Workers, pc'[v] # "idle"
               PROVE  /\ fetch_from'[v] \in range[v][1] .. range[v][2]
                      /\ Expected(range[v][1], fetch_from'[v] - 1) \subseteq candle'
                      /\ ts[v] <= now
                      /\ pc'[v] = "committing" =>
                           /\ klines'[v] # {}
                           /\ IsPage(klines'[v], fetch_from'[v], range[v][2], fetched_at'[v])
                           /\ ts[v] <= fetched_at'[v] /\ fetched_at'[v] <= now
    BY <1>2 DEF CallInv, IsPage, Open, Expected
  <2>1. CASE v # w
    BY <2>1, <1>2, <1>3 DEF CallInv, TypeOK
  <2>2. CASE v = w
    <3>1. ~ last /\ pc'[w] = "fetching"
      BY <2>2, <1>2, <1>3 DEF TypeOK
    <3>2. fetch_from'[w] = LastOf(k) + 1 /\ LastOf(k) + 1 <= r[2] /\ fetch_from'[w] - 1 = LastOf(k)
      BY <3>1, <1>1, <1>2, <1>3, <1>4 DEF last, TypeOK
    <3>3. ts[w] <= now
      BY <1>2, <1>3 DEF CallInv, Commit
    <3> QED BY <2>2, <3>1, <3>2, <3>3, <1>1
  <2> QED BY <2>1, <2>2
<1>7. CheckpointShape'
  BY <1>1, <1>2, <1>3, <1>4 DEF CheckpointShape, TypeOK, NoBar
<1>8. CheckpointCovers'
  <2> SUFFICES ASSUME NEW q \in Ranges, checkpoint'[q].status # "absent"
               PROVE  /\ checkpoint'[q].last \in q[1] .. q[2]
                      /\ Expected(q[1], checkpoint'[q].last) \subseteq candle'
    BY DEF CheckpointCovers, Expected
  <2>1. CASE q # r
    BY <2>1, <1>1, <1>2, <1>3 DEF CheckpointCovers, TypeOK
  <2>2. CASE q = r
    BY <2>2, <1>1, <1>2, <1>3 DEF TypeOK
  <2> QED BY <2>1, <2>2
<1>9. CompletedIsComplete'
  <2> SUFFICES ASSUME NEW q \in Ranges, checkpoint'[q].status = "completed",
                      q[2] <= checkpoint'[q].updated_at
               PROVE  Expected(q[1], q[2]) \subseteq candle'
    BY DEF CompletedIsComplete, Expected
  <2>1. CASE q # r
    BY <2>1, <1>1, <1>2, <1>3 DEF CompletedIsComplete, TypeOK
  <2>2. CASE q = r
    <3>1. last /\ r[2] <= ts[w]
      BY <2>2, <1>1, <1>2, <1>3 DEF TypeOK
    <3>2. CASE Cardinality(k) < ChunkSize
      BY <3>1, <3>2, <2>2, <1>1 DEF k
    <3>3. CASE LastOf(k) + 1 > r[2]
      <4>1. LastOf(k) = r[2]
        BY <3>3, <1>1, <1>4 DEF k
      <4> QED BY <4>1, <2>2, <1>1 DEF k
    <3> QED BY <3>1, <3>2, <3>3 DEF last
  <2> QED BY <2>1, <2>2
<1>10. ClosedIsFinal'
  <2>1. {b \in k : b + 1 <= ts[w]} \subseteq {b \in k : b + 1 <= fetched_at[w]}
    BY <1>1, <1>4
  <2> QED BY <2>1, <1>2, <1>3 DEF ClosedIsFinal
<1> QED BY <1>5, <1>6, <1>7, <1>8, <1>9, <1>10 DEF IInv

LEMMA IInvNext == IInv /\ [Next]_vars => IInv'
<1> SUFFICES ASSUME IInv, [Next]_vars PROVE IInv'
  OBVIOUS
<1>1. CASE Tick
  BY <1>1, TickStep
<1>2. ASSUME NEW w \in Workers, NEW r \in Ranges, ShortCircuit(w, r) PROVE IInv'
  BY <1>2 DEF ShortCircuit, vars, database, calls, IInv, TypeOK, CallInv, CheckpointShape,
              CheckpointCovers, CompletedIsComplete, ClosedIsFinal, IsPage, Open, Expected
<1>3. ASSUME NEW w \in Workers, NEW r \in Ranges, Begin(w, r) PROVE IInv'
  BY <1>3, BeginStep
<1>4. ASSUME NEW w \in Workers, Fetch(w) PROVE IInv'
  BY <1>4, FetchStep
<1>5. ASSUME NEW w \in Workers, Commit(w) PROVE IInv'
  BY <1>5, CommitStep
<1>6. ASSUME NEW w \in Workers, Abort(w) PROVE IInv'
  BY <1>6, AbortStep
<1>7. CASE UNCHANGED vars
  BY <1>7 DEF vars, database, calls, IInv, TypeOK, CallInv, CheckpointShape,
              CheckpointCovers, CompletedIsComplete, ClosedIsFinal, IsPage, Open, Expected
<1> QED BY <1>1, <1>2, <1>3, <1>4, <1>5, <1>6, <1>7 DEF Next

(* The strengthened invariant holds in every reachable state. *)
THEOREM IInvAlways == Spec => []IInv
<1> QED BY IInvInit, IInvNext, PTL DEF Spec

(* Type correctness of the backfill. *)
THEOREM TypeCorrect == Spec => []TypeOK
<1>1. IInv => TypeOK
  BY DEF IInv
<1> QED BY <1>1, IInvAlways, PTL

(* Resuming from a checkpoint never skips a bar, however many processes    *)
(* run, die and restart.                                                   *)
THEOREM CheckpointIsSafe == Spec => []CheckpointCovers
<1>1. IInv => CheckpointCovers
  BY DEF IInv
<1> QED BY <1>1, IInvAlways, PTL

(* Short-circuiting a completed request that had ended is never wrong. *)
THEOREM CompletedIsSafe == Spec => []CompletedIsComplete
<1>1. IInv => CompletedIsComplete
  BY DEF IInv
<1> QED BY <1>1, IInvAlways, PTL

(* No row flagged is_closed holds a bar that was still forming. *)
THEOREM ClosedIsSafe == Spec => []ClosedIsFinal
<1>1. IInv => ClosedIsFinal
  BY DEF IInv
<1> QED BY <1>1, IInvAlways, PTL
-----------------------------------------------------------------------------
(* Gap alerts.  Alerted(from, to): every hole between two bars of the      *)
(* venue in from .. to was logged.                                         *)
Alerted(from, to) ==
  \A a, b \in Expected(from, to) :
    b - a > 1 /\ Expected(a + 1, b - 1) = {} => <<a, b>> \in alerts

(* A call has alerted every hole up to the bar before its next page, that  *)
(* bar exists, and the holes of the page it holds are alerted as well.     *)
AlertInv ==
  /\ \A w \in Workers : pc[w] # "idle" =>
       /\ fetch_from[w] = range[w][1] \/ fetch_from[w] - 1 \in VenueBars
       /\ Alerted(range[w][1], fetch_from[w] - 1)
       /\ pc[w] = "committing" => Alerted(range[w][1], LastOf(klines[w]))
  /\ \A r \in Ranges : checkpoint[r].status # "absent" =>
       checkpoint[r].last \in VenueBars /\ Alerted(r[1], checkpoint[r].last)

LEMMA AlertedGrows ==
  ASSUME NEW from, NEW to, alerts \subseteq alerts', Alerted(from, to)
  PROVE  Alerted(from, to)'
BY DEF Alerted, Expected

(* find_gaps on the next page alerts every hole up to that page's end,     *)
(* because the bar before the page is the previous bar of the venue.       *)
LEMMA FetchAlerts ==
  ASSUME NEW w \in Workers, IInv, AlertInv, pc[w] = "fetching",
         NEW k, IsPage(k, fetch_from[w], range[w][2], now), k # {},
         alerts' = alerts \cup FindGaps(k, PreviousOpenTime(w)), range' = range
  PROVE  Alerted(range[w][1], LastOf(k))'
<1> DEFINE r == range[w]
           from == fetch_from[w]
           m == LastOf(k)
<1>1. /\ r[1] \in Nat /\ r[2] \in Nat /\ from \in Nat /\ from \in r[1] .. r[2]
      /\ from = r[1] \/ from - 1 \in VenueBars
      /\ Alerted(r[1], from - 1) /\ now \in Nat
      /\ IsPage(k, from, r[2], now)
  BY RangeTypes, TimeAssumption DEF IInv, TypeOK, CallInv, AlertInv
<1>2. PreviousOpenTime(w) = IF from = r[1] THEN NoBar ELSE from - 1
  BY DEF PreviousOpenTime
<1> HIDE DEF r, from
<1>3. /\ m \in k /\ m \in from .. r[2] /\ Expected(from, m) \subseteq k
  BY <1>1, PageExtends
<1>4. k \subseteq VenueBars /\ k \subseteq from .. r[2]
  BY <1>1 DEF IsPage, Open
<1> HIDE DEF m
<1>5. ASSUME NEW a \in Expected(r[1], m), NEW b \in Expected(r[1], m),
             b - a > 1, Expected(a + 1, b - 1) = {}
      PROVE  <<a, b>> \in alerts'
  <2>1. a \in Nat /\ b \in Nat /\ a \in VenueBars /\ b \in VenueBars /\ a < b
        /\ r[1] <= a /\ b <= m /\ m \in Nat
    BY <1>1, <1>3, <1>5, VenueAssumption DEF Expected
  <2>2. CASE b < from
    BY <2>1, <2>2, <1>1, <1>5 DEF Alerted, Expected
  <2>3. CASE b >= from
    <3>1. b \in k
      BY <2>1, <2>3, <1>1, <1>3 DEF Expected
    <3>2. \A c \in VenueBars : ~ (a < c /\ c < b)
      BY <2>1, <1>5, VenueAssumption DEF Expected
    <3>3. CASE a >= from
      <4>1. a \in k
        BY <2>1, <3>3, <1>1, <1>3 DEF Expected
      <4>2. PreviousOpenTime(w) < a /\ PreviousOpenTime(w) \in Int
        BY <1>1, <1>2, <2>1, <3>3 DEF NoBar
      <4>3. <<a, b>> \in FindGaps(k, PreviousOpenTime(w))
        BY <4>1, <4>2, <3>1, <3>2, <1>4, <1>5, <2>1 DEF FindGaps
      <4> QED BY <4>3
    <3>4. CASE a < from
      <4>1. from # r[1] /\ a = from - 1
        BY <3>4, <3>2, <2>1, <2>3, <1>1
      <4>2. PreviousOpenTime(w) = a /\ a # NoBar
        BY <4>1, <1>2, <2>1 DEF NoBar
      <4>3. <<a, b>> \in FindGaps(k, PreviousOpenTime(w))
        BY <4>2, <3>1, <3>2, <1>4, <1>5, <2>1 DEF FindGaps
      <4> QED BY <4>3
    <3> QED BY <3>3, <3>4, <2>1, <1>1
  <2> QED BY <2>2, <2>3, <2>1, <1>1
<1>6. \A a, b \in Expected(r[1], m) :
        b - a > 1 /\ Expected(a + 1, b - 1) = {} => <<a, b>> \in alerts'
  BY <1>5
<1> QED BY <1>6 DEF Alerted, Expected, r, m

LEMMA AlertInvNext == IInv /\ IInv' /\ AlertInv /\ [Next]_vars => AlertInv'
<1> SUFFICES ASSUME IInv, IInv', AlertInv, [Next]_vars PROVE AlertInv'
  OBVIOUS
<1> USE DEF database, calls
<1>1. CASE UNCHANGED vars
  BY <1>1 DEF vars, AlertInv, Alerted, Expected
<1>2. CASE Tick
  BY <1>2 DEF Tick, AlertInv, Alerted, Expected
<1>3. ASSUME NEW w \in Workers, NEW r \in Ranges, ShortCircuit(w, r) PROVE AlertInv'
  BY <1>3 DEF ShortCircuit, vars, AlertInv, Alerted, Expected
<1>4. ASSUME NEW w \in Workers, NEW r \in Ranges, Begin(w, r) PROVE AlertInv'
  <2>1. /\ ResumePoint(r) = r[1] \/ ResumePoint(r) - 1 \in VenueBars
        /\ Alerted(r[1], ResumePoint(r) - 1)
    <3>1. CASE checkpoint[r].last = NoBar
      <4>1. ResumePoint(r) = r[1] /\ r[1] \in Nat
        BY <3>1, RangeTypes DEF ResumePoint
      <4>2. Expected(r[1], r[1] - 1) = {}
        BY <4>1, VenueAssumption DEF Expected
      <4> QED BY <4>1, <4>2 DEF Alerted
    <3>2. CASE checkpoint[r].last # NoBar
      <4>1. ResumePoint(r) - 1 = checkpoint[r].last
        BY <3>2 DEF ResumePoint, IInv, TypeOK, Checkpoints
      <4> QED BY <3>2, <4>1 DEF AlertInv, IInv, CheckpointShape
    <3> QED BY <3>1, <3>2
  <2>2. \A v \in Workers : v # w =>
          pc'[v] = pc[v] /\ range'[v] = range[v] /\ fetch_from'[v] = fetch_from[v]
    BY <1>4 DEF Begin, IInv, TypeOK
  <2>3. range'[w] = r /\ fetch_from'[w] = ResumePoint(r) /\ pc'[w] # "committing"
    BY <1>4 DEF Begin, IInv, TypeOK
  <2>4. UNCHANGED <<alerts, checkpoint, klines>>
    BY <1>4 DEF Begin
  <2> HIDE DEF database, calls
  <2> QED BY <2>1, <2>2, <2>3, <2>4 DEF AlertInv, Alerted, Expected
<1>5. ASSUME NEW w \in Workers, Fetch(w) PROVE AlertInv'
  <2>1. PICK k \in SUBSET Open(now) :
          /\ IsPage(k, fetch_from[w], range[w][2], now)
          /\ klines' = [klines EXCEPT ![w] = k]
          /\ alerts' = alerts \cup FindGaps(k, PreviousOpenTime(w))
          /\ pc' = [pc EXCEPT ![w] = IF k = {} THEN "idle" ELSE "committing"]
    BY <1>5 DEF Fetch
  <2>2. UNCHANGED <<checkpoint, range, fetch_from>> /\ pc[w] = "fetching"
    BY <1>5 DEF Fetch
  <2>3. k # {} => Alerted(range[w][1], LastOf(k))'
    BY <2>1, <2>2, FetchAlerts
  <2>4. \A from, to : Alerted(from, to) => (\A a, b \in Expected(from, to) :
          b - a > 1 /\ Expected(a + 1, b - 1) = {} => <<a, b>> \in alerts')
    BY <2>1 DEF Alerted
  <2>5. \A v \in Workers : v # w => pc'[v] = pc[v] /\ klines'[v] = klines[v]
    BY <2>1 DEF IInv, TypeOK
  <2>6. klines'[w] = k /\ (pc'[w] # "idle" => k # {})
    BY <2>1 DEF IInv, TypeOK
  <2> HIDE DEF database, calls
  <2>7. \A r \in Ranges : checkpoint'[r].status # "absent" =>
          checkpoint'[r].last \in VenueBars /\ Alerted(r[1], checkpoint[r].last)'
    BY <2>2, <2>4 DEF AlertInv, Alerted, Expected
  <2>8. ASSUME NEW v \in Workers, pc'[v] # "idle"
        PROVE  /\ fetch_from'[v] = range'[v][1] \/ fetch_from'[v] - 1 \in VenueBars
               /\ Alerted(range[v][1], fetch_from[v] - 1)'
               /\ pc'[v] = "committing" => Alerted(range[v][1], LastOf(klines[v]))'
    <3>1. CASE v = w
      BY <3>1, <2>8, <2>2, <2>3, <2>4, <2>6 DEF AlertInv, Alerted, Expected
    <3>2. CASE v # w
      BY <3>2, <2>8, <2>2, <2>4, <2>5 DEF AlertInv, Alerted, Expected
    <3> QED BY <3>1, <3>2
  <2> QED BY <2>7, <2>8 DEF AlertInv
<1>6. ASSUME NEW w \in Workers, Commit(w) PROVE AlertInv'
  <2> DEFINE m == LastOf(klines[w])
  <2>1. m \in VenueBars /\ Alerted(range[w][1], m) /\ m \in Nat /\ range[w] \in Ranges
    BY <1>6, CommitFacts, VenueAssumption DEF Commit, AlertInv
  <2>2. /\ UNCHANGED <<alerts, range>>
        /\ fetch_from' = [fetch_from EXCEPT ![w] = m + 1]
        /\ pc' = [pc EXCEPT ![w] = IF Cardinality(klines[w]) < ChunkSize \/ m + 1 > range[w][2]
                                   THEN "idle" ELSE "fetching"]
        /\ klines' = [klines EXCEPT ![w] = {}]
        /\ checkpoint' = [checkpoint EXCEPT ![range[w]] =
             [status     |-> IF Cardinality(klines[w]) < ChunkSize \/ m + 1 > range[w][2]
                            THEN "completed" ELSE "in_progress",
              last       |-> m,
              updated_at |-> ts[w]]]
    BY <1>6 DEF Commit, ShortPage
  <2> HIDE DEF m, database, calls
  <2>3. \A v \in Workers : v # w =>
          pc'[v] = pc[v] /\ klines'[v] = klines[v] /\ fetch_from'[v] = fetch_from[v]
    BY <2>2 DEF IInv, TypeOK
  <2>4. fetch_from'[w] = m + 1 /\ m + 1 - 1 = m /\ pc'[w] # "committing"
    BY <2>1, <2>2 DEF IInv, TypeOK
  <2>5. \A q \in Ranges : q # range[w] => checkpoint'[q] = checkpoint[q]
    BY <2>2 DEF IInv, TypeOK
  <2>6. checkpoint'[range[w]].last = m
    BY <2>1, <2>2 DEF IInv, TypeOK
  <2>7. ASSUME NEW v \in Workers, pc'[v] # "idle"
        PROVE  /\ fetch_from'[v] = range'[v][1] \/ fetch_from'[v] - 1 \in VenueBars
               /\ Alerted(range[v][1], fetch_from[v] - 1)'
               /\ pc'[v] = "committing" => Alerted(range[v][1], LastOf(klines[v]))'
    <3>1. CASE v = w
      <4>1. fetch_from'[v] - 1 = m /\ range'[v] = range[w] /\ pc'[v] # "committing"
        BY <3>1, <2>1, <2>2, <2>4
      <4>2. Alerted(range[v][1], fetch_from[v] - 1)'
        BY <4>1, <2>1, <2>2 DEF Alerted, Expected
      <4> QED BY <4>1, <4>2, <2>1
    <3>2. CASE v # w
      BY <3>2, <2>7, <2>2, <2>3 DEF AlertInv, Alerted, Expected
    <3> QED BY <3>1, <3>2
  <2>8. \A q \in Ranges : checkpoint'[q].status # "absent" =>
          checkpoint'[q].last \in VenueBars /\ Alerted(q[1], checkpoint[q].last)'
    BY <2>1, <2>2, <2>5, <2>6 DEF AlertInv, Alerted, Expected
  <2> QED BY <2>7, <2>8 DEF AlertInv
<1>7. ASSUME NEW w \in Workers, Abort(w) PROVE AlertInv'
  BY <1>7 DEF Abort, AlertInv, Alerted, Expected, IInv, TypeOK
<1> QED BY <1>1, <1>2, <1>3, <1>4, <1>5, <1>6, <1>7 DEF Next

(* No hole of the venue's data behind a checkpoint goes unlogged, also     *)
(* across chunks, crashes and restarts.                                    *)
THEOREM HolesAreAlerted == Spec => []HolesAlerted
<1>1. Init => AlertInv
  BY DEF Init, AlertInv, NoCheckpoint
<1>2. AlertInv => HolesAlerted
  BY DEF AlertInv, HolesAlerted, Alerted
<1> QED BY <1>1, <1>2, AlertInvNext, IInvAlways, PTL DEF Spec
-----------------------------------------------------------------------------
(* Refinement of BackfillContract. *)
LEMMA ContractInit == Init => Contract!Init
BY DEF Init, Contract!Init, NoCheckpoint

LEMMA ContractCommit ==
  ASSUME NEW w \in Workers, IInv, Commit(w)
  PROVE  Contract!Next
<1> DEFINE k == klines[w]
           r == range[w]
           covered == [q \in Ranges |->
             IF checkpoint[q].status = "absent" THEN q[1] - 1 ELSE checkpoint[q].last]
<1>1. /\ r \in Ranges /\ r[1] \in Nat /\ r[2] \in Nat
      /\ fetch_from[w] \in r[1] .. r[2]
      /\ LastOf(k) \in k /\ LastOf(k) \in r[1] .. r[2]
      /\ Expected(r[1], LastOf(k)) \subseteq candle'
  BY CommitFacts
<1>2. candle' = candle \cup k
  BY DEF Commit
<1>3. k \subseteq VenueBars \cap (r[1] .. r[2])
  BY <1>1 DEF Commit, IInv, CallInv, IsPage, Open
<1>4. covered' = [covered EXCEPT ![r] = LastOf(k)]
  BY <1>1 DEF Commit, IInv, TypeOK
<1>5. Contract!Missing(r, LastOf(k)) \subseteq k
  BY <1>1, <1>2 DEF Contract!Missing, Expected
<1>6. /\ k \in SUBSET (VenueBars \cap (r[1] .. r[2])) /\ LastOf(k) \in k /\ r \in Ranges
      /\ Contract!Missing(r, LastOf(k)) \subseteq k
      /\ candle' = candle \cup k
      /\ covered' = [covered EXCEPT ![r] = LastOf(k)]
  BY <1>1, <1>2, <1>3, <1>4, <1>5
<1> HIDE DEF k, r
<1> QED BY <1>6 DEF Contract!Next, Contract!Cover, Contract!Missing

(* Every step of the interleaved calls is an abstract covering of one      *)
(* request or invisible in the database.                                   *)
THEOREM BackfillImplementsContract == Spec => ImplementsContract
<1>1. ASSUME IInv, [Next]_vars PROVE [Contract!Next]_(Contract!vars)
  <2>1. CASE Tick \/ UNCHANGED vars
    BY <2>1 DEF Tick, vars, database, Contract!vars
  <2>2. ASSUME NEW w \in Workers, NEW r \in Ranges, ShortCircuit(w, r) \/ Begin(w, r)
        PROVE  UNCHANGED Contract!vars
    BY <2>2 DEF ShortCircuit, Begin, vars, database, Contract!vars
  <2>3. ASSUME NEW w \in Workers, Fetch(w) \/ Abort(w)
        PROVE  UNCHANGED Contract!vars
    BY <2>3 DEF Fetch, Abort, database, Contract!vars
  <2>4. ASSUME NEW w \in Workers, Commit(w) PROVE Contract!Next
    BY <1>1, <2>4, ContractCommit
  <2> QED BY <1>1, <2>1, <2>2, <2>3, <2>4 DEF Next
<1> QED BY <1>1, ContractInit, IInvAlways, PTL DEF Spec, ImplementsContract, Contract!Spec
=============================================================================
