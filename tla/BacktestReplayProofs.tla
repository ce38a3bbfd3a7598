------------------------- MODULE BacktestReplayProofs -------------------------
(***************************************************************************)
(* Lookahead safety, clock safety and the merge order of BacktestReplay,   *)
(* for any series, intervals, data and warm-up.  The heart of it is        *)
(* Ordered: no bar still to come sorts before one already delivered, which *)
(* the heap maintains because it always holds the first remaining bar of   *)
(* every series.                                                           *)
(***************************************************************************)
EXTENDS BacktestReplay, FiniteSetTheorems, NaturalsInduction, WellFoundedInduction, TLAPS

(* The heap holds the first remaining bar of every series, once. *)
HeapShape ==
  /\ \A e \in heap : /\ rest[e.key] # {}
                     /\ e.close = Close(e.key, First(rest[e.key]))
                     /\ e.step = Step[e.key]
  /\ \A e, f \in heap : e.key = f.key => e = f
  /\ \A k \in Series : rest[k] # {} => \E e \in heap : e.key = k

(* A bar is delivered or still to come. *)
Partition == \A k \in Series : \A b \in series[k] : <<k, b>> \in delivered <=> b \notin rest[k]

(* Bar b of series k does not sort before bar a of series j. *)
NotBefore(j, a, k, b) ==
  \/ Close(j, a) < Close(k, b)
  \/ Close(j, a) = Close(k, b) /\ Step[j] <= Step[k]

Ordered ==
  \A j, k \in Series : \A a \in series[j], b \in rest[k] :
    <<j, a>> \in delivered => NotBefore(j, a, k, b)

(* The clock lags behind the bars to come, and behind the last event until *)
(* it is advanced to it.                                                   *)
ClockLags ==
  /\ \A k \in Series : \A b \in rest[k] : clock <= Close(k, b)
  /\ pc = "advance" => /\ event # <<>>
                       /\ clock <= Close(event[1], event[2])
  /\ event # <<>> => event \in delivered

(* The view shows bars of the series that closed before the present. *)
ViewIsPast == \A k \in Series : \A b \in revealed[k] : b \in series[k] /\ Close(k, b) < clock

(* When the strategy decides, the view shows all of them. *)
ViewIsFull ==
  pc = "decide" => \A k \in Series : \A b \in series[k] : Close(k, b) < clock => b \in revealed[k]

IInv ==
  /\ TypeOK /\ HeapShape /\ Partition /\ Ordered
  /\ ClockLags /\ ViewIsPast /\ ViewIsFull /\ ClockNeverRegresses
-----------------------------------------------------------------------------
(* First is the least element of a set of naturals. *)
LEMMA FirstIsLeast ==
  ASSUME NEW s, s \subseteq Nat, s # {}
  PROVE  First(s) \in s /\ \A c \in s : First(s) <= c
<1> DEFINE R == {ss \in Nat \X Nat : ss[1] < ss[2]}
<1>1. IsWellFoundedOn(R, Nat)
  <2>1. R = OpToRel(<, Nat)
    BY DEF OpToRel
  <2> QED BY <2>1, NatLessThanWellFounded
<1>2. \E b \in s : \A c \in s : <<c, b>> \notin R
  <2> HIDE DEF R
  <2> QED BY <1>1, WFMin
<1>3. \E b \in s : \A c \in s : b <= c
  <2>1. PICK b \in s : \A c \in s : <<c, b>> \notin R
    BY <1>2
  <2>2. ASSUME NEW c \in s PROVE b <= c
    <3>1. b \in Nat /\ c \in Nat
      OBVIOUS
    <3>2. ~ (c < b)
      <4>1. <<c, b>> \notin R
        BY <2>1
      <4>2. c < b => <<c, b>> \in R
        BY <3>1
      <4> QED BY <4>1, <4>2
    <3> QED BY <3>1, <3>2
  <2> QED BY <2>2
<1> QED BY <1>3 DEF First

(* Closing times are naturals, and later bars of a series close later. *)
LEMMA CloseFacts ==
  ASSUME NEW k \in Series, NEW b \in Nat
  PROVE  /\ Close(k, b) \in Nat /\ b < Close(k, b) /\ Step[k] \in Nat
         /\ \A c \in Nat : b < c => Close(k, b) < Close(k, c)
  BY StepAssumption DEF Close

(* The data of a series is a set of naturals. *)
LEMMA SeriesFacts ==
  ASSUME TypeOK
  PROVE  /\ \A k \in Series : series[k] \subseteq Nat /\ rest[k] \subseteq series[k]
         /\ \A k \in Series : \A b : <<k, b>> \in AllBars <=> b \in series[k]
  BY LoadsAssumption DEF TypeOK, AllBars

(* What a pull does: it delivers a bar that no remaining one sorts before. *)
LEMMA PullFacts ==
  ASSUME IInv, Pull
  PROVE  \E k \in Series : \E b \in rest[k] :
           /\ rest' = [rest EXCEPT ![k] = rest[k] \ {b}]
           /\ delivered' = delivered \cup {<<k, b>>}
           /\ event' = <<k, b>>
           /\ \A j \in Series : \A a \in rest'[j] : NotBefore(k, b, j, a)
           /\ heap' \subseteq [close : Nat, step : Nat, seq : Nat, key : Series]
           /\ pushes' \in Nat
           /\ HeapShape'
<1>1. PICK e \in heap :
        LET k == e.key
            b == First(rest[k])
            left == rest[k] \ {b}
        IN
        /\ \A f \in heap \ {e} : Smaller(e, f)
        /\ rest' = [rest EXCEPT ![k] = left]
        /\ heap' = (heap \ {e}) \cup (IF left = {} THEN {} ELSE {Entry(k, left, pushes + 1)})
        /\ pushes' = (IF left = {} THEN pushes ELSE pushes + 1)
        /\ delivered' = delivered \cup {<<k, b>>}
        /\ event' = <<k, b>>
  BY DEF Pull
<1> DEFINE k == e.key
           b == First(rest[k])
           left == rest[k] \ {b}
<1>2. k \in Series /\ rest[k] # {} /\ rest \in [Series -> SUBSET Nat] /\ pushes \in Nat
  BY DEF IInv, TypeOK, HeapShape
<1>3. b \in rest[k] /\ b \in Nat /\ \A c \in rest[k] : b <= c
  BY <1>2, FirstIsLeast
<1>4. rest' = [rest EXCEPT ![k] = left] /\ \A j \in Series : rest'[j] \subseteq rest[j]
  BY <1>1, <1>2
<1>5. e.close = Close(k, b) /\ e.step = Step[k]
  BY DEF IInv, HeapShape
<1>6. ASSUME NEW j \in Series, NEW a \in rest'[j] PROVE NotBefore(k, b, j, a)
  <2>1. a \in Nat
    BY <1>2, <1>4
  <2>2. CASE j = k
    <3>1. a \in rest[k] /\ a # b
      BY <1>4, <1>2, <2>2
    <3>2. b < a
      BY <3>1, <1>3, <2>1
    <3> QED BY <3>2, <2>1, <2>2, <1>2, <1>3, CloseFacts DEF NotBefore
  <2>3. CASE j # k
    <3>1. a \in rest[j]
      BY <1>4
    <3>2. PICK f \in heap : f.key = j
      BY <3>1 DEF IInv, HeapShape
    <3>3. f.close = Close(j, First(rest[j])) /\ f.step = Step[j] /\ Smaller(e, f)
      BY <3>2, <2>3, <1>1 DEF IInv, HeapShape
    <3>4. First(rest[j]) \in Nat /\ First(rest[j]) <= a
      BY <3>1, <1>2, FirstIsLeast
    <3>5. e.seq \in Nat /\ f.seq \in Nat
      BY DEF IInv, TypeOK
    <3>6. Close(k, b) < f.close \/ (Close(k, b) = f.close /\ Step[k] <= Step[j])
      BY <3>3, <3>5, <1>5, <1>2, StepAssumption DEF Smaller
    <3>7. f.close <= Close(j, a)
      BY <3>3, <3>4, <2>1, StepAssumption DEF Close
    <3>8. Close(k, b) \in Nat /\ f.close \in Nat /\ Close(j, a) \in Nat /\ Step[k] \in Nat /\ Step[j] \in Nat
      BY <1>2, <1>3, <2>1, <3>3, <3>4, CloseFacts
    <3> QED BY <3>6, <3>7, <3>8 DEF NotBefore
  <2> QED BY <2>2, <2>3
<1> DEFINE new == Entry(k, left, pushes + 1)
<1>7. left # {} => /\ new.key = k /\ new.close = Close(k, First(left)) /\ new.step = Step[k]
                   /\ new \in [close : Nat, step : Nat, seq : Nat, key : Series]
  <2> SUFFICES ASSUME left # {} PROVE
        /\ new.key = k /\ new.close = Close(k, First(left)) /\ new.step = Step[k]
        /\ new \in [close : Nat, step : Nat, seq : Nat, key : Series]
    OBVIOUS
  <2>1. First(left) \in Nat
    BY <1>2, FirstIsLeast
  <2>2. Close(k, First(left)) \in Nat /\ Step[k] \in Nat
    BY <1>2, <2>1, CloseFacts
  <2> QED BY <1>2, <2>2 DEF Entry
<1>8. \A f \in heap' : f \in heap \ {e} \/ (left # {} /\ f = new)
  BY <1>1
<1>9. \A f \in heap \ {e} : f \in heap' /\ f.key \in Series /\ f.key # k /\ rest'[f.key] = rest[f.key]
  BY <1>1, <1>2, <1>4 DEF IInv, HeapShape, TypeOK
<1>10. rest'[k] = left
  BY <1>2, <1>4
<1>11. HeapShape'
  <2>1. ASSUME NEW f \in heap'
        PROVE  rest'[f.key] # {} /\ f.close = Close(f.key, First(rest'[f.key])) /\ f.step = Step[f.key]
    <3>1. CASE f \in heap \ {e}
      BY <3>1, <1>9 DEF IInv, HeapShape
    <3>2. CASE left # {} /\ f = new
      BY <3>2, <1>7, <1>10
    <3> QED BY <1>8, <3>1, <3>2
  <2>2. ASSUME NEW f \in heap', NEW g \in heap', f.key = g.key PROVE f = g
    <3>1. CASE f \in heap \ {e} /\ g \in heap \ {e}
      BY <3>1, <2>2 DEF IInv, HeapShape
    <3>2. CASE left # {} /\ f = new /\ g = new
      BY <3>2
    <3>3. CASE f \in heap \ {e} /\ left # {} /\ g = new
      BY <3>3, <2>2, <1>7, <1>9
    <3>4. CASE g \in heap \ {e} /\ left # {} /\ f = new
      BY <3>4, <2>2, <1>7, <1>9
    <3> QED BY <1>8, <3>1, <3>2, <3>3, <3>4
  <2>3. ASSUME NEW j \in Series, rest'[j] # {} PROVE \E f \in heap' : f.key = j
    <3>1. CASE j = k
      <4>1. left # {} /\ new \in heap'
        BY <3>1, <2>3, <1>10, <1>1
      <4> QED BY <4>1, <3>1, <1>7
    <3>2. CASE j # k
      <4>1. PICK f \in heap : f.key = j
        BY <2>3, <1>4 DEF IInv, HeapShape
      <4>2. f \in heap'
        BY <4>1, <3>2, <1>9
      <4> QED BY <4>1, <4>2
    <3> QED BY <3>1, <3>2
  <2> QED BY <2>1, <2>2, <2>3 DEF HeapShape, Close
<1>12. heap' \subseteq [close : Nat, step : Nat, seq : Nat, key : Series] /\ pushes' \in Nat
  BY <1>1, <1>2, <1>7, <1>8 DEF IInv, TypeOK
<1>13. delivered' = delivered \cup {<<k, b>>} /\ event' = <<k, b>>
  BY <1>1
<1>14. rest' = [rest EXCEPT ![k] = rest[k] \ {b}]
  BY <1>4
<1> HIDE DEF k, b, left
<1> QED BY <1>2, <1>3, <1>6, <1>11, <1>12, <1>13, <1>14
-----------------------------------------------------------------------------
(* The invariant holds when the feed and the view are built. *)
LEMMA InitIInv == Init => IInv
<1> SUFFICES ASSUME Init PROVE IInv
  OBVIOUS
<1>1. series \in [Series -> SUBSET Nat] /\ series \in Loads /\ rest = series /\ pushes \in Nat
  BY LoadsAssumption, SeriesAssumption, FS_CardinalityType DEF Init
<1>2. PICK seq \in [Series -> 1 .. pushes] :
        /\ \A j, k \in Series : seq[j] = seq[k] => j = k
        /\ heap = {Entry(k, series[k], seq[k]) : k \in {s \in Series : series[s] # {}}}
  BY DEF Init
<1>3. ASSUME NEW k \in Series, series[k] # {}
      PROVE  /\ Entry(k, series[k], seq[k]).key = k
             /\ Entry(k, series[k], seq[k]).close = Close(k, First(series[k]))
             /\ Entry(k, series[k], seq[k]).step = Step[k]
             /\ Entry(k, series[k], seq[k]) \in [close : Nat, step : Nat, seq : Nat, key : Series]
  <2>1. First(series[k]) \in Nat /\ seq[k] \in Nat
    BY <1>1, <1>2, <1>3, FirstIsLeast
  <2>2. Close(k, First(series[k])) \in Nat /\ Step[k] \in Nat
    BY <2>1, CloseFacts
  <2> QED BY <2>1, <2>2 DEF Entry
<1>4. HeapShape
  <2>1. \A e \in heap : \E k \in Series : series[k] # {} /\ e = Entry(k, series[k], seq[k])
    BY <1>2
  <2>2. \A k \in Series : series[k] # {} => Entry(k, series[k], seq[k]) \in heap
    BY <1>2
  <2> QED BY <1>1, <1>3, <2>1, <2>2 DEF HeapShape
<1>5. TypeOK
  <2>1. heap \subseteq [close : Nat, step : Nat, seq : Nat, key : Series]
    BY <1>2, <1>3
  <2> QED BY <1>1, <2>1 DEF Init, TypeOK
<1>6. Partition /\ Ordered
  BY <1>1 DEF Init, Partition, Ordered
<1>7. ClockLags
  BY <1>1, CloseFacts DEF Init, ClockLags
<1>8. ViewIsPast /\ ViewIsFull /\ ClockNeverRegresses
  BY DEF Init, ViewIsPast, ViewIsFull, ClockNeverRegresses
<1> QED BY <1>4, <1>5, <1>6, <1>7, <1>8 DEF IInv

(* Popping a bar. *)
LEMMA PullStep == ASSUME IInv, Pull PROVE IInv'
<1>1. PICK k \in Series : \E b \in rest[k] :
           /\ rest' = [rest EXCEPT ![k] = rest[k] \ {b}]
           /\ delivered' = delivered \cup {<<k, b>>}
           /\ event' = <<k, b>>
           /\ \A j \in Series : \A a \in rest'[j] : NotBefore(k, b, j, a)
           /\ heap' \subseteq [close : Nat, step : Nat, seq : Nat, key : Series]
           /\ pushes' \in Nat
           /\ HeapShape'
  BY PullFacts
<1>2. PICK b \in rest[k] :
           /\ rest' = [rest EXCEPT ![k] = rest[k] \ {b}]
           /\ delivered' = delivered \cup {<<k, b>>}
           /\ event' = <<k, b>>
           /\ \A j \in Series : \A a \in rest'[j] : NotBefore(k, b, j, a)
           /\ heap' \subseteq [close : Nat, step : Nat, seq : Nat, key : Series]
           /\ pushes' \in Nat
           /\ HeapShape'
  BY <1>1
<1>3. /\ pc = "pull" /\ pc' = "advance"
      /\ UNCHANGED <<series, clock, revealed, bars_processed, signal_opportunities,
                     signals_produced, signals_discarded_during_warmup>>
  BY DEF Pull, time, counters
<1>4. /\ \A j \in Series : series[j] \subseteq Nat /\ rest[j] \subseteq series[j]
      /\ <<k, b>> \in AllBars /\ AllBars' = AllBars
  BY <1>3, SeriesFacts DEF IInv, AllBars
<1>5. rest \in [Series -> SUBSET Nat]
  BY DEF IInv, TypeOK
<1>6. \A j \in Series : rest'[j] = IF j = k THEN rest[k] \ {b} ELSE rest[j]
  BY <1>2, <1>5
<1>7. TypeOK'
  <2>1. rest' \in [Series -> SUBSET Nat] /\ \A j \in Series : rest'[j] \subseteq series'[j]
    BY <1>2, <1>3, <1>4, <1>5, <1>6
  <2>2. delivered' \subseteq AllBars' /\ event' \in delivered' \cup {<<>>}
    BY <1>2, <1>4 DEF IInv, TypeOK
  <2> QED BY <1>2, <1>3, <1>4, <2>1, <2>2 DEF IInv, TypeOK
<1>8. Partition'
  <2> SUFFICES ASSUME NEW j \in Series, NEW a \in series[j]
               PROVE  <<j, a>> \in delivered' <=> a \notin rest'[j]
    BY <1>3 DEF Partition
  <2>1. <<j, a>> \in delivered <=> a \notin rest[j]
    BY DEF IInv, Partition
  <2>2. <<j, a>> \in delivered' <=> (<<j, a>> \in delivered \/ (j = k /\ a = b))
    BY <1>2
  <2>3. a \notin rest'[j] <=> (a \notin rest[j] \/ (j = k /\ a = b))
    BY <1>6
  <2> QED BY <2>1, <2>2, <2>3
<1>9. Ordered'
  BY <1>2, <1>3, <1>6 DEF IInv, Ordered, NotBefore, Close
<1>10. ClockLags'
  <2>1. clock <= Close(k, b)
    BY DEF IInv, ClockLags
  <2>2. event'[1] = k /\ event'[2] = b /\ event' # <<>> /\ event' \in delivered'
    BY <1>2
  <2> QED BY <1>2, <1>3, <1>6, <2>1, <2>2 DEF IInv, ClockLags, Close
<1>11. ViewIsPast' /\ ViewIsFull' /\ ClockNeverRegresses'
  BY <1>3 DEF IInv, ViewIsPast, ViewIsFull, ClockNeverRegresses, Close
<1> QED BY <1>2, <1>7, <1>8, <1>9, <1>10, <1>11 DEF IInv

(* Advancing the clock and the view. *)
LEMMA AdvanceStep == ASSUME IInv, Advance PROVE IInv'
<1> DEFINE close_ts == Close(event[1], event[2])
<1>1. /\ pc = "advance" /\ event \in delivered /\ event # <<>>
      /\ UNCHANGED <<series, rest, heap, pushes, delivered, event, bars_processed,
                     signal_opportunities, signals_produced, signals_discarded_during_warmup>>
  BY DEF Advance, feed, counters, IInv, ClockLags
<1>2. /\ event[1] \in Series /\ event[2] \in series[event[1]] /\ event = <<event[1], event[2]>>
      /\ event[2] \in Nat
  BY <1>1, LoadsAssumption DEF IInv, TypeOK, AllBars
<1>3. close_ts \in Nat /\ clock <= close_ts
  BY <1>1, <1>2, CloseFacts DEF IInv, ClockLags
<1>4. clock \in Int
  BY DEF IInv, TypeOK
<1> HIDE DEF close_ts
<1>5. /\ pc' = "decide" /\ clock' = close_ts
      /\ revealed' = [k \in Series |-> revealed[k] \cup ClosedBefore(k, close_ts)]
  BY <1>3, <1>4 DEF Advance, close_ts
<1>6. \A k \in Series : series[k] \subseteq Nat /\ rest[k] \subseteq series[k]
  BY SeriesFacts DEF IInv
<1>7. \A k \in Series : ClosedBefore(k, close_ts) \subseteq Nat
  BY <1>6 DEF ClosedBefore
<1>8. revealed' \in [Series -> SUBSET Nat]
  BY <1>5, <1>7 DEF IInv, TypeOK
<1>9. TypeOK'
  BY <1>1, <1>3, <1>5, <1>8 DEF IInv, TypeOK, AllBars
<1>10. HeapShape' /\ Partition' /\ Ordered'
  BY <1>1 DEF IInv, HeapShape, Partition, Ordered, NotBefore, Close
<1>11. ClockLags'
  <2>1. ASSUME NEW k \in Series, NEW b \in rest[k] PROVE close_ts <= Close(k, b)
    <3>1. NotBefore(event[1], event[2], k, b)
      BY <1>1, <1>2 DEF IInv, Ordered
    <3>2. Close(k, b) \in Nat
      BY <1>6, CloseFacts
    <3> QED BY <1>3, <3>1, <3>2 DEF NotBefore, close_ts
  <2> QED BY <1>1, <1>5, <2>1 DEF IInv, ClockLags, Close
<1>12. ViewIsPast'
  <2> SUFFICES ASSUME NEW k \in Series, NEW b \in revealed'[k]
               PROVE  b \in series[k] /\ Close(k, b) < close_ts
    BY <1>1, <1>5 DEF ViewIsPast, Close
  <2>1. CASE b \in revealed[k]
    <3>1. b \in series[k] /\ Close(k, b) < clock
      BY <2>1 DEF IInv, ViewIsPast
    <3> QED BY <3>1, <1>3, <1>4, <1>6, CloseFacts
  <2>2. CASE b \in ClosedBefore(k, close_ts)
    BY <2>2 DEF ClosedBefore
  <2> QED BY <1>5, <2>1, <2>2
<1>13. ViewIsFull'
  BY <1>1, <1>5 DEF ViewIsFull, ClosedBefore, Close
<1>14. ClockNeverRegresses'
  BY <1>5 DEF ClockNeverRegresses
<1> QED BY <1>9, <1>10, <1>11, <1>12, <1>13, <1>14 DEF IInv

(* Calling the strategy, and the end, leave the feed, clock and view alone. *)
LEMMA OtherStep == ASSUME IInv, Finish \/ (\E signal \in BOOLEAN : OnData(signal)) PROVE IInv'
<1>1. /\ UNCHANGED <<series, rest, heap, pushes, delivered, event, clock, revealed>>
      /\ pc' \in {"pull", "done"}
  BY DEF Finish, OnData, feed, time
<1>2. /\ bars_processed' \in Nat /\ signal_opportunities' \in Nat
      /\ signals_produced' \in Nat /\ signals_discarded_during_warmup' \in Nat
  BY DEF Finish, OnData, counters, IInv, TypeOK
<1>3. TypeOK'
  BY <1>1, <1>2 DEF IInv, TypeOK, AllBars
<1>4. HeapShape' /\ Partition' /\ Ordered' /\ ViewIsPast'
  BY <1>1 DEF IInv, HeapShape, Partition, Ordered, ViewIsPast, NotBefore, Close
<1>5. ClockLags' /\ ViewIsFull' /\ ClockNeverRegresses'
  BY <1>1 DEF IInv, ClockLags, ViewIsFull, ClockNeverRegresses, Close
<1> QED BY <1>3, <1>4, <1>5 DEF IInv

(* Stuttering. *)
LEMMA StutterStep == ASSUME IInv, UNCHANGED vars PROVE IInv'
  BY DEF vars, feed, time, counters, IInv, TypeOK, HeapShape, Partition, Ordered, ClockLags,
     ViewIsPast, ViewIsFull, ClockNeverRegresses, NotBefore, Close, AllBars

(* The invariant holds throughout. *)
LEMMA IInvAlways == Spec => []IInv
<1>1. IInv /\ [Next]_vars => IInv'
  BY PullStep, AdvanceStep, OtherStep, StutterStep DEF Next
<1> QED BY InitIInv, <1>1, PTL DEF Spec
-----------------------------------------------------------------------------
(* Every variable stays in its type. *)
THEOREM TypeCorrect == Spec => []TypeOK
<1>1. IInv => TypeOK
  BY DEF IInv
<1> QED BY <1>1, IInvAlways, PTL

(* A strategy never sees a bar that has not closed strictly before the     *)
(* simulated present, nor one it was not given before.                     *)
THEOREM LookaheadIsImpossible == Spec => []NoLookahead
<1>1. IInv => NoLookahead
  <2> SUFFICES ASSUME IInv, NEW k \in Series, NEW b \in revealed[k]
               PROVE  Close(k, b) < clock /\ <<k, b>> \in delivered
    BY DEF NoLookahead
  <2>1. b \in series[k] /\ Close(k, b) < clock
    BY DEF IInv, ViewIsPast
  <2>2. b \in Nat /\ clock \in Int
    BY <2>1, SeriesFacts DEF IInv, TypeOK
  <2>3. b \notin rest[k]
    BY <2>1, <2>2, CloseFacts DEF IInv, ClockLags
  <2> QED BY <2>1, <2>3 DEF IInv, Partition
<1> QED BY <1>1, IInvAlways, PTL

(* At every decision the view shows all of the past. *)
THEOREM ViewIsComplete == Spec => []ViewIsCurrent
<1>1. IInv => ViewIsCurrent
  <2> SUFFICES ASSUME IInv, pc = "decide", NEW d \in delivered, Close(d[1], d[2]) < clock
               PROVE  d[2] \in revealed[d[1]]
    BY DEF ViewIsCurrent
  <2>1. d[1] \in Series /\ d[2] \in series[d[1]]
    BY DEF IInv, TypeOK, AllBars
  <2> QED BY <2>1 DEF IInv, ViewIsFull
<1> QED BY <1>1, IInvAlways, PTL

(* The clock is never asked to go back. *)
THEOREM ClockIsMonotone == Spec => []ClockNeverRegresses
<1>1. IInv => ClockNeverRegresses
  BY DEF IInv
<1> QED BY <1>1, IInvAlways, PTL

(* Warm-up bars never produce a signal, every later bar may, and each      *)
(* signal is counted once, for any length of the warm-up.                  *)
THEOREM WarmupStaysSilent == Spec => []WarmupIsSilent
<1>1. Init => WarmupIsSilent
  BY WarmupAssumption DEF Init, WarmupIsSilent
<1>2. ASSUME TypeOK, WarmupIsSilent, [Next]_vars PROVE WarmupIsSilent'
  <2>1. CASE UNCHANGED counters
    BY <1>2, <2>1 DEF counters, WarmupIsSilent
  <2>2. ASSUME NEW signal \in BOOLEAN, OnData(signal) PROVE WarmupIsSilent'
    BY <1>2, <2>2, WarmupAssumption DEF OnData, InWarmup, TypeOK, WarmupIsSilent
  <2>3. UNCHANGED counters \/ \E signal \in BOOLEAN : OnData(signal)
    BY <1>2 DEF Next, Pull, Advance, Finish, vars
  <2> QED BY <2>1, <2>2, <2>3
<1>3. TypeOK /\ WarmupIsSilent /\ [Next]_vars => WarmupIsSilent'
  BY <1>2
<1> QED BY <1>1, <1>3, TypeCorrect, PTL DEF Spec

(* The heap merge implements the abstract feed. *)
THEOREM ReplayImplementsContract == Spec => ImplementsReplay
<1>1. Init => Contract!Init
  BY DEF Init, Contract!Init
<1>2. IInv /\ IInv' /\ [Next]_vars => [Contract!Next]_Contract!vars
  <2> SUFFICES ASSUME IInv, IInv', [Next]_vars PROVE [Contract!Next]_Contract!vars
    OBVIOUS
  <2>1. CASE Pull
    <3>1. PICK k \in Series : \E b \in rest[k] :
            /\ delivered' = delivered \cup {<<k, b>>}
            /\ \A j \in Series : \A a \in rest'[j] : NotBefore(k, b, j, a)
            /\ rest' = [rest EXCEPT ![k] = rest[k] \ {b}]
      BY <2>1, PullFacts
    <3>2. PICK b \in rest[k] :
            /\ delivered' = delivered \cup {<<k, b>>}
            /\ \A j \in Series : \A a \in rest'[j] : NotBefore(k, b, j, a)
            /\ rest' = [rest EXCEPT ![k] = rest[k] \ {b}]
      BY <3>1
    <3>3. series' = series /\ rest \in [Series -> SUBSET Nat]
      BY <2>1 DEF Pull, IInv, TypeOK
    <3>4. \A j \in Series : series[j] \subseteq Nat /\ rest[j] \subseteq series[j]
      BY SeriesFacts DEF IInv
    <3>5. <<k, b>> \notin delivered
      BY <3>4 DEF IInv, Partition
    <3>6. ASSUME NEW j \in Series, NEW a \in series[j], Contract!Earlier(<<j, a>>, <<k, b>>)
          PROVE  <<j, a>> \in delivered
      <4>1. Close(j, a) \in Nat /\ Close(k, b) \in Nat /\ Step[j] \in Nat /\ Step[k] \in Nat
        BY <3>4, CloseFacts
      <4>2. ~ NotBefore(k, b, j, a)
        BY <4>1, <3>6 DEF NotBefore, Contract!Earlier, Contract!CloseOf, Close
      <4>3. a \notin rest'[j]
        BY <3>2, <4>2
      <4>4. <<j, a>> # <<k, b>>
        BY <4>1, <3>6 DEF Contract!Earlier, Contract!CloseOf, Close
      <4>5. a \notin rest[j]
        BY <3>2, <3>3, <4>3, <4>4
      <4> QED BY <4>5 DEF IInv, Partition
    <3>7. \A x \in Contract!Bars : \E j \in Series : \E a \in series[j] : x = <<j, a>>
      BY DEF Contract!Bars
    <3>8. <<k, b>> \in Contract!Bars
      BY <3>4 DEF Contract!Bars
    <3>9. Contract!Deliver(<<k, b>>)
      BY <3>2, <3>3, <3>5, <3>6, <3>7 DEF Contract!Deliver
    <3> QED BY <3>8, <3>9 DEF Contract!Next
  <2>2. CASE Advance \/ Finish \/ (\E signal \in BOOLEAN : OnData(signal)) \/ UNCHANGED vars
    BY <2>2 DEF Advance, Finish, OnData, vars, feed, Contract!vars
  <2> QED BY <2>1, <2>2 DEF Next
<1> QED BY <1>1, <1>2, IInvAlways, PTL DEF Spec, ImplementsReplay, Contract!Spec
=============================================================================
