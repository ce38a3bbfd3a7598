---------------------------- MODULE TradingProofs ----------------------------
(***************************************************************************)
(* What is proved about orders and what their fills do.                    *)
(*                                                                         *)
(* OrderLifecycle for any number of orders and of holders of their copies. *)
(* The invariant: the history of an order is numbered 1 .. n without gaps, *)
(* and every copy is somewhere on it.  So the one row a holder may insert  *)
(* without breaking the unique constraint is the next of the newest copy.  *)
(*                                                                         *)
(* SimulatedExecution for any orders, bars, balances and fee schedules.    *)
(* The arithmetic of apply_fill is settled first, for one position and one *)
(* fill: what booking does to the average and to the cash.  The invariant  *)
(* then only has to say that fills are numbered by their place, and that   *)
(* what is booked was issued.                                              *)
(***************************************************************************)
EXTENDS OrderLifecycle, SimulatedExecution, TLAPS
-----------------------------------------------------------------------------
(* OrderLifecycle. *)

(* No gaps. *)
Contiguous ==
  \A e \in rows : \A k \in 1 .. e.seq : \E d \in rows : d.order = e.order /\ d.seq = k

(* A rebuild works on committed rows of its order. *)
RebuildsCommitted ==
  \A h \in Holders : pc[h] = "rebuilding" => events[h] \subseteq RowsOf(order[h])

LifecycleInv == LifecycleTypeOK /\ HistoryIsLegal /\ Contiguous /\ CopiesWereCommitted /\ RebuildsCommitted

(* What a transition records can be read back. *)
LEMMA LegalTargets ==
  ASSUME NEW t, NEW s \in Legal(t)
  PROVE  s \in Statuses \ {"pending_new"} /\ t \in Statuses \ Terminal
  BY DEF Legal, Statuses, Terminal

LEMMA EventTypeFacts ==
  ASSUME NEW s \in Statuses \ {"pending_new"}
  PROVE  /\ EventTypeFor(s) \in EventTypes /\ EventTypeFor(s) # "created"
         /\ StatusFor(EventTypeFor(s)) = s
<1>1. EventTypeFor(s) \in EventTypes
  BY DEF EventTypes
<1>2. s # "created" /\ s # "cancel_requested"
  BY DEF Statuses
<1> QED BY <1>1, <1>2 DEF EventTypeFor, StatusFor

(* Inserting a row that continues the history of its order. *)
LEMMA InsertKeepsHistory ==
  ASSUME LifecycleInv, NEW e \in Rows, Insertable(e), rows' = rows \cup {e},
         e.type = "created" <=> e.seq = 1,
         e.seq > 1 => \E d \in rows : /\ d.order = e.order /\ d.seq + 1 = e.seq
                                      /\ StatusOfRow(e) \in Legal(StatusOfRow(d))
  PROVE  rows' \subseteq Rows /\ HistoryIsLegal' /\ Contiguous'
<1>1. rows' \subseteq Rows
  BY DEF LifecycleInv, LifecycleTypeOK
<1>2. HistoryIsLegal'
  <2>1. \A f, g \in rows' : f.order = g.order /\ f.seq = g.seq => f = g
    BY DEF LifecycleInv, HistoryIsLegal, Insertable
  <2>2. \A f \in rows' : f.type = "created" <=> f.seq = 1
    BY DEF LifecycleInv, HistoryIsLegal
  <2>3. \A f \in rows' : f.seq > 1 =>
          \E d \in rows' : /\ d.order = f.order /\ d.seq + 1 = f.seq
                           /\ StatusOfRow(f) \in Legal(StatusOfRow(d))
    BY DEF LifecycleInv, HistoryIsLegal
  <2> QED BY <2>1, <2>2, <2>3 DEF HistoryIsLegal
<1>3. Contiguous'
  <2> SUFFICES ASSUME NEW f \in rows', NEW k \in 1 .. f.seq
               PROVE  \E d \in rows' : d.order = f.order /\ d.seq = k
    BY DEF Contiguous
  <2>1. CASE f \in rows
    BY <2>1 DEF LifecycleInv, Contiguous
  <2>2. CASE f = e /\ k = e.seq
    BY <2>2
  <2>3. CASE f = e /\ k # e.seq
    <3>1. e.seq \in 1 .. MaxSeq /\ k \in 1 .. e.seq - 1 /\ e.seq > 1
      BY <2>3, MaxSeqAssumption DEF Rows
    <3>2. PICK d \in rows : d.order = e.order /\ d.seq + 1 = e.seq
      BY <3>1
    <3>3. d.seq \in Int
      BY MaxSeqAssumption DEF LifecycleInv, LifecycleTypeOK, Rows
    <3>4. k \in 1 .. d.seq
      BY <3>1, <3>2, <3>3
    <3> QED BY <2>3, <3>2, <3>4 DEF LifecycleInv, Contiguous
  <2> QED BY <2>1, <2>2, <2>3
<1> QED BY <1>1, <1>2, <1>3
-----------------------------------------------------------------------------
LEMMA InitLifecycleInv == LifecycleInit => LifecycleInv
<1> SUFFICES ASSUME LifecycleInit PROVE LifecycleInv
  OBVIOUS
<1>1. LifecycleTypeOK
  BY OrderIdsAssumption, MaxSeqAssumption DEF LifecycleInit, LifecycleTypeOK, Statuses
<1>2. HistoryIsLegal /\ Contiguous
  BY DEF LifecycleInit, HistoryIsLegal, Contiguous
<1>3. CopiesWereCommitted /\ RebuildsCommitted
  BY DEF LifecycleInit, CopiesWereCommitted, RebuildsCommitted
<1> QED BY <1>1, <1>2, <1>3 DEF LifecycleInv

(* Losing a copy. *)
LEMMA LoseStep ==
  ASSUME LifecycleInv, NEW h \in Holders, Lose(h), UNCHANGED rows
  PROVE  LifecycleInv'
<1>1. LifecycleTypeOK'
  BY MaxSeqAssumption DEF LifecycleInv, LifecycleTypeOK, Lose, Statuses
<1>2. HistoryIsLegal' /\ Contiguous'
  BY DEF LifecycleInv, HistoryIsLegal, Contiguous
<1>3. \A g \in Holders : pc'[g] # "idle" =>
        g # h /\ pc'[g] = pc[g] /\ status'[g] = status[g] /\ seq'[g] = seq[g] /\ events'[g] = events[g]
  BY DEF LifecycleInv, LifecycleTypeOK, Lose
<1>4. CopiesWereCommitted' /\ RebuildsCommitted'
  BY <1>3 DEF LifecycleInv, CopiesWereCommitted, RebuildsCommitted, Lose, RowsOf
<1> QED BY <1>1, <1>2, <1>4 DEF LifecycleInv

LEMMA NewStep ==
  ASSUME LifecycleInv, NEW h \in Holders, NEW o \in OrderIds, New(h, o)
  PROVE  LifecycleInv'
<1> DEFINE e == Event(o, 1, "created")
<1>1. /\ Insertable(e) /\ rows' = rows \cup {e}
      /\ e \in Rows /\ e.seq = 1 /\ e.type = "created" /\ e.order = o
      /\ StatusOfRow(e) = "pending_new"
  BY MaxSeqAssumption DEF New, Event, Rows, Insertable, StatusOfRow
<1> HIDE DEF e
<1>2. rows' \subseteq Rows /\ HistoryIsLegal' /\ Contiguous'
  BY <1>1, InsertKeepsHistory
<1>3. /\ pc' = [pc EXCEPT ![h] = "holding"] /\ order' = [order EXCEPT ![h] = o]
      /\ status' = [status EXCEPT ![h] = "pending_new"] /\ seq' = [seq EXCEPT ![h] = 1]
      /\ events' = events /\ pc[h] = "idle"
  BY DEF New
<1>4. LifecycleTypeOK'
  BY <1>2, <1>3, MaxSeqAssumption DEF LifecycleInv, LifecycleTypeOK, Statuses
<1>5. CopiesWereCommitted'
  BY <1>1, <1>3 DEF LifecycleInv, CopiesWereCommitted, LifecycleTypeOK
<1>6. RebuildsCommitted'
  BY <1>1, <1>3 DEF LifecycleInv, RebuildsCommitted, RowsOf, LifecycleTypeOK
<1> QED BY <1>2, <1>4, <1>5, <1>6 DEF LifecycleInv

(* The event a holder inserts continues the history after the row its copy *)
(* is at.                                                                  *)
LEMMA TransitionFacts ==
  ASSUME LifecycleInv, NEW h \in Holders, NEW s \in Statuses,
         pc[h] = "holding", s \in Legal(status[h]), seq[h] < MaxSeq,
         NEW e, e = Event(order[h], seq[h] + 1, EventTypeFor(s)), Insertable(e)
  PROVE  /\ e \in Rows /\ e.order = order[h] /\ e.seq = seq[h] + 1 /\ e.seq > 1
         /\ e.type # "created" /\ StatusOfRow(e) = s
         /\ \E d \in rows : /\ d.order = e.order /\ d.seq = seq[h] /\ StatusOfRow(d) = status[h]
<1>1. e.order = order[h] /\ e.seq = seq[h] + 1 /\ e.type = EventTypeFor(s)
  BY DEF Event
<1>2. e.type # "created" /\ StatusOfRow(e) = s
  BY <1>1, LegalTargets, EventTypeFacts DEF StatusOfRow
<1>3. PICK d \in rows : d.order = order[h] /\ d.seq = seq[h] /\ StatusOfRow(d) = status[h]
  BY DEF LifecycleInv, CopiesWereCommitted
<1>4. seq[h] \in 1 .. MaxSeq
  BY <1>3 DEF LifecycleInv, LifecycleTypeOK, Rows
<1>5. e \in Rows
  BY <1>1, <1>4, MaxSeqAssumption DEF LifecycleInv, LifecycleTypeOK, Rows, Event, Insertable
<1>6. e.seq > 1
  BY <1>1, <1>4, MaxSeqAssumption
<1> QED BY <1>1, <1>2, <1>3, <1>5, <1>6

LEMMA TransitionStep ==
  ASSUME LifecycleInv, NEW h \in Holders, NEW s \in Statuses, Transition(h, s)
  PROVE  LifecycleInv'
<1> DEFINE e == Event(order[h], seq[h] + 1, EventTypeFor(s))
<1>1. pc[h] = "holding" /\ s \in Legal(status[h]) /\ seq[h] < MaxSeq
  BY DEF Transition
<1>2. CASE ~ Insertable(e)
  BY <1>2, LoseStep DEF Transition
<1>3. CASE Insertable(e)
  <2>1. /\ rows' = rows \cup {e}
        /\ status' = [status EXCEPT ![h] = s] /\ seq' = [seq EXCEPT ![h] = @ + 1]
        /\ UNCHANGED <<pc, order, events>>
    BY <1>3 DEF Transition
  <2>2. /\ e \in Rows /\ e.order = order[h] /\ e.seq = seq[h] + 1 /\ e.seq > 1
        /\ e.type # "created" /\ StatusOfRow(e) = s
        /\ \E d \in rows : d.order = e.order /\ d.seq = seq[h] /\ StatusOfRow(d) = status[h]
    BY <1>1, <1>3, TransitionFacts
  <2> HIDE DEF e
  <2>3. rows' \subseteq Rows /\ HistoryIsLegal' /\ Contiguous'
    <3>1. \E d \in rows : /\ d.order = e.order /\ d.seq + 1 = e.seq
                          /\ StatusOfRow(e) \in Legal(StatusOfRow(d))
      BY <1>1, <2>2
    <3>2. e.seq # 1
      BY <2>2
    <3> QED BY <1>3, <2>1, <2>2, <3>1, <3>2, InsertKeepsHistory
  <2>4. LifecycleTypeOK'
    BY <1>1, <2>1, <2>3, MaxSeqAssumption DEF LifecycleInv, LifecycleTypeOK
  <2>5. CopiesWereCommitted'
    BY <2>1, <2>2 DEF LifecycleInv, CopiesWereCommitted, LifecycleTypeOK
  <2>6. RebuildsCommitted'
    BY <2>1 DEF LifecycleInv, RebuildsCommitted, RowsOf
  <2> QED BY <2>3, <2>4, <2>5, <2>6 DEF LifecycleInv
<1> QED BY <1>2, <1>3

LEMMA StartRebuildStep ==
  ASSUME LifecycleInv, NEW h \in Holders, NEW o \in OrderIds, StartRebuild(h, o)
  PROVE  LifecycleInv'
<1> DEFINE e == Event(o, 1, "created")
<1>1. e \in rows /\ e.seq = 1 /\ e.order = o /\ StatusOfRow(e) = "pending_new"
  BY DEF StartRebuild, Event, StatusOfRow
<1> HIDE DEF e
<1>2. /\ pc' = [pc EXCEPT ![h] = "rebuilding"] /\ order' = [order EXCEPT ![h] = o]
      /\ status' = [status EXCEPT ![h] = "pending_new"] /\ seq' = [seq EXCEPT ![h] = 1]
      /\ events' = [events EXCEPT ![h] = RowsOf(o)] /\ rows' = rows
  BY DEF StartRebuild
<1>3. RowsOf(o) \subseteq Rows
  BY DEF LifecycleInv, LifecycleTypeOK, RowsOf
<1>4. LifecycleTypeOK'
  BY <1>2, <1>3, MaxSeqAssumption DEF LifecycleInv, LifecycleTypeOK, Statuses
<1>5. HistoryIsLegal' /\ Contiguous'
  BY <1>2 DEF LifecycleInv, HistoryIsLegal, Contiguous
<1>6. CopiesWereCommitted'
  BY <1>1, <1>2 DEF LifecycleInv, CopiesWereCommitted, LifecycleTypeOK
<1>7. RebuildsCommitted'
  BY <1>2 DEF LifecycleInv, RebuildsCommitted, RowsOf, LifecycleTypeOK
<1> QED BY <1>4, <1>5, <1>6, <1>7 DEF LifecycleInv

LEMMA ReplayStep ==
  ASSUME LifecycleInv, NEW h \in Holders, NEW e \in events[h], Replay(h, e)
  PROVE  LifecycleInv'
<1>1. rows' = rows /\ pc[h] = "rebuilding"
  BY DEF Replay
<1>2. CASE Lose(h)
  BY <1>1, <1>2, LoseStep
<1>3. CASE ~ Lose(h)
  <2>1. /\ e.type # "created" /\ StatusFor(e.type) \in Legal(status[h])
        /\ status' = [status EXCEPT ![h] = StatusFor(e.type)]
        /\ seq' = [seq EXCEPT ![h] = e.seq]
        /\ UNCHANGED <<pc, order, events>>
    BY <1>3 DEF Replay
  <2>2. e \in rows /\ e.order = order[h] /\ e \in Rows
    BY <1>1 DEF LifecycleInv, RebuildsCommitted, RowsOf, LifecycleTypeOK
  <2>3. StatusFor(e.type) \in Statuses /\ StatusOfRow(e) = StatusFor(e.type)
    BY <2>1, LegalTargets DEF StatusOfRow
  <2>4. LifecycleTypeOK'
    BY <1>1, <2>1, <2>2, <2>3, MaxSeqAssumption DEF LifecycleInv, LifecycleTypeOK, Rows
  <2>5. HistoryIsLegal' /\ Contiguous'
    BY <1>1 DEF LifecycleInv, HistoryIsLegal, Contiguous
  <2>6. CopiesWereCommitted'
    BY <1>1, <2>1, <2>2, <2>3 DEF LifecycleInv, CopiesWereCommitted, LifecycleTypeOK
  <2>7. RebuildsCommitted'
    BY <1>1, <2>1 DEF LifecycleInv, RebuildsCommitted, RowsOf
  <2> QED BY <2>4, <2>5, <2>6, <2>7 DEF LifecycleInv
<1> QED BY <1>2, <1>3

LEMMA EndRebuildStep ==
  ASSUME LifecycleInv, NEW h \in Holders, EndRebuild(h)
  PROVE  LifecycleInv'
<1>1. /\ pc[h] = "rebuilding" /\ pc' = [pc EXCEPT ![h] = "holding"]
      /\ events' = [events EXCEPT ![h] = {}] /\ UNCHANGED <<rows, order, status, seq>>
  BY DEF EndRebuild
<1>2. LifecycleTypeOK'
  BY <1>1 DEF LifecycleInv, LifecycleTypeOK
<1>3. HistoryIsLegal' /\ Contiguous'
  BY <1>1 DEF LifecycleInv, HistoryIsLegal, Contiguous
<1>4. CopiesWereCommitted' /\ RebuildsCommitted'
  BY <1>1 DEF LifecycleInv, CopiesWereCommitted, RebuildsCommitted, RowsOf, LifecycleTypeOK
<1> QED BY <1>2, <1>3, <1>4 DEF LifecycleInv

LEMMA NextLifecycleInv == LifecycleInv /\ [LifecycleNext]_lifecycleVars => LifecycleInv'
<1> SUFFICES ASSUME LifecycleInv, [LifecycleNext]_lifecycleVars PROVE LifecycleInv'
  OBVIOUS
<1>1. CASE UNCHANGED lifecycleVars
  BY <1>1 DEF lifecycleVars, copy, LifecycleInv, LifecycleTypeOK, HistoryIsLegal, Contiguous, CopiesWereCommitted,
              RebuildsCommitted, RowsOf
<1>2. ASSUME NEW h \in Holders, NEW o \in OrderIds, New(h, o) PROVE LifecycleInv'
  BY <1>2, NewStep
<1>3. ASSUME NEW h \in Holders, NEW o \in OrderIds, StartRebuild(h, o) PROVE LifecycleInv'
  BY <1>3, StartRebuildStep
<1>4. ASSUME NEW h \in Holders, NEW s \in Statuses, Transition(h, s) PROVE LifecycleInv'
  BY <1>4, TransitionStep
<1>5. ASSUME NEW h \in Holders, NEW e \in events[h], Replay(h, e) PROVE LifecycleInv'
  BY <1>5, ReplayStep
<1>6. ASSUME NEW h \in Holders, EndRebuild(h) PROVE LifecycleInv'
  BY <1>6, EndRebuildStep
<1>7. ASSUME NEW h \in Holders, Drop(h) PROVE LifecycleInv'
  BY <1>7, LoseStep DEF Drop
<1> QED BY <1>1, <1>2, <1>3, <1>4, <1>5, <1>6, <1>7 DEF LifecycleNext

LEMMA LifecycleInvAlways == LifecycleSpec => []LifecycleInv
  BY InitLifecycleInv, NextLifecycleInv, PTL DEF LifecycleSpec

(* Every variable of the holders and the table stays in its type. *)
THEOREM CopiesTypeCorrect == LifecycleSpec => []LifecycleTypeOK
<1>1. LifecycleInv => LifecycleTypeOK
  BY DEF LifecycleInv
<1> QED BY <1>1, LifecycleInvAlways, PTL

(* However many holders write from stale copies, the history of an order   *)
(* is one legal path.                                                      *)
THEOREM HistoryStaysLegal == LifecycleSpec => []HistoryIsLegal
<1>1. LifecycleInv => HistoryIsLegal
  BY DEF LifecycleInv
<1> QED BY <1>1, LifecycleInvAlways, PTL

(* Every copy, live or rebuilt, is the order as it was once committed.     *)
THEOREM CopiesAreCommitted == LifecycleSpec => []CopiesWereCommitted
<1>1. LifecycleInv => CopiesWereCommitted
  BY DEF LifecycleInv
<1> QED BY <1>1, LifecycleInvAlways, PTL
-----------------------------------------------------------------------------
(* The last row of an order determines its status. *)
LEMMA LastIsUnique ==
  ASSUME NEW R, R \subseteq Rows, NEW e \in R,
         \A f \in R : f.order = e.order => f.seq <= e.seq,
         \A f \in R : f.order = e.order /\ f.seq = e.seq => f = e
  PROVE  (CHOOSE f \in {g \in R : g.order = e.order} :
            \A g \in R : g.order = f.order => g.seq <= f.seq) = e
<1>1. \A f \in R : f.seq \in Int
  BY MaxSeqAssumption DEF Rows
<1>2. ASSUME NEW f \in R, f.order = e.order, \A g \in R : g.order = f.order => g.seq <= f.seq
      PROVE  f = e
  <2>1. f.seq <= e.seq /\ e.seq <= f.seq
    BY <1>2
  <2>2. f.seq = e.seq
    BY <1>1, <2>1
  <2> QED BY <1>2, <2>2
<1> QED BY <1>2

LEMMA StatusOfLast ==
  ASSUME rows \subseteq Rows, HistoryIsLegal, NEW e \in rows,
         \A f \in rows : f.order = e.order => f.seq <= e.seq
  PROVE  StatusNow(e.order) = StatusOfRow(e)
<1>1. (CHOOSE f \in RowsOf(e.order) : IsLast(f)) = e
  BY LastIsUnique DEF HistoryIsLegal, RowsOf, IsLast
<1>2. RowsOf(e.order) # {}
  BY DEF RowsOf
<1> QED BY <1>1, <1>2 DEF StatusNow

(* An inserted row becomes the last of its order, and of no other. *)
LEMMA InsertedIsLast ==
  ASSUME LifecycleInv, NEW e \in Rows, Insertable(e), rows' = rows \cup {e}, HistoryIsLegal',
         rows' \subseteq Rows
  PROVE  /\ [o \in OrderIds |-> StatusNow(o)'] =
              [[o \in OrderIds |-> StatusNow(o)] EXCEPT ![e.order] = StatusOfRow(e)]
         /\ \A f \in rows : f.order = e.order => f.seq < e.seq
<1>1. ASSUME NEW f \in rows, f.order = e.order PROVE f.seq < e.seq
  <2>1. f.seq \in Int /\ e.seq \in Int /\ e.seq >= 1
    BY MaxSeqAssumption DEF LifecycleInv, LifecycleTypeOK, Rows
  <2>2. ASSUME e.seq <= f.seq PROVE FALSE
    <3>1. PICK d \in rows : d.order = f.order /\ d.seq = e.seq
      BY <2>1, <2>2 DEF LifecycleInv, Contiguous
    <3> QED BY <1>1, <3>1 DEF Insertable
  <2> QED BY <2>1, <2>2
<1>2. e.order \in OrderIds
  BY DEF Rows
<1>3. StatusNow(e.order)' = StatusOfRow(e)
  <2>1. \A f \in rows' : f.seq \in Int
    BY MaxSeqAssumption DEF Rows
  <2>2. \A f \in rows' : f.order = e.order => f.seq <= e.seq
    BY <1>1, <2>1
  <2>3. \A f \in rows' : f.order = e.order /\ f.seq = e.seq => f = e
    BY DEF HistoryIsLegal
  <2> DEFINE last == CHOOSE f \in {g \in rows' : g.order = e.order} :
                       \A g \in rows' : g.order = f.order => g.seq <= f.seq
  <2>4. last = e
    <3> HIDE DEF last
    <3>1. e \in rows'
      OBVIOUS
    <3> QED BY <2>2, <2>3, <3>1, LastIsUnique DEF last
  <2>5. {g \in rows' : g.order = e.order} # {}
    OBVIOUS
  <2> QED BY <2>4, <2>5 DEF StatusNow, RowsOf, IsLast
<1>4. ASSUME NEW o \in OrderIds, o # e.order PROVE StatusNow(o)' = StatusNow(o)
  <2>1. {g \in rows' : g.order = o} = {g \in rows : g.order = o}
    BY <1>4
  <2>2. ASSUME NEW f \in {g \in rows : g.order = o}
        PROVE  (\A g \in rows' : g.order = f.order => g.seq <= f.seq)
                 <=> (\A g \in rows : g.order = f.order => g.seq <= f.seq)
    BY <1>4
  <2>3. (CHOOSE f \in {g \in rows' : g.order = o} :
            \A g \in rows' : g.order = f.order => g.seq <= f.seq)
        = (CHOOSE f \in {g \in rows : g.order = o} :
            \A g \in rows : g.order = f.order => g.seq <= f.seq)
    BY <2>1, <2>2
  <2> DEFINE Last(S, R) == CHOOSE f \in S : \A g \in R : g.order = f.order => g.seq <= f.seq
             mine == {g \in rows : g.order = o}
  <2>4. StatusNow(o) = IF mine = {} THEN "absent" ELSE StatusOfRow(Last(mine, rows))
    BY DEF StatusNow, RowsOf, IsLast
  <2>5. StatusNow(o)' = IF mine' = {} THEN "absent" ELSE StatusOfRow(Last(mine', rows'))
    BY DEF StatusNow, RowsOf, IsLast
  <2>6. mine' = mine /\ Last(mine', rows') = Last(mine, rows)
    BY <2>1, <2>3
  <2> HIDE DEF mine, Last
  <2> QED BY <2>4, <2>5, <2>6
<1> QED BY <1>1, <1>2, <1>3, <1>4

LEMMA SameGraph ==
  /\ \A s : Contract!Legal(s) = Legal(s)
  /\ Contract!Statuses = Statuses /\ Contract!Terminal = Terminal
  BY DEF Contract!Legal, Legal, Contract!Statuses, Statuses, Contract!Terminal, Terminal

(* Every step of the holders is a step of the contract, or invisible. *)
LEMMA TransitionsRefine ==
  ASSUME LifecycleInv, LifecycleInv', [LifecycleNext]_lifecycleVars
  PROVE  [Contract!Next]_([o \in OrderIds |-> StatusNow(o)])
<1> DEFINE statuses == [o \in OrderIds |-> StatusNow(o)]
<1>1. CASE rows' = rows
  BY <1>1 DEF StatusNow, RowsOf, IsLast
<1>2. ASSUME NEW h \in Holders, NEW o \in OrderIds, New(h, o)
      PROVE  Contract!Create(o)
  <2> DEFINE e == Event(o, 1, "created")
  <2>1. /\ Insertable(e) /\ rows' = rows \cup {e} /\ e \in Rows /\ e.order = o /\ e.seq = 1
        /\ StatusOfRow(e) = "pending_new"
    BY <1>2, MaxSeqAssumption DEF New, Event, Rows, Insertable, StatusOfRow
  <2> HIDE DEF e
  <2>2. /\ [p \in OrderIds |-> StatusNow(p)'] = [statuses EXCEPT ![o] = "pending_new"]
        /\ \A f \in rows : f.order = o => f.seq < 1
    BY <2>1, InsertedIsLast DEF LifecycleInv, LifecycleTypeOK
  <2>3. RowsOf(o) = {}
    BY <2>2, MaxSeqAssumption DEF RowsOf, LifecycleInv, LifecycleTypeOK, Rows
  <2> QED BY <2>2, <2>3 DEF Contract!Create, StatusNow
<1>3. ASSUME NEW h \in Holders, NEW s \in Statuses, Transition(h, s), rows' # rows
      PROVE  Contract!Transition(order[h], s)
  <2> DEFINE e == Event(order[h], seq[h] + 1, EventTypeFor(s))
  <2>1. /\ pc[h] = "holding" /\ s \in Legal(status[h]) /\ seq[h] < MaxSeq
        /\ Insertable(e) /\ rows' = rows \cup {e}
    BY <1>3 DEF Transition
  <2>2. /\ e \in Rows /\ e.order = order[h] /\ e.seq = seq[h] + 1 /\ StatusOfRow(e) = s
        /\ \E d \in rows : d.order = e.order /\ d.seq = seq[h] /\ StatusOfRow(d) = status[h]
    BY <2>1, TransitionFacts
  <2> HIDE DEF e
  <2>3. /\ [p \in OrderIds |-> StatusNow(p)'] = [statuses EXCEPT ![order[h]] = s]
        /\ \A f \in rows : f.order = order[h] => f.seq < seq[h] + 1
    BY <2>1, <2>2, InsertedIsLast DEF LifecycleInv, LifecycleTypeOK
  <2>4. PICK d \in rows : d.order = order[h] /\ d.seq = seq[h] /\ StatusOfRow(d) = status[h]
    BY <2>2
  <2>5. \A f \in rows : f.seq \in Int
    BY MaxSeqAssumption DEF LifecycleInv, LifecycleTypeOK, Rows
  <2>6. \A f \in rows : f.order = d.order => f.seq <= d.seq
    BY <2>3, <2>4, <2>5
  <2>7. StatusNow(order[h]) = status[h] /\ order[h] \in OrderIds
    BY <2>4, <2>6, StatusOfLast DEF LifecycleInv, LifecycleTypeOK
  <2>8. statuses[order[h]] = status[h]
    BY <2>7
  <2>9. status[h] \in Statuses \ Terminal
    BY <2>1, LegalTargets
  <2> HIDE DEF statuses
  <2> QED BY <2>1, <2>3, <2>8, <2>9, SameGraph DEF Contract!Transition, statuses
<1>4. CASE rows' # rows
  <2>1. PICK h \in Holders : (\E o \in OrderIds : New(h, o)) \/ (\E s \in Statuses : Transition(h, s))
    BY <1>4 DEF LifecycleNext, lifecycleVars, StartRebuild, Replay, EndRebuild, Drop
  <2>2. CASE \E o \in OrderIds : New(h, o)
    BY <1>2, <2>2 DEF Contract!Next
  <2>3. CASE \E s \in Statuses : Transition(h, s)
    <3>1. order[h] \in OrderIds
      BY DEF LifecycleInv, LifecycleTypeOK
    <3> QED BY <1>3, <1>4, <2>3, <3>1, SameGraph DEF Contract!Next
  <2> QED BY <2>1, <2>2, <2>3
<1> QED BY <1>1, <1>4

(* Any number of holders of stale copies implement the state machine of    *)
(* one order per identity.                                                 *)
THEOREM HoldersImplementContract == LifecycleSpec => ImplementsContract
<1>1. LifecycleInit => Contract!Init
  BY DEF LifecycleInit, Contract!Init, StatusNow, RowsOf
<1>2. LifecycleInv /\ LifecycleInv' /\ [LifecycleNext]_lifecycleVars => [Contract!Next]_([o \in OrderIds |-> StatusNow(o)])
  BY TransitionsRefine
<1> QED BY <1>1, <1>2, LifecycleInvAlways, PTL DEF LifecycleSpec, ImplementsContract, Contract!Spec
-----------------------------------------------------------------------------
(* SimulatedExecution. *)
-----------------------------------------------------------------------------
(* Integer arithmetic. *)

LEMMA DivBounds ==
  ASSUME NEW a \in Int, NEW b \in Int, NEW x \in Int, NEW d \in Nat \ {0}, a * d =< x, x =< b * d
  PROVE  x \div d \in Int /\ a =< x \div d /\ x \div d =< b
<1> DEFINE q == x \div d
<1>1. q \in Int /\ d * q =< x /\ x < d * q + d
  OBVIOUS
<1>2. ASSUME q < a PROVE FALSE
  <2>1. q + 1 =< a BY <1>1, <1>2
  <2>2. (q + 1) * d =< a * d BY <2>1, <1>1
  <2>3. (q + 1) * d = d * q + d BY <1>1
  <2> QED BY <2>2, <2>3, <1>1
<1>3. ASSUME b < q PROVE FALSE
  <2>1. b + 1 =< q BY <1>1, <1>3
  <2>2. (b + 1) * d =< d * q BY <2>1, <1>1
  <2>3. (b + 1) * d = b * d + d BY <1>1
  <2> QED BY <2>2, <2>3, <1>1
<1> QED BY <1>1, <1>2, <1>3

LEMMA DivFloor ==
  ASSUME NEW x \in Nat, NEW d \in Nat \ {0}
  PROVE  x \div d \in Nat /\ (x \div d) * d =< x
<1>1. x \div d \in Int /\ d * (x \div d) =< x /\ x < d * (x \div d) + d
  OBVIOUS
<1>2. ASSUME x \div d < 0 PROVE FALSE
  <2>1. d * (x \div d) + d =< 0
    BY <1>1, <1>2
  <2> QED BY <1>1, <2>1
<1> QED BY <1>1, <1>2

(* A mean of two values lies where both lie. *)
LEMMA MeanBounds ==
  ASSUME NEW a \in Int, NEW b \in Int, NEW x \in Int, NEW y \in Int,
         NEW m \in Nat, NEW n \in Nat \ {0}, a =< x, x =< b, a =< y, y =< b
  PROVE  Mean(m, x, n, y) \in Int /\ a =< Mean(m, x, n, y) /\ Mean(m, x, n, y) =< b
<1>1. a * (m + n) = m * a + n * a /\ b * (m + n) = m * b + n * b
  OBVIOUS
<1>2. m * a =< m * x /\ n * a =< n * y
  OBVIOUS
<1>3. m * x =< m * b /\ n * y =< n * b
  OBVIOUS
<1>4. a * (m + n) =< m * x + n * y /\ m * x + n * y =< b * (m + n)
  BY <1>1, <1>2, <1>3
<1>5. m * x + n * y \in Int /\ m + n \in Nat \ {0}
  OBVIOUS
<1> QED BY <1>4, <1>5, DivBounds DEF Mean

-----------------------------------------------------------------------------
(* One fill booked into one position. *)

PositionType(p) == p.qty \in Int /\ p.avg_entry \in Nat /\ p.realized_pnl \in Int
FillType(f) == f.side \in {"buy", "sell"} /\ f.qty \in Nat \ {0} /\ f.price \in Nat \ {0} /\ f.fee \in Nat

LEMMA SignedFacts ==
  ASSUME NEW f, FillType(f)
  PROVE  /\ SignedQty(f) \in Int \ {0}
         /\ SignedQty(f) > 0 => SignedQty(f) = f.qty
         /\ ~(SignedQty(f) > 0) => SignedQty(f) = -f.qty
BY DEF FillType, SignedQty

LEMMA AbsFacts ==
  ASSUME NEW n \in Int
  PROVE  Abs(n) \in Nat /\ (n >= 0 => Abs(n) = n) /\ (n =< 0 => Abs(n) = -n)
BY DEF Abs

(* A position that is opened or increased averages between its average and *)
(* the price of the fill; a flat one takes the price.                      *)
LEMMA AverageFacts ==
  ASSUME NEW p, NEW f, PositionType(p), FillType(f)
  PROVE  /\ WeightedAverage(p, f) \in Nat
         /\ p.qty = 0 => WeightedAverage(p, f) = f.price
         /\ \A low \in Nat :
              low =< p.avg_entry /\ low =< f.price => low =< WeightedAverage(p, f)
         /\ \A high \in Nat :
              p.avg_entry =< high /\ f.price =< high => WeightedAverage(p, f) =< high
<1> DEFINE avg == WeightedAverage(p, f)
<1>1. Abs(p.qty) \in Nat
  BY AbsFacts DEF PositionType
<1>2. p.avg_entry \in Nat /\ f.price \in Nat /\ f.qty \in Nat \ {0}
  BY DEF PositionType, FillType
<1>3. ASSUME NEW low \in Nat, NEW high \in Nat, low =< p.avg_entry, low =< f.price,
             p.avg_entry =< high, f.price =< high
      PROVE  avg \in Int /\ low =< avg /\ avg =< high
  <2>1. low \in Int /\ high \in Int /\ p.avg_entry \in Int /\ f.price \in Int
    BY <1>2
  <2>2. LET mean == Mean(Abs(p.qty), p.avg_entry, f.qty, f.price)
        IN  mean \in Int /\ low =< mean /\ mean =< high
    BY <1>1, <1>2, <1>3, <2>1, MeanBounds, Zenon
  <2> QED BY <2>2 DEF WeightedAverage
<1>4. 0 =< p.avg_entry /\ 0 =< f.price
  BY <1>2
<1>5. p.avg_entry =< p.avg_entry + f.price /\ f.price =< p.avg_entry + f.price /\ p.avg_entry + f.price \in Nat
  BY <1>2
<1>6. avg \in Nat
  <2>1. avg \in Int /\ 0 =< avg BY <1>3, <1>4, <1>5
  <2> QED BY <2>1
<1>7. ASSUME p.qty = 0 PROVE avg = f.price
  <2>1. avg = (0 * p.avg_entry + f.qty * f.price) \div (0 + f.qty)
    BY <1>7 DEF WeightedAverage, Mean, Abs
  <2>2. 0 * p.avg_entry + f.qty * f.price \in Int /\ 0 + f.qty \in Nat \ {0} /\ f.price \in Int
    BY <1>2
  <2>3. f.price * (0 + f.qty) = 0 * p.avg_entry + f.qty * f.price
    BY <1>2
  <2>4. f.price =< avg /\ avg =< f.price
    BY <2>1, <2>2, <2>3, DivBounds
  <2> QED BY <2>4, <1>2, <1>6
<1>8. \A low \in Nat : low =< p.avg_entry /\ low =< f.price => low =< avg
  BY <1>3, <1>5
<1>9. \A high \in Nat : p.avg_entry =< high /\ f.price =< high => avg =< high
  <2> SUFFICES ASSUME NEW high \in Nat, p.avg_entry =< high, f.price =< high PROVE avg =< high
    OBVIOUS
  <2> QED BY <1>3, <1>4
<1> QED BY <1>6, <1>7, <1>8, <1>9

LEMMA BookType ==
  ASSUME NEW p, NEW f, PositionType(p), FillType(f)
  PROVE  PositionType(Book(p, f))
<1> DEFINE b == Book(p, f)
<1>1. b.qty \in Int
  BY SignedFacts DEF Book, PositionType
<1>2. b.avg_entry \in Nat
  <2>1. WeightedAverage(p, f) \in Nat BY AverageFacts
  <2>2. Abs(p.qty) \in Int BY AbsFacts DEF PositionType
  <2>3. AverageAfterClosing(p, f) \in Nat
    BY <2>2 DEF AverageAfterClosing, PositionType, FillType
  <2> QED BY <2>1, <2>3 DEF Book
<1>3. b.realized_pnl \in Int
  <2>1. ClosingQty(p, f) \in Int BY AbsFacts DEF ClosingQty, PositionType, FillType
  <2>2. PricePnl(p, f) \in Int BY <2>1 DEF PricePnl, PositionType, FillType
  <2> QED BY <2>2 DEF Book, PositionType, FillType
<1> QED BY <1>1, <1>2, <1>3 DEF PositionType

(* Booking moves the cash by the price and the fee of the fill, whether it *)
(* opens, increases, reduces, closes or turns the position around.         *)
LEMMA BookCash ==
  ASSUME NEW p, NEW f, PositionType(p), FillType(f), ExactAverage(p, f)
  PROVE  CashOf(Book(p, f)) = CashOf(p) - SignedQty(f) * f.price - f.fee
<1> DEFINE q == p.qty
           a == p.avg_entry
           n == f.qty
           x == f.price
           b == Book(p, f)
<1>1. q \in Int /\ a \in Int /\ p.realized_pnl \in Int /\ n \in Nat \ {0} /\ x \in Int /\ f.fee \in Int
  BY DEF PositionType, FillType
<1>2. b.qty = q + SignedQty(f) /\ b.realized_pnl = p.realized_pnl + (PricePnl(p, f) - f.fee)
  BY DEF Book
<1>3. SUFFICES PricePnl(p, f) - (q + SignedQty(f)) * b.avg_entry = -(q * a) - SignedQty(f) * x
  <2>1. PricePnl(p, f) \in Int
    BY <1>1, AbsFacts DEF PricePnl, ClosingQty
  <2>2. b.avg_entry \in Int
    BY BookType DEF PositionType
  <2>3. SignedQty(f) \in Int
    BY SignedFacts
  <2>4. (q + SignedQty(f)) * b.avg_entry \in Int /\ q * a \in Int /\ SignedQty(f) * x \in Int
    BY <1>1, <2>2, <2>3
  <2> QED BY <1>1, <1>2, <2>1, <2>4 DEF CashOf
<1>4. CASE SameDirection(p, f)
  <2> DEFINE w == WeightedAverage(p, f)
  <2>1. b.avg_entry = w /\ PricePnl(p, f) = 0 /\ w \in Int
    BY <1>4, AverageFacts DEF Book, PricePnl
  <2>2. (Abs(q) + n) * w = Abs(q) * a + n * x
    BY <1>4 DEF ExactAverage
  <2>3. CASE SignedQty(f) > 0
    <3>1. SignedQty(f) = n /\ Abs(q) = q
      BY <1>1, <1>4, <2>3, SignedFacts, AbsFacts DEF SameDirection
    <3> QED BY <1>1, <2>1, <2>2, <3>1
  <2>4. CASE ~(SignedQty(f) > 0)
    <3>1. SignedQty(f) = -n /\ Abs(q) = -q
      BY <1>1, <1>4, <2>4, SignedFacts, AbsFacts DEF SameDirection
    <3>2. (q + -n) * w = -((-q + n) * w) /\ (-q) * a = -(q * a) /\ (-n) * x = -(n * x)
      BY <1>1, <2>1
    <3> QED BY <1>1, <2>1, <2>2, <3>1, <3>2
  <2> QED BY <2>3, <2>4
<1>5. CASE ~SameDirection(p, f)
  <2>1. /\ n * (x - a) = n * x - n * a
        /\ q * (x - a) = q * x - q * a
        /\ (q + n) * a = q * a + n * a /\ (q + -n) * a = q * a - n * a
        /\ (q + n) * x = q * x + n * x /\ (q + -n) * x = q * x - n * x
        /\ (-n) * x = -(n * x) /\ (-q) * (x - a) = -(q * (x - a))
    BY <1>1
  <2>2. b.avg_entry = AverageAfterClosing(p, f)
    BY <1>5 DEF Book
  <2>3. CASE q > 0
    <3>1. SignedQty(f) = -n /\ Abs(q) = q
      BY <1>1, <1>5, <2>3, SignedFacts, AbsFacts DEF SameDirection
    <3>2. PricePnl(p, f) = ClosingQty(p, f) * (x - a)
      BY <1>5, <2>3 DEF PricePnl
    <3>3. CASE n < q
      <4>1. b.avg_entry = a /\ ClosingQty(p, f) = n
        BY <1>1, <2>2, <3>1, <3>3 DEF AverageAfterClosing, ClosingQty
      <4> QED BY <1>1, <2>1, <3>1, <3>2, <4>1
    <3>4. CASE n = q
      <4>1. b.avg_entry = 0 /\ ClosingQty(p, f) = q
        BY <1>1, <2>2, <3>1, <3>4 DEF AverageAfterClosing, ClosingQty
      <4> QED BY <1>1, <2>1, <3>1, <3>2, <3>4, <4>1
    <3>5. CASE n > q
      <4>1. b.avg_entry = x /\ ClosingQty(p, f) = q
        BY <1>1, <2>2, <3>1, <3>5 DEF AverageAfterClosing, ClosingQty
      <4> QED BY <1>1, <2>1, <3>1, <3>2, <4>1
    <3> QED BY <1>1, <3>3, <3>4, <3>5
  <2>4. CASE q < 0
    <3>1. SignedQty(f) = n /\ Abs(q) = -q
      BY <1>1, <1>5, <2>4, SignedFacts, AbsFacts DEF SameDirection
    <3>2. PricePnl(p, f) = -(ClosingQty(p, f) * (x - a))
      BY <1>1, <1>5, <2>4 DEF PricePnl
    <3>3. CASE n < -q
      <4>1. b.avg_entry = a /\ ClosingQty(p, f) = n
        BY <1>1, <2>2, <3>1, <3>3 DEF AverageAfterClosing, ClosingQty
      <4> QED BY <1>1, <2>1, <3>1, <3>2, <4>1
    <3>4. CASE n = -q
      <4>1. b.avg_entry = 0 /\ ClosingQty(p, f) = n /\ q = -n
        BY <1>1, <2>2, <3>1, <3>4 DEF AverageAfterClosing, ClosingQty
      <4>2. PricePnl(p, f) = n * a - n * x
        <5>1. PricePnl(p, f) = -(n * (x - a)) BY <3>2, <4>1
        <5> QED BY <1>1, <2>1, <5>1
      <4>3. (q + SignedQty(f)) * b.avg_entry = 0
        BY <1>1, <3>1, <4>1
      <4>4. q * a = -(n * a)
        <5>1. (-n) * a = -(n * a) BY <1>1
        <5> QED BY <4>1, <5>1
      <4>5. SignedQty(f) * x = n * x
        BY <3>1
      <4> QED BY <1>1, <4>2, <4>3, <4>4, <4>5
    <3>5. CASE n > -q
      <4>1. b.avg_entry = x /\ ClosingQty(p, f) = -q
        BY <1>1, <2>2, <3>1, <3>5 DEF AverageAfterClosing, ClosingQty
      <4>2. PricePnl(p, f) = q * x - q * a
        <5>1. PricePnl(p, f) = -((-q) * (x - a)) BY <3>2, <4>1
        <5>2. (-q) * (x - a) = q * a - q * x BY <1>1
        <5> QED BY <1>1, <5>1, <5>2
      <4>3. (q + SignedQty(f)) * b.avg_entry = q * x + n * x
        BY <2>1, <3>1, <4>1
      <4>4. SignedQty(f) * x = n * x
        BY <3>1
      <4> QED BY <1>1, <4>2, <4>3, <4>4
    <3> QED BY <1>1, <3>3, <3>4, <3>5
  <2> QED BY <1>1, <1>5, <2>3, <2>4 DEF SameDirection
<1> QED BY <1>4, <1>5

-----------------------------------------------------------------------------
(* The fills. *)

(* A fill is identified by its place. *)
FillsNumbered == \A i \in DOMAIN fills : fills[i].id = i

(* No order is filled beyond its quantity. *)
NotOverfilled == \A o \in Orders : filled[o] =< Qty[o]

IInv == TypeOK /\ FillsNumbered /\ NotOverfilled /\ EntryIsFair /\ FundingOnGrid

LEMMA AppendFacts ==
  ASSUME NEW S, NEW s \in Seq(S), NEW e \in S
  PROVE  /\ Append(s, e) \in Seq(S) /\ Len(Append(s, e)) = Len(s) + 1
         /\ Append(s, e)[Len(s) + 1] = e /\ \A i \in DOMAIN s : Append(s, e)[i] = s[i]
         /\ DOMAIN s \subseteq DOMAIN Append(s, e)
         /\ \A i \in DOMAIN Append(s, e) : i \in DOMAIN s \/ i = Len(s) + 1
OBVIOUS

LEMMA FillsAreTyped ==
  ASSUME TypeOK, NEW i \in DOMAIN fills
  PROVE  FillType(fills[i])
<1>1. fills[i] \in FillRecords
  BY DEF TypeOK
<1> QED BY <1>1 DEF FillRecords, FillType

(* What one call of simulate_fill fills, and at what price. *)
LEMMA NewFillFacts ==
  ASSUME TypeOK, NotOverfilled, NEW o \in Orders, Liquid(o), LargeEnough(o)
  PROVE  /\ NewFill(o) \in FillRecords /\ NewFill(o).id = Len(fills) + 1
         /\ Fillable(o) \in Nat \ {0} /\ Fillable(o) =< Remaining(o)
<1>1. Remaining(o) \in Nat
  BY OrdersAssumption DEF Remaining, TypeOK, NotOverfilled
<1>2. market.volume \in Nat /\ market.open \in Nat
  BY MarketAssumption DEF TypeOK
<1>3. (market.volume * FractionNum) \div FractionDen \in Int
  BY <1>2, MarketAssumption
<1>4. Fillable(o) \in Nat \ {0} /\ Fillable(o) =< Remaining(o)
  BY <1>1, <1>3 DEF Fillable, Liquid
<1>5. FillPrice(o) \in Int
  <2>1. Spread \div 2 \in Int
    BY MarketAssumption
  <2>2. market.volume > 0 => (Remaining(o) * Volatility) \div market.volume \in Int
    BY <1>1, <1>2, MarketAssumption
  <2>3. Slippage(o) \in Int
    BY <1>2, <2>1, <2>2 DEF Slippage
  <2> QED BY <1>2, <2>3 DEF FillPrice
<1>6. FillPrice(o) \in Nat \ {0} /\ Notional(o) \in Nat
  <2>1. Fillable(o) * FillPrice(o) > 0
    BY <1>4, <1>5, InstrumentAssumption DEF LargeEnough, Notional
  <2>2. ASSUME FillPrice(o) =< 0 PROVE FALSE
    <3>1. Fillable(o) * FillPrice(o) =< 0 BY <1>4, <1>5, <2>2
    <3> QED BY <1>4, <1>5, <2>1, <3>1
  <2>3. FillPrice(o) \in Nat \ {0}
    BY <1>5, <2>2
  <2> QED BY <1>4, <2>3 DEF Notional
<1>7. Fee(o) \in Nat
  <2> DEFINE tier == CHOOSE t \in Tiers : IsTierFor(t, TradedVolume[o])
             rate == IF IsMaker[o] THEN tier.maker ELSE tier.taker
  <2>1. tier \in Tiers
    BY FeeScheduleAssumption
  <2>2. rate \in Nat
    BY <2>1, FeeScheduleAssumption
  <2> HIDE DEF rate
  <2>3. Notional(o) * rate \in Nat
    BY <1>6, <2>2
  <2>4. (Notional(o) * rate) \div RateScale \in Nat
    BY <2>3, FeeScheduleAssumption
  <2> QED BY <2>4 DEF Fee, rate
<1>8. Side[o] \in {"buy", "sell"} /\ Len(fills) \in Nat
  BY OrdersAssumption DEF TypeOK
<1> QED BY <1>4, <1>6, <1>7, <1>8 DEF NewFill, FillRecords

-----------------------------------------------------------------------------
(* The invariant. *)

LEMMA InitIInv == Init => IInv
<1> SUFFICES ASSUME Init PROVE IInv
  OBVIOUS
<1>1. TypeOK
  <2>1. fills \in Seq(FillRecords) /\ funding \in Seq([at : Nat, amount : Int])
    BY DEF Init
  <2>2. position \in [qty : Int, avg_entry : Nat, realized_pnl : Int, applied : SUBSET DOMAIN fills]
    BY DEF Init, Flat
  <2> QED BY <2>1, <2>2 DEF Init, TypeOK
<1>2. FillsNumbered
  BY DEF Init, FillsNumbered
<1>3. NotOverfilled
  BY OrdersAssumption DEF Init, NotOverfilled
<1>4. EntryIsFair
  BY DEF Init, Flat, EntryIsFair
<1>5. FundingOnGrid
  <2>1. Len(funding) = 0 /\ DOMAIN funding = {} /\ lastAccrual = 0 /\ now = 0
    BY DEF Init
  <2>2. 0 * FundingInterval = 0
    BY FundingAssumption
  <2> QED BY <2>1, <2>2 DEF FundingOnGrid
<1> QED BY <1>1, <1>2, <1>3, <1>4, <1>5 DEF IInv

(* What EntryIsFair and FillsNumbered speak of survives when more fills    *)
(* are issued.                                                             *)
LEMMA IssueKeepsBooks ==
  ASSUME IInv, UNCHANGED position, DOMAIN fills \subseteq DOMAIN fills',
         \A i \in DOMAIN fills : fills'[i] = fills[i]
  PROVE  /\ EntryIsFair'
         /\ position' \in [qty : Int, avg_entry : Nat, realized_pnl : Int, applied : SUBSET DOMAIN fills']
<1>1. position.applied \subseteq DOMAIN fills
  BY DEF IInv, TypeOK
<1>2. OwnSide' = OwnSide
  BY <1>1 DEF OwnSide, SignedQty
<1>3. \A i \in OwnSide : fills'[i] = fills[i]
  BY <1>1 DEF OwnSide
<1>4. EntryIsFair'
  BY <1>2, <1>3 DEF EntryIsFair, IInv
<1>5. position' \in [qty : Int, avg_entry : Nat, realized_pnl : Int, applied : SUBSET DOMAIN fills']
  <2>1. position \in [qty : Int, avg_entry : Nat, realized_pnl : Int, applied : SUBSET DOMAIN fills]
    BY DEF IInv, TypeOK
  <2>2. (SUBSET DOMAIN fills) \subseteq (SUBSET DOMAIN fills')
    OBVIOUS
  <2> QED BY <2>1, <2>2
<1> QED BY <1>4, <1>5

LEMMA NextBarKeepsIInv ==
  ASSUME IInv, NextBar PROVE IInv'
<1>1. TypeOK'
  BY DEF IInv, TypeOK, NextBar, orderVars, fundingVars
<1>2. FillsNumbered' /\ NotOverfilled' /\ EntryIsFair'
  BY DEF IInv, NextBar, orderVars, FillsNumbered, NotOverfilled, EntryIsFair, OwnSide
<1>3. FundingOnGrid'
  BY DEF IInv, TypeOK, NextBar, fundingVars, FundingOnGrid
<1> QED BY <1>1, <1>2, <1>3 DEF IInv

LEMMA SimulateFillKeepsIInv ==
  ASSUME IInv, NEW o \in Orders, SimulateFill(o) PROVE IInv'
<1>1. Simulating(o)
  BY DEF SimulateFill, RejectForPrecision, CarryForward, RejectForNotional, RejectForMargin, Fill
<1>2. /\ UNCHANGED <<now, market, position, funding, lastAccrual>>
      /\ tried' \in [Orders -> Nat]
  BY <1>1 DEF Simulating, fundingVars, IInv, TypeOK
<1>3. FundingOnGrid'
  BY <1>2 DEF IInv, FundingOnGrid
<1>4. ASSUME UNCHANGED <<filled, fills>>, outcome' \in [Orders -> {"open", "filled"} \cup Rejections]
      PROVE  IInv'
  <2>1. TypeOK'
    BY <1>2, <1>4 DEF IInv, TypeOK
  <2>2. FillsNumbered' /\ NotOverfilled' /\ EntryIsFair'
    BY <1>2, <1>4 DEF IInv, FillsNumbered, NotOverfilled, EntryIsFair, OwnSide
  <2> QED BY <1>3, <2>1, <2>2 DEF IInv
<1>5. CASE \E r \in Rejections : Rejected(o, r)
  <2>1. outcome' \in [Orders -> {"open", "filled"} \cup Rejections] /\ UNCHANGED <<filled, fills>>
    BY <1>5 DEF Rejected, IInv, TypeOK
  <2> QED BY <1>4, <2>1
<1>6. CASE CarryForward(o)
  BY <1>4, <1>6 DEF CarryForward, IInv, TypeOK
<1>7. CASE \E balance \in Balances : Fill(o, balance)
  <2>1. PICK balance \in Balances : Fill(o, balance)
    BY <1>7
  <2>2. /\ NewFill(o) \in FillRecords /\ NewFill(o).id = Len(fills) + 1
        /\ Fillable(o) \in Nat \ {0} /\ Fillable(o) =< Remaining(o)
    BY <2>1, NewFillFacts DEF Fill, IInv
  <2>3. fills \in Seq(FillRecords) /\ fills' = Append(fills, NewFill(o))
    BY <2>1 DEF Fill, IInv, TypeOK
  <2>4. /\ fills' \in Seq(FillRecords) /\ fills'[Len(fills) + 1] = NewFill(o)
        /\ \A i \in DOMAIN fills : fills'[i] = fills[i]
        /\ DOMAIN fills \subseteq DOMAIN fills'
        /\ \A i \in DOMAIN fills' : i \in DOMAIN fills \/ i = Len(fills) + 1
    BY <2>2, <2>3, AppendFacts
  <2>5. filled' \in [Orders -> Nat] /\ NotOverfilled'
    <3>1. /\ filled' = [filled EXCEPT ![o] = @ + Fillable(o)] /\ filled \in [Orders -> Nat]
          /\ Qty \in [Orders -> Nat \ {0}] /\ \A p \in Orders : filled[p] =< Qty[p]
      BY <2>1, OrdersAssumption DEF Fill, IInv, TypeOK, NotOverfilled
    <3>2. filled[o] + Fillable(o) \in Nat /\ filled[o] + Fillable(o) =< Qty[o]
      BY <2>2, <3>1 DEF Remaining
    <3> QED BY <3>1, <3>2 DEF NotOverfilled
  <2>6. outcome' \in [Orders -> {"open", "filled"} \cup Rejections]
    BY <2>1 DEF Fill, IInv, TypeOK
  <2>7. /\ EntryIsFair'
        /\ position' \in [qty : Int, avg_entry : Nat, realized_pnl : Int, applied : SUBSET DOMAIN fills']
    BY <1>2, <2>4, IssueKeepsBooks
  <2>8. FillsNumbered'
    BY <2>2, <2>4 DEF FillsNumbered, IInv
  <2>9. TypeOK'
    BY <1>2, <2>4, <2>5, <2>6, <2>7 DEF IInv, TypeOK
  <2> QED BY <1>3, <2>5, <2>7, <2>8, <2>9 DEF IInv
<1> QED
  BY <1>5, <1>6, <1>7
  DEF SimulateFill, RejectForPrecision, RejectForNotional, RejectForMargin, Rejections

LEMMA RederiveKeepsIInv ==
  ASSUME IInv, Rederive PROVE IInv'
<1>1. position' \in [qty : Int, avg_entry : Nat, realized_pnl : Int, applied : SUBSET DOMAIN fills']
  BY DEF Rederive, Flat
<1>2. TypeOK'
  BY <1>1 DEF IInv, TypeOK, Rederive, orderVars, fundingVars
<1>3. FillsNumbered' /\ NotOverfilled' /\ FundingOnGrid'
  BY DEF IInv, Rederive, orderVars, fundingVars, FillsNumbered, NotOverfilled, FundingOnGrid
<1>4. EntryIsFair'
  BY DEF Rederive, Flat, EntryIsFair
<1> QED BY <1>2, <1>3, <1>4 DEF IInv

(* A fill that is new to the position keeps its average among the prices   *)
(* of its own side.                                                        *)
LEMMA BookKeepsEntryFair ==
  ASSUME IInv, NEW i \in DOMAIN fills, i \notin position.applied,
         position' = Book(position, fills[i]), UNCHANGED fills
  PROVE  EntryIsFair'
<1> DEFINE p == position
           f == fills[i]
<1>1. PositionType(p) /\ FillType(f) /\ f.id = i
  BY FillsAreTyped DEF IInv, TypeOK, PositionType, FillsNumbered
<1>2. /\ p'.qty = p.qty + SignedQty(f) /\ p'.applied = p.applied \cup {i}
      /\ p'.avg_entry = IF SameDirection(p, f) THEN WeightedAverage(p, f) ELSE AverageAfterClosing(p, f)
  BY <1>1 DEF Book
<1>3. /\ p.qty \in Int /\ p.avg_entry \in Nat /\ f.qty \in Nat \ {0} /\ f.price \in Nat
      /\ \A j \in p.applied : j \in DOMAIN fills /\ fills[j].price \in Nat
  BY <1>1, FillsAreTyped DEF PositionType, FillType, IInv, TypeOK
<1>4. /\ SignedQty(f) \in Int /\ (SignedQty(f) > 0 => SignedQty(f) = f.qty)
      /\ (~(SignedQty(f) > 0) => SignedQty(f) = -f.qty)
      /\ Abs(p.qty) \in Nat /\ (p.qty >= 0 => Abs(p.qty) = p.qty) /\ (p.qty =< 0 => Abs(p.qty) = -p.qty)
  BY <1>1, <1>3, SignedFacts, AbsFacts
<1>5. \A j : j \in OwnSide' <=> j \in p.applied \cup {i} /\ (SignedQty(fills[j]) > 0 <=> p'.qty > 0)
  BY <1>2 DEF OwnSide, SignedQty
<1>6. CASE SameDirection(p, f)
  <2>1. p'.qty # 0 /\ (p'.qty > 0 <=> SignedQty(f) > 0) /\ (p.qty # 0 => (p'.qty > 0 <=> p.qty > 0))
    BY <1>2, <1>3, <1>4, <1>6 DEF SameDirection
  <2>2. i \in OwnSide' /\ (p.qty # 0 => OwnSide \subseteq OwnSide')
    BY <1>5, <2>1 DEF OwnSide
  <2>3. CASE p.qty = 0
    <3>1. p'.avg_entry = f.price
      BY <1>1, <1>2, <1>6, <2>3, AverageFacts
    <3> QED BY <1>3, <2>1, <2>2, <3>1 DEF EntryIsFair
  <2>4. CASE p.qty # 0
    <3>1. PICK lo \in OwnSide : fills[lo].price =< p.avg_entry
      BY <2>4 DEF IInv, EntryIsFair
    <3>2. PICK hi \in OwnSide : p.avg_entry =< fills[hi].price
      BY <2>4 DEF IInv, EntryIsFair
    <3>3. fills[lo].price \in Nat /\ fills[hi].price \in Nat
      BY <1>3 DEF OwnSide
    <3>4. \E j \in {lo, i} : fills[j].price =< p'.avg_entry
      <4>1. p'.avg_entry = WeightedAverage(p, f)
        BY <1>2, <1>6
      <4>2. CASE fills[lo].price =< f.price
        BY <1>1, <3>1, <3>3, <4>1, <4>2, AverageFacts
      <4>3. CASE f.price =< fills[lo].price
        <5>1. f.price =< p.avg_entry
          BY <1>3, <3>1, <3>3, <4>3
        <5>2. f.price =< f.price
          BY <1>3
        <5> QED BY <1>1, <1>3, <4>1, <5>1, <5>2, AverageFacts
      <4> QED BY <1>3, <3>3, <4>2, <4>3
    <3>5. \E j \in {hi, i} : p'.avg_entry =< fills[j].price
      <4>1. p'.avg_entry = WeightedAverage(p, f)
        BY <1>2, <1>6
      <4>2. CASE f.price =< fills[hi].price
        BY <1>1, <3>2, <3>3, <4>1, <4>2, AverageFacts
      <4>3. CASE fills[hi].price =< f.price
        <5>1. p.avg_entry =< f.price
          BY <1>3, <3>2, <3>3, <4>3
        <5>2. f.price =< f.price
          BY <1>3
        <5> QED BY <1>1, <1>3, <4>1, <5>1, <5>2, AverageFacts
      <4> QED BY <1>3, <3>3, <4>2, <4>3
    <3> QED BY <2>1, <2>2, <2>4, <3>4, <3>5 DEF EntryIsFair
  <2> QED BY <2>3, <2>4
<1>7. CASE ~SameDirection(p, f)
  <2>1. p'.avg_entry = AverageAfterClosing(p, f) /\ p.qty # 0
    BY <1>2, <1>7 DEF SameDirection
  <2>2. CASE f.qty = Abs(p.qty)
    <3>1. p'.qty = 0
      BY <1>2, <1>3, <1>4, <1>7, <2>2 DEF SameDirection
    <3>2. p'.avg_entry = 0
      BY <1>3, <1>4, <2>1, <2>2 DEF AverageAfterClosing
    <3> QED BY <3>1, <3>2 DEF EntryIsFair
  <2>3. CASE f.qty > Abs(p.qty)
    <3>1. p'.qty # 0 /\ (p'.qty > 0 <=> SignedQty(f) > 0)
      BY <1>2, <1>3, <1>4, <1>7, <2>3 DEF SameDirection
    <3>2. p'.avg_entry = f.price
      BY <1>3, <1>4, <2>1, <2>3 DEF AverageAfterClosing
    <3>3. i \in OwnSide'
      BY <1>5, <3>1
    <3> QED BY <1>3, <3>1, <3>2, <3>3 DEF EntryIsFair
  <2>4. CASE f.qty < Abs(p.qty)
    <3>1. p'.qty # 0 /\ (p'.qty > 0 <=> p.qty > 0)
      BY <1>2, <1>3, <1>4, <1>7, <2>4 DEF SameDirection
    <3>2. p'.avg_entry = p.avg_entry
      BY <1>3, <1>4, <2>1, <2>4 DEF AverageAfterClosing
    <3>3. OwnSide \subseteq OwnSide'
      BY <1>5, <3>1 DEF OwnSide
    <3> QED BY <2>1, <3>1, <3>2, <3>3 DEF EntryIsFair, IInv
  <2> QED BY <1>3, <1>4, <2>2, <2>3, <2>4
<1> QED BY <1>6, <1>7

LEMMA DeliverKeepsIInv ==
  ASSUME IInv, NEW i \in DOMAIN fills, Deliver(i) PROVE IInv'
<1>1. UNCHANGED <<now, market, filled, tried, outcome, fills, funding, lastAccrual>>
  BY DEF Deliver, orderVars, fundingVars
<1>2. FillsNumbered' /\ NotOverfilled' /\ FundingOnGrid'
  BY <1>1 DEF IInv, FillsNumbered, NotOverfilled, FundingOnGrid
<1>3. fills[i].id = i /\ FillType(fills[i]) /\ PositionType(position)
  BY FillsAreTyped DEF IInv, FillsNumbered, TypeOK, PositionType
<1>4. CASE i \in position.applied
  <2>1. UNCHANGED vars
    BY <1>1, <1>3, <1>4 DEF Deliver, ApplyFill, vars
  <2> QED BY <2>1 DEF vars, IInv, TypeOK, FillsNumbered, NotOverfilled, EntryIsFair, OwnSide, FundingOnGrid
<1>5. CASE i \notin position.applied
  <2>1. position' = Book(position, fills[i])
    BY <1>3, <1>5 DEF Deliver, ApplyFill
  <2>2. EntryIsFair'
    BY <1>1, <1>5, <2>1, BookKeepsEntryFair
  <2>3. position' \in [qty : Int, avg_entry : Nat, realized_pnl : Int, applied : SUBSET DOMAIN fills']
    <3>1. PositionType(Book(position, fills[i]))
      BY <1>3, BookType
    <3>2. Book(position, fills[i]).applied \in SUBSET DOMAIN fills'
      BY <1>1, <1>3 DEF Book, IInv, TypeOK
    <3> QED BY <2>1, <3>1, <3>2 DEF PositionType, Book
  <2>4. TypeOK'
    BY <1>1, <2>3 DEF IInv, TypeOK
  <2> QED BY <1>2, <2>2, <2>4 DEF IInv
<1> QED BY <1>4, <1>5

(* The boundaries due at one call continue the grid of those paid before. *)
LEMMA AccrueKeepsIInv ==
  ASSUME IInv, Accrue PROVE IInv'
<1> DEFINE F == FundingInterval
           due == (now - lastAccrual) \div F
           amount == -(position.qty * market.open * FundingRate)
           paid == [k \in 1 .. due |-> [at |-> lastAccrual + k * F, amount |-> amount]]
           n == Len(funding)
<1>1. /\ F \in Nat \ {0} /\ lastAccrual \in Nat /\ now \in Nat /\ lastAccrual =< now /\ n \in Nat
      /\ lastAccrual = n * F /\ funding \in Seq([at : Nat, amount : Int])
      /\ \A k \in DOMAIN funding : funding[k].at = k * F
  BY FundingAssumption DEF IInv, TypeOK, FundingOnGrid
<1>2. due \in Nat /\ due * F =< now - lastAccrual
  <2>1. now - lastAccrual \in Nat BY <1>1
  <2> QED BY <1>1, <2>1, DivFloor
<1>3. /\ funding' = funding \o paid /\ lastAccrual' = lastAccrual + due * F
      /\ UNCHANGED <<now, market, filled, tried, outcome, fills, position>>
  BY DEF Accrue, NewReference, orderVars
<1>4. amount \in Int
  <2>0. market.open \in Opens /\ position.qty \in Int
    BY DEF IInv, TypeOK
  <2>1. position.qty \in Int /\ market.open \in Int /\ FundingRate \in Int
    <3>1. Opens \subseteq Int BY MarketAssumption
    <3>2. market.open \in Int BY <2>0, <3>1
    <3>3. FundingRate \in Int BY FundingAssumption
    <3> QED BY <2>0, <3>2, <3>3
  <2>2. position.qty * market.open \in Int
    BY <2>1
  <2>3. (position.qty * market.open) * FundingRate \in Int
    BY <2>1, <2>2
  <2> QED BY <2>3
<1> HIDE DEF due, amount
<1>5. \A k \in 1 .. due : lastAccrual + k * F \in Nat
  BY <1>1, <1>2
<1>6. paid \in Seq([at : Nat, amount : Int]) /\ Len(paid) = due
  BY <1>2, <1>4, <1>5
<1>7. /\ funding' \in Seq([at : Nat, amount : Int]) /\ Len(funding') = n + due
      /\ \A k \in 1 .. n : funding'[k] = funding[k]
      /\ \A k \in 1 .. n + due : k > n => funding'[k] = paid[k - n]
  <2> HIDE DEF paid
  <2> QED BY <1>1, <1>2, <1>3, <1>6
<1>8. due * F \in Nat /\ n * F + due * F = (n + due) * F
  BY <1>1, <1>2
<1>9. lastAccrual' \in Nat /\ lastAccrual' = Len(funding') * F /\ lastAccrual' =< now'
  BY <1>1, <1>2, <1>3, <1>7, <1>8
<1>10. \A k \in DOMAIN funding' : funding'[k].at = k * F
  <2>0. DOMAIN funding = 1 .. n /\ DOMAIN funding' = 1 .. n + due
    BY <1>1, <1>7
  <2> SUFFICES ASSUME NEW k \in 1 .. n + due PROVE funding'[k].at = k * F
    BY <2>0
  <2>3. n \in Nat /\ due \in Nat /\ k \in Int /\ 1 =< k /\ k =< n + due
    <3>1. n \in Nat BY <1>1
    <3>2. due \in Nat BY <1>2
    <3> HIDE DEF n
    <3> QED BY <3>1, <3>2
  <2>1. CASE k =< n
    <3>0. k \in 1 .. n
      BY <2>3, <2>1
    <3>1. k \in 1 .. n /\ funding'[k] = funding[k]
      BY <1>7, <3>0
    <3> QED BY <1>1, <2>0, <3>1
  <2>2. CASE k > n
    <3>0. k - n \in 1 .. due
      BY <2>3, <2>2
    <3>1. k - n \in 1 .. due /\ funding'[k] = paid[k - n]
      BY <1>7, <2>2, <3>0
    <3>2. funding'[k].at = lastAccrual + (k - n) * F
      BY <3>1
    <3>3. n * F + (k - n) * F = (n + (k - n)) * F /\ n + (k - n) = k
      BY <1>1, <1>2
    <3> QED BY <1>1, <3>2, <3>3
  <2> QED BY <1>1, <2>1, <2>2
<1>11. FundingOnGrid'
  BY <1>9, <1>10 DEF FundingOnGrid
<1>12. TypeOK'
  BY <1>3, <1>7, <1>9 DEF IInv, TypeOK
<1>13. FillsNumbered' /\ NotOverfilled' /\ EntryIsFair'
  BY <1>3 DEF IInv, FillsNumbered, NotOverfilled, EntryIsFair, OwnSide
<1> QED BY <1>11, <1>12, <1>13 DEF IInv

LEMMA StepIInv == IInv /\ [Next]_vars => IInv'
<1> SUFFICES ASSUME IInv, [Next]_vars PROVE IInv'
  OBVIOUS
<1>1. CASE UNCHANGED vars
  BY <1>1 DEF vars, IInv, TypeOK, FillsNumbered, NotOverfilled, EntryIsFair, OwnSide, FundingOnGrid
<1>2. CASE Next
  BY <1>2, NextBarKeepsIInv, AccrueKeepsIInv, RederiveKeepsIInv, SimulateFillKeepsIInv,
     DeliverKeepsIInv DEF Next
<1> QED BY <1>1, <1>2

-----------------------------------------------------------------------------
(* The theorems. *)

(* The invariant of the proofs holds throughout. *)
THEOREM Always == Spec => []IInv
BY InitIInv, StepIInv, PTL DEF Spec

(* Whatever the bars, every value has the type the code requires of it: in *)
(* particular no fill of a price that is not positive is ever constructed. *)
THEOREM TypeCorrect == Spec => []TypeOK
<1>1. IInv => TypeOK BY DEF IInv
<1> QED BY <1>1, Always, PTL

(* No sequence of partial fills takes an order beyond its quantity. *)
THEOREM NeverOverfilled == Spec => []NotOverfilled
<1>1. IInv => NotOverfilled BY DEF IInv
<1> QED BY <1>1, Always, PTL

(* The average entry is always among the prices paid on the side held,     *)
(* rounded or not.                                                         *)
THEOREM EntryAlwaysFair == Spec => []EntryIsFair
<1>1. IInv => EntryIsFair BY DEF IInv
<1> QED BY <1>1, Always, PTL

(* Funding is paid once for each boundary, however irregular the calls. *)
THEOREM FundingStaysOnGrid == Spec => []FundingOnGrid
<1>1. IInv => FundingOnGrid BY DEF IInv
<1> QED BY <1>1, Always, PTL

(* A delivery books the fill once into the account, or does nothing. *)
LEMMA DeliverRefines ==
  ASSUME IInv, ExactAverages, NEW i \in DOMAIN fills, Deliver(i)
  PROVE  Account!Book(i) \/ UNCHANGED Account!vars
<1>1. UNCHANGED fills
  BY DEF Deliver, orderVars
<1>2. fills[i].id = i /\ FillType(fills[i]) /\ PositionType(position)
  BY FillsAreTyped DEF IInv, FillsNumbered, TypeOK, PositionType
<1>3. CASE i \in position.applied
  <2>1. position' = position
    BY <1>2, <1>3 DEF Deliver, ApplyFill
  <2> QED BY <1>1, <2>1 DEF Account!vars, CashOf
<1>4. CASE i \notin position.applied
  <2>1. position' = Book(position, fills[i])
    BY <1>2, <1>4 DEF Deliver, ApplyFill
  <2>2. position'.applied = position.applied \cup {i}
    BY <1>2, <2>1 DEF Book
  <2>3. position'.qty = position.qty + SignedQty(fills[i])
    BY <2>1 DEF Book
  <2>4. CashOf(position') = CashOf(position) - SignedQty(fills[i]) * fills[i].price - fills[i].fee
    BY <1>2, <1>4, <2>1, BookCash DEF ExactAverages
  <2>5. Account!Signed(fills[i]) = SignedQty(fills[i])
    BY DEF Account!Signed, SignedQty
  <2> QED BY <1>1, <1>4, <2>2, <2>3, <2>4, <2>5 DEF Account!Book
<1> QED BY <1>3, <1>4

LEMMA StepRefines ==
  ASSUME IInv, ExactAverages, [Next]_vars
  PROVE  [Account!Next]_(Account!vars)
<1>1. CASE UNCHANGED <<fills, position>>
  BY <1>1 DEF Account!vars, CashOf
<1>2. ASSUME NEW o \in Orders, NEW balance \in Balances, Fill(o, balance)
      PROVE  Account!Issue
  <2>1. NewFill(o) \in FillRecords
    BY <1>2, NewFillFacts DEF Fill, IInv
  <2>2. fills \in Seq(FillRecords) /\ fills' = Append(fills, NewFill(o)) /\ UNCHANGED position
    BY <1>2 DEF Fill, Simulating, IInv, TypeOK
  <2>3. /\ fills' \in Seq(FillRecords) /\ Len(fills') = Len(fills) + 1
        /\ \A i \in DOMAIN fills : fills'[i] = fills[i]
    BY <2>1, <2>2, AppendFacts
  <2> QED BY <2>2, <2>3 DEF Account!Issue, CashOf
<1>3. CASE Rederive
  <2>1. position' = Flat /\ UNCHANGED fills
    BY <1>3 DEF Rederive, orderVars
  <2>2. position'.applied = {} /\ position'.qty = 0 /\ CashOf(position') = 0
    BY <2>1 DEF Flat, CashOf
  <2> QED BY <2>1, <2>2 DEF Account!Restart, Account!Next
<1>4. ASSUME NEW i \in DOMAIN fills, Deliver(i)
      PROVE  [Account!Next]_(Account!vars)
  BY <1>4, DeliverRefines DEF Account!Next
<1>5. CASE NextBar \/ Accrue
  BY <1>1, <1>5 DEF NextBar, Accrue, orderVars
<1>6. ASSUME NEW o \in Orders, SimulateFill(o)
      PROVE  [Account!Next]_(Account!vars)
  <2>1. UNCHANGED position
    BY <1>6 DEF SimulateFill, RejectForPrecision, CarryForward, RejectForNotional, RejectForMargin,
                Fill, Simulating
  <2>2. UNCHANGED fills \/ \E balance \in Balances : Fill(o, balance)
    BY <1>6 DEF SimulateFill, RejectForPrecision, CarryForward, RejectForNotional, RejectForMargin,
                Rejected
  <2> QED BY <1>1, <1>2, <2>1, <2>2 DEF Account!Next
<1> QED BY <1>1, <1>3, <1>4, <1>5, <1>6 DEF Next, vars

(* As long as no average is rounded, the weighted-average accounting of    *)
(* positions implements the plain account of cash and inventory.           *)
THEOREM PositionsImplementAccount == Spec /\ []ExactAverages => ImplementsAccount
<1>1. Init => Account!Init
  BY DEF Init, Flat, CashOf, Account!Init
<1>2. IInv /\ ExactAverages /\ [Next]_vars => [Account!Next]_(Account!vars)
  BY StepRefines
<1> QED BY <1>1, <1>2, Always, PTL DEF Spec, ImplementsAccount, Account!Spec
=============================================================================
