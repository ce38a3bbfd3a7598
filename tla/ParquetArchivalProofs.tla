------------------------ MODULE ParquetArchivalProofs ------------------------
(***************************************************************************)
(* What ParquetArchival guarantees for any calendar, schedule and data,    *)
(* and what it guarantees when no row arrives later than the retention.    *)
(***************************************************************************)
EXTENDS ParquetArchival, TLAPS

Busy == {"write", "verify", "commit"}

(* The job archives nothing younger than the retention. *)
CutoffInv ==
  /\ pc # "idle" => cutoff <= now - Retention
  /\ pc \in Busy => MonthStart[month] < cutoff

BaseInv == TypeOK /\ CutoffInv

LEMMA TornFacts == Torn \notin SUBSET Rows
<1>1. <<Ticks, -1>> \in Torn /\ <<Ticks, -1>> \notin Rows
  BY TimeAssumption DEF Torn, Rows
<1> QED BY <1>1

(* Dates are whole numbers that follow the order of the instants. *)
LEMMA DayFacts == \A t \in Int : Day(t) \in Int
  BY DayAssumption DEF Day

LEMMA DayMonotone ==
  ASSUME NEW s \in Int, NEW t \in Int, s <= t
  PROVE  Day(s) <= Day(t)
<1>1. Day(s) \in Int /\ Day(t) \in Int /\ DayLength \in Int /\ DayLength >= 1
  BY DayAssumption DEF Day
<1>2. Day(s) * DayLength <= s /\ t < (Day(t) + 1) * DayLength
  BY DayAssumption DEF Day
<1>3. SUFFICES ASSUME Day(t) + 1 <= Day(s) PROVE FALSE
  BY <1>1
<1>4. (Day(t) + 1) * DayLength <= Day(s) * DayLength
  <2>1. \A a, b, d \in Int : a <= b /\ d >= 1 => a * d <= b * d
    OBVIOUS
  <2> QED BY <1>1, <1>3, <2>1
<1> QED BY <1>1, <1>2, <1>4

(* Months follow one another. *)
LEMMA MonthFacts ==
  /\ \A m \in Months : /\ m \in Int /\ m + 1 \in 0 .. LastMonth + 1 /\ m \in 0 .. LastMonth + 1
                       /\ MonthStart[m] \in Nat /\ MonthStart[m + 1] \in Nat
                       /\ MonthStart[m] < MonthStart[m + 1]
  /\ \A m \in 0 .. LastMonth + 1 : MonthStart[m] \in Nat /\ MonthStart[m] >= 0
  /\ MonthStart[0] = 0 /\ MonthStart[LastMonth + 1] \in Nat
  BY MonthAssumption DEF Months

(* A window lies in its month and before the cutoff. *)
LEMMA WindowFacts ==
  ASSUME NEW m \in Months, cutoff \in Int
  PROVE  /\ WindowStart(m) \in Int /\ WindowEnd(m) \in Int
         /\ WindowEnd(m) <= cutoff /\ WindowEnd(m) <= MonthStart[m + 1]
         /\ MonthStart[m] <= WindowStart(m)
  BY MonthFacts, TimeAssumption DEF WindowStart, WindowEnd

(* A month that begins before the cutoff is a month of the model. *)
LEMMA MonthInRange ==
  ASSUME TypeOK, cutoff <= now - Retention, MonthStart[month] < cutoff
  PROVE  month \in Months /\ NextMonth(month) \in 0 .. LastMonth + 1
<1>1. now <= MaxTime /\ now \in Int /\ month \in 0 .. LastMonth + 1 /\ cutoff \in Int
  BY TimeAssumption DEF TypeOK
<1>2. month # LastMonth + 1
  BY <1>1, MonthAssumption, TimeAssumption
<1> QED BY <1>1, <1>2, MonthAssumption DEF Months, NextMonth
-----------------------------------------------------------------------------
(* The type and the cutoff, through each action. *)
LEMMA BaseInit == Init => BaseInv
<1> SUFFICES ASSUME Init PROVE BaseInv
  OBVIOUS
<1>1. files \in [Months -> (SUBSET Rows) \cup {Torn}]
  BY DEF Init
<1>2. 0 \in 0 .. LastMonth + 1 /\ 0 \in 0 .. MaxTime
  BY MonthAssumption, TimeAssumption
<1> QED BY <1>1, <1>2 DEF Init, BaseInv, TypeOK, CutoffInv, Series, Busy

LEMMA BaseNext == BaseInv /\ [Next]_vars => BaseInv'
<1> SUFFICES ASSUME BaseInv, [Next]_vars PROVE BaseInv'
  OBVIOUS
<1> USE DEF BaseInv
<1>0. now \in Nat /\ Retention \in Nat /\ cutoff \in Int /\ MaxTime \in Nat /\ LastMonth \in Nat
  BY TimeAssumption, MonthAssumption DEF TypeOK
<1>1. CASE Tick
  <2>1. TypeOK'
    BY <1>0, <1>1 DEF Tick, TypeOK, job
  <2> QED BY <2>1, <1>0, <1>1 DEF Tick, CutoffInv, job
<1>2. CASE \E r \in Recorded : Arrive(r)
  BY <1>2, SeriesAssumption DEF Arrive, TypeOK, CutoffInv, job
<1>3. CASE \E p \in Pins : Pin(p)
  BY <1>3 DEF Pin, TypeOK, CutoffInv, job
<1>4. CASE \E i \in Intervals : Start(i)
  <2>1. TypeOK'
    BY <1>0, <1>4 DEF Start, TypeOK, Cutoff, Series
  <2>2. pc' = "select" /\ cutoff' = now - Retention /\ now' = now
    BY <1>4 DEF Start, Cutoff
  <2> QED BY <2>1, <2>2, <1>0 DEF CutoffInv, Busy
<1>5. CASE EndTable
  <2>1. TypeOK'
    BY <1>0, <1>5 DEF EndTable, TypeOK, Series
  <2> QED BY <2>1, <1>5 DEF EndTable, CutoffInv, Busy
<1>6. CASE SkipMonth
  <2>1. NextMonth(month) \in 0 .. LastMonth + 1
    BY <1>6, MonthInRange DEF SkipMonth, CutoffInv
  <2>2. TypeOK'
    BY <1>6, <2>1 DEF SkipMonth, TypeOK
  <2> QED BY <2>2, <1>6 DEF SkipMonth, CutoffInv, Busy
<1>7. CASE Select
  <2>1. selected' \subseteq Rows
    BY <1>7 DEF Select, TypeOK, Partition
  <2>2. TypeOK'
    BY <1>7, <2>1 DEF Select, TypeOK
  <2> QED BY <2>2, <1>7 DEF Select, CutoffInv, Busy
<1>8. CASE \E ok \in BOOLEAN : Write(ok)
  <2>1. \A c \in {selected, Torn} : [files EXCEPT ![month] = c] \in [Months -> (SUBSET Rows) \cup {Torn}]
    BY DEF TypeOK
  <2>2. TypeOK'
    BY <1>8, <2>1 DEF Write, TypeOK
  <2> QED BY <2>2, <1>8 DEF Write, CutoffInv, Busy
<1>9. CASE \E ok \in BOOLEAN : Verify(ok)
  <2>1. NextMonth(month) \in 0 .. LastMonth + 1
    BY <1>9, MonthInRange DEF Verify, CutoffInv, Busy
  <2>2. TypeOK'
    BY <1>9, <2>1 DEF Verify, TypeOK
  <2> QED BY <2>2, <1>9 DEF Verify, CutoffInv, Busy
<1>10. CASE Commit
  <2>1. month \in Months /\ NextMonth(month) \in 0 .. LastMonth + 1
    BY <1>10, MonthInRange DEF Commit, CutoffInv, Busy
  <2>2. Day(WindowStart(month)) \in Int /\ Day(WindowEnd(month) - 1) \in Int
    BY <2>1, <1>0, WindowFacts, DayFacts
  <2>3. \A v \in versions' : v.content \in SUBSET Rows /\ v.from \in Int /\ v.to \in Int
    BY <1>10, <2>2 DEF Commit, Register, TypeOK
  <2>4. TypeOK'
    BY <1>10, <2>1, <2>3 DEF Commit, TypeOK
  <2> QED BY <2>4, <1>10 DEF Commit, CutoffInv, Busy
<1>11. CASE Crash
  <2>1. TypeOK'
    BY <1>0, <1>11 DEF Crash, TypeOK
  <2> QED BY <2>1, <1>11 DEF Crash, CutoffInv, Busy
<1>12. CASE UNCHANGED vars
  BY <1>12 DEF vars, job, TypeOK, CutoffInv
<1> QED BY <1>1, <1>2, <1>3, <1>4, <1>5, <1>6, <1>7, <1>8, <1>9, <1>10, <1>11, <1>12 DEF Next

LEMMA BaseAlways == Spec => []BaseInv
  BY BaseInit, BaseNext, PTL DEF Spec
-----------------------------------------------------------------------------
(* Every variable stays in its type. *)
THEOREM TypeCorrect == Spec => []TypeOK
<1>1. BaseInv => TypeOK
  BY DEF BaseInv
<1> QED BY <1>1, BaseAlways, PTL

(* Only a commit takes rows out of Postgres. *)
LEMMA OnlyCommitDeletes ==
  ASSUME [Next]_vars, rows \ rows' # {}
  PROVE  Commit
  BY DEF Next, vars, Tick, Arrive, Pin, Start, EndTable, SkipMonth, Select, Write, Verify, Crash

(* The archival never deletes a row younger than the retention, whatever   *)
(* the schedule, the arrivals and the faults.                              *)
THEOREM RecentRowsStay == Spec => RecentStaysHot
<1>1. BaseInv /\ [Next]_vars => [\A r \in rows \ rows' : r[2] < now - Retention]_vars
  <2> SUFFICES ASSUME BaseInv, [Next]_vars, NEW r \in rows \ rows'
               PROVE  r[2] < now - Retention
    OBVIOUS
  <2>1. Commit
    BY OnlyCommitDeletes
  <2>2. month \in Months /\ cutoff <= now - Retention /\ cutoff \in Int /\ now - Retention \in Int
    BY <2>1, MonthInRange, TimeAssumption DEF Commit, BaseInv, CutoffInv, Busy, TypeOK
  <2>3. r[2] < WindowEnd(month) /\ r[2] \in Int
    BY <2>1, TimeAssumption DEF Commit, Deletable, InWindow, BaseInv, TypeOK, Rows
  <2> QED BY <2>2, <2>3, WindowFacts
<1> QED BY <1>1, BaseAlways, PTL DEF Spec, RecentStaysHot
-----------------------------------------------------------------------------
(* With punctual rows a partition holds, from SELECT to DELETE, what was   *)
(* selected, and what has been archived stays empty.                       *)
JobInv ==
  /\ pc \in Busy => selected = Partition(table, month) /\ selected # {}
  /\ pc = "commit" => files[month] = selected

(* Within the dates of a version only rows outside its span are left. *)
Outside(r, v) ==
  \/ Day(r[2]) < v.from \/ v.to < Day(r[2])
  \/ Day(r[2]) = v.from /\ \A c \in v.content : r[2] < c[2]
  \/ Day(r[2]) = v.to /\ \A c \in v.content : c[2] < r[2]

GoneInv == \A v \in versions :
  /\ v.to <= Day(now - Retention)
  /\ \A c \in v.content : c[2] < now - Retention
  /\ \A r \in rows : r[1] = v.series => Outside(r, v)

PunctualInv == BaseInv /\ JobInv /\ GoneInv

(* No row that arrives is old. *)
LEMMA ArrivalFacts ==
  ASSUME Punctual, BaseInv, NEW r \in Rows, Arrive(r)
  PROVE  /\ r[2] \in Int /\ r[2] > now - Retention
         /\ \A s \in Series : pc \in Busy => r \notin Deletable(s, month)'
         /\ pc \in Busy => Partition(table, month)' = Partition(table, month)
<1>1. now \in Int /\ Retention \in Int /\ MaxLag \in Int /\ cutoff \in Int
  BY TimeAssumption DEF BaseInv, TypeOK
<1>2. r[2] \in Int /\ r[2] > now - Retention
  BY <1>1, TimeAssumption DEF Arrive, Punctual, Rows
<1>3. pc \in Busy => month \in Months /\ cutoff <= now - Retention
  BY MonthInRange DEF BaseInv, CutoffInv, Busy
<1>4. UNCHANGED <<table, month, cutoff>> /\ rows' = rows \cup {r}
  BY DEF Arrive, job
<1>5. pc \in Busy => ~ InWindow(r[2], month) /\ ~ InWindow(r[2], month)'
  BY <1>1, <1>2, <1>3, <1>4, WindowFacts DEF InWindow, WindowStart, WindowEnd
<1>6. \A d \in Int : InWindow(d, month)' <=> InWindow(d, month)
  BY <1>4 DEF InWindow, WindowStart, WindowEnd
<1>7. \A q \in rows : q[2] \in Int
  BY TimeAssumption DEF BaseInv, TypeOK, Rows
<1>8. pc \in Busy => Partition(table, month)' = Partition(table, month)
  BY <1>4, <1>5, <1>6, <1>7 DEF Partition
<1> QED BY <1>2, <1>5, <1>8 DEF Deletable

LEMMA PunctualInit == Init => PunctualInv
  BY BaseInit DEF Init, PunctualInv, JobInv, GoneInv, Busy

LEMMA PunctualNext == Punctual /\ PunctualInv /\ [Next]_vars => PunctualInv'
<1> SUFFICES ASSUME Punctual, PunctualInv, [Next]_vars PROVE PunctualInv'
  OBVIOUS
<1> USE DEF PunctualInv
<1>0. BaseInv'
  BY BaseNext
<1>1. now \in Int /\ Retention \in Int /\ cutoff \in Int /\ now' \in Int
  BY <1>0, TimeAssumption DEF BaseInv, TypeOK
<1>2. \A v \in versions : /\ v.to \in Int /\ v.from \in Int
                          /\ \A c \in v.content : c[2] \in Int
  BY TimeAssumption DEF BaseInv, TypeOK, Rows
<1>3. \A r \in rows : r[2] \in Int
  BY TimeAssumption DEF BaseInv, TypeOK, Rows
<1>4. ASSUME UNCHANGED <<rows, files, versions>>, UNCHANGED job, now <= now' PROVE PunctualInv'
  <2>1. JobInv'
    BY <1>4 DEF JobInv, job, Busy, Partition, InWindow, WindowStart, WindowEnd
  <2>2. GoneInv'
    <3>1. Day(now - Retention) <= Day(now' - Retention)
      BY <1>1, <1>4, DayMonotone
    <3>2. Day(now - Retention) \in Int /\ Day(now' - Retention) \in Int
      BY <1>1, DayFacts
    <3> QED BY <1>1, <1>2, <1>4, <3>1, <3>2 DEF GoneInv, Outside
  <2> QED BY <1>0, <2>1, <2>2
<1>5. CASE Tick
  BY <1>1, <1>4, <1>5 DEF Tick
<1>6. CASE \E r \in Recorded : Arrive(r)
  <2>1. PICK r \in Rows : Arrive(r)
    BY <1>6, SeriesAssumption
  <2>2. UNCHANGED <<now, files, versions, pc, table, month, cutoff, selected>> /\ rows' = rows \cup {r}
    BY <2>1 DEF Arrive, job
  <2>3. JobInv'
    BY <2>1, <2>2, ArrivalFacts DEF JobInv
  <2>4. ASSUME NEW v \in versions PROVE Outside(r, v)
    <3>1. r[2] \in Int /\ now - Retention <= r[2]
      BY <1>1, <2>1, ArrivalFacts
    <3>2. Day(now - Retention) <= Day(r[2])
      BY <1>1, <3>1, DayMonotone
    <3>3. /\ v.to \in Int /\ Day(r[2]) \in Int /\ Day(now - Retention) \in Int
          /\ v.to <= Day(now - Retention)
      BY <1>1, <1>2, <3>1, DayFacts DEF GoneInv
    <3>4. v.to < Day(r[2]) \/ Day(r[2]) = v.to
      BY <3>2, <3>3
    <3>5. \A c \in v.content : c[2] < r[2]
      BY <1>1, <1>2, <2>1, ArrivalFacts DEF GoneInv
    <3> QED BY <3>4, <3>5 DEF Outside
  <2>5. GoneInv'
    <3> SUFFICES ASSUME NEW v \in versions, NEW q \in rows \cup {r}
                 PROVE  /\ v.to <= Day(now - Retention)
                        /\ \A c \in v.content : c[2] < now - Retention
                        /\ q[1] = v.series => Outside(q, v)
      BY <2>2 DEF GoneInv, Outside
    <3> QED BY <2>4 DEF GoneInv
  <2> QED BY <1>0, <2>3, <2>5
<1>7. CASE \E p \in Pins : Pin(p)
  BY <1>1, <1>4, <1>7 DEF Pin
<1>8. CASE (\E i \in Intervals : Start(i)) \/ EndTable \/ SkipMonth \/ Crash
  <2>1. UNCHANGED <<now, rows, versions>> /\ pc' \in {"idle", "select"}
    BY <1>8 DEF Start, EndTable, SkipMonth, Crash
  <2> QED BY <1>0, <2>1 DEF JobInv, GoneInv, Outside, Busy
<1>9. CASE Select
  <2>1. UNCHANGED <<now, rows, versions, table, month, cutoff>> /\ pc' = "write"
        /\ selected' = Partition(table, month) /\ selected' # {}
    BY <1>9 DEF Select
  <2>2. Partition(table, month)' = Partition(table, month)
    BY <2>1 DEF Partition, InWindow, WindowStart, WindowEnd
  <2> QED BY <1>0, <2>1, <2>2 DEF JobInv, GoneInv, Outside
<1>10. CASE \E ok \in BOOLEAN : Write(ok)
  <2>1. UNCHANGED <<now, rows, versions, table, month, cutoff, selected>> /\ pc' = "verify" /\ pc = "write"
    BY <1>10 DEF Write
  <2>2. Partition(table, month)' = Partition(table, month)
    BY <2>1 DEF Partition, InWindow, WindowStart, WindowEnd
  <2> QED BY <1>0, <2>1, <2>2 DEF JobInv, GoneInv, Outside, Busy
<1>11. CASE \E ok \in BOOLEAN : Verify(ok)
  <2>1. UNCHANGED <<now, rows, files, versions, table, cutoff>> /\ pc = "verify"
    BY <1>11 DEF Verify
  <2>2. CASE pc' = "commit"
    <3>1. /\ UNCHANGED <<month, selected>>
          /\ \E ok \in BOOLEAN : (IF ok THEN files[month] ELSE Torn) = selected
      BY <1>11, <2>2 DEF Verify, ChecksumOk
    <3>2. files[month] = selected
      BY <3>1, TornFacts DEF BaseInv, TypeOK
    <3>3. Partition(table, month)' = Partition(table, month)
      BY <2>1, <3>1 DEF Partition, InWindow, WindowStart, WindowEnd
    <3> QED BY <1>0, <2>1, <2>2, <3>1, <3>2, <3>3 DEF JobInv, GoneInv, Outside, Busy
  <2>3. CASE pc' # "commit"
    <3>1. pc' = "select"
      BY <1>11, <2>3 DEF Verify
    <3> QED BY <1>0, <2>1, <3>1 DEF JobInv, GoneInv, Outside, Busy
  <2> QED BY <2>2, <2>3
<1>12. CASE Commit
  <2>1. pc' = "select" /\ now' = now /\ rows' = rows \ Deletable(table, month)
    BY <1>12 DEF Commit
  <2>2. month \in Months /\ cutoff <= now - Retention
    BY <1>12, MonthInRange DEF Commit, BaseInv, CutoffInv, Busy
  <2> DEFINE from == Day(WindowStart(month))
             to == Day(WindowEnd(month) - 1)
  <2>3. ASSUME NEW v \in versions' PROVE v \in versions \/
          (v.series = table /\ v.from = from /\ v.to = to /\ v.content = selected)
    BY <1>12 DEF Commit, Register
  <2>4. /\ WindowStart(month) \in Int /\ WindowEnd(month) \in Int /\ WindowEnd(month) <= cutoff
        /\ from \in Int /\ to \in Int
    BY <1>1, <2>2, WindowFacts, DayFacts
  <2>5. \A c \in selected : /\ c[2] \in Int /\ WindowStart(month) <= c[2]
                            /\ c[2] < WindowEnd(month)
    BY <1>3, <1>12 DEF Commit, JobInv, Busy, Partition, InWindow
  <2>6. to <= Day(now - Retention)
    BY <1>1, <2>2, <2>4, DayMonotone
  <2>7. \A c \in selected : c[2] < now - Retention
    BY <1>1, <2>2, <2>4, <2>5
  <2>8. ASSUME NEW r \in rows', r[1] = table
        PROVE  \/ Day(r[2]) < from \/ to < Day(r[2])
               \/ Day(r[2]) = from /\ \A c \in selected : r[2] < c[2]
               \/ Day(r[2]) = to /\ \A c \in selected : c[2] < r[2]
    <3>1. r[2] \in Int /\ ~ InWindow(r[2], month) /\ Day(r[2]) \in Int
      BY <1>3, <2>1, <2>8, DayFacts DEF Deletable
    <3>2. CASE r[2] < WindowStart(month)
      <4>1. Day(r[2]) <= from
        BY <2>4, <3>1, <3>2, DayMonotone
      <4>2. \A c \in selected : r[2] < c[2]
        BY <2>4, <2>5, <3>1, <3>2
      <4> QED BY <2>4, <3>1, <4>1, <4>2
    <3>3. CASE WindowEnd(month) <= r[2]
      <4>1. to <= Day(r[2])
        BY <2>4, <3>1, <3>3, DayMonotone
      <4>2. \A c \in selected : c[2] < r[2]
        BY <2>4, <2>5, <3>1, <3>3
      <4> QED BY <2>4, <3>1, <4>1, <4>2
    <3> QED BY <2>4, <3>1, <3>2, <3>3 DEF InWindow
  <2>9. GoneInv'
    <3> HIDE DEF from, to
    <3> SUFFICES ASSUME NEW v \in versions'
                 PROVE  /\ v.to <= Day(now - Retention)
                        /\ \A c \in v.content : c[2] < now - Retention
                        /\ \A r \in rows' : r[1] = v.series => Outside(r, v)
      BY <2>1 DEF GoneInv, Outside
    <3>1. CASE v \in versions
      BY <2>1, <3>1 DEF GoneInv
    <3>2. CASE v.series = table /\ v.from = from /\ v.to = to /\ v.content = selected
      BY <2>6, <2>7, <2>8, <3>2 DEF Outside
    <3> QED BY <2>3, <3>1, <3>2
  <2> QED BY <1>0, <2>1, <2>9 DEF JobInv, Busy
<1>13. CASE UNCHANGED vars
  BY <1>1, <1>4, <1>13 DEF vars
<1> QED BY <1>5, <1>6, <1>7, <1>8, <1>9, <1>10, <1>11, <1>12, <1>13 DEF Next

LEMMA PunctualAlways == ASSUME Punctual PROVE Spec => []PunctualInv
<1>1. PunctualInv /\ [Next]_vars => PunctualInv'
  BY PunctualNext
<1> QED BY PunctualInit, <1>1, PTL DEF Spec

(* What a commit deletes is what it selected. *)
LEMMA CommitDeletesSelected ==
  ASSUME PunctualInv, Commit
  PROVE  /\ rows' = rows \ selected /\ month \in Months
         /\ files[month] = selected /\ files[month] # Torn /\ selected # {}
<1>1. month \in Months
  BY MonthInRange DEF Commit, PunctualInv, BaseInv, CutoffInv, Busy
<1>2. files[month] = selected /\ selected = Deletable(table, month) /\ selected # {}
  BY DEF Commit, PunctualInv, JobInv, Busy, Partition, Deletable
<1>3. selected \in SUBSET Rows
  BY DEF PunctualInv, BaseInv, TypeOK
<1> QED BY <1>1, <1>2, <1>3, TornFacts DEF Commit

(* When rows are punctual, a row leaves Postgres only into a file, for any *)
(* series and any schedule.                                                *)
THEOREM DeletedRowsWereExported == ASSUME Punctual PROVE Spec => DeletionFollowsExport
<1>1. PunctualInv /\ [Next]_vars => [rows \ rows' \subseteq Cold]_vars
  <2> SUFFICES ASSUME PunctualInv, [Next]_vars, NEW r \in rows \ rows' PROVE r \in Cold
    OBVIOUS
  <2>1. Commit
    BY OnlyCommitDeletes
  <2> QED BY <2>1, CommitDeletesSelected DEF Cold
<1> QED BY <1>1, PunctualAlways, PTL DEF Spec, DeletionFollowsExport

(* When rows are punctual, what was archived is gone from Postgres for     *)
(* good, at whatever time of the day the job runs.                         *)
THEOREM ArchivedRowsStayGone == ASSUME Punctual PROVE Spec => []ArchivedIsGone
<1>1. PunctualInv => ArchivedIsGone
  BY DEF PunctualInv, GoneInv, Outside, ArchivedIsGone
<1> QED BY <1>1, PunctualAlways, PTL
-----------------------------------------------------------------------------
(* What a readable file holds is in Postgres still, or was registered.     *)
KeptInv == \A m \in Months : files[m] # Torn =>
  \A r \in files[m] : r \in rows \/ \E v \in versions : r \in v.content

(* A registered table holds a version with the content, and loses none. *)
LEMMA RegisterFacts ==
  ASSUME NEW v, NEW T
  PROVE  T \subseteq Register(v, T) /\ \E u \in Register(v, T) : u.content = v.content
  BY DEF Register

LEMMA KeptNext == Punctual /\ PunctualInv /\ KeptInv /\ [Next]_vars => KeptInv'
<1> SUFFICES ASSUME Punctual, PunctualInv, KeptInv, [Next]_vars,
                    NEW m \in Months, files'[m] # Torn, NEW r \in files'[m]
             PROVE  r \in rows' \/ \E v \in versions' : r \in v.content
  BY DEF KeptInv
<1>1. versions \subseteq versions'
  <2>1. CASE Commit
    BY <2>1, RegisterFacts DEF Commit
  <2>2. CASE ~ Commit
    BY <2>2 DEF Next, vars, Tick, Arrive, Pin, Start, EndTable, SkipMonth, Select, Write, Verify,
                Crash
  <2> QED BY <2>1, <2>2
<1>2. CASE files' = files
  <2>1. r \in rows \/ \E v \in versions : r \in v.content
    BY <1>2 DEF KeptInv
  <2>2. CASE r \in rows \ rows'
    <3>1. Commit
      BY <2>2, OnlyCommitDeletes DEF PunctualInv
    <3>2. r \in selected
      BY <2>2, <3>1, CommitDeletesSelected
    <3> DEFINE u == [series |-> table, from |-> Day(WindowStart(month)),
                     to |-> Day(WindowEnd(month) - 1), content |-> selected]
    <3>3. versions' = Register(u, versions) /\ u.content = selected
      BY <3>1 DEF Commit
    <3>4. \E v \in versions' : v.content = selected
      <4> HIDE DEF u
      <4> QED BY <3>3, RegisterFacts
    <3> QED BY <3>2, <3>4
  <2> QED BY <1>1, <2>1, <2>2
<1>3. CASE files' # files
  <2>1. PICK ok \in BOOLEAN : Write(ok)
    BY <1>3 DEF Next, vars, job, Tick, Arrive, Pin, Start, EndTable, SkipMonth, Select, Verify,
                Commit, Crash
  <2>2. /\ rows' = rows
        /\ files' = [files EXCEPT ![month] = IF ok THEN selected ELSE Torn]
        /\ pc = "write"
    BY <2>1 DEF Write
  <2>3. files \in [Months -> (SUBSET Rows) \cup {Torn}]
    BY DEF PunctualInv, BaseInv, TypeOK
  <2>4. CASE m # month
    BY <1>1, <2>2, <2>3, <2>4 DEF KeptInv
  <2>5. CASE m = month
    <3>1. r \in selected
      BY <2>2, <2>3, <2>5
    <3>2. selected \subseteq rows
      BY <2>2 DEF PunctualInv, JobInv, Busy, Partition
    <3> QED BY <2>2, <3>1, <3>2
  <2> QED BY <2>4, <2>5
<1> QED BY <1>2, <1>3

LEMMA KeptAlways == ASSUME Punctual PROVE Spec => []KeptInv
<1>1. Init => KeptInv
  BY DEF Init, KeptInv
<1>2. PunctualInv /\ KeptInv /\ [Next]_vars => KeptInv'
  BY KeptNext
<1> QED BY <1>1, <1>2, PunctualAlways, PTL DEF Spec

(* When rows are punctual, whatever is lost had been registered, on any    *)
(* schedule, for any series, and through any crashes and damaged files.    *)
THEOREM LostRowsWereRegistered == ASSUME Punctual PROVE Spec => OnlyRegisteredIsLost
<1>1. PunctualInv /\ KeptInv /\ [Next]_vars =>
        [\A r \in (rows \cup Cold) \ (rows' \cup Cold') : \E v \in versions : r \in v.content]_vars
  <2> SUFFICES ASSUME PunctualInv, KeptInv, [Next]_vars,
                      NEW r \in (rows \cup Cold) \ (rows' \cup Cold')
               PROVE  \E v \in versions : r \in v.content
    OBVIOUS
  <2>1. r \notin rows
    <3> SUFFICES ASSUME r \in rows PROVE FALSE
      OBVIOUS
    <3>1. Commit
      BY OnlyCommitDeletes DEF PunctualInv
    <3>2. r \in files[month] /\ month \in Months /\ files[month] # Torn
      BY <3>1, CommitDeletesSelected
    <3>3. files' = files /\ Cold' = Cold
      BY <3>1 DEF Commit, Cold
    <3> QED BY <3>2, <3>3 DEF Cold
  <2>2. PICK m \in Months : files[m] # Torn /\ r \in files[m]
    BY <2>1 DEF Cold
  <2> QED BY <2>1, <2>2 DEF KeptInv
<1> QED BY <1>1, PunctualAlways, KeptAlways, PTL DEF Spec, OnlyRegisteredIsLost
=============================================================================
