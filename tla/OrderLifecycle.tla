--------------------------- MODULE OrderLifecycle ---------------------------
(***************************************************************************)
(* The Order aggregate of domain/order.py over the order_event table of    *)
(* infrastructure/db/tables/execution.py.  An Order is immutable: whoever  *)
(* works on an order holds a copy of it, transitions that copy and inserts *)
(* the event the transition returns; a copy is lost with its holder and    *)
(* rebuilt from events.  Several holders may have copies of one order, and *)
(* nothing but the table's constraints keeps them apart.                   *)
(*                                                                         *)
(* The callers that hold the copies and own the transactions are external: *)
(* they number events as the class asks for, one after the last they know. *)
(* Timestamps, identifiers and the fields fixed at birth are left out.     *)
(***************************************************************************)
EXTENDS Integers, OrderStatuses

CONSTANTS OrderIds, Holders,
          MaxSeq   \* bound on the events of an order
ASSUME OrderIdsAssumption == OrderIds # {}
ASSUME MaxSeqAssumption == MaxSeq \in Nat \ {0}

VARIABLES
  rows,    \* order_event: records [order, seq, type]
  pc,      \* each holder: "idle", "rebuilding" or "holding"
  order,   \* the order it holds
  status,  \* the status of its copy
  seq,     \* the seq of the last event its copy has seen, expected_seq
  events   \* the rows from_events was given

copy == <<pc, order, status, seq, events>>
lifecycleVars == <<rows, copy>>
-----------------------------------------------------------------------------
RowsOf(o) == {e \in rows : e.order = o}

Event(o, n, t) == [order |-> o, seq |-> n, type |-> t]

(* What the order_event_type column accepts: it has no "unknown". *)
Recordable == EventTypes \ {"unknown"}

(* INSERT INTO order_event: the type's enum and UNIQUE(order_id, seq). *)
Insertable(e) ==
  /\ e.type \in Recordable
  /\ \A f \in rows : f.order = e.order => f.seq # e.seq

(* event.seq == expected_seq *)
InSequence(e, n) == e.seq = n + 1

(* A holder's copy is gone. *)
Lose(h) ==
  /\ pc' = [pc EXCEPT ![h] = "idle"]
  /\ status' = [status EXCEPT ![h] = "pending_new"]
  /\ seq' = [seq EXCEPT ![h] = 0]
  /\ events' = [events EXCEPT ![h] = {}]
  /\ UNCHANGED order

LifecycleInit ==
  /\ rows = {}
  /\ pc = [h \in Holders |-> "idle"]
  /\ order = [h \in Holders |-> CHOOSE o \in OrderIds : TRUE]
  /\ status = [h \in Holders |-> "pending_new"]
  /\ seq = [h \in Holders |-> 0]
  /\ events = [h \in Holders |-> {}]

(* Order.new, and the insertion of its created event. *)
New(h, o) ==
  /\ pc[h] = "idle" /\ Insertable(Event(o, 1, "created"))
  /\ rows' = rows \cup {Event(o, 1, "created")}
  /\ pc' = [pc EXCEPT ![h] = "holding"]
  /\ order' = [order EXCEPT ![h] = o]
  /\ status' = [status EXCEPT ![h] = "pending_new"]
  /\ seq' = [seq EXCEPT ![h] = 1]
  /\ UNCHANGED events

(* transition: illegal targets raise and change nothing; the event of a    *)
(* legal one is inserted, or the insertion is refused and the copy thrown  *)
(* away.                                                                   *)
Transition(h, s) ==
  LET e == Event(order[h], seq[h] + 1, EventTypeFor(s)) IN
  /\ pc[h] = "holding" /\ s \in Legal(status[h]) /\ seq[h] < MaxSeq
  /\ \/ /\ Insertable(e)
        /\ rows' = rows \cup {e}
        /\ status' = [status EXCEPT ![h] = s]
        /\ seq' = [seq EXCEPT ![h] = @ + 1]
        /\ UNCHANGED <<pc, order, events>>
     \/ ~ Insertable(e) /\ Lose(h) /\ UNCHANGED rows

(* from_events, given rows of one order in some list: it may be out of     *)
(* order, repeat rows, or lack some.  The first must be the created event. *)
StartRebuild(h, o) ==
  /\ pc[h] = "idle" /\ Event(o, 1, "created") \in rows
  /\ pc' = [pc EXCEPT ![h] = "rebuilding"]
  /\ order' = [order EXCEPT ![h] = o]
  /\ status' = [status EXCEPT ![h] = "pending_new"]
  /\ seq' = [seq EXCEPT ![h] = 1]
  /\ events' = [events EXCEPT ![h] = RowsOf(o)]
  /\ UNCHANGED rows

(* The next event of the list is replayed, or it raises. *)
Replay(h, e) ==
  /\ pc[h] = "rebuilding" /\ e \in events[h]
  /\ \/ /\ InSequence(e, seq[h]) /\ e.type # "created" /\ StatusFor(e.type) \in Legal(status[h])
        /\ status' = [status EXCEPT ![h] = StatusFor(e.type)]
        /\ seq' = [seq EXCEPT ![h] = e.seq]
        /\ UNCHANGED <<pc, order, events>>
     \/ /\ ~ (InSequence(e, seq[h]) /\ e.type # "created" /\ StatusFor(e.type) \in Legal(status[h]))
        /\ Lose(h)
  /\ UNCHANGED rows

(* The list ends, and from_events returns. *)
EndRebuild(h) ==
  /\ pc[h] = "rebuilding"
  /\ pc' = [pc EXCEPT ![h] = "holding"]
  /\ events' = [events EXCEPT ![h] = {}]
  /\ UNCHANGED <<rows, order, status, seq>>

(* A holder is done with its copy, or dies. *)
Drop(h) == pc[h] # "idle" /\ Lose(h) /\ UNCHANGED rows

LifecycleNext ==
  \E h \in Holders :
    \/ \E o \in OrderIds : New(h, o) \/ StartRebuild(h, o)
    \/ \E s \in Statuses : Transition(h, s)
    \/ \E e \in events[h] : Replay(h, e)
    \/ EndRebuild(h) \/ Drop(h)

LifecycleSpec == LifecycleInit /\ [][LifecycleNext]_lifecycleVars
-----------------------------------------------------------------------------
Rows == [order : OrderIds, seq : 1 .. MaxSeq, type : Recordable]

(* Every variable stays in its type. *)
LifecycleTypeOK ==
  /\ rows \subseteq Rows
  /\ pc \in [Holders -> {"idle", "rebuilding", "holding"}]
  /\ order \in [Holders -> OrderIds]
  /\ status \in [Holders -> Statuses]
  /\ seq \in [Holders -> 0 .. MaxSeq]
  /\ events \in [Holders -> SUBSET Rows]

StatusOfRow(e) == IF e.type = "created" THEN "pending_new" ELSE StatusFor(e.type)

(* The history of an order is one legal path, numbered without gaps from   *)
(* its creation, whichever holders wrote it from copies however stale.     *)
HistoryIsLegal ==
  /\ \A e, f \in rows : e.order = f.order /\ e.seq = f.seq => e = f
  /\ \A e \in rows : e.type = "created" <=> e.seq = 1
  /\ \A e \in rows : e.seq > 1 =>
       \E d \in rows : /\ d.order = e.order /\ d.seq + 1 = e.seq
                       /\ StatusOfRow(e) \in Legal(StatusOfRow(d))

(* A copy, live or rebuilt from a list that was reordered, repeated or cut *)
(* short, has the status that was recorded under its seq: "rebuilding an   *)
(* Order from its OrderEvent sequence produces the same state as applying  *)
(* transitions live", or raises.                                           *)
CopiesWereCommitted ==
  \A h \in Holders : pc[h] # "idle" =>
    \E e \in rows : e.order = order[h] /\ e.seq = seq[h] /\ StatusOfRow(e) = status[h]

(* All holders together implement one order per identity that moves one    *)
(* legal step at a time.                                                   *)
IsLast(e) == \A f \in rows : f.order = e.order => f.seq <= e.seq

StatusNow(o) ==
  IF RowsOf(o) = {} THEN "absent"
  ELSE StatusOfRow(CHOOSE e \in RowsOf(o) : IsLast(e))

Contract == INSTANCE OrderContract WITH
  Orders <- OrderIds, status <- [o \in OrderIds |-> StatusNow(o)]

ImplementsContract == Contract!Spec
=============================================================================
