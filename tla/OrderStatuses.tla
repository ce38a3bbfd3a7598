--------------------------- MODULE OrderStatuses ---------------------------
(* The statuses of an order, the graph of its transitions and the type of  *)
(* the event each transition records: domain/order.py.                     *)

Statuses ==
  {"pending_new", "sent", "acked", "rejected", "unknown", "partially_filled",
   "filled", "pending_cancel", "canceled", "expired"}

Terminal == {"filled", "canceled", "rejected", "expired"}

(* Seeded fault: a cancel can still be asked of an order that is done. *)
CancelAnyTime(s) ==
  CASE s = "pending_new" -> {"sent"}
    [] s = "sent"        -> {"acked", "rejected", "unknown"}
    [] OTHER             -> {"partially_filled", "filled", "pending_cancel"}

(* _LEGAL_TRANSITIONS.  "unknown" has no way out yet. *)
Legal(s) ==
  CASE s = "pending_new"                    -> {"sent"}
    [] s = "sent"                           -> {"acked", "rejected", "unknown"}
    [] s \in {"acked", "partially_filled"}  ->
         {"partially_filled", "filled", "pending_cancel", "expired"}
    [] s = "pending_cancel"                 -> {"canceled", "filled", "partially_filled"}
    [] OTHER                                -> {}

(* _EVENT_TYPE_FOR_STATUS: one status is not recorded under its own name. *)
EventTypeFor(s) == IF s = "pending_cancel" THEN "cancel_requested" ELSE s

(* Seeded fault: event types are read as statuses of the same name. *)
SameName(t) == t

(* _STATUS_FOR_EVENT_TYPE, its inverse. *)
StatusFor(t) == IF t = "cancel_requested" THEN "pending_cancel" ELSE t

EventTypes == {"created"} \cup {EventTypeFor(s) : s \in Statuses \ {"pending_new"}}
=============================================================================
