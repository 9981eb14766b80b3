--------------------------- MODULE BookingStatus ---------------------------
(***************************************************************************)
(* The life cycle of a booking: the statuses, the transitions the domain   *)
(* declares valid, and the statuses that occupy a slot                     *)
(* (src/src/domain/entities/booking-status.enum.ts).                       *)
(***************************************************************************)

Status ==
    {"HOLD", "CONFIRMED", "CANCELLED_BY_USER", "CANCELLED_BY_OWNER",
     "EXPIRED", "COMPLETED"}

VALID_TRANSITIONS ==
    {<<"HOLD", "CONFIRMED">>, <<"HOLD", "EXPIRED">>,
     <<"HOLD", "CANCELLED_BY_USER">>,
     <<"CONFIRMED", "CANCELLED_BY_USER">>,
     <<"CONFIRMED", "CANCELLED_BY_OWNER">>, <<"CONFIRMED", "COMPLETED">>}

isValidTransition(from, to) == <<from, to>> \in VALID_TRANSITIONS

BLOCKING_STATUSES == {"HOLD", "CONFIRMED"}

\* The statuses VALID_TRANSITIONS gives no way out of.
TerminalStatus ==
    {s \in Status : \A t \in Status : ~isValidTransition(s, t)}

CancelledStatus == {"CANCELLED_BY_USER", "CANCELLED_BY_OWNER"}
=============================================================================
