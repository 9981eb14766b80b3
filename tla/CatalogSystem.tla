--------------------------- MODULE CatalogSystem ----------------------------
(***************************************************************************)
(* What a customer looks at before he books: a behaviour is about the      *)
(* schedule of one court, or about a search for a venue.                   *)
(***************************************************************************)
EXTENDS CourtSchedule, VenueSearch

VARIABLE topic

vars == <<topic, scheduleVars, searchVars>>

TypeOK ==
    /\ topic = "schedule" => ScheduleTypeOK
    /\ topic = "search" => SearchTypeOK

\* The other topic rests in one of its initial states.
Init ==
    \/ /\ topic = "schedule" /\ ScheduleInit /\ SearchInit
       /\ venues = (CHOOSE c \in Catalogs : TRUE) /\ query = (CHOOSE q \in Queries : TRUE)
    \/ /\ topic = "search" /\ SearchInit /\ ScheduleInit
       /\ [hours |-> hours, rules |-> rules] = (CHOOSE s \in Schedules : TRUE)

Next ==
    \/ topic = "schedule" /\ ScheduleNext /\ UNCHANGED <<topic, searchVars>>
    \/ topic = "search" /\ SearchNext /\ UNCHANGED <<topic, scheduleVars>>

Spec == Init /\ [][Next]_vars
=============================================================================
