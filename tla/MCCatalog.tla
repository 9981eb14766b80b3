----------------------------- MODULE MCCatalog ------------------------------
(***************************************************************************)
(* An instance of CatalogSystem for TLC: two days of three hours, an hour  *)
(* of two minutes, a minute of two ticks; Monday, then Saturday.           *)
(***************************************************************************)
EXTENDS CatalogSystem

Opens(open, close) == [open |-> open, close |-> close, isClosed |-> FALSE]

\* All day long, from and to the hour, off the hour, marked closed, no row.
MCHours ==
    {Opens(0, 12), Opens(4, 8), Opens(2, 10),
     [open |-> 0, close |-> 12, isClosed |-> TRUE], NoRow}

MCRule(type, start, end, rate) ==
    [dayType |-> type, start |-> start, end |-> end, rate |-> rate]

\* None; one for each type; peak hours; rules that overlap, end off the
\* hour, leave a gap, or cost nothing.
MCRules ==
    {<<>>,
     <<MCRule("WEEKDAY", 0, 12, 2), MCRule("WEEKEND", 0, 12, 3)>>,
     <<MCRule("WEEKDAY", 0, 4, 2), MCRule("WEEKDAY", 4, 12, 3)>>,
     <<MCRule("WEEKDAY", 0, 6, 2), MCRule("WEEKDAY", 4, 12, 3)>>,
     <<MCRule("WEEKDAY", 4, 8, 0)>>}

\* Saturday is open all day, or, at a court without rules, has no row.
MCSchedules ==
    {s \in [hours : [0..1 -> MCHours], rules : MCRules] :
        \/ s.hours[1] = Opens(0, 12)
        \/ s.hours[1] = NoRow /\ s.rules = <<>>}

Slice(start, end) == [start |-> start, end |-> end]

\* Hours, two of them, over midnight, on Saturday, backwards; from one tick
\* after the hour to one tick after the next.
MCRanges ==
    {Slice(0, 4), Slice(4, 8), Slice(0, 8), Slice(4, 12),
     Slice(10, 14), Slice(20, 24), Slice(8, 6), Slice(5, 9)}

Court(id, sport, status, prices) ==
    [id |-> id, sport |-> sport, status |-> status, prices |-> prices]

Venue(status, distance, courts) ==
    [status |-> status, distance |-> distance, courts |-> courts]

\* Tennis and football, near and far; a court that is closed, one without
\* rules, one with a free hour, a venue that is closed, one at the very spot.
MCCatalogs ==
    {<<Venue("ACTIVE", 1, {Court(1, "TENNIS", "ACTIVE", {2, 3}),
                           Court(2, "FOOTBALL", "INACTIVE", {1})}),
       Venue("ACTIVE", 0, {Court(3, "FOOTBALL", "ACTIVE", {1})}),
       Venue("ACTIVE", 2, {Court(4, "TENNIS", "ACTIVE", {}),
                           Court(5, "FOOTBALL", "ACTIVE", {0, 2})}),
       v4>> : v4 \in {Venue("INACTIVE", 1, {Court(6, "TENNIS", "ACTIVE", {1})}),
                      Venue("ACTIVE", 1, {Court(6, "TENNIS", "ACTIVE", {1})})}}

MCQueries ==
    [sport : {"TENNIS", Anything}, minPrice : {0, 2}, maxPrice : {0, 1, 2},
     radius : 0..1, located : BOOLEAN]
=============================================================================
