---------------------------- MODULE VenueSearch -----------------------------
(***************************************************************************)
(* Looking for a venue: one page of rows that match the where clause, in   *)
(* no order anybody asked for, then the radius applied to that page; the   *)
(* client walks the pages until the total says there are no more, and      *)
(* opens the details of what it found.  The free-text filter is left out.  *)
(***************************************************************************)
EXTENDS Integers, Sequences, FiniteSetsExt

CONSTANTS Catalogs,    \* what the tables of venues, courts and rules may hold
          Queries,     \* what is searched for; 0 and None stand for "not given"
          SearchPage,  \* size
          Anything     \* no sport given

ASSUME SearchBounds == SearchPage \in Nat \ {0}

\* prices: the rates of the court's rules.
CourtRow == [id : Nat, sport : STRING, status : {"ACTIVE", "INACTIVE"}, prices : SUBSET Nat]

\* distance: to the place the customer names, if he does.
VenueRow == [status : {"ACTIVE", "INACTIVE"}, distance : Nat, courts : SUBSET CourtRow]

\* A price or a radius of 0 counts as none; located: lat and lng are given.
SearchVenuesQuery ==
    [sport : STRING \cup {Anything}, minPrice : Nat, maxPrice : Nat,
     radius : Nat, located : BOOLEAN]

VenueListItem == [venue : Nat, sports : SUBSET STRING, courts : Nat, minPrice : Nat]

CourtItem == [id : Nat, sport : STRING, minPrice : Nat]

VenueDetailResponse == [venue : Nat, courts : SUBSET CourtItem]

ASSUME CatalogsAssumption ==
    /\ \A c \in Catalogs :
          /\ c \in Seq(VenueRow)
          /\ \A v \in DOMAIN c :
                /\ IsFiniteSet(c[v].courts)
                /\ \A a, b \in c[v].courts : a.id = b.id => a = b
    /\ Queries \subseteq SearchVenuesQuery

VARIABLES venues,    \* venues[v]: row v with its courts and their rules
          heap,      \* the order in which the database returns rows
          query,
          turn,      \* the page asked for next; done when -1
          found,     \* list items on the screen
          detail,    \* details that were opened
          updated    \* history: a row was written during the walk

searchVars == <<venues, heap, query, turn, found, detail, updated>>

VenueIds == DOMAIN venues

SearchTypeOK ==
    /\ venues \in Catalogs /\ query \in Queries
    /\ heap \in [1..Cardinality(VenueIds) -> VenueIds]
    /\ turn \in -1..Cardinality(VenueIds)
    /\ found \subseteq VenueListItem
    /\ detail \subseteq VenueDetailResponse
    /\ updated \in BOOLEAN

SearchInit ==
    /\ venues \in Catalogs /\ query \in Queries
    /\ heap = [i \in 1..Cardinality(VenueIds) |-> i]
    /\ turn = 0 /\ found = {} /\ detail = {} /\ updated = FALSE

-----------------------------------------------------------------------------
ActiveCourts(v) == {c \in venues[v].courts : c.status = "ACTIVE"}

\* The lower bound and the upper bound, when given, of the price of one rule.
InBudget(price) ==
    /\ query.minPrice # 0 => price >= query.minPrice
    /\ query.maxPrice # 0 => price <= query.maxPrice

PriceGiven == query.minPrice # 0 \/ query.maxPrice # 0

\* Closed courts are looked at as well.
CourtMatches_AnyStatus(c) ==
    /\ query.sport # Anything => c.sport = query.sport
    /\ PriceGiven => \E p \in c.prices : InBudget(p)

\* The conditions on sport and price are about one and the same court.
CourtMatches(c) ==
    /\ c.status = "ACTIVE"
    /\ query.sport # Anything => c.sport = query.sport
    /\ PriceGiven => \E p \in c.prices : InBudget(p)

Matches(v) ==
    /\ venues[v].status = "ACTIVE"
    /\ query.sport # Anything \/ PriceGiven
        => \E c \in venues[v].courts : CourtMatches(c)

Matching == {v \in VenueIds : Matches(v)}

\* Where v comes among the matching rows, from zero.
Place(v) ==
    LET at(w) == CHOOSE i \in DOMAIN heap : heap[i] = w
    IN Cardinality({w \in Matching : at(w) < at(v)})

\* Pages counted from one.
Rows_FromOne(p) == {v \in Matching : Place(v) \div SearchPage = p + 1}

\* skip and take.
Rows(p) == {v \in Matching : Place(v) \div SearchPage = p}

\* Without coordinates there is no distance, and a distance of zero is as
\* false as none: a radius leaves both out.
InRadius(v) ==
    query.radius # 0 =>
        query.located /\ venues[v].distance # 0 /\ venues[v].distance <= query.radius

MinPrice(prices) == IF prices = {} THEN 0 ELSE Min(prices)

Item(v) ==
    [venue |-> v,
     sports |-> {c.sport : c \in ActiveCourts(v)},
     courts |-> Cardinality(ActiveCourts(v)),
     minPrice |-> MinPrice(UNION {c.prices : c \in ActiveCourts(v)})]

\* With a radius the total is that of the page.
Total(items) == IF query.radius # 0 THEN Cardinality(items) ELSE Cardinality(Matching)

\* What the use case makes of the rows: the page as it goes to the client.
SearchVenues(items) == {Item(v) : v \in items}

\* GET /venues, for the next page of the walk.
Search ==
    /\ turn >= 0
    /\ LET items == {v \in Rows(turn) : InRadius(v)}
       IN /\ found' = found \cup SearchVenues(items)
          /\ turn' = IF (turn + 1) * SearchPage < Total(items) THEN turn + 1 ELSE -1
    /\ UNCHANGED <<venues, heap, query, detail, updated>>

\* Closed courts are shown as well.
CourtsOf_All(v) ==
    {[id |-> c.id, sport |-> c.sport, minPrice |-> MinPrice(c.prices)] :
        c \in venues[v].courts}

CourtsOf(v) ==
    {[id |-> c.id, sport |-> c.sport, minPrice |-> MinPrice(c.prices)] :
        c \in ActiveCourts(v)}

\* GET /venues/:id
GetVenueDetail(v) ==
    /\ v \in {i.venue : i \in found}
    /\ detail' = detail \cup {[venue |-> v, courts |-> CourtsOf(v)]}
    /\ UNCHANGED <<venues, heap, query, turn, found, updated>>

\* Whoever writes a row (a review writes the rating) moves it to the end.
UpdateRow(v) ==
    /\ turn >= 0
    /\ LET i == CHOOSE j \in DOMAIN heap : heap[j] = v
       IN heap' = [j \in DOMAIN heap |->
                     IF j < i THEN heap[j]
                     ELSE IF j = Cardinality(VenueIds) THEN v ELSE heap[j + 1]]
    /\ updated' = TRUE
    /\ UNCHANGED <<venues, query, turn, found, detail>>

SearchNext ==
    \/ Search
    \/ \E v \in VenueIds : GetVenueDetail(v) \/ UpdateRow(v)

-----------------------------------------------------------------------------
(***************************************************************************)
(* A walk ends with every venue that was asked for, unless a row was       *)
(* written meanwhile; with a radius, only if it fits one page (the total   *)
(* then counts what is left of a page, so the walk stops early), and but   *)
(* for venues at the very spot.                                            *)
(***************************************************************************)
SearchFindsAll ==
    turn = -1 /\ ~updated /\ (query.radius = 0 \/ Cardinality(Matching) <= SearchPage) =>
        {i.venue : i \in found} =
            {v \in Matching : query.radius # 0 =>
                query.located /\ venues[v].distance \in 1..query.radius}

\* A price of 0 is taken for none in several places.
NothingIsFree(v) == \A c \in ActiveCourts(v) : 0 \notin c.prices

(***************************************************************************)
(* The price a found venue is listed with does not exceed the upper bound  *)
(* that was given, and is a price, unless an hour there costs nothing:     *)
(* filter and list agree on the courts.                                    *)
(***************************************************************************)
PriceWithinBudget ==
    \A i \in found :
        /\ PriceGiven /\ NothingIsFree(i.venue) => i.minPrice > 0
        /\ query.maxPrice # 0 => i.minPrice <= query.maxPrice

(***************************************************************************)
(* The list and the details of a venue tell the same sports and courts,    *)
(* and the same cheapest hour (a court without rules shows 0 in the        *)
(* details, and does not count in the list), unless an hour costs nothing. *)
(***************************************************************************)
ListAndDetailAgree ==
    \A i \in found, d \in detail :
        i.venue = d.venue =>
            /\ i.sports = {c.sport : c \in d.courts}
            /\ i.courts = Cardinality(d.courts)
            /\ NothingIsFree(i.venue) =>
                  i.minPrice = MinPrice({c.minPrice : c \in d.courts} \ {0})
=============================================================================
