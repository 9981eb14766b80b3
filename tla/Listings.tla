------------------------------ MODULE Listings ------------------------------
(***************************************************************************)
(* The paged lists: findMany with skip and take, and count, sent together  *)
(* by Promise.all and answered in either order, while others insert rows,  *)
(* make rows leave the list, or move them up.  A reader walks the pages    *)
(* until the total says there are no more.                                 *)
(***************************************************************************)
EXTENDS Integers, FiniteSets

CONSTANTS MaxRows,     \* bound: rows of the table, in order of creation
          MaxTouches,  \* bound: messages sent in listed conversations
          ListPage     \* size

ASSUME ListingsBounds == {MaxRows, MaxTouches} \subseteq Nat /\ ListPage \in Nat \ {0}

RowIds == 1..MaxRows

\* Rows only arrive, at the front.
MessagesList == [name |-> "messages", leaves |-> FALSE, moves |-> FALSE]
ReviewsList == [name |-> "reviews", leaves |-> FALSE, moves |-> FALSE]

\* A favorite can be removed.
FavoritesList == [name |-> "favorites", leaves |-> TRUE, moves |-> FALSE]

\* A booking leaves a list filtered by status.
MyBookingsList == [name |-> "my bookings", leaves |-> TRUE, moves |-> FALSE]
OwnerBookingsList == [name |-> "owner bookings", leaves |-> TRUE, moves |-> FALSE]

\* A message moves its conversation to the front.
ConversationsList == [name |-> "conversations", leaves |-> FALSE, moves |-> TRUE]

Lists == {MessagesList, ReviewsList, FavoritesList, MyBookingsList,
          OwnerBookingsList, ConversationsList}

VARIABLES list,      \* the list that is read
          listed,    \* the rows its where clause matches
          next,      \* the row to be created next
          stamp,     \* stamp[r]: lastMessageAt of a conversation, 0 for null
          page, got, total,  \* what the reader asks for and was answered
          first,     \* history: rows the list had when the walk began
          seen,      \* rows the reader was given
          disturbed  \* history: a row left or moved during the walk, or came
                     \* between a count and its find

listingVars == <<list, listed, next, stamp, page, got, total, first, seen, disturbed>>

ListingsTypeOK ==
    /\ list \in Lists
    /\ listed \subseteq RowIds /\ first \subseteq RowIds /\ seen \subseteq RowIds
    /\ next \in 1..(MaxRows + 1)
    /\ stamp \in [RowIds -> 0..MaxTouches]
    /\ page \in Nat /\ total \in RowIds \cup {0}
    /\ got \in {"neither", "items", "total", "both", "done"}
    /\ disturbed \in BOOLEAN

ListingsInit ==
    /\ list \in Lists
    /\ \E n \in 0..MaxRows : listed = 1..n /\ first = 1..n /\ next = n + 1
    /\ stamp = [r \in RowIds |-> 0]
    /\ page = 0 /\ got = "neither" /\ total = 0
    /\ seen = {} /\ disturbed = FALSE

-----------------------------------------------------------------------------
(* What others do meanwhile. *)

InsertRow ==
    /\ next <= MaxRows
    /\ listed' = listed \cup {next}
    /\ next' = next + 1
    /\ disturbed' = (disturbed \/ got = "total")
    /\ UNCHANGED <<list, stamp, page, got, total, first, seen>>

LeaveList(r) ==
    /\ list.leaves /\ r \in listed
    /\ listed' = listed \ {r}
    /\ disturbed' = TRUE
    /\ UNCHANGED <<list, next, stamp, page, got, total, first, seen>>

MoveUp(r) ==
    /\ list.moves /\ r \in listed
    /\ \E n \in 1..MaxTouches :
        /\ \A s \in RowIds : stamp[s] < n
        /\ \A m \in 1..(n - 1) : \E s \in RowIds : stamp[s] >= m
        /\ stamp' = [stamp EXCEPT ![r] = n]
    /\ disturbed' = TRUE
    /\ UNCHANGED <<list, listed, next, page, got, total, first, seen>>

-----------------------------------------------------------------------------
(* One page. *)

\* createdAt descending; conversations by lastMessageAt descending, which has
\* the nulls first.
Before(r, s) ==
    IF stamp[r] = stamp[s] THEN r > s
    ELSE stamp[r] = 0 \/ (stamp[s] # 0 /\ stamp[r] > stamp[s])

Rank(r) == Cardinality({s \in listed : Before(s, r)})

\* Pages counted from one.
PageOf_FromOne(p) == {r \in listed : Rank(r) \div ListPage = p + 1}

PageOf(p) == {r \in listed : Rank(r) \div ListPage = p}

Answered(part, other) == got' = IF got = other THEN "both" ELSE part

FindMany ==
    /\ got \in {"neither", "total"}
    /\ seen' = seen \cup PageOf(page)
    /\ Answered("items", "total")
    /\ UNCHANGED <<list, listed, next, stamp, page, total, first, disturbed>>

Count ==
    /\ got \in {"neither", "items"}
    /\ total' = Cardinality(listed)
    /\ Answered("total", "items")
    /\ UNCHANGED <<list, listed, next, stamp, page, first, seen, disturbed>>

\* The reader goes on while the total promises more.
TurnPage ==
    /\ got = "both"
    /\ IF (page + 1) * ListPage < total
       THEN page' = page + 1 /\ got' = "neither"
       ELSE got' = "done" /\ UNCHANGED page
    /\ UNCHANGED <<list, listed, next, stamp, total, first, seen, disturbed>>

ListingsNext ==
    \/ InsertRow
    \/ \E r \in RowIds : LeaveList(r) \/ MoveUp(r)
    \/ FindMany \/ Count \/ TurnPage

-----------------------------------------------------------------------------
(***************************************************************************)
(* A walk through the pages shows every row the list had when it began,    *)
(* however many arrive meanwhile: skip and take count from the front,      *)
(* where new rows only push old ones to later pages.  A row that leaves or *)
(* moves up, or arrives between a count and its find, voids the promise.   *)
(***************************************************************************)
WalkSkipsNothing ==
    got = "done" /\ ~disturbed => first \subseteq seen
=============================================================================
