-------------------------- MODULE CommunityProofs ---------------------------
(***************************************************************************)
(* Proofs about CommunitySystem, one section per feature: an inductive     *)
(* invariant with the type of its variables and what its requests may rely *)
(* on between two statements, then the theorems at the end.                *)
(***************************************************************************)
EXTENDS CommunitySystem, FiniteSetTheorems, TLAPS

-----------------------------------------------------------------------------
(* Requests *)

\* Others keep what they hold when c begins, goes on, ends or is rejected.
OnlyCalls(c) == \A d \in Clients \ {c} : call'[d] = call[d]

\* How a request of c begins with the local variables r.
LEMMA BegunCall ==
    ASSUME NEW Calls, RequestsTypeOK(Calls), NEW c \in Clients, NEW r,
           r \in Calls \cup {Idle}, Begin(c, r)
    PROVE  /\ RequestsTypeOK(Calls)' /\ OnlyCalls(c) /\ call'[c] = r
           /\ call[c].at = "idle" /\ faults' = faults
  <1>1. calls' \in 0..MaxCalls
    BY RequestsBounds DEF RequestsTypeOK, Begin
  <1> QED
    BY <1>1 DEF RequestsTypeOK, Begin, At, OnlyCalls

\* How it goes on.
LEMMA ContinuedCall ==
    ASSUME NEW Calls, RequestsTypeOK(Calls), NEW c \in Clients, NEW r,
           r \in Calls \cup {Idle}, Continue(c, r)
    PROVE  /\ RequestsTypeOK(Calls)' /\ OnlyCalls(c) /\ call'[c] = r
           /\ faults' = faults
  BY DEF RequestsTypeOK, Continue, OnlyCalls

LEMMA FinishedCall ==
    ASSUME NEW Calls, RequestsTypeOK(Calls), NEW c \in Clients, Finish(c)
    PROVE  /\ RequestsTypeOK(Calls)' /\ OnlyCalls(c) /\ call'[c].at = "idle"
           /\ faults' = faults
  <1>1. call'[c] = Idle /\ RequestsTypeOK(Calls)' /\ OnlyCalls(c) /\ faults' = faults
    BY ContinuedCall DEF Finish
  <1> QED
    BY <1>1 DEF Idle

\* How it is given up.
LEMMA RejectedCall ==
    ASSUME NEW Calls, RequestsTypeOK(Calls), NEW c \in Clients, Reject(c)
    PROVE  /\ RequestsTypeOK(Calls)' /\ OnlyCalls(c) /\ call'[c].at = "idle"
           /\ faults' > 0
  <1>1. faults' \in 0..MaxFaults /\ faults' > 0
    BY RequestsBounds DEF RequestsTypeOK, Reject
  <1> QED
    BY <1>1 DEF RequestsTypeOK, Reject, OnlyCalls, Idle

-----------------------------------------------------------------------------
(* Favorites *)

AtWork(c, p) == call[c].at # "idle" /\ call[c].pair = p

\* A request that is alone with its pair writes what it has looked for.
FavoriteWorks ==
    \A p \in Pairs \ tangled :
        /\ \A c, d \in Clients : AtWork(c, p) /\ AtWork(d, p) => c = d
        /\ \A c \in Clients : AtWork(c, p) =>
              (call[c].at = "favorite.add") = (p \notin favorites)

FavoritesInv == FavoritesTypeOK /\ EveryPressCounts /\ FavoriteWorks

LEMMA Parity ==
    ASSUME NEW n \in Nat
    PROVE  ((n + 1) % 2 = 1) = (n % 2 # 1)
  OBVIOUS

LEMMA FavoriteBegins ==
    ASSUME FavoritesInv, NEW c \in Clients, NEW p \in Pairs,
           NEW stage \in {"favorite.add", "favorite.remove"},
           (stage = "favorite.add") = (p \notin favorites),
           BeginWrite(c, p, stage)
    PROVE  FavoritesInv'
  <1> DEFINE r == [at |-> stage, pair |-> p]
  <1>1. r \in FavoriteCall /\ r.at = stage /\ r.pair = p
    BY DEF FavoriteCall
  <1>2. RequestsTypeOK(FavoriteCall) /\ Begin(c, r)
    BY DEF FavoritesInv, FavoritesTypeOK, BeginWrite
  <1> HIDE DEF r
  <1>3. /\ RequestsTypeOK(FavoriteCall)' /\ OnlyCalls(c) /\ call'[c] = r
        /\ call[c].at = "idle"
    BY <1>1, <1>2, BegunCall
  <1>4. /\ UNCHANGED <<favorites, presses>>
        /\ tangled' \subseteq Pairs /\ tangled \subseteq tangled'
        /\ p \notin tangled' => \A d \in Clients : ~AtWork(d, p)
    BY DEF BeginWrite, FavoritesInv, FavoritesTypeOK, AtWork, At
  <1>5. FavoritesTypeOK'
    BY <1>3, <1>4 DEF FavoritesInv, FavoritesTypeOK
  <1>6. EveryPressCounts'
    BY <1>4 DEF FavoritesInv, EveryPressCounts
  <1>7. \A d \in Clients, q \in Pairs \ tangled' :
            AtWork(d, q)' => IF d = c THEN q = p ELSE AtWork(d, q) /\ q # p
    BY <1>1, <1>3, <1>4 DEF AtWork, OnlyCalls
  <1>8. FavoriteWorks'
    BY <1>1, <1>3, <1>4, <1>7 DEF FavoritesInv, FavoriteWorks, OnlyCalls
  <1> QED
    BY <1>5, <1>6, <1>8 DEF FavoritesInv

\* What an answered request leaves behind.
LEMMA FavoriteWritten ==
    ASSUME FavoritesInv, NEW c \in Clients, NEW p \in Pairs, AtWork(c, p),
           favorites' \subseteq Pairs, favorites' \ {p} = favorites \ {p},
           presses' = [presses EXCEPT ![p] = @ + 1],
           p \notin tangled => (p \in favorites') = (p \notin favorites),
           UNCHANGED tangled, Finish(c)
    PROVE  FavoritesInv'
  <1>1. RequestsTypeOK(FavoriteCall)
    BY DEF FavoritesInv, FavoritesTypeOK
  <1>2. RequestsTypeOK(FavoriteCall)' /\ OnlyCalls(c) /\ call'[c].at = "idle"
    BY <1>1, FinishedCall
  <1>3. FavoritesTypeOK'
    BY <1>2 DEF FavoritesInv, FavoritesTypeOK
  <1>4. \A q \in Pairs : presses[q] \in Nat
    BY DEF FavoritesInv, FavoritesTypeOK
  <1>5. presses \in [Pairs -> Nat]
    BY DEF FavoritesInv, FavoritesTypeOK
  <1>6. presses'[p] = presses[p] + 1 /\ \A q \in Pairs \ {p} : presses'[q] = presses[q]
    BY <1>5
  <1>7. (presses'[p] % 2 = 1) = (presses[p] % 2 # 1)
    BY <1>4, <1>6, Parity
  <1>8. EveryPressCounts'
    BY <1>6, <1>7 DEF FavoritesInv, EveryPressCounts
  <1>9. \A d \in Clients, q \in Pairs : AtWork(d, q)' => d # c /\ AtWork(d, q)
    BY <1>2 DEF AtWork, OnlyCalls
  <1>10. FavoriteWorks'
    BY <1>2, <1>9 DEF FavoritesInv, FavoriteWorks, OnlyCalls
  <1> QED
    BY <1>3, <1>8, <1>10 DEF FavoritesInv

\* A request that ends without a word to the table.
LEMMA FavoriteDropped ==
    ASSUME FavoritesInv, NEW c \in Clients, RequestsTypeOK(FavoriteCall)',
           OnlyCalls(c), call'[c].at = "idle", UNCHANGED favoriteVars
    PROVE  FavoritesInv'
  <1>1. FavoritesTypeOK' /\ EveryPressCounts'
    BY DEF FavoritesInv, FavoritesTypeOK, EveryPressCounts, favoriteVars
  <1>2. \A d \in Clients, q \in Pairs : AtWork(d, q)' => d # c /\ AtWork(d, q)
    BY DEF AtWork, OnlyCalls
  <1>3. FavoriteWorks'
    BY <1>2 DEF FavoritesInv, FavoriteWorks, OnlyCalls, favoriteVars
  <1> QED
    BY <1>1, <1>3 DEF FavoritesInv

LEMMA FavoritesStep ==
    ASSUME FavoritesInv, FavoritesNext
    PROVE  FavoritesInv'
  <1>1. PICK c \in Clients :
            \/ Add(c) \/ AddConflict(c) \/ Remove(c)
            \/ Reject(c) /\ UNCHANGED favoriteVars
            \/ \E p \in Pairs : \/ AddFavorite(c, p) \/ RemoveFavorite(c, p)
                                \/ ToggleFavorite(c, p)
    BY DEF FavoritesNext
  <1>2. /\ RequestsTypeOK(FavoriteCall)
        /\ presses \in [Pairs -> Nat] /\ favorites \subseteq Pairs
    BY DEF FavoritesInv, FavoritesTypeOK
  <1>3. call[c].at # "idle" => call[c].pair \in Pairs /\ AtWork(c, call[c].pair)
    BY <1>2 DEF RequestsTypeOK, FavoriteCall, Idle, AtWork
  <1>4. ASSUME call[c].at # "idle", Pressed(c)
        PROVE  presses' \in [Pairs -> Nat]
    BY <1>2, <1>3, <1>4 DEF Pressed
  <1>5. CASE Add(c)
    <2>1. At(c, "favorite.add") /\ ~exists(call[c].pair) /\ Pressed(c)
          /\ favorites' = favorites \cup {call[c].pair}
          /\ Finish(c) /\ UNCHANGED tangled
      BY <1>5 DEF Add
    <2>2. presses' \in [Pairs -> Nat]
      BY <1>4, <2>1 DEF At
    <2>3. AtWork(c, call[c].pair) /\ call[c].pair \in Pairs
      BY <1>3, <2>1 DEF At
    <2>4. /\ favorites' \subseteq Pairs
          /\ favorites' \ {call[c].pair} = favorites \ {call[c].pair}
          /\ call[c].pair \in favorites' /\ call[c].pair \notin favorites
      BY <1>2, <2>1, <2>3 DEF exists
    <2> QED
      BY <2>1, <2>2, <2>3, <2>4, FavoriteWritten DEF Pressed
  <1>6. CASE Remove(c)
    <2>1. At(c, "favorite.remove") /\ Pressed(c)
          /\ favorites' = favorites \ {call[c].pair}
          /\ Finish(c) /\ UNCHANGED tangled
      BY <1>6 DEF Remove
    <2>2. presses' \in [Pairs -> Nat]
      BY <1>4, <2>1 DEF At
    <2>3. call[c].pair \notin tangled => call[c].pair \in favorites
      BY <1>3, <2>1 DEF FavoritesInv, FavoriteWorks, At
    <2>4. AtWork(c, call[c].pair) /\ call[c].pair \in Pairs
      BY <1>3, <2>1 DEF At
    <2>5. /\ favorites' \subseteq Pairs
          /\ favorites' \ {call[c].pair} = favorites \ {call[c].pair}
          /\ call[c].pair \notin tangled =>
                (call[c].pair \in favorites') = (call[c].pair \notin favorites)
      BY <1>2, <2>1, <2>3, <2>4
    <2> QED
      BY <2>1, <2>2, <2>4, <2>5, FavoriteWritten DEF Pressed
  <1>7. CASE AddConflict(c)
    BY <1>2, <1>7, FinishedCall, FavoriteDropped DEF AddConflict
  <1>8. CASE Reject(c) /\ UNCHANGED favoriteVars
    BY <1>2, <1>8, RejectedCall, FavoriteDropped
  <1>9. ASSUME NEW p \in Pairs,
               AddFavorite(c, p) \/ RemoveFavorite(c, p) \/ ToggleFavorite(c, p)
        PROVE  FavoritesInv'
    <2>1. CASE AddFavorite(c, p)
      BY <2>1, FavoriteBegins DEF AddFavorite, exists
    <2>2. CASE RemoveFavorite(c, p)
      BY <2>2, FavoriteBegins DEF RemoveFavorite, exists
    <2>3. CASE ToggleFavorite(c, p)
      BY <2>3, FavoriteBegins DEF ToggleFavorite, exists
    <2> QED
      BY <1>9, <2>1, <2>2, <2>3
  <1> QED
    BY <1>1, <1>5, <1>6, <1>7, <1>8, <1>9

LEMMA FavoritesStart ==
    ASSUME RequestsInit, FavoritesInit
    PROVE  FavoritesInv
  <1>1. RequestsTypeOK(FavoriteCall)
    BY RequestsBounds DEF RequestsInit, RequestsTypeOK
  <1>2. \A c \in Clients : call[c].at = "idle"
    BY DEF RequestsInit, Idle
  <1> QED
    BY <1>1, <1>2 DEF FavoritesInit, FavoritesInv, FavoritesTypeOK, EveryPressCounts,
                      FavoriteWorks, AtWork

LEMMA FavoritesIdle ==
    ASSUME FavoritesInv, UNCHANGED <<requestVars, favoriteVars>>
    PROVE  FavoritesInv'
  BY DEF FavoritesInv, FavoritesTypeOK, RequestsTypeOK, EveryPressCounts,
         FavoriteWorks, AtWork, requestVars, favoriteVars

-----------------------------------------------------------------------------
(* Reviews *)

Replying(c, r) == call[c].at = "reply.write" /\ call[c].review = r
Reading(c, v) == call[c].at = "rating.read" /\ call[c].venue = v
Writing(c, v) == call[c].at = "rating.write" /\ call[c].venue = v

\* The row a reply is written to is there.
RepliesMeet == \A c \in Clients, r \in ReviewIds : Replying(c, r) => r \in Written

ReviewsTyped == ReviewsTypeOK /\ RepliesMeet

\* A reply that is alone with its review finds it unanswered.
RepliesAlone ==
    \A r \in ReviewIds \ answered :
        /\ \A c, d \in Clients : Replying(c, r) /\ Replying(d, r) => c = d
        /\ \A c \in Clients : Replying(c, r) => reviews[r].reply = None

\* What is about to be written is the average of all reviews, or somebody will
\* read it again; what is written is, or somebody is about to write it.
RatingsKept ==
    \A v \in Venues \ averaged :
        /\ \A c, d \in Clients : Writing(c, v) /\ Writing(d, v) => c = d
        /\ faults = 0 =>
              /\ \A c \in Clients : Writing(c, v) =>
                    \/ call[c].rows = ReviewsOf(v)
                    \/ \E d \in Clients : Reading(d, v)
              /\ \/ rating[v] = ReviewsOf(v)
                 \/ \E d \in Clients : Reading(d, v) \/ Writing(d, v)

ReviewsInv == ReviewsTyped /\ OneReviewPerBooking /\ RepliesAlone /\ RatingsKept

LEMMA ReviewCalls ==
    ASSUME ReviewsTyped, NEW c \in Clients
    PROVE  /\ RequestsTypeOK(ReviewCall)
           /\ call[c].at = "review.create" =>
                 call[c].booking \in Stays /\ call[c].rating \in 1..MaxRating
           /\ call[c].at = "rating.read" => call[c].venue \in Venues
           /\ call[c].at = "rating.write" =>
                 call[c].venue \in Venues /\ call[c].rows \in SUBSET ReviewIds
           /\ call[c].at = "reply.write" =>
                 /\ call[c].review \in ReviewIds /\ call[c].reply \in Replies
                 /\ call[c].review \in Written
  <1>1. RequestsTypeOK(ReviewCall)
    BY DEF ReviewsTyped, ReviewsTypeOK
  <1>2. call[c] \in ReviewCall \cup {Idle}
    BY <1>1 DEF RequestsTypeOK
  <1>3. call[c].at = "reply.write" =>
            call[c].review \in ReviewIds /\ call[c].reply \in Replies
    BY <1>2 DEF ReviewCall, Idle
  <1>4. call[c].at = "review.create" =>
            call[c].booking \in Stays /\ call[c].rating \in 1..MaxRating
    BY <1>2 DEF ReviewCall, Idle
  <1>5. call[c].at = "rating.read" => call[c].venue \in Venues
    BY <1>2 DEF ReviewCall, Idle
  <1>6. call[c].at = "rating.write" =>
            call[c].venue \in Venues /\ call[c].rows \in SUBSET ReviewIds
    BY <1>2 DEF ReviewCall, Idle
  <1> QED
    BY <1>1, <1>3, <1>4, <1>5, <1>6 DEF ReviewsTyped, RepliesMeet, Replying

\* A request that goes on to something else than a reply.
LEMMA ReviewsTypedGoOn ==
    ASSUME ReviewsTyped, NEW c \in Clients, RequestsTypeOK(ReviewCall)', OnlyCalls(c),
           reviews' \in [ReviewIds -> Review \cup {None}],
           rating' \in [Venues -> SUBSET ReviewIds],
           averaged' \subseteq Venues, answered' \subseteq ReviewIds,
           Written \subseteq Written',
           call'[c].at = "reply.write" => call'[c].review \in Written
    PROVE  ReviewsTyped'
  <1>1. ReviewsTypeOK'
    BY DEF ReviewsTyped, ReviewsTypeOK
  <1>2. RepliesMeet'
    BY DEF ReviewsTyped, RepliesMeet, Replying, OnlyCalls
  <1> QED
    BY <1>1, <1>2 DEF ReviewsTyped

\* A row is added.
LEMMA ReviewCreated ==
    ASSUME ReviewsTyped, NEW c \in Clients, CreateReview(c)
    PROVE  /\ ReviewsTyped'
           /\ call[c].at = "review.create" /\ OnlyCalls(c) /\ faults' = faults
           /\ call'[c].at = "rating.read"
           /\ call'[c].venue = VenueOf[call[c].booking]
           /\ UNCHANGED <<rating, averaged, answered>>
           /\ UniqueBooking(call[c].booking)
           /\ \E r \in ReviewIds \ Written :
                 /\ reviews'[r].booking = call[c].booking
                 /\ reviews'[r] # None
                 /\ \A q \in ReviewIds \ {r} : reviews'[q] = reviews[q]
  <1>1. /\ At(c, "review.create") /\ UniqueBooking(call[c].booking)
        /\ Continue(c, [at |-> "rating.read", venue |-> VenueOf[call[c].booking]])
        /\ UNCHANGED <<rating, averaged, answered>>
    BY DEF CreateReview
  <1>2. PICK r \in ReviewIds :
            /\ IsNextRow(r, Written)
            /\ reviews' = [reviews EXCEPT ![r] =
                   [booking |-> call[c].booking, rating |-> call[c].rating,
                    reply |-> None]]
    BY DEF CreateReview
  <1>3. /\ RequestsTypeOK(ReviewCall)
        /\ call[c].booking \in Stays /\ call[c].rating \in 1..MaxRating
    BY <1>1, ReviewCalls DEF At
  <1> DEFINE n == [at |-> "rating.read", venue |-> VenueOf[call[c].booking]]
             row == [booking |-> call[c].booking, rating |-> call[c].rating, reply |-> None]
  <1>4. n \in ReviewCall /\ n.at = "rating.read" /\ n.venue = VenueOf[call[c].booking]
    BY <1>3 DEF ReviewCall, Venues
  <1>5. row \in Review /\ row.booking = call[c].booking /\ row # None
    BY <1>3, NoReviewAssumption DEF Review
  <1> HIDE DEF n, row
  <1>6. Continue(c, n) /\ reviews' = [reviews EXCEPT ![r] = row]
    BY <1>1, <1>2 DEF n, row
  <1>7. /\ RequestsTypeOK(ReviewCall)' /\ OnlyCalls(c) /\ call'[c] = n /\ faults' = faults
    BY <1>3, <1>4, <1>6, ContinuedCall
  <1>8. reviews \in [ReviewIds -> Review \cup {None}] /\ r \notin Written
    BY <1>2 DEF ReviewsTyped, ReviewsTypeOK, IsNextRow
  <1>9. /\ reviews'[r] = row /\ \A q \in ReviewIds \ {r} : reviews'[q] = reviews[q]
        /\ reviews' \in [ReviewIds -> Review \cup {None}]
    BY <1>5, <1>6, <1>8
  <1>10. Written \subseteq Written'
    BY <1>5, <1>9 DEF Written
  <1>11. ReviewsTyped'
    BY <1>1, <1>4, <1>7, <1>9, <1>10, ReviewsTypedGoOn
       DEF ReviewsTyped, ReviewsTypeOK
  <1> QED
    BY <1>1, <1>4, <1>5, <1>7, <1>8, <1>9, <1>11 DEF At

\* A row is answered.
LEMMA ReviewAnswered ==
    ASSUME ReviewsTyped, NEW c \in Clients, AddReply(c)
    PROVE  /\ ReviewsTyped'
           /\ call[c].at = "reply.write" /\ OnlyCalls(c) /\ faults' = faults
           /\ call'[c].at = "idle"
           /\ UNCHANGED <<rating, averaged, answered>>
           /\ Written' = Written
           /\ \A r \in Written : reviews'[r].booking = reviews[r].booking
           /\ \A r \in ReviewIds : r # call[c].review => reviews'[r] = reviews[r]
  <1>1. /\ At(c, "reply.write") /\ Finish(c)
        /\ reviews' = [reviews EXCEPT ![call[c].review] =
                          [@ EXCEPT !.reply = call[c].reply]]
        /\ UNCHANGED <<rating, averaged, answered>>
    BY DEF AddReply
  <1>2. /\ RequestsTypeOK(ReviewCall) /\ call[c].reply \in Replies
        /\ call[c].review \in ReviewIds /\ call[c].review \in Written
    BY <1>1, ReviewCalls DEF At
  <1>3. RequestsTypeOK(ReviewCall)' /\ OnlyCalls(c) /\ call'[c].at = "idle" /\ faults' = faults
    BY <1>1, <1>2, FinishedCall
  <1>4. PICK q \in Written : q = call[c].review
    BY <1>2
  <1> DEFINE row == [reviews[q] EXCEPT !.reply = call[c].reply]
  <1>5. reviews \in [ReviewIds -> Review \cup {None}] /\ q \in ReviewIds
    BY DEF ReviewsTyped, ReviewsTypeOK, Written
  <1>6. reviews[q] \in Review
    BY <1>5 DEF Written
  <1>7. row \in Review /\ row.booking = reviews[q].booking /\ row # None
    BY <1>2, <1>6, NoReviewAssumption DEF Review
  <1> HIDE DEF row
  <1>8. reviews' = [reviews EXCEPT ![q] = row]
    BY <1>1, <1>4 DEF row
  <1>9. /\ reviews'[q] = row /\ \A r \in ReviewIds \ {q} : reviews'[r] = reviews[r]
        /\ reviews' \in [ReviewIds -> Review \cup {None}]
    BY <1>5, <1>7, <1>8
  <1>10. Written' = Written
    BY <1>5, <1>7, <1>9 DEF Written
  <1>11. ReviewsTyped'
    BY <1>1, <1>3, <1>9, <1>10, ReviewsTypedGoOn DEF ReviewsTyped, ReviewsTypeOK
  <1>12. \A r \in Written : reviews'[r].booking = reviews[r].booking
    BY <1>5, <1>7, <1>9 DEF Written
  <1> QED
    BY <1>1, <1>3, <1>4, <1>9, <1>10, <1>11, <1>12 DEF At

LEMMA AverageRead ==
    ASSUME ReviewsTyped, NEW c \in Clients, ReadAverage(c)
    PROVE  /\ ReviewsTyped'
           /\ call[c].at = "rating.read" /\ OnlyCalls(c) /\ faults' = faults
           /\ call'[c].at = "rating.write" /\ call'[c].venue = call[c].venue
           /\ call'[c].rows = ReviewsOf(call[c].venue)
           /\ averaged \subseteq averaged'
           /\ call[c].venue \notin averaged' =>
                 \A d \in Clients : ~Writing(d, call[c].venue)
           /\ UNCHANGED <<reviews, rating, answered>>
  <1> DEFINE n == [at |-> "rating.write", venue |-> call[c].venue,
                   rows |-> ReviewsOf(call[c].venue)]
  <1>1. /\ At(c, "rating.read") /\ Continue(c, n)
        /\ UNCHANGED <<reviews, rating, answered>>
    BY DEF ReadAverage, calculateVenueAverageRating
  <1>2. RequestsTypeOK(ReviewCall) /\ call[c].venue \in Venues
    BY <1>1, ReviewCalls DEF At
  <1>3. /\ averaged' \subseteq Venues /\ averaged \subseteq averaged'
        /\ call[c].venue \notin averaged' => \A d \in Clients : ~Writing(d, call[c].venue)
    BY <1>2 DEF ReadAverage, WritingRating, Writing, At, ReviewsTyped, ReviewsTypeOK
  <1>4. /\ n \in ReviewCall /\ n.at = "rating.write" /\ n.venue = call[c].venue
        /\ n.rows = ReviewsOf(call[c].venue)
    BY <1>2 DEF ReviewCall, ReviewsOf, Written
  <1> HIDE DEF n
  <1>5. RequestsTypeOK(ReviewCall)' /\ OnlyCalls(c) /\ call'[c] = n /\ faults' = faults
    BY <1>1, <1>2, <1>4, ContinuedCall
  <1>6. ReviewsTyped'
    BY <1>1, <1>3, <1>4, <1>5, ReviewsTypedGoOn DEF ReviewsTyped, ReviewsTypeOK, Written
  <1> QED
    BY <1>1, <1>3, <1>4, <1>5, <1>6 DEF At

LEMMA RatingWritten ==
    ASSUME ReviewsTyped, NEW c \in Clients, WriteRating(c)
    PROVE  /\ ReviewsTyped'
           /\ call[c].at = "rating.write" /\ OnlyCalls(c) /\ faults' = faults
           /\ call'[c].at = "idle" /\ call[c].venue \in Venues
           /\ rating'[call[c].venue] = call[c].rows
           /\ \A v \in Venues : v # call[c].venue => rating'[v] = rating[v]
           /\ UNCHANGED <<reviews, averaged, answered>>
  <1>1. /\ At(c, "rating.write") /\ Finish(c)
        /\ rating' = [rating EXCEPT ![call[c].venue] = call[c].rows]
        /\ UNCHANGED <<reviews, averaged, answered>>
    BY DEF WriteRating
  <1>2. /\ RequestsTypeOK(ReviewCall) /\ call[c].venue \in Venues
        /\ call[c].rows \in SUBSET ReviewIds
    BY <1>1, ReviewCalls DEF At
  <1>3. RequestsTypeOK(ReviewCall)' /\ OnlyCalls(c) /\ call'[c].at = "idle" /\ faults' = faults
    BY <1>1, <1>2, FinishedCall
  <1>4. rating \in [Venues -> SUBSET ReviewIds]
    BY DEF ReviewsTyped, ReviewsTypeOK
  <1>5. /\ rating' \in [Venues -> SUBSET ReviewIds]
        /\ rating'[call[c].venue] = call[c].rows
        /\ \A v \in Venues : v # call[c].venue => rating'[v] = rating[v]
    BY <1>1, <1>2, <1>4
  <1>6. ReviewsTyped'
    BY <1>1, <1>3, <1>5, ReviewsTypedGoOn DEF ReviewsTyped, ReviewsTypeOK, Written
  <1> QED
    BY <1>1, <1>2, <1>3, <1>5, <1>6 DEF At

LEMMA ReviewBegun ==
    ASSUME ReviewsTyped, NEW c \in Clients, NEW b \in Stays, NEW stars,
           BeginReview(c, b, stars)
    PROVE  /\ ReviewsTyped'
           /\ call[c].at = "idle" /\ call'[c].at = "review.create"
           /\ OnlyCalls(c) /\ faults' = faults /\ UNCHANGED reviewVars
  <1> DEFINE n == [at |-> "review.create", booking |-> b, rating |-> stars]
  <1>1. Begin(c, n) /\ UNCHANGED reviewVars /\ RequestsTypeOK(ReviewCall)
    BY ReviewCalls DEF BeginReview
  <1>2. n \in ReviewCall /\ n.at = "review.create"
    BY DEF ReviewCall, BeginReview
  <1> HIDE DEF n
  <1>3. /\ RequestsTypeOK(ReviewCall)' /\ OnlyCalls(c) /\ call'[c] = n
        /\ call[c].at = "idle" /\ faults' = faults
    BY <1>1, <1>2, BegunCall
  <1>4. ReviewsTyped'
    BY <1>1, <1>2, <1>3, ReviewsTypedGoOn
       DEF ReviewsTyped, ReviewsTypeOK, reviewVars, Written
  <1> QED
    BY <1>1, <1>2, <1>3, <1>4

LEMMA ReplyBegun ==
    ASSUME ReviewsTyped, NEW c \in Clients, NEW r \in ReviewIds, NEW reply \in Replies,
           BeginReply(c, r, reply)
    PROVE  /\ ReviewsTyped'
           /\ call[c].at = "idle"
           /\ call'[c].at = "reply.write" /\ call'[c].review = r
           /\ reviews[r].reply = None
           /\ answered \subseteq answered'
           /\ r \notin answered' => \A d \in Clients : ~Replying(d, r)
           /\ OnlyCalls(c) /\ faults' = faults /\ UNCHANGED <<reviews, rating, averaged>>
  <1> DEFINE n == [at |-> "reply.write", review |-> r, reply |-> reply]
  <1>1. /\ Begin(c, n) /\ UNCHANGED <<reviews, rating, averaged>>
        /\ RequestsTypeOK(ReviewCall) /\ r \in Written /\ reviews[r].reply = None
    BY ReviewCalls DEF BeginReply
  <1>2. n \in ReviewCall /\ n.at = "reply.write" /\ n.review = r
    BY DEF ReviewCall
  <1> HIDE DEF n
  <1>3. /\ RequestsTypeOK(ReviewCall)' /\ OnlyCalls(c) /\ call'[c] = n
        /\ call[c].at = "idle" /\ faults' = faults
    BY <1>1, <1>2, BegunCall
  <1>4. /\ answered' \subseteq ReviewIds /\ answered \subseteq answered'
        /\ r \notin answered' => \A d \in Clients : ~Replying(d, r)
    BY DEF BeginReply, ReviewsTyped, ReviewsTypeOK, Replying, At
  <1>5. ReviewsTyped'
    BY <1>1, <1>2, <1>3, <1>4, ReviewsTypedGoOn DEF ReviewsTyped, ReviewsTypeOK, Written
  <1> QED
    BY <1>1, <1>2, <1>3, <1>4, <1>5

\* A request that ends without writing.
LEMMA ReviewEnded ==
    ASSUME ReviewsTyped, NEW c \in Clients,
           ReviewConflict(c) \/ (Reject(c) /\ UNCHANGED reviewVars)
    PROVE  /\ ReviewsTyped' /\ call'[c].at = "idle" /\ OnlyCalls(c)
           /\ UNCHANGED reviewVars
           /\ call[c].at \in {"rating.read", "rating.write"} => faults' > 0
           /\ faults' = faults \/ faults' > 0
  <1>1. RequestsTypeOK(ReviewCall)
    BY ReviewCalls
  <1>2. /\ RequestsTypeOK(ReviewCall)' /\ call'[c].at = "idle" /\ OnlyCalls(c)
        /\ UNCHANGED reviewVars
        /\ call[c].at \in {"rating.read", "rating.write"} => faults' > 0
        /\ faults' = faults \/ faults' > 0
    BY <1>1, FinishedCall, RejectedCall DEF ReviewConflict, At
  <1>3. ReviewsTyped'
    BY <1>2, ReviewsTypedGoOn DEF ReviewsTyped, ReviewsTypeOK, reviewVars, Written
  <1> QED
    BY <1>2, <1>3

-----------------------------------------------------------------------------
LEMMA RatingsUntouched ==
    ASSUME ReviewsInv, NEW c \in Clients, OnlyCalls(c), faults' = faults \/ faults' > 0,
           UNCHANGED <<rating, averaged>>, \A v \in Venues : ReviewsOf(v)' = ReviewsOf(v),
           call[c].at \in {"rating.read", "rating.write"} => faults' > 0,
           call'[c].at \notin {"rating.read", "rating.write"}
    PROVE  RatingsKept'
  <1>1. \A d \in Clients, v \in Venues :
            /\ Writing(d, v)' => d # c /\ Writing(d, v) /\ call'[d] = call[d]
            /\ faults' = 0 /\ Writing(d, v) => Writing(d, v)'
            /\ faults' = 0 /\ Reading(d, v) => Reading(d, v)'
    BY DEF Writing, Reading, OnlyCalls
  <1>2. faults' = 0 => faults = 0
    OBVIOUS
  <1>3. ASSUME NEW v \in Venues \ averaged', NEW a \in Clients, NEW d \in Clients,
               Writing(a, v)', Writing(d, v)'
        PROVE  a = d
    BY <1>1, <1>3 DEF ReviewsInv, RatingsKept
  <1>4. ASSUME NEW v \in Venues \ averaged', faults' = 0, NEW a \in Clients, Writing(a, v)'
        PROVE  call'[a].rows = ReviewsOf(v)' \/ \E d \in Clients : Reading(d, v)'
    <2>1. v \notin averaged /\ Writing(a, v) /\ call'[a] = call[a] /\ faults = 0
      BY <1>1, <1>2, <1>4
    <2>2. call[a].rows = ReviewsOf(v) \/ \E d \in Clients : Reading(d, v)
      BY <2>1 DEF ReviewsInv, RatingsKept
    <2> QED
      BY <1>1, <1>4, <2>1, <2>2
  <1>5. ASSUME NEW v \in Venues \ averaged', faults' = 0
        PROVE  \/ rating'[v] = ReviewsOf(v)'
               \/ \E d \in Clients : Reading(d, v)' \/ Writing(d, v)'
    <2>1. \/ rating[v] = ReviewsOf(v)
          \/ \E d \in Clients : Reading(d, v) \/ Writing(d, v)
      BY <1>2, <1>5 DEF ReviewsInv, RatingsKept
    <2> QED
      BY <1>1, <1>5, <2>1
  <1> QED
    BY <1>3, <1>4, <1>5 DEF RatingsKept

\* Who adds a review will read the average of its venue.
LEMMA CreatedKeepsRatings ==
    ASSUME ReviewsInv, NEW c \in Clients, CreateReview(c)
    PROVE  RatingsKept'
  <1>1. /\ ReviewsTyped
        /\ call[c].at = "review.create" /\ OnlyCalls(c) /\ faults' = faults
        /\ call'[c].at = "rating.read"
        /\ UNCHANGED <<rating, averaged>>
    BY ReviewCreated DEF ReviewsInv
  <1> PICK u \in {call'[c].venue} : TRUE
    OBVIOUS
  <1>2. PICK r \in ReviewIds \ Written :
            /\ reviews'[r].booking = call[c].booking
            /\ reviews'[r] # None
            /\ \A q \in ReviewIds \ {r} : reviews'[q] = reviews[q]
    BY <1>1, ReviewCreated
  <1>0. call'[c].venue = VenueOf[call[c].booking]
    BY <1>1, ReviewCreated
  <1>3. \A v \in Venues : v # u => ReviewsOf(v)' = ReviewsOf(v)
    BY <1>0, <1>1, <1>2 DEF ReviewsOf, Written
  <1>4. \A d \in Clients, v \in Venues :
            /\ Writing(d, v)' => Writing(d, v) /\ call'[d] = call[d]
            /\ Writing(d, v) => Writing(d, v)'
            /\ Reading(d, v)' = IF d = c THEN v = u ELSE Reading(d, v)
    BY <1>1 DEF Writing, Reading, OnlyCalls
  <1>5. Reading(c, u)' /\ \A v \in Venues : ~Reading(c, v)
    BY <1>1 DEF Reading
  <1>6. ASSUME NEW v \in Venues \ averaged', NEW a \in Clients, NEW d \in Clients,
               Writing(a, v)', Writing(d, v)'
        PROVE  a = d
    BY <1>1, <1>4, <1>6 DEF ReviewsInv, RatingsKept
  <1>7. ASSUME NEW v \in Venues \ averaged', faults' = 0, NEW a \in Clients, Writing(a, v)'
        PROVE  call'[a].rows = ReviewsOf(v)' \/ \E d \in Clients : Reading(d, v)'
    <2>1. CASE v = u
      BY <1>5, <2>1
    <2>2. CASE v # u
      <3>1. call[a].rows = ReviewsOf(v) \/ \E d \in Clients : Reading(d, v)
        BY <1>1, <1>4, <1>7 DEF ReviewsInv, RatingsKept
      <3> QED
        BY <1>3, <1>4, <1>5, <1>7, <2>2, <3>1
    <2> QED
      BY <2>1, <2>2
  <1>8. ASSUME NEW v \in Venues \ averaged', faults' = 0
        PROVE  \/ rating'[v] = ReviewsOf(v)'
               \/ \E d \in Clients : Reading(d, v)' \/ Writing(d, v)'
    <2>1. CASE v = u
      BY <1>5, <2>1
    <2>2. CASE v # u
      <3>1. \/ rating[v] = ReviewsOf(v)
            \/ \E d \in Clients : Reading(d, v) \/ Writing(d, v)
        BY <1>1, <1>8 DEF ReviewsInv, RatingsKept
      <3> QED
        BY <1>1, <1>3, <1>4, <1>5, <1>8, <2>2, <3>1
    <2> QED
      BY <2>1, <2>2
  <1> QED
    BY <1>6, <1>7, <1>8 DEF RatingsKept

\* Who reads it writes what is there now.
LEMMA ReadKeepsRatings ==
    ASSUME ReviewsInv, NEW c \in Clients, ReadAverage(c)
    PROVE  RatingsKept'
  <1>1. /\ ReviewsTyped
        /\ call[c].at = "rating.read" /\ OnlyCalls(c) /\ faults' = faults
        /\ call'[c].at = "rating.write" /\ call'[c].venue = call[c].venue
        /\ call'[c].rows = ReviewsOf(call[c].venue)
        /\ averaged \subseteq averaged'
        /\ call[c].venue \notin averaged' =>
              \A d \in Clients : ~Writing(d, call[c].venue)
        /\ UNCHANGED <<reviews, rating>>
    BY AverageRead DEF ReviewsInv
  <1>2. \A v : ReviewsOf(v)' = ReviewsOf(v)
    BY <1>1 DEF ReviewsOf, Written
  <1>3. \A d \in Clients, v \in Venues :
            /\ Writing(d, v)' => IF d = c THEN v = call[c].venue
                                 ELSE Writing(d, v) /\ call'[d] = call[d]
            /\ d # c /\ Reading(d, v) => Reading(d, v)'
            /\ Writing(d, v) => Writing(d, v)'
    BY <1>1 DEF Writing, Reading, OnlyCalls
  <1>4. Writing(c, call[c].venue)' /\ \A v \in Venues : Reading(c, v) => v = call[c].venue
    BY <1>1 DEF Reading, Writing
  <1>5. ASSUME NEW v \in Venues \ averaged', NEW a \in Clients, NEW d \in Clients,
               Writing(a, v)', Writing(d, v)'
        PROVE  a = d
    BY <1>1, <1>3, <1>5 DEF ReviewsInv, RatingsKept
  <1>6. ASSUME NEW v \in Venues \ averaged', faults' = 0, NEW a \in Clients, Writing(a, v)'
        PROVE  call'[a].rows = ReviewsOf(v)' \/ \E d \in Clients : Reading(d, v)'
    <2>1. CASE a = c
      BY <1>1, <1>2, <1>3, <1>6, <2>1
    <2>2. CASE a # c
      <3>1. call[a].rows = ReviewsOf(v) \/ \E d \in Clients : Reading(d, v)
        BY <1>1, <1>3, <1>6, <2>2 DEF ReviewsInv, RatingsKept
      <3>2. v # call[c].venue
        BY <1>1, <1>3, <1>6, <2>2
      <3> QED
        BY <1>2, <1>3, <1>4, <1>6, <2>2, <3>1, <3>2
    <2> QED
      BY <2>1, <2>2
  <1>7. ASSUME NEW v \in Venues \ averaged', faults' = 0
        PROVE  \/ rating'[v] = ReviewsOf(v)'
               \/ \E d \in Clients : Reading(d, v)' \/ Writing(d, v)'
    <2>1. \/ rating[v] = ReviewsOf(v)
          \/ \E d \in Clients : Reading(d, v) \/ Writing(d, v)
      BY <1>1, <1>7 DEF ReviewsInv, RatingsKept
    <2> QED
      BY <1>1, <1>2, <1>3, <1>4, <1>7, <2>1
  <1> QED
    BY <1>5, <1>6, <1>7 DEF RatingsKept

LEMMA WrittenKeepsRatings ==
    ASSUME ReviewsInv, NEW c \in Clients, WriteRating(c)
    PROVE  RatingsKept'
  <1>1. /\ ReviewsTyped
        /\ call[c].at = "rating.write" /\ OnlyCalls(c) /\ faults' = faults
        /\ call'[c].at = "idle" /\ call[c].venue \in Venues
        /\ rating'[call[c].venue] = call[c].rows
        /\ \A v \in Venues : v # call[c].venue => rating'[v] = rating[v]
        /\ UNCHANGED <<reviews, averaged>>
    BY RatingWritten DEF ReviewsInv
  <1>2. \A v : ReviewsOf(v)' = ReviewsOf(v)
    BY <1>1 DEF ReviewsOf, Written
  <1>3. \A d \in Clients, v \in Venues :
            /\ Writing(d, v)' => d # c /\ Writing(d, v) /\ call'[d] = call[d]
            /\ Reading(d, v) => Reading(d, v)'
            /\ d # c /\ Writing(d, v) => Writing(d, v)'
            /\ Writing(c, v) => v = call[c].venue
    BY <1>1 DEF Writing, Reading, OnlyCalls
  <1>4. Writing(c, call[c].venue)
    BY <1>1 DEF Writing
  <1>5. ASSUME NEW v \in Venues \ averaged', NEW a \in Clients, NEW d \in Clients,
               Writing(a, v)', Writing(d, v)'
        PROVE  a = d
    BY <1>1, <1>3, <1>5 DEF ReviewsInv, RatingsKept
  <1>6. ASSUME NEW v \in Venues \ averaged', faults' = 0, NEW a \in Clients, Writing(a, v)'
        PROVE  call'[a].rows = ReviewsOf(v)' \/ \E d \in Clients : Reading(d, v)'
    <2>1. call[a].rows = ReviewsOf(v) \/ \E d \in Clients : Reading(d, v)
      BY <1>1, <1>3, <1>6 DEF ReviewsInv, RatingsKept
    <2> QED
      BY <1>2, <1>3, <1>6, <2>1
  <1>7. ASSUME NEW v \in Venues \ averaged', faults' = 0
        PROVE  \/ rating'[v] = ReviewsOf(v)'
               \/ \E d \in Clients : Reading(d, v)' \/ Writing(d, v)'
    <2>1. CASE v = call[c].venue
      <3>1. call[c].rows = ReviewsOf(v) \/ \E d \in Clients : Reading(d, v)
        BY <1>1, <1>4, <1>7, <2>1 DEF ReviewsInv, RatingsKept
      <3> QED
        BY <1>1, <1>2, <1>3, <1>7, <2>1, <3>1
    <2>2. CASE v # call[c].venue
      <3>1. \/ rating[v] = ReviewsOf(v)
            \/ \E d \in Clients : Reading(d, v) \/ Writing(d, v)
        BY <1>1, <1>7 DEF ReviewsInv, RatingsKept
      <3> QED
        BY <1>1, <1>2, <1>3, <1>7, <2>2, <3>1
    <2> QED
      BY <2>1, <2>2
  <1> QED
    BY <1>5, <1>6, <1>7 DEF RatingsKept

-----------------------------------------------------------------------------
LEMMA CreatedOnce ==
    ASSUME ReviewsInv, NEW c \in Clients, CreateReview(c)
    PROVE  OneReviewPerBooking' /\ RepliesAlone'
  <1>1. /\ ReviewsTyped /\ UniqueBooking(call[c].booking)
        /\ OnlyCalls(c) /\ call'[c].at = "rating.read" /\ UNCHANGED answered
    BY ReviewCreated DEF ReviewsInv
  <1>2. PICK r \in ReviewIds \ Written :
            /\ reviews'[r].booking = call[c].booking
            /\ reviews'[r] # None
            /\ \A q \in ReviewIds \ {r} : reviews'[q] = reviews[q]
    BY <1>1, ReviewCreated
  <1>3. \A q \in Written' : q # r => q \in Written /\ reviews'[q] = reviews[q]
    BY <1>2 DEF Written
  <1>4. \A q \in Written : reviews[q].booking # call[c].booking
    BY <1>1 DEF UniqueBooking, findByBookingId
  <1>5. OneReviewPerBooking'
    BY <1>2, <1>3, <1>4 DEF ReviewsInv, OneReviewPerBooking
  <1>6. \A d \in Clients, q \in ReviewIds :
            Replying(d, q)' => Replying(d, q) /\ reviews'[q] = reviews[q]
    BY <1>1, <1>2 DEF Replying, OnlyCalls, ReviewsTyped, RepliesMeet
  <1>7. RepliesAlone'
    BY <1>1, <1>6 DEF ReviewsInv, RepliesAlone
  <1> QED
    BY <1>5, <1>7

LEMMA AnsweredOnce ==
    ASSUME ReviewsInv, NEW c \in Clients, AddReply(c)
    PROVE  OneReviewPerBooking' /\ RepliesAlone' /\ RatingsKept'
  <1>1. /\ ReviewsTyped
        /\ call[c].at = "reply.write" /\ OnlyCalls(c) /\ faults' = faults
        /\ call'[c].at = "idle"
        /\ UNCHANGED <<rating, averaged, answered>>
        /\ Written' = Written
        /\ \A r \in Written : reviews'[r].booking = reviews[r].booking
        /\ \A r \in ReviewIds : r # call[c].review => reviews'[r] = reviews[r]
    BY ReviewAnswered DEF ReviewsInv
  <1>2. OneReviewPerBooking'
    BY <1>1 DEF ReviewsInv, OneReviewPerBooking
  <1>3. \A d \in Clients, q \in ReviewIds : Replying(d, q)' => d # c /\ Replying(d, q)
    BY <1>1 DEF Replying, OnlyCalls
  <1>4. Replying(c, call[c].review)
    BY <1>1 DEF Replying
  <1>5. RepliesAlone'
    BY <1>1, <1>3, <1>4 DEF ReviewsInv, RepliesAlone
  <1>6. \A v \in Venues : ReviewsOf(v)' = ReviewsOf(v)
    BY <1>1 DEF ReviewsOf
  <1> QED
    BY <1>1, <1>2, <1>5, <1>6, RatingsUntouched

LEMMA RepliesUntouched ==
    ASSUME ReviewsInv, NEW c \in Clients, OnlyCalls(c), UNCHANGED <<reviews, answered>>,
           call'[c].at # "reply.write"
    PROVE  OneReviewPerBooking' /\ RepliesAlone'
  <1>1. OneReviewPerBooking'
    BY DEF ReviewsInv, OneReviewPerBooking, Written
  <1>2. \A d \in Clients, q \in ReviewIds : Replying(d, q)' => Replying(d, q)
    BY DEF Replying, OnlyCalls
  <1> QED
    BY <1>1, <1>2 DEF ReviewsInv, RepliesAlone

LEMMA RepliesBegun ==
    ASSUME ReviewsInv, NEW c \in Clients, NEW r \in ReviewIds, NEW reply \in Replies,
           BeginReply(c, r, reply)
    PROVE  ReviewsInv'
  <1>1. /\ ReviewsTyped' /\ call[c].at = "idle"
        /\ call'[c].at = "reply.write" /\ call'[c].review = r
        /\ reviews[r].reply = None
        /\ answered \subseteq answered'
        /\ r \notin answered' => \A d \in Clients : ~Replying(d, r)
        /\ OnlyCalls(c) /\ faults' = faults /\ UNCHANGED <<reviews, rating, averaged>>
    BY ReplyBegun DEF ReviewsInv
  <1>2. OneReviewPerBooking'
    BY <1>1 DEF ReviewsInv, OneReviewPerBooking, Written
  <1>3. \A d \in Clients, q \in ReviewIds :
            Replying(d, q)' => IF d = c THEN q = r ELSE Replying(d, q)
    BY <1>1 DEF Replying, OnlyCalls
  <1>4. RepliesAlone'
    BY <1>1, <1>3 DEF ReviewsInv, RepliesAlone
  <1>5. \A v \in Venues : ReviewsOf(v)' = ReviewsOf(v)
    BY <1>1 DEF ReviewsOf, Written
  <1>6. RatingsKept'
    BY <1>1, <1>5, RatingsUntouched
  <1> QED
    BY <1>1, <1>2, <1>4, <1>6 DEF ReviewsInv

LEMMA ReviewsStepKeeps ==
    ASSUME ReviewsInv, ReviewsNext
    PROVE  /\ ReviewsInv'
           /\ \A r \in Written \ answered :
                 reviews[r].reply # None => reviews'[r].reply = reviews[r].reply
  <1> DEFINE Stands == \A r \in Written \ answered :
                 reviews[r].reply # None => reviews'[r].reply = reviews[r].reply
  <1>1. PICK c \in Clients :
            \/ ReviewsStep(c)
            \/ Reject(c) /\ UNCHANGED reviewVars
            \/ \E b \in Stays, stars \in 0..(MaxRating + 1) : BeginReview(c, b, stars)
            \/ \E r \in ReviewIds, reply \in Replies : BeginReply(c, r, reply)
    BY DEF ReviewsNext
  <1>2. ReviewsTyped /\ Written \subseteq ReviewIds
    BY DEF ReviewsInv, Written
  <1>3. UNCHANGED reviews => /\ \A v \in Venues : ReviewsOf(v)' = ReviewsOf(v)
                             /\ Stands
    BY DEF ReviewsOf, Written
  <1>4. CASE CreateReview(c)
    <2>1. ReviewsInv'
      BY <1>2, <1>4, ReviewCreated, CreatedKeepsRatings, CreatedOnce DEF ReviewsInv
    <2>2. PICK r \in ReviewIds \ Written :
              \A q \in ReviewIds \ {r} : reviews'[q] = reviews[q]
      BY <1>2, <1>4, ReviewCreated
    <2> QED
      BY <1>2, <2>1, <2>2
  <1>5. CASE AddReply(c)
    <2>1. ReviewsInv'
      BY <1>2, <1>5, ReviewAnswered, AnsweredOnce DEF ReviewsInv
    <2>2. /\ Replying(c, call[c].review)
          /\ \A r \in ReviewIds : r # call[c].review => reviews'[r] = reviews[r]
      BY <1>2, <1>5, ReviewAnswered DEF Replying
    <2>3. Stands
      BY <1>2, <2>2 DEF ReviewsInv, RepliesAlone
    <2> QED
      BY <2>1, <2>3
  <1>6. CASE ReadAverage(c)
    <2>1. /\ ReviewsTyped' /\ UNCHANGED <<reviews, answered>>
          /\ OnlyCalls(c) /\ call'[c].at # "reply.write"
      BY <1>2, <1>6, AverageRead
    <2>2. OneReviewPerBooking' /\ RepliesAlone'
      BY <2>1, RepliesUntouched
    <2> QED
      BY <1>3, <1>6, <2>1, <2>2, ReadKeepsRatings DEF ReviewsInv
  <1>7. CASE WriteRating(c)
    <2>1. /\ ReviewsTyped' /\ UNCHANGED <<reviews, answered>>
          /\ OnlyCalls(c) /\ call'[c].at # "reply.write"
      BY <1>2, <1>7, RatingWritten
    <2>2. OneReviewPerBooking' /\ RepliesAlone'
      BY <2>1, RepliesUntouched
    <2> QED
      BY <1>3, <1>7, <2>1, <2>2, WrittenKeepsRatings DEF ReviewsInv
  <1>8. CASE ReviewConflict(c) \/ (Reject(c) /\ UNCHANGED reviewVars)
    <2>1. /\ ReviewsTyped' /\ call'[c].at = "idle" /\ OnlyCalls(c)
          /\ UNCHANGED <<reviews, rating, averaged, answered>>
          /\ call[c].at \in {"rating.read", "rating.write"} => faults' > 0
          /\ (faults' = faults \/ faults' > 0)
      BY <1>2, <1>8, ReviewEnded DEF reviewVars
    <2>2. OneReviewPerBooking' /\ RepliesAlone'
      BY <2>1, RepliesUntouched
    <2>3. RatingsKept'
      BY <1>3, <2>1, RatingsUntouched
    <2> QED
      BY <1>3, <2>1, <2>2, <2>3 DEF ReviewsInv
  <1>9. ASSUME NEW b \in Stays, NEW stars, BeginReview(c, b, stars)
        PROVE  ReviewsInv' /\ Stands
    <2>1. /\ ReviewsTyped' /\ call[c].at = "idle" /\ call'[c].at = "review.create"
          /\ OnlyCalls(c) /\ faults' = faults
          /\ UNCHANGED <<reviews, rating, averaged, answered>>
      BY <1>2, <1>9, ReviewBegun DEF reviewVars
    <2>2. OneReviewPerBooking' /\ RepliesAlone'
      BY <2>1, RepliesUntouched
    <2>3. RatingsKept'
      BY <1>3, <2>1, RatingsUntouched
    <2> QED
      BY <1>3, <2>1, <2>2, <2>3 DEF ReviewsInv
  <1>10. ASSUME NEW r \in ReviewIds, NEW reply \in Replies, BeginReply(c, r, reply)
         PROVE  ReviewsInv' /\ Stands
    <2>1. UNCHANGED reviews
      BY <1>2, <1>10, ReplyBegun
    <2> QED
      BY <1>3, <1>10, <2>1, RepliesBegun
  <1> QED
    BY <1>1, <1>4, <1>5, <1>6, <1>7, <1>8, <1>9, <1>10 DEF ReviewsStep

LEMMA ReviewsStart ==
    ASSUME RequestsInit, ReviewsInit
    PROVE  ReviewsInv
  <1>1. RequestsTypeOK(ReviewCall) /\ \A c \in Clients : call[c].at = "idle"
    BY RequestsBounds DEF RequestsInit, RequestsTypeOK, Idle
  <1>2. /\ reviews = [r \in ReviewIds |-> None] /\ rating = [v \in Venues |-> {}]
        /\ averaged = {} /\ answered = {}
    BY DEF ReviewsInit
  <1>3. Written = {}
    BY <1>2 DEF Written
  <1>4. \A v \in Venues : rating[v] = ReviewsOf(v)
    BY <1>2, <1>3 DEF ReviewsOf
  <1>5. ReviewsTyped
    BY <1>1, <1>2 DEF ReviewsTyped, ReviewsTypeOK, RepliesMeet, Replying
  <1>6. OneReviewPerBooking /\ RepliesAlone
    BY <1>1, <1>3 DEF OneReviewPerBooking, RepliesAlone, Replying
  <1>7. RatingsKept
    BY <1>1, <1>4 DEF RatingsKept, Writing
  <1> QED
    BY <1>5, <1>6, <1>7 DEF ReviewsInv

LEMMA ReviewsIdle ==
    ASSUME ReviewsInv, UNCHANGED <<requestVars, reviewVars>>
    PROVE  ReviewsInv'
  <1>1. UNCHANGED <<call, calls, faults, reviews, rating, averaged, answered>>
    BY DEF requestVars, reviewVars
  <1>2. ReviewsTyped'
    BY <1>1 DEF ReviewsInv, ReviewsTyped, ReviewsTypeOK, RequestsTypeOK, RepliesMeet,
                Replying, Written
  <1>3. OneReviewPerBooking' /\ RepliesAlone'
    BY <1>1 DEF ReviewsInv, OneReviewPerBooking, RepliesAlone, Replying, Written
  <1>4. RatingsKept'
    BY <1>1 DEF ReviewsInv, RatingsKept, Reading, Writing, ReviewsOf, Written
  <1> QED
    BY <1>2, <1>3, <1>4 DEF ReviewsInv

\* At rest, with nobody about to read or write, the average is right.
LEMMA RatingsAtRest ==
    ASSUME ReviewsInv
    PROVE  RatingIsAverage
  <1>1. SUFFICES ASSUME Quiescent, faults = 0, NEW v \in Venues \ averaged
                 PROVE  rating[v] = ReviewsOf(v)
    BY DEF RatingIsAverage
  <1>2. \A d \in Clients : ~Reading(d, v) /\ ~Writing(d, v)
    BY <1>1 DEF Quiescent, At, Reading, Writing
  <1> QED
    BY <1>1, <1>2 DEF ReviewsInv, RatingsKept

-----------------------------------------------------------------------------
(* Paged lists *)

\* What the reader has not been given lies behind the pages he was answered.
Behind(r) ==
    next - 1 - r >= (IF got \in {"neither", "total"} THEN page ELSE page + 1) * ListPage

\* As long as nothing left, moved, or slipped in between count and find.
WalkKept ==
    ~disturbed =>
        /\ \A r \in RowIds : stamp[r] = 0
        /\ listed = 1..(next - 1) /\ first \subseteq listed
        /\ got # "done" => \A r \in first \ seen : Behind(r)
        /\ got = "total" => total = next - 1
        /\ got = "both" => \A r \in first \ seen : (page + 1) * ListPage < total

ListingsInv == ListingsTypeOK /\ WalkKept /\ WalkSkipsNothing

\* A number between two multiples is on the page between them.
LEMMA PageNumber ==
    ASSUME NEW n \in Nat, NEW size \in Nat \ {0}, NEW p \in Nat,
           p * size <= n, n < (p + 1) * size
    PROVE  n \div size = p
  <1> DEFINE q == n \div size
  <1>1. q \in Nat /\ q * size <= n /\ n < (q + 1) * size
    OBVIOUS
  <1> HIDE DEF q
  <1>2. ASSUME NEW i \in Nat, NEW j \in Nat, i < j
        PROVE  (i + 1) * size <= j * size
    <2>1. PICK k \in Nat : j = i + 1 + k
      BY <1>2, j - i - 1 \in Nat, j = i + 1 + (j - i - 1)
    <2>2. j * size = (i + 1) * size + k * size /\ k * size >= 0
      BY <2>1
    <2>3. (i + 1) * size \in Nat /\ k * size \in Nat
      OBVIOUS
    <2> QED
      BY <2>2, <2>3
  <1>3. ~(q < p) /\ ~(p < q)
    <2>1. ASSUME q < p PROVE FALSE
      BY <1>1, <1>2, <2>1
    <2>2. ASSUME p < q PROVE FALSE
      BY <1>1, <1>2, <2>2
    <2> QED
      BY <2>1, <2>2
  <1> QED
    BY <1>1, <1>3 DEF q

LEMMA PageZero ==
    ASSUME NEW n \in Nat, NEW size \in Nat \ {0}
    PROVE  (n \div size = 0) = (n < size)
  <1>1. n < size => n \div size = 0
    BY PageNumber
  <1>2. (n \div size) * size <= n /\ n < (n \div size + 1) * size
    OBVIOUS
  <1>3. n \div size = 0 => n < size
    BY <1>2
  <1> QED
    BY <1>1, <1>3

\* Undisturbed, a row's rank is the number of rows that came after it.
LEMMA RankOfRow ==
    ASSUME ListingsInv, ~disturbed, NEW r \in listed
    PROVE  Rank(r) = next - 1 - r /\ Rank(r) \in Nat
  <1>1. /\ next \in 1..(MaxRows + 1) /\ MaxRows \in Nat
        /\ listed = 1..(next - 1) /\ listed \subseteq RowIds
        /\ \A s \in RowIds : stamp[s] = 0
    BY ListingsBounds DEF ListingsInv, ListingsTypeOK, WalkKept
  <1>2. {s \in listed : Before(s, r)} = (r + 1)..(next - 1)
    BY <1>1 DEF Before, RowIds
  <1>3. r \in Int /\ next \in Int /\ r <= next - 1
    BY <1>1
  <1>4. Cardinality((r + 1)..(next - 1)) = next - 1 - r
    BY <1>3, FS_Interval
  <1>5. Rank(r) = next - 1 - r
    BY <1>2, <1>4 DEF Rank
  <1> QED
    BY <1>3, <1>5

LEMMA RowsCounted ==
    ASSUME ListingsInv
    PROVE  /\ Cardinality(listed) \in RowIds \cup {0}
           /\ ~disturbed => Cardinality(listed) = next - 1
  <1>1. /\ next \in 1..(MaxRows + 1) /\ MaxRows \in Nat /\ listed \subseteq RowIds
        /\ ~disturbed => listed = 1..(next - 1)
    BY ListingsBounds DEF ListingsInv, ListingsTypeOK, WalkKept
  <1>2. IsFiniteSet(RowIds) /\ Cardinality(RowIds) = MaxRows
    BY <1>1, FS_Interval DEF RowIds
  <1>3. Cardinality(listed) \in Nat /\ Cardinality(listed) <= MaxRows
    BY <1>1, <1>2, FS_Subset, FS_CardinalityType
  <1>4. Cardinality(1..(next - 1)) = next - 1
    BY <1>1, FS_Interval
  <1> QED
    BY <1>1, <1>3, <1>4 DEF RowIds

LEMMA RowInserted ==
    ASSUME ListingsInv, InsertRow
    PROVE  ListingsInv'
  <1>1. /\ next <= MaxRows /\ listed' = listed \cup {next} /\ next' = next + 1
        /\ disturbed' = (disturbed \/ got = "total")
        /\ UNCHANGED <<list, stamp, page, got, total, first, seen>>
    BY DEF InsertRow
  <1>2. next \in 1..(MaxRows + 1) /\ MaxRows \in Nat /\ ListPage \in Nat /\ page \in Nat
        /\ first \subseteq RowIds
    BY ListingsBounds DEF ListingsInv, ListingsTypeOK
  <1>3. ListingsTypeOK'
    BY <1>1, <1>2 DEF ListingsInv, ListingsTypeOK, RowIds
  <1>4. \A r \in first : Behind(r) => Behind(r)'
    BY <1>1, <1>2 DEF Behind, RowIds
  <1>5. WalkKept'
    <2>1. SUFFICES ASSUME ~disturbed' PROVE WalkKept'
      BY DEF WalkKept
    <2>2. ~disturbed /\ got # "total"
      BY <1>1, <2>1
    <2>3. listed' = 1..(next' - 1) /\ first' \subseteq listed'
      BY <1>1, <1>2, <2>2 DEF ListingsInv, WalkKept
    <2> QED
      BY <1>1, <1>4, <2>2, <2>3 DEF ListingsInv, WalkKept
  <1>6. WalkSkipsNothing'
    BY <1>1 DEF ListingsInv, WalkSkipsNothing
  <1> QED
    BY <1>3, <1>5, <1>6 DEF ListingsInv

LEMMA RowLeftOrMoved ==
    ASSUME ListingsInv, NEW r \in RowIds, LeaveList(r) \/ MoveUp(r)
    PROVE  ListingsInv'
  <1>1. disturbed' = TRUE
    BY DEF LeaveList, MoveUp
  <1>2. ListingsTypeOK'
    <2>1. CASE LeaveList(r)
      BY <2>1 DEF LeaveList, ListingsInv, ListingsTypeOK
    <2>2. CASE MoveUp(r)
      BY <2>2, ListingsBounds DEF MoveUp, ListingsInv, ListingsTypeOK
    <2> QED
      BY <2>1, <2>2
  <1> QED
    BY <1>1, <1>2 DEF ListingsInv, WalkKept, WalkSkipsNothing

LEMMA PageFound ==
    ASSUME ListingsInv, FindMany
    PROVE  ListingsInv'
  <1>1. /\ got \in {"neither", "total"} /\ seen' = seen \cup PageOf(page)
        /\ got' = IF got = "total" THEN "both" ELSE "items"
        /\ UNCHANGED <<list, listed, next, stamp, page, total, first, disturbed>>
    BY DEF FindMany, Answered
  <1>2. /\ next \in 1..(MaxRows + 1) /\ MaxRows \in Nat /\ page \in Nat
        /\ ListPage \in Nat \ {0} /\ listed \subseteq RowIds
    BY ListingsBounds DEF ListingsInv, ListingsTypeOK
  <1>3. ListingsTypeOK'
    BY <1>1, <1>2 DEF ListingsInv, ListingsTypeOK, PageOf
  <1>4. ASSUME ~disturbed, NEW r \in first \ seen'
        PROVE  next - 1 - r >= (page + 1) * ListPage /\ r \in listed
    <2>1. r \in listed /\ r \in first \ seen /\ Behind(r)
      BY <1>1, <1>4 DEF ListingsInv, WalkKept
    <2>2. Rank(r) = next - 1 - r /\ Rank(r) \in Nat
      BY <1>4, <2>1, RankOfRow
    <2>3. Rank(r) >= page * ListPage
      BY <1>1, <2>1, <2>2 DEF Behind
    <2>4. Rank(r) \div ListPage # page
      BY <1>1, <1>4, <2>1 DEF PageOf
    <2>5. ~(Rank(r) < (page + 1) * ListPage)
      BY <1>2, <2>2, <2>3, <2>4, PageNumber
    <2>6. (page + 1) * ListPage \in Nat
      BY <1>2
    <2> QED
      BY <2>1, <2>2, <2>5, <2>6
  <1>5. WalkKept'
    <2>1. SUFFICES ASSUME ~disturbed' PROVE WalkKept'
      BY DEF WalkKept
    <2>2. ~disturbed
      BY <1>1, <2>1
    <2>3. (\A r \in first \ seen : Behind(r))'
      BY <1>1, <1>4, <2>2 DEF Behind
    <2>4. got' = "both" => \A r \in first' \ seen' : (page' + 1) * ListPage < total'
      <3>1. SUFFICES ASSUME got = "total", NEW r \in first \ seen'
                     PROVE  (page + 1) * ListPage < total
        BY <1>1
      <3>2. total = next - 1 /\ listed = 1..(next - 1)
        BY <2>2, <3>1 DEF ListingsInv, WalkKept
      <3>3. next - 1 - r >= (page + 1) * ListPage /\ r \in listed
        BY <1>4, <2>2, <3>1
      <3>4. (page + 1) * ListPage \in Nat
        BY <1>2
      <3> QED
        BY <1>2, <3>2, <3>3, <3>4
    <2> QED
      BY <1>1, <2>2, <2>3, <2>4 DEF ListingsInv, WalkKept
  <1>6. WalkSkipsNothing'
    BY <1>1 DEF WalkSkipsNothing
  <1> QED
    BY <1>3, <1>5, <1>6 DEF ListingsInv

LEMMA RowsCount ==
    ASSUME ListingsInv, Count
    PROVE  ListingsInv'
  <1>1. /\ got \in {"neither", "items"} /\ total' = Cardinality(listed)
        /\ got' = IF got = "items" THEN "both" ELSE "total"
        /\ UNCHANGED <<list, listed, next, stamp, page, first, seen, disturbed>>
    BY DEF Count, Answered
  <1>2. /\ next \in 1..(MaxRows + 1) /\ MaxRows \in Nat /\ page \in Nat
        /\ ListPage \in Nat \ {0} /\ listed \subseteq RowIds
    BY ListingsBounds DEF ListingsInv, ListingsTypeOK
  <1>4. ListingsTypeOK'
    BY <1>1, RowsCounted DEF ListingsInv, ListingsTypeOK
  <1>5. WalkKept'
    <2>1. SUFFICES ASSUME ~disturbed' PROVE WalkKept'
      BY DEF WalkKept
    <2>2. ~disturbed /\ total' = next - 1
      BY <1>1, <2>1, RowsCounted
    <2>3. (\A r \in first \ seen : Behind(r))'
      BY <1>1, <2>2 DEF ListingsInv, WalkKept, Behind
    <2>4. got' = "both" => \A r \in first' \ seen' : (page' + 1) * ListPage < total'
      <3>1. SUFFICES ASSUME got = "items", NEW r \in first \ seen
                     PROVE  (page + 1) * ListPage < next - 1
        BY <1>1, <2>2
      <3>2. next - 1 - r >= (page + 1) * ListPage /\ r \in 1..(next - 1)
        BY <2>2, <3>1 DEF ListingsInv, WalkKept, Behind
      <3>3. (page + 1) * ListPage \in Nat
        BY <1>2
      <3> QED
        BY <1>2, <3>2, <3>3
    <2> QED
      BY <1>1, <2>2, <2>3, <2>4 DEF ListingsInv, WalkKept
  <1>6. WalkSkipsNothing'
    BY <1>1 DEF WalkSkipsNothing
  <1> QED
    BY <1>4, <1>5, <1>6 DEF ListingsInv

LEMMA PageTurned ==
    ASSUME ListingsInv, TurnPage
    PROVE  ListingsInv'
  <1>1. /\ got = "both"
        /\ UNCHANGED <<list, listed, next, stamp, total, first, seen, disturbed>>
    BY DEF TurnPage
  <1>2. \/ page' = page + 1 /\ got' = "neither"
        \/ /\ ~((page + 1) * ListPage < total)
           /\ got' = "done" /\ page' = page
    BY DEF TurnPage
  <1>3. ListingsTypeOK'
    BY <1>1, <1>2 DEF ListingsInv, ListingsTypeOK
  <1>4. CASE page' = page + 1 /\ got' = "neither"
    <2>1. ~disturbed => (\A r \in first \ seen : Behind(r))'
      BY <1>1, <1>4 DEF ListingsInv, WalkKept, Behind
    <2> QED
      BY <1>1, <1>3, <1>4, <2>1 DEF ListingsInv, WalkKept, WalkSkipsNothing
  <1>5. CASE ~((page + 1) * ListPage < total) /\ got' = "done" /\ page' = page
    <2>1. ~disturbed => first \subseteq seen
      BY <1>1, <1>5 DEF ListingsInv, WalkKept
    <2> QED
      BY <1>1, <1>3, <1>5, <2>1 DEF ListingsInv, WalkKept, WalkSkipsNothing
  <1> QED
    BY <1>2, <1>4, <1>5

LEMMA ListingsStep ==
    ASSUME ListingsInv, ListingsNext
    PROVE  ListingsInv'
  BY RowInserted, RowLeftOrMoved, PageFound, RowsCount, PageTurned DEF ListingsNext

LEMMA ListingsStart ==
    ASSUME ListingsInit
    PROVE  ListingsInv
  <1>1. PICK n \in 0..MaxRows : listed = 1..n /\ first = 1..n /\ next = n + 1
    BY DEF ListingsInit
  <1>2. /\ list \in Lists /\ stamp = [r \in RowIds |-> 0]
        /\ page = 0 /\ got = "neither" /\ total = 0 /\ seen = {} /\ disturbed = FALSE
    BY DEF ListingsInit
  <1>3. MaxRows \in Nat /\ MaxTouches \in Nat /\ ListPage \in Nat
    BY ListingsBounds
  <1>4. ListingsTypeOK
    <2>1. listed \subseteq RowIds /\ first \subseteq RowIds /\ next \in 1..(MaxRows + 1)
      BY <1>1, <1>3 DEF RowIds
    <2>2. stamp \in [RowIds -> 0..MaxTouches]
      BY <1>2, <1>3
    <2> QED
      BY <1>2, <2>1, <2>2 DEF ListingsTypeOK
  <1>5. \A r \in first : Behind(r)
    BY <1>1, <1>2, <1>3 DEF Behind
  <1>6. listed = 1..(next - 1)
    BY <1>1, <1>3
  <1> QED
    BY <1>1, <1>2, <1>4, <1>5, <1>6 DEF ListingsInv, WalkKept, WalkSkipsNothing

LEMMA ListingsIdle ==
    ASSUME ListingsInv, UNCHANGED listingVars
    PROVE  ListingsInv'
  BY DEF ListingsInv, ListingsTypeOK, WalkKept, Behind, WalkSkipsNothing, listingVars

-----------------------------------------------------------------------------
(* Chat *)

\* A message is sent in, and read from, a conversation that is there.
TalksMeet ==
    \A c \in Clients :
        call[c].at \in {"send.update", "send.emit", "read.mark", "read.find"} =>
            call[c].conversation \in Opened

ChatTyped == ChatTypeOK /\ TalksMeet

LEMMA ChatCalls ==
    ASSUME ChatTyped, NEW c \in Clients
    PROVE  /\ RequestsTypeOK(ChatCall)
           /\ call[c].at = "start.create" => call[c].about \in Subjects
           /\ call[c].at \in {"send.update", "send.emit"} =>
                 /\ call[c] \in [at : {"send.update", "send.emit"}, user : Users,
                                 conversation : ConversationIds, socket : BOOLEAN,
                                 message : MessageIds, stamp : Nat]
                 /\ call[c].user \in Users /\ call[c].conversation \in Opened
                 /\ call[c].message \in MessageIds /\ call[c].socket \in BOOLEAN
                 /\ call[c].stamp \in Nat
           /\ call[c].at \in {"read.mark", "read.find"} =>
                 /\ call[c] \in [at : {"read.mark", "read.find"}, user : Users,
                                 conversation : ConversationIds, page : {0, 1},
                                 stamp : Nat]
                 /\ call[c].user \in Users /\ call[c].conversation \in Opened
                 /\ call[c].page \in {0, 1} /\ call[c].stamp \in Nat
           /\ Opened \subseteq ConversationIds /\ Stored \subseteq MessageIds
  <1>1. RequestsTypeOK(ChatCall)
    BY DEF ChatTyped, ChatTypeOK
  <1>2. call[c] \in ChatCall \cup {Idle}
    BY <1>1 DEF RequestsTypeOK
  <1>3. call[c].at = "start.create" => call[c].about \in Subjects
    BY <1>2 DEF ChatCall, Idle
  <1>4. call[c].at \in {"send.update", "send.emit"} =>
            /\ call[c] \in [at : {"send.update", "send.emit"}, user : Users,
                            conversation : ConversationIds, socket : BOOLEAN,
                            message : MessageIds, stamp : Nat]
            /\ call[c].user \in Users /\ call[c].message \in MessageIds
            /\ call[c].socket \in BOOLEAN /\ call[c].stamp \in Nat
    BY <1>2 DEF ChatCall, Idle
  <1>5. call[c].at \in {"read.mark", "read.find"} =>
            /\ call[c] \in [at : {"read.mark", "read.find"}, user : Users,
                            conversation : ConversationIds, page : {0, 1}, stamp : Nat]
            /\ call[c].user \in Users /\ call[c].page \in {0, 1}
            /\ call[c].stamp \in Nat
    BY <1>2 DEF ChatCall, Idle
  <1> QED
    BY <1>1, <1>3, <1>4, <1>5 DEF ChatTyped, TalksMeet, Opened, Stored

\* What a conversation is about, and between whom, does not change.
SameSubjects ==
    /\ Opened' = Opened
    /\ \A v \in Opened : /\ conversations'[v].about = conversations[v].about
                         /\ conversations'[v].participants = conversations[v].participants

LEMMA ChatTypedGoesOn ==
    ASSUME ChatTyped, NEW c \in Clients, RequestsTypeOK(ChatCall)', OnlyCalls(c),
           conversations' \in [ConversationIds -> Conversation \cup {None}],
           messages' \in [MessageIds -> Message \cup {None}],
           room' \in [ConversationIds -> SUBSET Users],
           heard' \in [Users -> SUBSET MessageIds],
           clock' \in Nat,
           known' \in [Users \X ConversationIds -> Knowledge],
           spoken' \subseteq MessageIds,
           raced' \subseteq Subjects, overlapped' \subseteq ConversationIds,
           Opened \subseteq Opened',
           call'[c].at \in {"send.update", "send.emit", "read.mark", "read.find"} =>
               call'[c].conversation \in Opened
    PROVE  ChatTyped'
  <1>1. ChatTypeOK'
    BY DEF ChatTyped, ChatTypeOK
  <1>2. TalksMeet'
    BY DEF ChatTyped, TalksMeet, OnlyCalls
  <1> QED
    BY <1>1, <1>2 DEF ChatTyped

\* A step that changes nothing but the request.
LEMMA ChatTypedStays ==
    ASSUME ChatTyped, NEW c \in Clients, RequestsTypeOK(ChatCall)', OnlyCalls(c),
           UNCHANGED <<conversations, messages, room, heard, clock, known, spoken, overlapped>>,
           raced' \subseteq Subjects,
           call'[c].at \notin {"send.update", "send.emit", "read.mark", "read.find"}
    PROVE  ChatTyped' /\ SameSubjects
  <1>1. Opened' = Opened
    BY DEF Opened
  <1> QED
    BY <1>1, ChatTypedGoesOn DEF ChatTyped, ChatTypeOK, SameSubjects

\* The stamps and the preview of a row are updated.
LEMMA RowUpdated ==
    ASSUME ChatTyped, NEW v \in Opened, NEW row \in Conversation,
           row.about = conversations[v].about,
           row.participants = conversations[v].participants,
           conversations' = [conversations EXCEPT ![v] = row]
    PROVE  /\ SameSubjects /\ conversations'[v] = row
           /\ \A w \in Opened : w # v => conversations'[w] = conversations[w]
           /\ conversations' \in [ConversationIds -> Conversation \cup {None}]
  <1>1. conversations \in [ConversationIds -> Conversation \cup {None}]
    BY DEF ChatTyped, ChatTypeOK
  <1>2. row # None /\ v \in ConversationIds
    BY NoRowAssumption DEF Opened
  <1>3. /\ conversations' \in [ConversationIds -> Conversation \cup {None}]
        /\ conversations'[v] = row
        /\ \A w \in ConversationIds : w # v => conversations'[w] = conversations[w]
    BY <1>1, <1>2
  <1>4. Opened' = Opened
    BY <1>2, <1>3 DEF Opened
  <1> QED
    BY <1>3, <1>4 DEF SameSubjects, Opened

LEMMA StartFound ==
    ASSUME ChatTyped, NEW c \in Clients, NEW s \in Subjects, NEW found,
           StartFind(c, s, found)
    PROVE  /\ ChatTyped' /\ SameSubjects /\ OnlyCalls(c) /\ faults' = faults
           /\ call[c].at = "idle"
           /\ UNCHANGED <<conversations, messages, room, heard, clock, known, spoken,
                          overlapped>>
           /\ \/ call'[c].at = "idle" /\ UNCHANGED raced
              \/ /\ call'[c].at = "start.create" /\ call'[c].about = s /\ found = {}
                 /\ raced \subseteq raced'
                 /\ s \notin raced' => \A d \in Clients : ~Starting(d, s)
  <1> DEFINE n == [at |-> "start.create", about |-> s]
  <1>1. /\ UNCHANGED <<conversations, messages, room, heard, clock, known, spoken,
                       overlapped>>
        /\ \/ Begin(c, Idle) /\ UNCHANGED raced
           \/ /\ found = {} /\ Begin(c, n)
              /\ raced' = IF \E d \in Clients : Starting(d, s)
                          THEN raced \cup {s} ELSE raced
    BY DEF StartFind
  <1>2. RequestsTypeOK(ChatCall) /\ raced \subseteq Subjects
    BY ChatCalls DEF ChatTyped, ChatTypeOK
  <1>3. n \in ChatCall /\ n.at = "start.create" /\ n.about = s
    BY DEF ChatCall
  <1> HIDE DEF n
  <1>4. CASE Begin(c, Idle) /\ UNCHANGED raced
    <2>1. /\ RequestsTypeOK(ChatCall)' /\ OnlyCalls(c) /\ call'[c] = Idle
          /\ call[c].at = "idle" /\ faults' = faults
      BY <1>2, <1>4, BegunCall
    <2>2. call'[c].at = "idle"
      BY <2>1 DEF Idle
    <2> QED
      BY <1>1, <1>2, <1>4, <2>1, <2>2, ChatTypedStays
  <1>5. CASE /\ found = {} /\ Begin(c, n)
             /\ raced' = IF \E d \in Clients : Starting(d, s)
                         THEN raced \cup {s} ELSE raced
    <2>1. /\ RequestsTypeOK(ChatCall)' /\ OnlyCalls(c) /\ call'[c] = n
          /\ call[c].at = "idle" /\ faults' = faults
      BY <1>2, <1>3, <1>5, BegunCall
    <2>2. /\ raced' \subseteq Subjects /\ raced \subseteq raced'
          /\ s \notin raced' => \A d \in Clients : ~Starting(d, s)
      BY <1>2, <1>5
    <2> QED
      BY <1>1, <1>3, <1>5, <2>1, <2>2, ChatTypedStays
  <1> QED
    BY <1>1, <1>4, <1>5

LEMMA ConversationStarted ==
    ASSUME ChatTyped, NEW c \in Clients, StartCreate(c)
    PROVE  /\ ChatTyped' /\ OnlyCalls(c) /\ faults' = faults
           /\ call[c].at = "start.create" /\ call'[c].at = "idle"
           /\ UNCHANGED <<messages, room, heard, clock, talked>>
           /\ \/ SameSubjects /\ UNCHANGED conversations
              \/ \E v \in ConversationIds \ Opened :
                    /\ Opened' = Opened \cup {v}
                    /\ conversations'[v].about = call[c].about
                    /\ conversations'[v].participants =
                          {call[c].about.customer, call[c].about.owner}
                    /\ conversations'[v].lastMessage = 0
                    /\ conversations'[v].lastReadAt = [u \in Users |-> 0]
                    /\ \A w \in Opened : conversations'[w] = conversations[w]
  <1>1. /\ At(c, "start.create") /\ Finish(c)
        /\ UNCHANGED <<messages, room, heard, clock, talked>>
        /\ Create(call[c].about) \/ UNCHANGED conversations
    BY DEF StartCreate
  <1>2. RequestsTypeOK(ChatCall) /\ call[c].about \in Subjects
    BY <1>1, ChatCalls DEF At
  <1>3. RequestsTypeOK(ChatCall)' /\ OnlyCalls(c) /\ call'[c].at = "idle" /\ faults' = faults
    BY <1>1, <1>2, FinishedCall
  <1>4. CASE UNCHANGED conversations
    BY <1>1, <1>3, <1>4, ChatTypedStays DEF talked, At, ChatTyped, ChatTypeOK
  <1>5. CASE Create(call[c].about)
    <2>1. PICK s \in Subjects : s = call[c].about
      BY <1>2
    <2> DEFINE row == [about |-> s, participants |-> {s.customer, s.owner},
                       lastMessage |-> 0, lastMessageAt |-> 0,
                       lastReadAt |-> [u \in Users |-> 0]]
    <2>2. PICK v \in ConversationIds :
              /\ v \notin Opened
              /\ conversations' = [conversations EXCEPT ![v] = row]
      BY <1>5, <2>1 DEF Create, IsNextRow
    <2>3. {s.customer, s.owner} \subseteq Users
      BY SubjectsAssumption
    <2>4. /\ row \in Conversation /\ row.about = s
          /\ row.participants = {s.customer, s.owner}
          /\ row.lastMessage = 0 /\ row.lastReadAt = [u \in Users |-> 0]
      BY <2>3 DEF Conversation
    <2> HIDE DEF row
    <2>5. conversations \in [ConversationIds -> Conversation \cup {None}] /\ row # None
      BY <2>4, NoRowAssumption DEF ChatTyped, ChatTypeOK
    <2>6. /\ conversations' \in [ConversationIds -> Conversation \cup {None}]
          /\ conversations'[v] = row
          /\ \A w \in ConversationIds : w # v => conversations'[w] = conversations[w]
      BY <2>2, <2>4, <2>5
    <2>7. Opened' = Opened \cup {v}
      BY <2>5, <2>6 DEF Opened
    <2>8. ChatTyped'
      BY <1>1, <1>3, <2>6, <2>7, ChatTypedGoesOn DEF ChatTyped, ChatTypeOK, talked
    <2>9. /\ conversations'[v].about = call[c].about
          /\ conversations'[v].participants =
                {call[c].about.customer, call[c].about.owner}
          /\ conversations'[v].lastMessage = 0
          /\ conversations'[v].lastReadAt = [u \in Users |-> 0]
      BY <2>1, <2>4, <2>6
    <2>10. \A w \in Opened : conversations'[w] = conversations[w]
      BY <2>2, <2>6 DEF Opened
    <2> QED
      BY <1>1, <1>3, <2>2, <2>7, <2>8, <2>9, <2>10 DEF At
  <1> QED
    BY <1>1, <1>4, <1>5

LEMMA DateTaken ==
    ASSUME ChatTyped, NewDate
    PROVE  clock \in Nat /\ clock' \in Nat /\ clock <= clock'
  BY ChatBounds DEF NewDate, ChatTyped, ChatTypeOK

LEMMA MessageInserted ==
    ASSUME ChatTyped, NEW c \in Clients, NEW u \in Users, NEW v \in ConversationIds,
           NEW socket \in BOOLEAN, InsertMessage(c, u, v, socket)
    PROVE  /\ ChatTyped' /\ SameSubjects /\ OnlyCalls(c) /\ faults' = faults
           /\ v \in Opened
           /\ call[c].at = "idle" /\ call'[c].at = "send.update"
           /\ call'[c].conversation = v /\ call'[c].socket = socket
           /\ call'[c].stamp = clock' /\ clock <= clock' /\ clock' \in Nat
           /\ UNCHANGED <<conversations, room, heard, known, raced>>
           /\ overlapped \subseteq overlapped'
           /\ v \notin overlapped' => Sending(v) = {}
           /\ LET m == call'[c].message
              IN /\ m \in MessageIds /\ IsNextRow(m, Stored)
                 /\ Stored' = Stored \cup {m} /\ messages'[m].conversation = v
                 /\ \A k \in Stored : messages'[k] = messages[k]
                 /\ spoken' = IF socket THEN spoken \cup {m} ELSE spoken
  <1>1. /\ v \in Opened
        /\ overlapped' = IF Sending(v) # {} THEN overlapped \cup {v} ELSE overlapped
        /\ UNCHANGED <<conversations, room, heard, known, raced>>
        /\ RequestsTypeOK(ChatCall)
        /\ clock <= clock' /\ clock' \in Nat
    BY ChatCalls, DateTaken DEF InsertMessage, isParticipant
  <1> PICK t \in Nat : t = clock'
    BY <1>1
  <1>2. PICK m \in MessageIds :
            /\ IsNextRow(m, Stored)
            /\ messages' = [messages EXCEPT ![m] = [conversation |-> v]]
            /\ Begin(c, [at |-> "send.update", user |-> u, conversation |-> v,
                         socket |-> socket, message |-> m, stamp |-> t])
            /\ spoken' = IF socket THEN spoken \cup {m} ELSE spoken
    BY DEF InsertMessage
  <1> DEFINE n == [at |-> "send.update", user |-> u, conversation |-> v,
                   socket |-> socket, message |-> m, stamp |-> t]
             row == [conversation |-> v]
  <1>3. /\ n \in ChatCall /\ n.at = "send.update" /\ n.conversation = v
        /\ n.socket = socket /\ n.message = m /\ n.stamp = t
    BY DEF ChatCall
  <1>4. row \in Message /\ row.conversation = v /\ row # None
    BY NoRowAssumption DEF Message
  <1> HIDE DEF n, row
  <1>5. /\ RequestsTypeOK(ChatCall)' /\ OnlyCalls(c) /\ call'[c] = n
        /\ call[c].at = "idle" /\ faults' = faults
    BY <1>1, <1>2, <1>3, BegunCall DEF n
  <1>6. /\ messages \in [MessageIds -> Message \cup {None}]
        /\ spoken \subseteq MessageIds /\ overlapped \subseteq ConversationIds
    BY DEF ChatTyped, ChatTypeOK
  <1>7. messages' = [messages EXCEPT ![m] = row]
    BY <1>2 DEF row
  <1>8. /\ messages' \in [MessageIds -> Message \cup {None}] /\ messages'[m] = row
        /\ \A k \in MessageIds : k # m => messages'[k] = messages[k]
    BY <1>4, <1>6, <1>7
  <1>9. Stored' = Stored \cup {m} /\ \A k \in Stored : messages'[k] = messages[k]
    BY <1>2, <1>4, <1>8 DEF Stored, IsNextRow
  <1>10. SameSubjects
    BY <1>1 DEF SameSubjects, Opened
  <1>11. spoken' \subseteq MessageIds /\ overlapped' \subseteq ConversationIds
    BY <1>1, <1>2, <1>6
  <1>12. ChatTyped'
    BY <1>1, <1>3, <1>5, <1>8, <1>10, <1>11, ChatTypedGoesOn
       DEF ChatTyped, ChatTypeOK, SameSubjects
  <1>13. call'[c].message = m /\ messages'[m].conversation = v
    BY <1>3, <1>4, <1>5, <1>8
  <1> QED
    BY <1>1, <1>2, <1>3, <1>5, <1>9, <1>10, <1>12, <1>13

LEMMA PreviewUpdated ==
    ASSUME ChatTyped, NEW c \in Clients, UpdatePreview(c)
    PROVE  /\ ChatTyped' /\ SameSubjects /\ OnlyCalls(c) /\ faults' = faults
           /\ call[c].at = "send.update" /\ call[c].conversation \in Opened
           /\ IF call[c].socket
              THEN /\ call'[c].at = "send.emit" /\ call'[c].message = call[c].message
                   /\ call'[c].conversation = call[c].conversation
                   /\ call'[c].socket = call[c].socket
              ELSE call'[c].at = "idle"
           /\ UNCHANGED <<messages, room, heard, clock, talked>>
           /\ LET v == call[c].conversation
              IN /\ conversations'[v].lastMessage = call[c].message
                 /\ conversations'[v].lastMessageAt = call[c].stamp
                 /\ conversations'[v].lastReadAt = conversations[v].lastReadAt
                 /\ \A w \in Opened : w # v => conversations'[w] = conversations[w]
  <1>1. /\ At(c, "send.update")
        /\ conversations' = [conversations EXCEPT ![call[c].conversation] =
               [@ EXCEPT !.lastMessage = call[c].message,
                         !.lastMessageAt = call[c].stamp]]
        /\ IF call[c].socket THEN Goto(c, "send.emit") ELSE Finish(c)
        /\ UNCHANGED <<messages, room, heard, clock, talked>>
    BY DEF UpdatePreview
  <1>2. /\ RequestsTypeOK(ChatCall) /\ call[c].conversation \in Opened
        /\ call[c].message \in MessageIds /\ Opened \subseteq ConversationIds
        /\ call[c] \in [at : {"send.update", "send.emit"}, user : Users,
                        conversation : ConversationIds, socket : BOOLEAN,
                        message : MessageIds, stamp : Nat]
        /\ call[c].stamp \in Nat
    BY <1>1, ChatCalls DEF At
  <1> DEFINE n == [call[c] EXCEPT !.at = "send.emit"]
  <1>3. /\ n \in ChatCall /\ n.at = "send.emit" /\ n.message = call[c].message
        /\ n.conversation = call[c].conversation /\ n.socket = call[c].socket
    BY <1>2 DEF ChatCall
  <1> HIDE DEF n
  <1>4. /\ RequestsTypeOK(ChatCall)' /\ OnlyCalls(c) /\ faults' = faults
        /\ IF call[c].socket THEN call'[c] = n ELSE call'[c].at = "idle"
    <2>1. CASE call[c].socket
      <3>1. Continue(c, n)
        BY <1>1, <2>1 DEF Goto, n
      <3> QED
        BY <1>2, <1>3, <2>1, <3>1, ContinuedCall
    <2>2. CASE ~call[c].socket
      BY <1>1, <1>2, <2>2, FinishedCall
    <2> QED
      BY <2>1, <2>2
  <1>5. PICK v \in Opened : v = call[c].conversation
    BY <1>2
  <1> DEFINE row == [conversations[v] EXCEPT !.lastMessage = call[c].message,
                                             !.lastMessageAt = call[c].stamp]
  <1>6. conversations[v] \in Conversation /\ clock \in Nat
    BY DEF ChatTyped, ChatTypeOK, Opened
  <1>7. /\ row \in Conversation
        /\ row.about = conversations[v].about
        /\ row.participants = conversations[v].participants
        /\ row.lastMessage = call[c].message
        /\ row.lastMessageAt = call[c].stamp
        /\ row.lastReadAt = conversations[v].lastReadAt
    <2>1. call[c].stamp \in Nat /\ call[c].message \in MessageIds \cup {0}
      BY <1>2, <1>6
    <2> QED
      BY <1>6, <2>1 DEF Conversation
  <1>8. conversations' = [conversations EXCEPT ![v] = row]
    BY <1>1, <1>5
  <1> HIDE DEF row
  <1>9. /\ SameSubjects /\ conversations'[v] = row
        /\ \A w \in Opened : w # v => conversations'[w] = conversations[w]
        /\ conversations' \in [ConversationIds -> Conversation \cup {None}]
    BY <1>7, <1>8, RowUpdated
  <1>10. ChatTyped'
    BY <1>1, <1>2, <1>3, <1>4, <1>6, <1>9, ChatTypedGoesOn
       DEF ChatTyped, ChatTypeOK, SameSubjects, talked
  <1> QED
    BY <1>1, <1>2, <1>3, <1>4, <1>5, <1>7, <1>9, <1>10 DEF At

LEMMA MessageBroadcast ==
    ASSUME ChatTyped, NEW c \in Clients, Broadcast(c)
    PROVE  /\ ChatTyped' /\ SameSubjects /\ OnlyCalls(c) /\ faults' = faults
           /\ call[c].at = "send.emit" /\ call'[c].at = "idle"
           /\ UNCHANGED <<conversations, messages, room, clock, talked>>
           /\ \A u \in Users :
                 /\ heard[u] \subseteq heard'[u]
                 /\ u \in room[call[c].conversation] => call[c].message \in heard'[u]
  <1>1. /\ At(c, "send.emit") /\ Finish(c)
        /\ heard' = [u \in Users |-> IF u \in room[call[c].conversation]
                                     THEN heard[u] \cup {call[c].message}
                                     ELSE heard[u]]
        /\ UNCHANGED <<conversations, messages, room, clock, talked>>
    BY DEF Broadcast
  <1>2. RequestsTypeOK(ChatCall) /\ call[c].message \in MessageIds
    BY <1>1, ChatCalls DEF At
  <1>3. RequestsTypeOK(ChatCall)' /\ OnlyCalls(c) /\ call'[c].at = "idle" /\ faults' = faults
    BY <1>1, <1>2, FinishedCall
  <1>4. heard' \in [Users -> SUBSET MessageIds]
    BY <1>1, <1>2 DEF ChatTyped, ChatTypeOK
  <1>5. SameSubjects
    BY <1>1 DEF SameSubjects, Opened
  <1>6. ChatTyped'
    BY <1>1, <1>3, <1>4, <1>5, ChatTypedGoesOn
       DEF ChatTyped, ChatTypeOK, SameSubjects, talked
  <1> QED
    BY <1>1, <1>3, <1>5, <1>6 DEF At

LEMMA RoomJoined ==
    ASSUME ChatTyped, NEW c \in Clients, NEW u \in Users, NEW v \in ConversationIds,
           JoinRoom(c, u, v)
    PROVE  /\ ChatTyped' /\ SameSubjects /\ OnlyCalls(c) /\ faults' = faults
           /\ call[c].at = "idle" /\ call'[c].at = "idle"
           /\ UNCHANGED <<conversations, messages, heard, clock, talked>>
           /\ \A w \in ConversationIds : room[w] \subseteq room'[w]
  <1>1. /\ Begin(c, Idle) /\ room' = [room EXCEPT ![v] = @ \cup {u}]
        /\ UNCHANGED <<conversations, messages, heard, clock, talked>>
        /\ RequestsTypeOK(ChatCall) /\ room \in [ConversationIds -> SUBSET Users]
    BY ChatCalls DEF JoinRoom, ChatTyped, ChatTypeOK
  <1>2. /\ RequestsTypeOK(ChatCall)' /\ OnlyCalls(c) /\ call'[c] = Idle
        /\ call[c].at = "idle" /\ faults' = faults
    BY <1>1, BegunCall
  <1>3. call'[c].at = "idle"
    BY <1>2 DEF Idle
  <1>4. room' \in [ConversationIds -> SUBSET Users]
        /\ \A w \in ConversationIds : room[w] \subseteq room'[w]
    BY <1>1
  <1>5. SameSubjects
    BY <1>1 DEF SameSubjects, Opened
  <1>6. ChatTyped'
    BY <1>1, <1>2, <1>3, <1>4, <1>5, ChatTypedGoesOn
       DEF ChatTyped, ChatTypeOK, SameSubjects, talked
  <1> QED
    BY <1>1, <1>2, <1>3, <1>4, <1>5, <1>6

\* What is known of one conversation by one user.
LEMMA KnownUpdated ==
    ASSUME ChatTyped, NEW u \in Users, NEW v \in ConversationIds, NEW k \in Knowledge,
           known' = [known EXCEPT ![<<u, v>>] = k]
    PROVE  /\ known' \in [Users \X ConversationIds -> Knowledge]
           /\ known'[<<u, v>>] = k
           /\ \A x \in Users, w \in ConversationIds :
                 x # u \/ w # v => known'[<<x, w>>] = known[<<x, w>>]
  <1>1. known \in [Users \X ConversationIds -> Knowledge]
    BY DEF ChatTyped, ChatTypeOK
  <1> QED
    BY <1>1

LEMMA RoomLeft ==
    ASSUME ChatTyped, NEW u \in Users, NEW v \in ConversationIds,
           LeaveRoom(u, v), UNCHANGED requestVars
    PROVE  /\ ChatTyped' /\ SameSubjects /\ UNCHANGED <<call, faults>>
           /\ UNCHANGED <<conversations, messages, heard, clock, spoken, raced, overlapped>>
           /\ \A x \in Users, w \in ConversationIds :
                 IF x = u /\ w = v
                 THEN /\ ~known'[<<x, w>>].live
                      /\ known'[<<x, w>>].turned = known[<<x, w>>].turned
                      /\ known'[<<x, w>>].seen = known[<<x, w>>].seen
                 ELSE /\ known'[<<x, w>>] = known[<<x, w>>]
                      /\ (x \in room'[w]) = (x \in room[w])
  <1>1. /\ room' = [room EXCEPT ![v] = @ \ {u}]
        /\ known' = [known EXCEPT ![<<u, v>>].live = FALSE]
        /\ UNCHANGED <<conversations, messages, heard, clock, spoken, raced, overlapped>>
        /\ UNCHANGED <<call, calls, faults>>
    BY DEF LeaveRoom, requestVars
  <1>2. /\ known[<<u, v>>] \in Knowledge /\ room \in [ConversationIds -> SUBSET Users]
    BY DEF ChatTyped, ChatTypeOK
  <1> DEFINE k == [known[<<u, v>>] EXCEPT !.live = FALSE]
  <1>3. /\ k \in Knowledge /\ ~k.live /\ k.turned = known[<<u, v>>].turned
        /\ k.seen = known[<<u, v>>].seen
    BY <1>2 DEF Knowledge
  <1>4. known' = [known EXCEPT ![<<u, v>>] = k]
    BY <1>1
  <1> HIDE DEF k
  <1>5. /\ known' \in [Users \X ConversationIds -> Knowledge]
        /\ known'[<<u, v>>] = k
        /\ \A x \in Users, w \in ConversationIds :
              x # u \/ w # v => known'[<<x, w>>] = known[<<x, w>>]
    BY <1>3, <1>4, KnownUpdated
  <1>6. /\ room' \in [ConversationIds -> SUBSET Users]
        /\ \A x \in Users, w \in ConversationIds :
              x # u \/ w # v => (x \in room'[w]) = (x \in room[w])
    BY <1>1, <1>2
  <1>7. Opened' = Opened /\ SameSubjects
    BY <1>1 DEF SameSubjects, Opened
  <1>8. ChatTyped'
    BY <1>1, <1>5, <1>6, <1>7
       DEF ChatTyped, ChatTypeOK, TalksMeet, RequestsTypeOK
  <1> QED
    BY <1>1, <1>3, <1>5, <1>6, <1>7, <1>8

\* The pages a reader asks for.
AskedPages == {0, 1}

\* What beginning to read comes to: a stamp, and a later page asked for.
ReadBegins(c, u, v, p) ==
    /\ ChatTyped' /\ SameSubjects /\ OnlyCalls(c) /\ faults' = faults
    /\ v \in Opened
    /\ call[c].at = "idle" /\ call'[c].at = "read.mark"
    /\ call'[c].user = u /\ call'[c].conversation = v /\ call'[c].page = p
    /\ call'[c].stamp = clock' /\ clock <= clock' /\ clock' \in Nat
    /\ p # 0 => known'[<<u, v>>].turned
    /\ \A x \in Users, w \in ConversationIds :
          /\ known'[<<x, w>>].live = known[<<x, w>>].live
          /\ known'[<<x, w>>].from = known[<<x, w>>].from
          /\ known'[<<x, w>>].seen = known[<<x, w>>].seen
          /\ known[<<x, w>>].turned => known'[<<x, w>>].turned
    /\ UNCHANGED <<conversations, messages, room, heard, spoken, raced, overlapped>>

LEMMA ReadBegun ==
    ASSUME ChatTyped, NEW c \in Clients, NEW u \in Users, NEW v \in ConversationIds,
           NEW p \in AskedPages, BeginRead(c, u, v, p)
    PROVE  ReadBegins(c, u, v, p)
  <1>1. /\ v \in Opened /\ clock' \in Nat /\ clock <= clock'
        /\ UNCHANGED <<conversations, messages, room, heard, spoken, raced, overlapped>>
        /\ RequestsTypeOK(ChatCall)
    BY ChatCalls, DateTaken DEF BeginRead, isParticipant
  <1> PICK t \in Nat : t = clock'
    BY <1>1
  <1> DEFINE n == [at |-> "read.mark", user |-> u, conversation |-> v, page |-> p,
                   stamp |-> t]
             k == [known[<<u, v>>] EXCEPT !.turned = @ \/ p > 0]
  <1>2. Begin(c, n)
    BY DEF BeginRead
  <1>3. known' = [known EXCEPT ![<<u, v>>] = k]
    BY DEF BeginRead
  <1>4. /\ n \in ChatCall /\ n.at = "read.mark" /\ n.user = u /\ n.conversation = v
        /\ n.page = p /\ n.stamp = t
    BY DEF ChatCall, AskedPages
  <1>5. known[<<u, v>>] \in Knowledge
    BY DEF ChatTyped, ChatTypeOK
  <1>6. /\ k \in Knowledge
        /\ k.live = known[<<u, v>>].live /\ k.from = known[<<u, v>>].from
        /\ k.seen = known[<<u, v>>].seen
        /\ k.turned = (known[<<u, v>>].turned \/ p > 0)
    BY <1>5 DEF Knowledge, AskedPages
  <1> HIDE DEF n, k
  <1>7. /\ RequestsTypeOK(ChatCall)' /\ OnlyCalls(c) /\ call'[c] = n
        /\ call[c].at = "idle" /\ faults' = faults
    BY <1>1, <1>2, <1>4, BegunCall
  <1>8. /\ known' \in [Users \X ConversationIds -> Knowledge]
        /\ known'[<<u, v>>] = k
        /\ \A x \in Users, w \in ConversationIds :
              x # u \/ w # v => known'[<<x, w>>] = known[<<x, w>>]
    BY <1>3, <1>6, KnownUpdated
  <1>9. SameSubjects
    BY <1>1 DEF SameSubjects, Opened
  <1>10. ChatTyped'
    BY <1>1, <1>4, <1>7, <1>8, <1>9, ChatTypedGoesOn
       DEF ChatTyped, ChatTypeOK, SameSubjects
  <1>11. \A x \in Users, w \in ConversationIds :
            /\ known'[<<x, w>>].live = known[<<x, w>>].live
            /\ known'[<<x, w>>].from = known[<<x, w>>].from
            /\ known'[<<x, w>>].seen = known[<<x, w>>].seen
            /\ known[<<x, w>>].turned => known'[<<x, w>>].turned
    BY <1>6, <1>8
  <1>12. p # 0 => known'[<<u, v>>].turned
    <2>1. p # 0 => p > 0
      BY DEF AskedPages
    <2>2. p > 0 => k.turned
      BY <1>6
    <2> QED
      BY <1>8, <2>1, <2>2
  <1> QED
    BY <1>1, <1>4, <1>7, <1>9, <1>10, <1>11, <1>12 DEF ReadBegins

LEMMA ReadMarked ==
    ASSUME ChatTyped, NEW c \in Clients, ReadMark(c)
    PROVE  /\ ChatTyped' /\ SameSubjects /\ OnlyCalls(c) /\ faults' = faults
           /\ call[c].at = "read.mark" /\ call'[c].at = "read.find"
           /\ call[c].user \in Users /\ call[c].conversation \in Opened
           /\ call'[c].user = call[c].user /\ call'[c].page = call[c].page
           /\ call'[c].conversation = call[c].conversation
           /\ UNCHANGED <<messages, room, heard, clock, talked>>
           /\ LET v == call[c].conversation
              IN /\ conversations'[v].lastMessage = conversations[v].lastMessage
                 /\ conversations'[v].lastMessageAt = conversations[v].lastMessageAt
                 /\ conversations'[v].lastReadAt =
                       [conversations[v].lastReadAt EXCEPT ![call[c].user] = call[c].stamp]
                 /\ \A w \in Opened : w # v => conversations'[w] = conversations[w]
  <1>1. /\ At(c, "read.mark") /\ Goto(c, "read.find")
        /\ conversations' = [conversations EXCEPT ![call[c].conversation] =
               [@ EXCEPT !.lastReadAt[call[c].user] = call[c].stamp]]
        /\ UNCHANGED <<messages, room, heard, clock, talked>>
    BY DEF ReadMark, markAsRead
  <1>2. /\ RequestsTypeOK(ChatCall) /\ call[c].conversation \in Opened
        /\ call[c].user \in Users /\ Opened \subseteq ConversationIds
        /\ call[c] \in [at : {"read.mark", "read.find"}, user : Users,
                        conversation : ConversationIds, page : {0, 1}, stamp : Nat]
        /\ call[c].stamp \in Nat
    BY <1>1, ChatCalls DEF At
  <1> DEFINE n == [call[c] EXCEPT !.at = "read.find"]
  <1>3. /\ n \in ChatCall /\ n.at = "read.find" /\ n.user = call[c].user
        /\ n.conversation = call[c].conversation /\ n.page = call[c].page
    BY <1>2 DEF ChatCall
  <1>4. Continue(c, n)
    BY <1>1 DEF Goto
  <1> HIDE DEF n
  <1>5. RequestsTypeOK(ChatCall)' /\ OnlyCalls(c) /\ faults' = faults /\ call'[c] = n
    BY <1>2, <1>3, <1>4, ContinuedCall
  <1>6. PICK v \in Opened, u \in Users, t \in Nat :
            v = call[c].conversation /\ u = call[c].user /\ t = call[c].stamp
    BY <1>2
  <1> DEFINE row == [conversations[v] EXCEPT !.lastReadAt[u] = t]
  <1>7. conversations[v] \in Conversation /\ clock \in Nat
    BY DEF ChatTyped, ChatTypeOK, Opened
  <1>8. /\ row \in Conversation
        /\ row.about = conversations[v].about
        /\ row.participants = conversations[v].participants
        /\ row.lastMessage = conversations[v].lastMessage
        /\ row.lastMessageAt = conversations[v].lastMessageAt
        /\ row.lastReadAt = [conversations[v].lastReadAt EXCEPT ![u] = t]
    BY <1>7 DEF Conversation
  <1>9. conversations' = [conversations EXCEPT ![v] = row]
    BY <1>1, <1>6
  <1> HIDE DEF row
  <1>10. /\ SameSubjects /\ conversations'[v] = row
         /\ \A w \in Opened : w # v => conversations'[w] = conversations[w]
         /\ conversations' \in [ConversationIds -> Conversation \cup {None}]
    BY <1>8, <1>9, RowUpdated
  <1>11. ChatTyped'
    BY <1>1, <1>2, <1>3, <1>5, <1>7, <1>10, ChatTypedGoesOn
       DEF ChatTyped, ChatTypeOK, SameSubjects, talked
  <1> QED
    BY <1>1, <1>2, <1>3, <1>5, <1>6, <1>8, <1>10, <1>11 DEF At

LEMMA SmallestOf ==
    ASSUME NEW R, IsWellFoundedOn(R, Nat), \A x, y \in Nat : y < x => <<y, x>> \in R,
           NEW T \in SUBSET Nat, T # {}
    PROVE  \E x \in T : \A y \in T : x <= y
  <1>1. PICK x \in T : \A y \in T : ~ (<<y, x>> \in R)
    BY WFMin
  <1>2. ASSUME NEW y \in T PROVE x <= y
    <2>1. x \in Nat /\ y \in Nat
      OBVIOUS
    <2>2. ~(y < x)
      BY <1>1, <2>1
    <2> QED
      BY <2>1, <2>2
  <1> QED
    BY <1>2

\* A set of numbers has a least element, a bounded one a greatest.
LEMMA SmallestElement ==
    ASSUME NEW T \in SUBSET Nat, T # {}
    PROVE  \E x \in T : \A y \in T : x <= y
  <1>1. \A x, y \in Nat : y < x => <<y, x>> \in OpToRel(<, Nat)
    BY DEF OpToRel
  <1> QED
    BY <1>1, SmallestOf, NatLessThanWellFounded

LEMMA LargestElement ==
    ASSUME NEW n \in Nat, NEW S \in SUBSET (1..n), S # {}
    PROVE  \E m \in S : \A k \in S : k <= m
  <1> DEFINE T == {n - m : m \in S}
  <1>1. T \in SUBSET Nat /\ T # {}
    <2>1. T \in SUBSET Nat
      OBVIOUS
    <2>2. T # {}
      OBVIOUS
    <2> QED
      BY <2>1, <2>2
  <1>2. PICK x \in T : \A y \in T : x <= y
    <2> HIDE DEF T
    <2> QED
      BY <1>1, SmallestElement
  <1>3. PICK m \in S : x = n - m
    BY <1>2
  <1>4. \A k \in S : n - m <= n - k
    BY <1>2, <1>3
  <1> QED
    BY <1>3, <1>4

LEMMA OldestFound ==
    ASSUME NEW found \in SUBSET MessageIds
    PROVE  /\ Oldest(found) \in MessageIds \cup {0}
           /\ found = {} => Oldest(found) = 0
           /\ found # {} => /\ Oldest(found) \in found
                            /\ \A n \in found : Oldest(found) <= n
  <1>1. CASE found = {}
    BY <1>1 DEF Oldest
  <1>2. CASE found # {}
    <2>1. found \in SUBSET Nat
      BY DEF MessageIds
    <2>2. \E m \in found : \A n \in found : m <= n
      BY <1>2, <2>1, SmallestElement
    <2>3. Oldest(found) = CHOOSE m \in found : \A n \in found : m <= n
      BY <1>2 DEF Oldest
    <2>4. Oldest(found) \in found /\ \A n \in found : Oldest(found) <= n
      BY <2>2, <2>3
    <2> QED
      BY <1>2, <2>4
  <1> QED
    BY <1>1, <1>2

\* The first page is the newest messages, and all of them from its oldest on.
LEMMA FirstPageFound ==
    ASSUME ChatTyped, NEW v, NEW m \in MessagesOf(v)
    PROVE  /\ Newer(m, v) < PageSize => m \in findMessages(v, 0)
           /\ m > Oldest(findMessages(v, 0)) => m \in findMessages(v, 0)
  <1> DEFINE found == findMessages(v, 0)
             After(k) == {n \in MessagesOf(v) : n > k}
  <1>1. /\ PageSize \in Nat \ {0} /\ MaxMessages \in Nat
        /\ MessagesOf(v) \subseteq 1..MaxMessages /\ found \in SUBSET MessageIds
    BY ChatBounds DEF MessagesOf, Stored, MessageIds, findMessages
  <1>2. ASSUME NEW k \in MessagesOf(v)
        PROVE  Newer(k, v) \in Nat /\ IsFiniteSet(After(k))
    <2>1. IsFiniteSet(1..MaxMessages)
      BY <1>1, FS_Interval
    <2>2. After(k) \in SUBSET (1..MaxMessages)
      BY <1>1
    <2>3. IsFiniteSet(After(k)) /\ Cardinality(After(k)) \in Nat
      BY <2>1, <2>2, FS_Subset, FS_CardinalityType
    <2> QED
      BY <2>3 DEF Newer
  <1>3. ASSUME NEW k \in MessagesOf(v)
        PROVE  (k \in found) = (Newer(k, v) < PageSize)
    <2>1. (Newer(k, v) \div PageSize = 0) = (Newer(k, v) < PageSize)
      BY <1>1, <1>2, PageZero
    <2> QED
      BY <2>1 DEF findMessages
  <1>4. ASSUME m > Oldest(found), found = {}
        PROVE  FALSE
    <2>1. PICK k \in MessagesOf(v) : \A n \in MessagesOf(v) : n <= k
      BY <1>1, LargestElement
    <2>2. After(k) = {}
      BY <1>1, <2>1
    <2>3. Newer(k, v) = 0
      BY <2>2, FS_EmptySet DEF Newer
    <2> QED
      BY <1>1, <1>3, <1>4, <2>3
  <1>5. ASSUME m > Oldest(found), found # {}
        PROVE  m \in found
    <2>1. Oldest(found) \in found /\ found \subseteq MessagesOf(v)
      BY <1>1, <1>5, OldestFound DEF findMessages
    <2>2. PICK k \in found : k = Oldest(found)
      BY <2>1
    <2>3. After(m) \in SUBSET After(k)
      BY <1>1, <1>5, <2>1, <2>2
    <2>4. Newer(m, v) <= Newer(k, v)
      BY <1>2, <2>1, <2>3, FS_Subset DEF Newer
    <2>5. Newer(k, v) < PageSize
      BY <1>3, <2>1
    <2>6. Newer(m, v) \in Nat /\ Newer(k, v) \in Nat
      BY <1>2, <2>1
    <2>7. Newer(m, v) < PageSize
      BY <1>1, <2>4, <2>5, <2>6
    <2> QED
      BY <1>3, <2>7
  <1> QED
    BY <1>3, <1>4, <1>5

LEMMA PageRead ==
    ASSUME ChatTyped, NEW c \in Clients, ReadFind(c)
    PROVE  /\ ChatTyped' /\ SameSubjects /\ OnlyCalls(c) /\ faults' = faults
           /\ call[c].at = "read.find" /\ call'[c].at = "idle"
           /\ call[c].user \in Users /\ call[c].conversation \in ConversationIds
           /\ UNCHANGED <<conversations, messages, room, heard, clock, spoken, raced,
                          overlapped>>
           /\ \A x \in Users, w \in ConversationIds :
                 /\ known'[<<x, w>>].turned = known[<<x, w>>].turned
                 /\ known[<<x, w>>].seen \subseteq known'[<<x, w>>].seen
                 /\ x # call[c].user \/ w # call[c].conversation \/ call[c].page # 0 =>
                       /\ known'[<<x, w>>].live = known[<<x, w>>].live
                       /\ known'[<<x, w>>].from = known[<<x, w>>].from
           /\ call[c].page = 0 =>
                 LET u == call[c].user
                     v == call[c].conversation
                 IN /\ known'[<<u, v>>].live = (u \in room[v])
                    /\ known'[<<u, v>>].from = Oldest(findMessages(v, 0))
                    /\ findMessages(v, 0) \subseteq known'[<<u, v>>].seen
  <1>1. /\ At(c, "read.find") /\ Finish(c)
        /\ UNCHANGED <<conversations, messages, room, heard, clock, spoken, raced,
                       overlapped>>
    BY DEF ReadFind
  <1>2. /\ RequestsTypeOK(ChatCall) /\ call[c].user \in Users
        /\ call[c].conversation \in ConversationIds /\ call[c].page \in {0, 1}
    BY <1>1, ChatCalls DEF At
  <1>3. RequestsTypeOK(ChatCall)' /\ OnlyCalls(c) /\ call'[c].at = "idle" /\ faults' = faults
    BY <1>1, <1>2, FinishedCall
  <1>4. PICK u \in Users, v \in ConversationIds, p \in {0, 1} :
            u = call[c].user /\ v = call[c].conversation /\ p = call[c].page
    BY <1>2
  <1> DEFINE found == findMessages(v, p)
             k == Learns(known[<<u, v>>], p, u \in room[v], found)
  <1>5. known' = [known EXCEPT ![<<u, v>>] = k]
    BY <1>4 DEF ReadFind
  <1>6. known[<<u, v>>] \in Knowledge
    BY DEF ChatTyped, ChatTypeOK
  <1>7. found \in SUBSET MessageIds /\ Oldest(found) \in MessageIds \cup {0}
    BY OldestFound DEF findMessages, MessagesOf, Stored
  <1>8. /\ k \in Knowledge /\ k.turned = known[<<u, v>>].turned
        /\ k.seen = known[<<u, v>>].seen \cup found
        /\ p # 0 => k.live = known[<<u, v>>].live /\ k.from = known[<<u, v>>].from
        /\ p = 0 => k.live = (u \in room[v]) /\ k.from = Oldest(found)
    <2> HIDE DEF found
    <2>1. CASE p = 0
      <3> DEFINE joined == u \in room[v]
      <3>1. joined \in BOOLEAN
        OBVIOUS
      <3>2. k = Learns(known[<<u, v>>], p, joined, found)
        OBVIOUS
      <3> HIDE DEF joined, k
      <3>3. k = [known[<<u, v>>] EXCEPT !.live = joined, !.from = Oldest(found),
                                        !.seen = known[<<u, v>>].seen \cup found]
        BY <2>1, <3>2 DEF Learns
      <3>4. /\ k \in Knowledge /\ k.turned = known[<<u, v>>].turned
            /\ k.seen = known[<<u, v>>].seen \cup found
            /\ k.live = joined /\ k.from = Oldest(found)
        BY <1>6, <1>7, <3>1, <3>3 DEF Knowledge
      <3> QED
        BY <2>1, <3>4 DEF joined
    <2>2. CASE p # 0
      BY <1>6, <1>7, <2>2 DEF Learns, Knowledge
    <2> QED
      BY <2>1, <2>2
  <1> HIDE DEF k
  <1>9. /\ known' \in [Users \X ConversationIds -> Knowledge]
        /\ known'[<<u, v>>] = k
        /\ \A x \in Users, w \in ConversationIds :
              x # u \/ w # v => known'[<<x, w>>] = known[<<x, w>>]
    BY <1>5, <1>8, KnownUpdated
  <1>10. SameSubjects
    BY <1>1 DEF SameSubjects, Opened
  <1>11. ChatTyped'
    BY <1>1, <1>3, <1>9, <1>10, ChatTypedGoesOn DEF ChatTyped, ChatTypeOK, SameSubjects
  <1>12. \A x \in Users, w \in ConversationIds :
            /\ known'[<<x, w>>].turned = known[<<x, w>>].turned
            /\ known[<<x, w>>].seen \subseteq known'[<<x, w>>].seen
            /\ x # u \/ w # v \/ p # 0 =>
                  /\ known'[<<x, w>>].live = known[<<x, w>>].live
                  /\ known'[<<x, w>>].from = known[<<x, w>>].from
    BY <1>8, <1>9
  <1>13. p = 0 => /\ known'[<<u, v>>].live = (u \in room[v])
                     /\ known'[<<u, v>>].from = Oldest(findMessages(v, 0))
                     /\ findMessages(v, 0) \subseteq known'[<<u, v>>].seen
    BY <1>8, <1>9
  <1> QED
    BY <1>1, <1>2, <1>3, <1>4, <1>10, <1>11, <1>12, <1>13 DEF At

LEMMA ChatRejected ==
    ASSUME ChatTyped, NEW c \in Clients, Reject(c), UNCHANGED chatVars
    PROVE  /\ ChatTyped' /\ SameSubjects /\ OnlyCalls(c) /\ faults' > 0
           /\ call'[c].at = "idle"
           /\ UNCHANGED <<conversations, messages, room, heard, clock, known, spoken,
                          raced, overlapped>>
  <1>1. RequestsTypeOK(ChatCall) /\ raced \subseteq Subjects
    BY ChatCalls DEF ChatTyped, ChatTypeOK
  <1>2. /\ RequestsTypeOK(ChatCall)' /\ OnlyCalls(c) /\ call'[c].at = "idle"
        /\ faults' > 0
    BY <1>1, RejectedCall
  <1>3. UNCHANGED <<conversations, messages, room, heard, clock, known, spoken,
                    raced, overlapped>>
    BY DEF chatVars, talked
  <1> QED
    BY <1>1, <1>2, <1>3, ChatTypedStays

-----------------------------------------------------------------------------
Sends(c, v) == call[c].at = "send.update" /\ call[c].conversation = v
Carries(c, m) == call[c].at \in {"send.update", "send.emit"} /\ call[c].message = m
Finds(c, u, v) ==
    /\ call[c].at = "read.find" /\ call[c].user = u
    /\ call[c].conversation = v /\ call[c].page = 0

\* Who is about to create a conversation nobody else starts finds none about
\* his subject.
SubjectsKept ==
    /\ \A v \in Opened : conversations[v].participants =
            {conversations[v].about.customer, conversations[v].about.owner}
    /\ OneConversationPerSubject
    /\ \A s \in Subjects \ raced :
          /\ \A c, d \in Clients : Starting(c, s) /\ Starting(d, s) => c = d
          /\ \A c \in Clients : Starting(c, s) =>
                \A v \in Opened : conversations[v].about # s

\* Messages are numbered without gaps, belong to a conversation, and are
\* carried by requests that know where they belong.
MessagesKept ==
    /\ \A m \in Stored : /\ messages[m].conversation \in Opened
                         /\ \A k \in 1..m : k \in Stored
    /\ spoken \subseteq Stored
    /\ \A c \in Clients, m \in MessageIds : Carries(c, m) =>
          /\ m \in Stored /\ messages[m].conversation = call[c].conversation
          /\ m \in spoken => call[c].socket

\* The newest message is in the preview, or with the only one who sends.
PreviewKept ==
    \A v \in ConversationIds \ overlapped :
        /\ \A c, d \in Clients : Sends(c, v) /\ Sends(d, v) => c = d
        /\ \A c \in Clients : Sends(c, v) =>
              \A m \in MessagesOf(v) : m <= call[c].message
        /\ faults = 0 =>
              \/ \E c \in Clients : Sends(c, v)
              \/ \A m \in MessagesOf(v) : m <= conversations[v].lastMessage

\* What the preview of v shows, or is about to: a message and its stamp.
Previewed(v, m, t) ==
    \/ m = conversations[v].lastMessage /\ t = conversations[v].lastMessageAt
    \/ \E c \in Clients : Sends(c, v) /\ m = call[c].message /\ t = call[c].stamp

\* Who read v after t was given the newest page of it up to m, or is about to
\* fetch it.
ShownOrComing(u, v, m, t) ==
    t < conversations[v].lastReadAt[u] =>
        \/ known[<<u, v>>].turned
        \/ \E c \in Clients : Finds(c, u, v)
        \/ \A k \in MessagesOf(v) :
               k <= m /\ Newer(k, v) < PageSize => k \in known[<<u, v>>].seen

SeenOrComing(u, v) ==
    \A m \in MessageIds \cup {0}, t \in Nat :
        Previewed(v, m, t) => ShownOrComing(u, v, m, t)

\* Stamps are not from the future; previews are messages.
StampsKept ==
    /\ \A c \in Clients : call[c].at = "read.mark" =>
          /\ call[c].stamp <= clock
          /\ call[c].page # 0 => known[<<call[c].user, call[c].conversation>>].turned
    /\ \A v \in Opened : /\ conversations[v].lastMessage \in Stored \cup {0}
                         /\ \A u \in Users : conversations[v].lastReadAt[u] <= clock

ReadKept ==
    /\ StampsKept
    /\ faults = 0 => \A v \in Opened, u \in Users : SeenOrComing(u, v)

\* Who is live is in the room, and what was said since he read the first page
\* was heard, or is on its way.
RoomKept ==
    \A u \in Users, v \in ConversationIds : known[<<u, v>>].live =>
        /\ u \in room[v]
        /\ faults = 0 =>
              \A m \in MessagesOf(v) \cap spoken : m > known[<<u, v>>].from =>
                  \/ m \in known[<<u, v>>].seen \cup heard[u]
                  \/ \E c \in Clients : Carries(c, m)

ChatInv ==
    /\ ChatTyped /\ SubjectsKept /\ MessagesKept
    /\ PreviewKept /\ ReadKept /\ RoomKept

-----------------------------------------------------------------------------
\* What leaves an invariant alone.

LEMMA SubjectsStay ==
    ASSUME SubjectsKept, SameSubjects, UNCHANGED raced,
           \A d \in Clients, s \in Subjects : Starting(d, s)' => Starting(d, s)
    PROVE  SubjectsKept'
  <1>1. \A v \in Opened' :
            /\ v \in Opened /\ conversations'[v].about = conversations[v].about
            /\ conversations'[v].participants = conversations[v].participants
    BY DEF SameSubjects
  <1>2. OneConversationPerSubject'
    BY <1>1 DEF SubjectsKept, OneConversationPerSubject
  <1>3. (\A v \in Opened : conversations[v].participants =
            {conversations[v].about.customer, conversations[v].about.owner})'
    BY <1>1 DEF SubjectsKept
  <1>4. ASSUME NEW s \in Subjects \ raced'
        PROVE  /\ \A c, d \in Clients : Starting(c, s)' /\ Starting(d, s)' => c = d
               /\ \A c \in Clients : Starting(c, s)' =>
                     \A v \in Opened' : conversations'[v].about # s
    BY <1>1 DEF SubjectsKept
  <1> QED
    BY <1>2, <1>3, <1>4 DEF SubjectsKept

LEMMA MessagesStay ==
    ASSUME MessagesKept, UNCHANGED <<messages, spoken>>, Opened \subseteq Opened',
           \A d \in Clients, m \in MessageIds : Carries(d, m)' =>
               /\ Carries(d, m) /\ call'[d].conversation = call[d].conversation
               /\ call'[d].socket = call[d].socket
    PROVE  MessagesKept'
  <1>1. Stored' = Stored
    BY DEF Stored
  <1> QED
    BY <1>1 DEF MessagesKept

LEMMA PreviewStays ==
    ASSUME MessagesKept, PreviewKept, UNCHANGED <<messages, overlapped>>,
           \A v \in Opened : conversations'[v].lastMessage = conversations[v].lastMessage,
           \A d \in Clients, v \in ConversationIds :
               /\ Sends(d, v)' => Sends(d, v) /\ call'[d].message = call[d].message
               /\ faults' = 0 /\ Sends(d, v) => Sends(d, v)',
           faults' = 0 => faults = 0
    PROVE  PreviewKept'
  <1>1. \A v \in ConversationIds : MessagesOf(v)' = MessagesOf(v)
    BY DEF MessagesOf, Stored
  <1>2. \A v \in ConversationIds \ Opened : MessagesOf(v) = {}
    BY DEF MessagesKept, MessagesOf
  <1>3. ASSUME NEW v \in ConversationIds \ overlapped', NEW a \in Clients, Sends(a, v)'
        PROVE  /\ \A d \in Clients : Sends(d, v)' => a = d
               /\ \A m \in MessagesOf(v)' : m <= call'[a].message
    BY <1>1, <1>3 DEF PreviewKept
  <1>4. ASSUME NEW v \in ConversationIds \ overlapped', faults' = 0,
               ~ \E d \in Clients : Sends(d, v)'
        PROVE  \A m \in MessagesOf(v)' : m <= conversations'[v].lastMessage
    <2>1. \A m \in MessagesOf(v) : m <= conversations[v].lastMessage
      BY <1>4 DEF PreviewKept
    <2> QED
      BY <1>1, <1>2, <2>1
  <1> QED
    BY <1>3, <1>4 DEF PreviewKept

\* One reader of one conversation that a step does not touch.
LEMMA SeenStays ==
    ASSUME NEW u \in Users, NEW v \in ConversationIds, SeenOrComing(u, v),
           MessagesOf(v)' = MessagesOf(v),
           conversations'[v].lastReadAt[u] = conversations[v].lastReadAt[u],
           \A m \in MessageIds \cup {0}, t \in Nat : Previewed(v, m, t)' => Previewed(v, m, t),
           known[<<u, v>>].turned => known'[<<u, v>>].turned,
           known[<<u, v>>].seen \subseteq known'[<<u, v>>].seen,
           \A d \in Clients : Finds(d, u, v) => Finds(d, u, v)'
    PROVE  SeenOrComing(u, v)'
  <1>1. \A k : Newer(k, v)' = Newer(k, v)
    BY DEF Newer
  <1>2. ASSUME NEW m \in MessageIds \cup {0}, NEW t \in Nat, ShownOrComing(u, v, m, t)
        PROVE  ShownOrComing(u, v, m, t)'
    <2>1. CASE \E d \in Clients : Finds(d, u, v)
      BY <2>1 DEF ShownOrComing
    <2>2. CASE ~ \E d \in Clients : Finds(d, u, v)
      BY <1>1, <1>2, <2>2 DEF ShownOrComing
    <2> QED
      BY <2>1, <2>2
  <1> QED
    BY <1>2 DEF SeenOrComing

\* A step that writes no conversation.
LEMMA ReadStays ==
    ASSUME ChatTyped, ReadKept, UNCHANGED <<conversations, messages>>,
           UNCHANGED clock \/ (clock' \in Nat /\ clock <= clock'),
           \A u \in Users, v \in ConversationIds :
               /\ known[<<u, v>>].turned => known'[<<u, v>>].turned
               /\ known[<<u, v>>].seen \subseteq known'[<<u, v>>].seen,
           faults' = 0 => faults = 0,
           \A d \in Clients : call'[d].at = "read.mark" =>
               \/ call'[d] = call[d]
               \/ /\ call'[d].stamp <= clock'
                  /\ call'[d].page # 0 =>
                         known'[<<call'[d].user, call'[d].conversation>>].turned,
           \A d \in Clients, v \in ConversationIds :
               Sends(d, v)' => Sends(d, v) /\ call'[d] = call[d],
           \A d \in Clients, u \in Users, v \in ConversationIds :
               faults' = 0 /\ Finds(d, u, v) => Finds(d, u, v)'
    PROVE  ReadKept'
  <1>1. /\ \A v : MessagesOf(v)' = MessagesOf(v)
        /\ Opened' = Opened /\ Stored' = Stored /\ Opened \subseteq ConversationIds
    BY DEF MessagesOf, Stored, Opened
  <1>2. /\ clock \in Nat /\ clock' \in Nat /\ clock <= clock'
        /\ \A v \in Opened : conversations[v].lastReadAt \in [Users -> Nat]
    BY DEF ChatTyped, ChatTypeOK, Conversation, Opened
  <1>3. ASSUME NEW d \in Clients, call'[d].at = "read.mark"
        PROVE  /\ call'[d].stamp <= clock'
               /\ call'[d].page # 0 =>
                      known'[<<call'[d].user, call'[d].conversation>>].turned
    <2>1. CASE call'[d] = call[d]
      <3>1. /\ call[d].stamp \in Nat /\ call[d].stamp <= clock
            /\ call[d].page # 0 => known[<<call[d].user, call[d].conversation>>].turned
            /\ call[d].user \in Users /\ call[d].conversation \in ConversationIds
        BY <1>1, <1>3, <2>1, ChatCalls DEF ReadKept, StampsKept
      <3> QED
        BY <1>2, <2>1, <3>1
    <2> QED
      BY <1>3, <2>1
  <1>4. ASSUME NEW v \in Opened
        PROVE  /\ conversations'[v].lastMessage \in Stored' \cup {0}
               /\ \A u \in Users : conversations'[v].lastReadAt[u] <= clock'
    BY <1>1, <1>2 DEF ReadKept, StampsKept
  <1>5. StampsKept'
    BY <1>1, <1>3, <1>4 DEF StampsKept
  <1>6. ASSUME faults' = 0, NEW v \in Opened, NEW u \in Users
        PROVE  SeenOrComing(u, v)'
    <2>1. SeenOrComing(u, v) /\ v \in ConversationIds
      BY <1>1, <1>6 DEF ReadKept
    <2>2. \A m, t : Previewed(v, m, t)' => Previewed(v, m, t)
      BY <2>1 DEF Previewed
    <2> QED
      BY <1>1, <1>6, <2>1, <2>2, SeenStays
  <1> QED
    BY <1>1, <1>5, <1>6 DEF ReadKept

LEMMA RoomStays ==
    ASSUME RoomKept, UNCHANGED <<messages, spoken>>,
           \A u \in Users, v \in ConversationIds :
               /\ known[<<u, v>>].seen \subseteq known'[<<u, v>>].seen
               /\ known'[<<u, v>>].live =>
                     /\ known[<<u, v>>].live
                     /\ known'[<<u, v>>].from = known[<<u, v>>].from
                     /\ u \in room[v] => u \in room'[v],
           \A u \in Users : heard[u] \subseteq heard'[u],
           faults' = 0 => faults = 0,
           \A d \in Clients, m \in spoken : faults' = 0 /\ Carries(d, m) => Carries(d, m)'
    PROVE  RoomKept'
  <1>1. \A v : MessagesOf(v)' = MessagesOf(v)
    BY DEF MessagesOf, Stored
  <1>2. ASSUME NEW u \in Users, NEW v \in ConversationIds, known'[<<u, v>>].live
        PROVE  u \in room'[v]
    BY <1>2 DEF RoomKept
  <1>3. ASSUME NEW u \in Users, NEW v \in ConversationIds, known'[<<u, v>>].live,
               faults' = 0, NEW m \in MessagesOf(v)' \cap spoken', m > known'[<<u, v>>].from
        PROVE  \/ m \in known'[<<u, v>>].seen \cup heard'[u]
               \/ \E d \in Clients : Carries(d, m)'
    <2>1. m \in MessagesOf(v) \cap spoken /\ m > known[<<u, v>>].from
      BY <1>1, <1>3
    <2>2. \/ m \in known[<<u, v>>].seen \cup heard[u]
          \/ \E d \in Clients : Carries(d, m)
      BY <1>3, <2>1 DEF RoomKept
    <2> QED
      BY <1>3, <2>1, <2>2
  <1> QED
    BY <1>2, <1>3 DEF RoomKept

-----------------------------------------------------------------------------
\* Conversations are started.

LEMMA StartKeepsSubjects ==
    ASSUME ChatInv, NEW c \in Clients, NEW u \in Users, NEW s \in Subjects,
           StartBookingChat(c, u, s) \/ StartVenueInquiry(c, u, s)
    PROVE  /\ SubjectsKept'
           /\ \E found : StartFind(c, s, found)
  <1>1. PICK found : /\ StartFind(c, s, found)
                     /\ found = {} => \A v \in Opened : conversations[v].about # s
    <2>1. CASE StartBookingChat(c, u, s)
      <3>1. s.type = "BOOKING" /\ StartFind(c, s, BookingChats(s))
        BY <2>1 DEF StartBookingChat, MayStartBookingChat
      <3>2. BookingChats(s) = {} => \A v \in Opened : conversations[v].about # s
        BY <3>1 DEF BookingChats
      <3> QED
        BY <3>1, <3>2
    <2>2. CASE StartVenueInquiry(c, u, s)
      <3>1. s.type = "VENUE_INQUIRY" /\ StartFind(c, s, VenueInquiries(s))
        BY <2>2 DEF StartVenueInquiry, MayStartVenueInquiry
      <3>2. \A v \in Opened : conversations[v].participants =
                {conversations[v].about.customer, conversations[v].about.owner}
        BY DEF ChatInv, SubjectsKept
      <3>3. VenueInquiries(s) = {} => \A v \in Opened : conversations[v].about # s
        BY <3>1, <3>2 DEF VenueInquiries
      <3> QED
        BY <3>1, <3>3
    <2> QED
      BY <2>1, <2>2
  <1>2. ChatTyped /\ SubjectsKept
    BY DEF ChatInv
  <1>3. /\ SameSubjects /\ OnlyCalls(c) /\ UNCHANGED conversations
        /\ call[c].at = "idle"
    BY <1>1, <1>2, StartFound
  <1>4. CASE call'[c].at = "idle" /\ UNCHANGED raced
    <2>1. \A d \in Clients, t \in Subjects : Starting(d, t)' => Starting(d, t)
      BY <1>3, <1>4 DEF Starting, At, OnlyCalls
    <2> QED
      BY <1>1, <1>2, <1>3, <1>4, <2>1, SubjectsStay
  <1>5. CASE /\ call'[c].at = "start.create" /\ call'[c].about = s /\ found = {}
             /\ raced \subseteq raced'
             /\ s \notin raced' => \A d \in Clients : ~Starting(d, s)
    <2>1. \A d \in Clients, t \in Subjects :
              Starting(d, t)' => IF d = c THEN t = s ELSE Starting(d, t)
      BY <1>3, <1>5 DEF Starting, At, OnlyCalls
    <2>2. Opened' = Opened
      BY <1>3 DEF SameSubjects
    <2>3. OneConversationPerSubject'
      BY <1>2, <1>3, <1>5, <2>2 DEF SubjectsKept, OneConversationPerSubject
    <2>4. (\A v \in Opened : conversations[v].participants =
              {conversations[v].about.customer, conversations[v].about.owner})'
      BY <1>2, <1>3, <2>2 DEF SubjectsKept
    <2>5. ASSUME NEW t \in Subjects \ raced'
          PROVE  /\ \A a, d \in Clients : Starting(a, t)' /\ Starting(d, t)' => a = d
                 /\ \A d \in Clients : Starting(d, t)' =>
                       \A v \in Opened' : conversations'[v].about # t
      BY <1>1, <1>2, <1>3, <1>5, <2>1, <2>2 DEF SubjectsKept
    <2> QED
      BY <1>1, <2>3, <2>4, <2>5 DEF SubjectsKept
  <1> QED
    BY <1>1, <1>2, <1>4, <1>5, StartFound

LEMMA CreateKeepsSubjects ==
    ASSUME ChatInv, NEW c \in Clients, StartCreate(c)
    PROVE  SubjectsKept'
  <1>1. ChatTyped /\ SubjectsKept
    BY DEF ChatInv
  <1>2. /\ OnlyCalls(c) /\ call[c].at = "start.create" /\ call'[c].at = "idle"
        /\ UNCHANGED raced
    BY <1>1, ConversationStarted DEF talked
  <1>3. \A d \in Clients, t \in Subjects : Starting(d, t)' => d # c /\ Starting(d, t)
    BY <1>2 DEF Starting, At, OnlyCalls
  <1>4. CASE SameSubjects
    BY <1>1, <1>2, <1>3, <1>4, SubjectsStay
  <1>5. CASE ~SameSubjects
    <2>1. PICK s \in Subjects : Starting(c, s) /\ s = call[c].about
      BY <1>1, <1>2, ChatCalls DEF Starting, At
    <2>2. PICK v \in ConversationIds \ Opened :
              /\ Opened' = Opened \cup {v} /\ conversations'[v].about = s
              /\ conversations'[v].participants = {s.customer, s.owner}
              /\ \A w \in Opened : conversations'[w] = conversations[w]
      BY <1>1, <1>5, <2>1, ConversationStarted
    <2>3. (\A w \in Opened : conversations[w].participants =
              {conversations[w].about.customer, conversations[w].about.owner})'
      BY <1>1, <2>2 DEF SubjectsKept
    <2>4. s \notin raced => \A w \in Opened : conversations[w].about # s
      BY <1>1, <2>1 DEF SubjectsKept
    <2>5. OneConversationPerSubject'
      BY <1>1, <1>2, <2>2, <2>4 DEF SubjectsKept, OneConversationPerSubject
    <2>6. ASSUME NEW t \in Subjects \ raced'
          PROVE  /\ \A a, d \in Clients : Starting(a, t)' /\ Starting(d, t)' => a = d
                 /\ \A d \in Clients : Starting(d, t)' =>
                       \A w \in Opened' : conversations'[w].about # t
      BY <1>1, <1>2, <1>3, <2>1, <2>2 DEF SubjectsKept
    <2> QED
      BY <2>3, <2>5, <2>6 DEF SubjectsKept
  <1> QED
    BY <1>4, <1>5

LEMMA CreateKeepsChat ==
    ASSUME ChatInv, NEW c \in Clients, StartCreate(c)
    PROVE  ChatInv'
  <1>1. ChatTyped /\ SubjectsKept /\ MessagesKept /\ PreviewKept /\ ReadKept /\ RoomKept
    BY DEF ChatInv
  <1>2. /\ ChatTyped' /\ OnlyCalls(c) /\ faults' = faults
        /\ call[c].at = "start.create" /\ call'[c].at = "idle"
        /\ UNCHANGED <<messages, room, heard, clock, known, spoken, overlapped>>
    BY <1>1, ConversationStarted DEF talked
  <1>3. \A w \in Opened : w \in Opened' /\ conversations'[w] = conversations[w]
    BY <1>1, ConversationStarted DEF SameSubjects
  <1>4. \A d \in Clients :
            /\ \A m \in MessageIds : Carries(d, m)' => d # c /\ Carries(d, m)
            /\ \A v \in ConversationIds : Sends(d, v)' => d # c /\ Sends(d, v)
            /\ \A m \in MessageIds : Carries(d, m) => Carries(d, m)'
            /\ \A v \in ConversationIds : Sends(d, v) => Sends(d, v)'
            /\ \A v \in ConversationIds, u \in Users : Finds(d, u, v) => Finds(d, u, v)'
    BY <1>2 DEF Carries, Sends, Finds, OnlyCalls
  <1>5. MessagesKept'
    BY <1>1, <1>2, <1>3, <1>4, MessagesStay DEF OnlyCalls
  <1>6. PreviewKept'
    BY <1>1, <1>2, <1>3, <1>4, PreviewStays DEF OnlyCalls
  <1>7. RoomKept'
    <2>1. spoken \subseteq MessageIds
      BY <1>1 DEF ChatTyped, ChatTypeOK
    <2> QED
      BY <1>1, <1>2, <1>4, <2>1, RoomStays
  <1>8. ReadKept'
    <2>1. /\ \A w \in ConversationIds : MessagesOf(w)' = MessagesOf(w)
          /\ Stored' = Stored /\ clock \in Nat /\ Opened' \subseteq ConversationIds
          /\ \A d \in Clients : call'[d].at = "read.mark" => call'[d] = call[d]
      BY <1>1, <1>2 DEF MessagesOf, Stored, ChatTyped, ChatTypeOK, Opened, OnlyCalls
    <2>2. ASSUME NEW w \in Opened' \ Opened
          PROVE  /\ conversations'[w].lastMessage = 0
                 /\ \A x \in Users : conversations'[w].lastReadAt[x] = 0
      <3>1. /\ conversations'[w].lastMessage = 0
            /\ conversations'[w].lastReadAt = [x \in Users |-> 0]
        BY <1>1, <2>2, ConversationStarted DEF SameSubjects
      <3> QED
        BY <3>1
    <2>3. StampsKept'
      <3>1. ASSUME NEW w \in Opened'
            PROVE  /\ conversations'[w].lastMessage \in Stored' \cup {0}
                   /\ \A x \in Users : conversations'[w].lastReadAt[x] <= clock'
        BY <1>1, <1>2, <1>3, <2>1, <2>2 DEF ReadKept, StampsKept
      <3>2. ASSUME NEW d \in Clients, call'[d].at = "read.mark"
            PROVE  /\ call'[d].stamp <= clock'
                   /\ call'[d].page # 0 =>
                          known'[<<call'[d].user, call'[d].conversation>>].turned
        BY <1>1, <1>2, <2>1, <3>2 DEF ReadKept, StampsKept
      <3> QED
        BY <3>1, <3>2 DEF StampsKept
    <2>4. ASSUME faults' = 0, NEW w \in Opened', NEW x \in Users
          PROVE  SeenOrComing(x, w)'
      <3>1. CASE w \in Opened
        <4>1. SeenOrComing(x, w) /\ w \in ConversationIds
          BY <1>1, <1>2, <2>1, <2>4, <3>1 DEF ReadKept
        <4>2. \A d \in Clients : Sends(d, w)' => Sends(d, w) /\ call'[d] = call[d]
          BY <1>2, <1>4, <4>1 DEF OnlyCalls
        <4>3. \A m, t : Previewed(w, m, t)' => Previewed(w, m, t)
          BY <1>3, <3>1, <4>2 DEF Previewed
        <4> QED
          BY <1>2, <1>3, <1>4, <2>1, <3>1, <4>1, <4>3, SeenStays
      <3>2. CASE w \notin Opened
        <4>1. conversations'[w].lastReadAt[x] = 0
          BY <2>2, <2>4, <3>2
        <4> QED
          BY <4>1 DEF SeenOrComing, ShownOrComing
      <3> QED
        BY <3>1, <3>2
    <2> QED
      BY <2>3, <2>4 DEF ReadKept
  <1> QED
    BY <1>2, <1>5, <1>6, <1>7, <1>8, CreateKeepsSubjects DEF ChatInv

-----------------------------------------------------------------------------
\* A message is on its way: inserted, in the preview, broadcast.

\* Messages that come in make none newer than it was.
LEMMA NewerGrows ==
    ASSUME NEW v, NEW n, MessagesOf(v) \subseteq MessagesOf(v)',
           MessagesOf(v)' \subseteq MessageIds
    PROVE  /\ Newer(n, v) \in Nat /\ Newer(n, v)' \in Nat
           /\ Newer(n, v) <= Newer(n, v)'
  <1> DEFINE Once == {k \in MessagesOf(v) : k > n}
             Now == {k \in MessagesOf(v)' : k > n}
  <1>1. IsFiniteSet(MessageIds)
    BY ChatBounds, FS_Interval DEF MessageIds
  <1>2. Once \subseteq Now /\ Now \subseteq MessageIds
    OBVIOUS
  <1>3. IsFiniteSet(Now)
    BY <1>1, <1>2, FS_Subset
  <1>4. IsFiniteSet(Once) /\ Cardinality(Once) <= Cardinality(Now)
    BY <1>2, <1>3, FS_Subset
  <1>5. Cardinality(Once) \in Nat /\ Cardinality(Now) \in Nat
    BY <1>3, <1>4, FS_CardinalityType
  <1> QED
    BY <1>4, <1>5 DEF Newer

LEMMA InsertKeepsChat ==
    ASSUME ChatInv, NEW c \in Clients, NEW u \in Users, NEW v \in ConversationIds,
           NEW socket \in BOOLEAN, InsertMessage(c, u, v, socket)
    PROVE  ChatInv'
  <1>1. ChatTyped /\ SubjectsKept /\ MessagesKept /\ PreviewKept /\ ReadKept /\ RoomKept
    BY DEF ChatInv
  <1>2. /\ ChatTyped' /\ SameSubjects /\ OnlyCalls(c) /\ faults' = faults
        /\ v \in Opened
        /\ call[c].at = "idle" /\ call'[c].at = "send.update"
        /\ call'[c].conversation = v /\ call'[c].socket = socket
        /\ call'[c].stamp = clock' /\ clock <= clock' /\ clock' \in Nat
        /\ UNCHANGED <<conversations, room, heard, known, raced>>
        /\ overlapped \subseteq overlapped'
        /\ v \notin overlapped' => Sending(v) = {}
    BY <1>1, MessageInserted
  <1>3. PICK m \in MessageIds :
            /\ m = call'[c].message /\ IsNextRow(m, Stored)
            /\ Stored' = Stored \cup {m} /\ messages'[m].conversation = v
            /\ \A k \in Stored : messages'[k] = messages[k]
            /\ spoken' = IF socket THEN spoken \cup {m} ELSE spoken
    BY <1>1, MessageInserted
  <1>4. /\ Opened' = Opened /\ Stored \subseteq MessageIds
        /\ MessageIds \subseteq Nat \ {0} /\ m \notin Stored
        /\ \A k \in 1..(m - 1) : k \in Stored
    BY <1>2, <1>3 DEF SameSubjects, Stored, MessageIds, IsNextRow
  <1>5. \A d \in Clients :
            /\ \A k \in MessageIds : Carries(d, k)' <=> IF d = c THEN k = m ELSE Carries(d, k)
            /\ \A w \in ConversationIds : Sends(d, w)' <=> IF d = c THEN w = v ELSE Sends(d, w)
            /\ \A w \in ConversationIds, x \in Users : Finds(d, x, w) => Finds(d, x, w)'
            /\ \A s \in Subjects : Starting(d, s)' => Starting(d, s)
            /\ \A w \in ConversationIds : ~Sends(c, w)
            /\ \A k \in MessageIds : ~Carries(c, k)
    BY <1>2, <1>3 DEF Carries, Sends, Finds, Starting, At, OnlyCalls
  <1>6. \A w \in ConversationIds :
            MessagesOf(w)' = IF w = v THEN MessagesOf(w) \cup {m} ELSE MessagesOf(w)
    BY <1>3, <1>4 DEF MessagesOf
  <1>7. SubjectsKept'
    BY <1>1, <1>2, <1>5, SubjectsStay
  <1>8. MessagesKept'
    <2>1. \A k \in Stored' : messages'[k].conversation \in Opened'
      BY <1>1, <1>2, <1>3, <1>4 DEF MessagesKept
    <2>2. ASSUME NEW k \in Stored', NEW n \in 1..k PROVE n \in Stored'
      <3>1. k \in Stored => n \in Stored
        BY <1>1 DEF MessagesKept
      <3>2. k = m => n = m \/ n \in 1..(m - 1)
        BY <1>4
      <3> QED
        BY <1>3, <1>4, <3>1, <3>2
    <2>3. spoken' \subseteq Stored'
      BY <1>1, <1>3 DEF MessagesKept
    <2>4. ASSUME NEW d \in Clients, NEW k \in MessageIds, Carries(d, k)'
          PROVE  /\ k \in Stored' /\ messages'[k].conversation = call'[d].conversation
                 /\ k \in spoken' => call'[d].socket
      <3>1. CASE d = c
        <4>1. k = m
          BY <1>5, <2>4, <3>1
        <4>2. m \in spoken' => socket
          BY <1>1, <1>3, <1>4 DEF MessagesKept
        <4> QED
          BY <1>2, <1>3, <3>1, <4>1, <4>2
      <3>2. CASE d # c
        <4>1. Carries(d, k) /\ call'[d] = call[d]
          BY <1>2, <1>5, <2>4, <3>2 DEF OnlyCalls
        <4>2. /\ k \in Stored /\ messages[k].conversation = call[d].conversation
              /\ k \in spoken => call[d].socket
          BY <1>1, <4>1 DEF MessagesKept
        <4> QED
          BY <1>3, <1>4, <4>1, <4>2
      <3> QED
        BY <3>1, <3>2
    <2> QED
      BY <2>1, <2>2, <2>3, <2>4 DEF MessagesKept
  <1>9. PreviewKept'
    <2>1. ASSUME NEW k \in Stored PROVE k < m
      <3>1. k \in Nat /\ m \in 1..k => m \in Stored
        BY <1>1, <1>4 DEF MessagesKept
      <3> QED
        BY <1>4, <3>1
    <2>2. CASE v \in overlapped'
      <3>1. \A w \in ConversationIds \ overlapped' :
                /\ w # v /\ w \notin overlapped
                /\ MessagesOf(w)' = MessagesOf(w)
        BY <1>2, <1>6, <2>2
      <3>2. \A w \in ConversationIds \ overlapped', d \in Clients :
                /\ Sends(d, w)' <=> Sends(d, w)
                /\ Sends(d, w)' => call'[d].message = call[d].message
        BY <1>2, <1>5, <3>1 DEF OnlyCalls, Sends
      <3> QED
        BY <1>1, <1>2, <3>1, <3>2 DEF PreviewKept
    <2>3. CASE v \notin overlapped'
      <3>1. \A d \in Clients : ~Sends(d, v)
        BY <1>2, <2>3 DEF Sending, Sends, At
      <3>2. \A k \in MessagesOf(v)' : k <= m
        <4>1. MessagesOf(v) \subseteq Stored /\ MessagesOf(v)' = MessagesOf(v) \cup {m}
          BY <1>2, <1>6 DEF MessagesOf, Opened
        <4>2. ASSUME NEW k \in Stored PROVE k <= m
          <5>1. k \in Nat /\ m \in Nat /\ k < m
            BY <1>4, <2>1
          <5> QED
            BY <5>1
        <4>3. m <= m
          BY <1>4
        <4>4. MessagesOf(v) \cup {m} \subseteq Stored \cup {m}
          BY <4>1
        <4>5. \A k \in Stored \cup {m} : k <= m
          BY <4>2, <4>3
        <4> QED
          BY <4>1, <4>4, <4>5
      <3>3. \A d \in Clients : Sends(d, v)' <=> d = c
        BY <1>5, <3>1
      <3>4. \A w \in ConversationIds \ overlapped' :
                w # v => w \notin overlapped /\ MessagesOf(w)' = MessagesOf(w)
        BY <1>2, <1>6
      <3>5. \A w \in ConversationIds \ overlapped', d \in Clients : w # v =>
                /\ Sends(d, w)' <=> Sends(d, w)
                /\ Sends(d, w)' => call'[d].message = call[d].message
        BY <1>2, <1>5 DEF OnlyCalls, Sends
      <3>6. ASSUME NEW w \in ConversationIds \ overlapped'
            PROVE  /\ \A a, d \in Clients : Sends(a, w)' /\ Sends(d, w)' => a = d
                   /\ \A d \in Clients : Sends(d, w)' =>
                         \A k \in MessagesOf(w)' : k <= call'[d].message
                   /\ faults' = 0 =>
                         \/ \E d \in Clients : Sends(d, w)'
                         \/ \A k \in MessagesOf(w)' : k <= conversations'[w].lastMessage
        <4>1. CASE w = v
          BY <1>3, <3>2, <3>3, <4>1
        <4>2. CASE w # v
          BY <1>1, <1>2, <3>4, <3>5, <4>2 DEF PreviewKept
        <4> QED
          BY <4>1, <4>2
      <3> QED
        BY <3>6 DEF PreviewKept
    <2> QED
      BY <2>2, <2>3
  <1>10. ReadKept'
    <2>1. /\ clock \in Nat /\ \A d \in Clients : call'[d].at = "read.mark" => call'[d] = call[d]
          /\ \A w \in Opened : conversations[w].lastReadAt \in [Users -> Nat]
      BY <1>1, <1>2 DEF ChatTyped, ChatTypeOK, Conversation, Opened, OnlyCalls
    <2>2. StampsKept'
      <3>1. ASSUME NEW w \in Opened'
            PROVE  /\ conversations'[w].lastMessage \in Stored' \cup {0}
                   /\ \A x \in Users : conversations'[w].lastReadAt[x] <= clock'
        BY <1>1, <1>2, <1>3, <1>4, <2>1 DEF ReadKept, StampsKept
      <3>2. ASSUME NEW d \in Clients, call'[d].at = "read.mark"
            PROVE  /\ call'[d].stamp <= clock'
                   /\ call'[d].page # 0 =>
                          known'[<<call'[d].user, call'[d].conversation>>].turned
        <4>1. /\ call[d].stamp \in Nat /\ call[d].stamp <= clock
              /\ call[d].page # 0 => known[<<call[d].user, call[d].conversation>>].turned
          BY <1>1, <2>1, <3>2, ChatCalls DEF ReadKept, StampsKept
        <4> QED
          BY <1>2, <2>1, <3>2, <4>1
      <3> QED
        BY <3>1, <3>2 DEF StampsKept
    <2>3. ASSUME faults' = 0, NEW w \in Opened', NEW x \in Users
          PROVE  SeenOrComing(x, w)'
      <3>1. SeenOrComing(x, w) /\ w \in ConversationIds /\ w \in Opened
        BY <1>1, <1>2, <1>4, <2>3 DEF ReadKept, Opened
      <3>2. CASE w = v
        <4>1. ASSUME NEW k \in MessageIds \cup {0}, NEW t \in Nat, Previewed(v, k, t)'
              PROVE  ShownOrComing(x, v, k, t)'
          <5>1. \/ k = m /\ t = clock'
                \/ Previewed(v, k, t) /\ k \in Stored \cup {0}
            <6>1. CASE /\ k = conversations[v].lastMessage
                       /\ t = conversations[v].lastMessageAt
              BY <1>1, <1>2, <6>1 DEF ReadKept, StampsKept, Previewed
            <6>2. CASE ~(/\ k = conversations[v].lastMessage
                         /\ t = conversations[v].lastMessageAt)
              <7>1. PICK d \in Clients :
                        Sends(d, v)' /\ k = call'[d].message /\ t = call'[d].stamp
                BY <1>2, <4>1, <6>2 DEF Previewed
              <7>2. CASE d = c
                BY <1>2, <1>3, <7>1, <7>2
              <7>3. CASE d # c
                <8>1. Sends(d, v) /\ call'[d] = call[d]
                  BY <1>2, <1>5, <7>1, <7>3 DEF OnlyCalls
                <8>2. call[d].message \in MessageIds
                  BY <1>1, <8>1, ChatCalls DEF Sends
                <8>3. Carries(d, call[d].message)
                  BY <8>1 DEF Sends, Carries
                <8> QED
                  BY <1>1, <7>1, <8>1, <8>2, <8>3 DEF MessagesKept, Previewed
              <7> QED
                BY <7>2, <7>3
            <6> QED
              BY <6>1, <6>2
          <5>2. CASE k = m /\ t = clock'
            <6>1. /\ conversations'[v].lastReadAt[x] \in Nat
                  /\ conversations'[v].lastReadAt[x] <= clock'
              BY <1>1, <1>2, <2>1 DEF ReadKept, StampsKept
            <6> QED
              BY <1>2, <5>2, <6>1 DEF ShownOrComing
          <5>3. CASE Previewed(v, k, t) /\ k \in Stored \cup {0}
            <6>1. ShownOrComing(x, v, k, t)
              BY <3>1, <3>2, <5>3 DEF SeenOrComing
            <6>2. CASE \E d \in Clients : Finds(d, x, v)
              BY <1>5, <6>2 DEF ShownOrComing
            <6>3. ASSUME NEW n \in MessagesOf(v)', n <= k, Newer(n, v)' < PageSize
                  PROVE  n \in MessagesOf(v) /\ Newer(n, v) < PageSize
              <7>1. n # m
                <8>1. k \in Stored => k # m /\ k \in MessageIds /\ m \notin 1..k
                  BY <1>1, <1>4 DEF MessagesKept
                <8> QED
                  BY <1>4, <5>3, <6>3, <8>1
              <7>2. n \in MessagesOf(v)
                BY <1>6, <6>3, <7>1
              <7>3. /\ Newer(n, v) \in Nat /\ Newer(n, v)' \in Nat
                    /\ Newer(n, v) <= Newer(n, v)'
                <8>1. /\ MessagesOf(v) \subseteq MessagesOf(v)'
                      /\ MessagesOf(v)' \subseteq MessageIds
                  BY <1>3, <1>4, <1>6 DEF MessagesOf
                <8> QED
                  BY <8>1, NewerGrows
              <7> QED
                BY <6>3, <7>2, <7>3, ChatBounds
            <6> QED
              BY <1>2, <6>1, <6>2, <6>3 DEF ShownOrComing
          <5> QED
            BY <5>1, <5>2, <5>3
        <4> QED
          BY <3>2, <4>1 DEF SeenOrComing
      <3>3. CASE w # v
        <4>1. MessagesOf(w)' = MessagesOf(w)
          BY <1>6, <3>1, <3>3
        <4>2. \A d \in Clients : Sends(d, w)' => Sends(d, w) /\ call'[d] = call[d]
          BY <1>2, <1>5, <3>1, <3>3 DEF OnlyCalls
        <4>3. \A k, t : Previewed(w, k, t)' => Previewed(w, k, t)
          BY <1>2, <4>2 DEF Previewed
        <4>4. conversations' = conversations /\ known' = known
          BY <1>2
        <4>5. \A d \in Clients : Finds(d, x, w) => Finds(d, x, w)'
          BY <1>5, <3>1
        <4> QED
          BY <3>1, <4>1, <4>3, <4>4, <4>5, SeenStays
      <3> QED
        BY <3>2, <3>3
    <2> QED
      BY <2>2, <2>3 DEF ReadKept
  <1>11. RoomKept'
    <2>1. ASSUME NEW x \in Users, NEW w \in ConversationIds, known'[<<x, w>>].live
          PROVE  x \in room'[w]
      BY <1>1, <1>2, <2>1 DEF RoomKept
    <2>2. ASSUME NEW x \in Users, NEW w \in ConversationIds, known'[<<x, w>>].live,
                 faults' = 0, NEW k \in MessagesOf(w)' \cap spoken', k > known'[<<x, w>>].from
          PROVE  \/ k \in known'[<<x, w>>].seen \cup heard'[x]
                 \/ \E d \in Clients : Carries(d, k)'
      <3>1. CASE k = m
        BY <1>5, <3>1
      <3>2. CASE k # m
        <4>1. k \in MessagesOf(w) \cap spoken /\ k \in MessageIds
          BY <1>3, <1>4, <1>6, <2>2, <3>2 DEF MessagesOf
        <4>2. \/ k \in known[<<x, w>>].seen \cup heard[x]
              \/ \E d \in Clients : Carries(d, k)
          BY <1>1, <1>2, <2>2, <4>1 DEF RoomKept
        <4> QED
          BY <1>2, <1>5, <4>1, <4>2
      <3> QED
        BY <3>1, <3>2
    <2> QED
      BY <2>1, <2>2 DEF RoomKept
  <1> QED
    BY <1>2, <1>7, <1>8, <1>9, <1>10, <1>11 DEF ChatInv

LEMMA PreviewKeepsChat ==
    ASSUME ChatInv, NEW c \in Clients, UpdatePreview(c)
    PROVE  ChatInv'
  <1>1. ChatTyped /\ SubjectsKept /\ MessagesKept /\ PreviewKept /\ ReadKept /\ RoomKept
    BY DEF ChatInv
  <1>2. PICK v \in Opened :
            /\ v = call[c].conversation
            /\ conversations'[v].lastMessage = call[c].message
            /\ conversations'[v].lastMessageAt = call[c].stamp
            /\ conversations'[v].lastReadAt = conversations[v].lastReadAt
            /\ \A w \in Opened : w # v => conversations'[w] = conversations[w]
    BY <1>1, PreviewUpdated
  <1>3. /\ ChatTyped' /\ SameSubjects /\ OnlyCalls(c) /\ faults' = faults
        /\ call[c].at = "send.update"
        /\ UNCHANGED <<messages, room, heard, clock, known, spoken, raced, overlapped>>
    BY <1>1, PreviewUpdated DEF talked
  <1>4. IF call[c].socket
        THEN /\ call'[c].at = "send.emit" /\ call'[c].message = call[c].message
             /\ call'[c].conversation = call[c].conversation
             /\ call'[c].socket = call[c].socket
        ELSE call'[c].at = "idle"
    BY <1>1, PreviewUpdated
  <1>5. /\ Opened' = Opened /\ Opened \subseteq ConversationIds /\ clock \in Nat
        /\ spoken \subseteq MessageIds /\ Sends(c, v)
        /\ \A w \in ConversationIds : MessagesOf(w)' = MessagesOf(w)
    BY <1>1, <1>2, <1>3 DEF SameSubjects, Opened, ChatTyped, ChatTypeOK, Sends,
                            MessagesOf, Stored
  <1>6. \A d \in Clients :
            /\ \A s \in Subjects : Starting(d, s)' => Starting(d, s)
            /\ \A w \in ConversationIds : Sends(d, w)' <=> d # c /\ Sends(d, w)
            /\ \A w \in ConversationIds, x \in Users : Finds(d, x, w) => Finds(d, x, w)'
            /\ \A m \in MessageIds : Carries(d, m)' =>
                  /\ Carries(d, m) /\ call'[d].conversation = call[d].conversation
                  /\ call'[d].socket = call[d].socket
    BY <1>3, <1>4 DEF Starting, At, Sends, Finds, Carries, OnlyCalls
  <1>7. SubjectsKept'
    BY <1>1, <1>3, <1>6, SubjectsStay
  <1>8. MessagesKept'
    BY <1>1, <1>3, <1>5, <1>6, MessagesStay
  <1>9. PreviewKept'
    <2>1. ASSUME NEW w \in ConversationIds \ overlapped'
          PROVE  /\ \A a, d \in Clients : Sends(a, w)' /\ Sends(d, w)' => a = d
                 /\ \A d \in Clients : Sends(d, w)' =>
                       \A m \in MessagesOf(w)' : m <= call'[d].message
                 /\ faults' = 0 =>
                       \/ \E d \in Clients : Sends(d, w)'
                       \/ \A m \in MessagesOf(w)' : m <= conversations'[w].lastMessage
      <3>1. /\ \A a, d \in Clients : Sends(a, w)' /\ Sends(d, w)' => a = d
            /\ \A d \in Clients : Sends(d, w)' =>
                  \A m \in MessagesOf(w)' : m <= call'[d].message
        BY <1>1, <1>3, <1>5, <1>6, <2>1 DEF PreviewKept, OnlyCalls
      <3>2. CASE w = v
        <4>1. \A m \in MessagesOf(v) : m <= call[c].message
          BY <1>1, <1>3, <1>5, <2>1, <3>2 DEF PreviewKept
        <4> QED
          BY <1>2, <1>5, <3>1, <3>2, <4>1
      <3>3. CASE w # v
        <4>1. \A d \in Clients : Sends(d, w) <=> Sends(d, w)'
          BY <1>2, <1>6, <3>3 DEF Sends
        <4>2. w \notin Opened => MessagesOf(w) = {}
          BY <1>1 DEF MessagesKept, MessagesOf
        <4>3. faults' = 0 => \/ \E d \in Clients : Sends(d, w)
                             \/ \A m \in MessagesOf(w) : m <= conversations[w].lastMessage
          BY <1>1, <1>3, <2>1 DEF PreviewKept
        <4> QED
          BY <1>2, <1>5, <3>1, <3>3, <4>1, <4>2, <4>3
      <3> QED
        BY <3>2, <3>3
    <2> QED
      BY <2>1 DEF PreviewKept
  <1>10. ReadKept'
    <2>1. /\ Stored' = Stored /\ call[c].message \in Stored
          /\ \A d \in Clients : call'[d].at = "read.mark" => call'[d] = call[d]
      <3>1. call[c].message \in MessageIds /\ Carries(c, call[c].message)
        BY <1>1, <1>3, ChatCalls DEF Carries
      <3> QED
        BY <1>1, <1>3, <1>4, <3>1 DEF Stored, MessagesKept, OnlyCalls
    <2>2. \A w \in Opened : conversations'[w].lastReadAt = conversations[w].lastReadAt
      BY <1>2
    <2>3. StampsKept'
      <3>1. ASSUME NEW w \in Opened'
            PROVE  /\ conversations'[w].lastMessage \in Stored' \cup {0}
                   /\ \A x \in Users : conversations'[w].lastReadAt[x] <= clock'
        BY <1>1, <1>2, <1>3, <1>5, <2>1, <2>2 DEF ReadKept, StampsKept
      <3>2. ASSUME NEW d \in Clients, call'[d].at = "read.mark"
            PROVE  /\ call'[d].stamp <= clock'
                   /\ call'[d].page # 0 =>
                          known'[<<call'[d].user, call'[d].conversation>>].turned
        BY <1>1, <1>3, <2>1, <3>2 DEF ReadKept, StampsKept
      <3> QED
        BY <3>1, <3>2 DEF StampsKept
    <2>4. ASSUME faults' = 0, NEW w \in Opened', NEW x \in Users
          PROVE  SeenOrComing(x, w)'
      <3>1. SeenOrComing(x, w) /\ w \in ConversationIds /\ w \in Opened
        BY <1>1, <1>3, <1>5, <2>4 DEF ReadKept
      <3>2. \A d \in Clients : Sends(d, w)' => Sends(d, w) /\ call'[d] = call[d]
        BY <1>3, <1>6, <3>1 DEF OnlyCalls
      <3>3. \A m, t : Previewed(w, m, t)' => Previewed(w, m, t)
        <4>1. CASE w = v
          BY <1>2, <1>5, <3>2, <4>1 DEF Previewed
        <4>2. CASE w # v
          BY <1>2, <3>1, <3>2, <4>2 DEF Previewed
        <4> QED
          BY <4>1, <4>2
      <3> QED
        BY <1>3, <1>5, <1>6, <2>2, <3>1, <3>3, SeenStays
    <2> QED
      BY <2>3, <2>4 DEF ReadKept
  <1>11. RoomKept'
    <2>1. ASSUME NEW d \in Clients, NEW m \in spoken, Carries(d, m)
          PROVE  Carries(d, m)'
      <3>1. call[d].socket
        BY <1>1, <1>5, <2>1 DEF MessagesKept
      <3> QED
        BY <1>3, <1>4, <2>1, <3>1 DEF Carries, OnlyCalls
    <2> QED
      BY <1>1, <1>3, <2>1, RoomStays
  <1> QED
    BY <1>3, <1>7, <1>8, <1>9, <1>10, <1>11 DEF ChatInv

LEMMA BroadcastKeepsChat ==
    ASSUME ChatInv, NEW c \in Clients, Broadcast(c)
    PROVE  ChatInv'
  <1>1. ChatTyped /\ SubjectsKept /\ MessagesKept /\ PreviewKept /\ ReadKept /\ RoomKept
    BY DEF ChatInv
  <1>2. /\ ChatTyped' /\ SameSubjects /\ OnlyCalls(c) /\ faults' = faults
        /\ call[c].at = "send.emit" /\ call'[c].at = "idle"
        /\ UNCHANGED <<conversations, messages, room, clock, known, spoken, raced,
                       overlapped>>
        /\ \A u \in Users :
              /\ heard[u] \subseteq heard'[u]
              /\ u \in room[call[c].conversation] => call[c].message \in heard'[u]
    BY <1>1, MessageBroadcast DEF talked
  <1>3. /\ Opened' = Opened /\ Opened \subseteq ConversationIds
        /\ \A w \in ConversationIds : MessagesOf(w)' = MessagesOf(w)
    BY <1>2 DEF SameSubjects, Opened, MessagesOf, Stored
  <1>4. \A d \in Clients :
            /\ \A s \in Subjects : Starting(d, s)' => Starting(d, s)
            /\ \A w \in ConversationIds : Sends(d, w)' <=> Sends(d, w)
            /\ \A w \in ConversationIds : Sends(d, w)' => call'[d] = call[d]
            /\ call'[d].at = "read.mark" => call'[d] = call[d]
            /\ \A w \in ConversationIds, x \in Users : Finds(d, x, w) => Finds(d, x, w)'
            /\ \A m \in MessageIds :
                  /\ Carries(d, m)' <=> d # c /\ Carries(d, m)
                  /\ Carries(d, m)' => call'[d] = call[d]
    BY <1>2 DEF Starting, At, Sends, Finds, Carries, OnlyCalls
  <1>5. SubjectsKept'
    BY <1>1, <1>2, <1>4, SubjectsStay
  <1>6. MessagesKept'
    BY <1>1, <1>2, <1>3, <1>4, MessagesStay
  <1>7. PreviewKept'
    BY <1>1, <1>2, <1>4, PreviewStays
  <1>8. ReadKept'
    BY <1>1, <1>2, <1>3, <1>4, ReadStays
  <1>9. RoomKept'
    <2>1. ASSUME NEW x \in Users, NEW w \in ConversationIds, known'[<<x, w>>].live
          PROVE  x \in room'[w]
      BY <1>1, <1>2, <2>1 DEF RoomKept
    <2>2. ASSUME NEW x \in Users, NEW w \in ConversationIds, known'[<<x, w>>].live,
                 faults' = 0, NEW k \in MessagesOf(w)' \cap spoken', k > known'[<<x, w>>].from
          PROVE  \/ k \in known'[<<x, w>>].seen \cup heard'[x]
                 \/ \E d \in Clients : Carries(d, k)'
      <3>1. k \in MessagesOf(w) \cap spoken /\ k \in MessageIds
        BY <1>2, <1>3, <2>2 DEF MessagesOf, Stored
      <3>2. \/ k \in known[<<x, w>>].seen \cup heard[x]
            \/ \E d \in Clients : Carries(d, k)
        BY <1>1, <1>2, <2>2, <3>1 DEF RoomKept
      <3>3. Carries(c, k) => k \in heard'[x]
        <4>1. Carries(c, k) => call[c].message = k /\ call[c].conversation = w
          BY <1>1, <3>1 DEF MessagesKept, MessagesOf, Carries
        <4> QED
          BY <1>1, <1>2, <2>2, <4>1 DEF RoomKept
      <3> QED
        BY <1>2, <1>4, <3>1, <3>2, <3>3
    <2> QED
      BY <2>1, <2>2 DEF RoomKept
  <1> QED
    BY <1>2, <1>5, <1>6, <1>7, <1>8, <1>9 DEF ChatInv

-----------------------------------------------------------------------------
\* Users come into the room and leave it, and read.

LEMMA JoinKeepsChat ==
    ASSUME ChatInv, NEW c \in Clients, NEW u \in Users, NEW v \in ConversationIds,
           JoinRoom(c, u, v)
    PROVE  ChatInv'
  <1>1. ChatTyped /\ SubjectsKept /\ MessagesKept /\ PreviewKept /\ ReadKept /\ RoomKept
    BY DEF ChatInv
  <1>2. /\ ChatTyped' /\ SameSubjects /\ OnlyCalls(c) /\ faults' = faults
        /\ call[c].at = "idle" /\ call'[c].at = "idle"
        /\ UNCHANGED <<conversations, messages, heard, clock, known, spoken, raced,
                       overlapped>>
        /\ \A w \in ConversationIds : room[w] \subseteq room'[w]
    BY <1>1, RoomJoined DEF talked
  <1>3. Opened' = Opened /\ spoken \subseteq MessageIds
    BY <1>1, <1>2 DEF SameSubjects, ChatTyped, ChatTypeOK
  <1>4. \A d \in Clients :
            /\ \A s \in Subjects : Starting(d, s)' => Starting(d, s)
            /\ \A w \in ConversationIds : Sends(d, w)' <=> Sends(d, w)
            /\ \A w \in ConversationIds : Sends(d, w)' => call'[d] = call[d]
            /\ call'[d].at = "read.mark" => call'[d] = call[d]
            /\ \A w \in ConversationIds, x \in Users : Finds(d, x, w) => Finds(d, x, w)'
            /\ \A m \in MessageIds :
                  /\ Carries(d, m)' <=> Carries(d, m)
                  /\ Carries(d, m)' => call'[d] = call[d]
    BY <1>2 DEF Starting, At, Sends, Finds, Carries, OnlyCalls
  <1>5. SubjectsKept'
    BY <1>1, <1>2, <1>4, SubjectsStay
  <1>6. MessagesKept'
    BY <1>1, <1>2, <1>3, <1>4, MessagesStay
  <1>7. PreviewKept'
    BY <1>1, <1>2, <1>4, PreviewStays
  <1>8. ReadKept'
    BY <1>1, <1>2, <1>3, <1>4, ReadStays
  <1>9. RoomKept'
    BY <1>1, <1>2, <1>3, <1>4, RoomStays
  <1> QED
    BY <1>2, <1>5, <1>6, <1>7, <1>8, <1>9 DEF ChatInv

LEMMA LeaveKeepsChat ==
    ASSUME ChatInv, NEW u \in Users, NEW v \in ConversationIds,
           LeaveRoom(u, v), UNCHANGED requestVars
    PROVE  ChatInv'
  <1>1. ChatTyped /\ SubjectsKept /\ MessagesKept /\ PreviewKept /\ ReadKept /\ RoomKept
    BY DEF ChatInv
  <1>2. /\ ChatTyped' /\ SameSubjects /\ UNCHANGED <<call, faults>>
        /\ UNCHANGED <<conversations, messages, heard, clock, spoken, raced, overlapped>>
    BY <1>1, RoomLeft
  <1>3. \A x \in Users, w \in ConversationIds :
            /\ known'[<<x, w>>].turned = known[<<x, w>>].turned
            /\ known'[<<x, w>>].seen = known[<<x, w>>].seen
            /\ known'[<<x, w>>].live =>
                  /\ known[<<x, w>>].live
                  /\ known'[<<x, w>>].from = known[<<x, w>>].from
                  /\ x \in room[w] => x \in room'[w]
    BY <1>1, RoomLeft, ZenonT(30)
  <1>4. Opened' = Opened
    BY <1>2 DEF SameSubjects
  <1>5. \A d \in Clients :
            /\ \A s : Starting(d, s)' <=> Starting(d, s)
            /\ \A w : Sends(d, w)' <=> Sends(d, w)
            /\ \A w, x : Finds(d, x, w)' <=> Finds(d, x, w)
            /\ \A m : Carries(d, m)' <=> Carries(d, m)
    BY <1>2 DEF Starting, At, Sends, Finds, Carries
  <1>6. SubjectsKept'
    BY <1>1, <1>2, <1>5, SubjectsStay
  <1>7. MessagesKept'
    BY <1>1, <1>2, <1>4, <1>5, MessagesStay
  <1>8. PreviewKept'
    BY <1>1, <1>2, <1>5, PreviewStays
  <1>9. ReadKept'
    <2>1. \A x \in Users, w \in ConversationIds :
              /\ known[<<x, w>>].turned => known'[<<x, w>>].turned
              /\ known[<<x, w>>].seen \subseteq known'[<<x, w>>].seen
      BY <1>3
    <2> QED
      BY <1>1, <1>2, <1>4, <1>5, <2>1, ReadStays
  <1>10. RoomKept'
    BY <1>1, <1>2, <1>3, <1>5, RoomStays
  <1> QED
    BY <1>2, <1>6, <1>7, <1>8, <1>9, <1>10 DEF ChatInv

LEMMA BeginReadKeepsChat ==
    ASSUME ChatInv, NEW c \in Clients, NEW u \in Users, NEW v \in ConversationIds,
           NEW p \in AskedPages, BeginRead(c, u, v, p)
    PROVE  ChatInv'
  <1>1. ChatTyped /\ SubjectsKept /\ MessagesKept /\ PreviewKept /\ ReadKept /\ RoomKept
    BY DEF ChatInv
  <1>2. /\ ChatTyped' /\ SameSubjects /\ OnlyCalls(c) /\ faults' = faults
        /\ call[c].at = "idle" /\ call'[c].at = "read.mark"
        /\ call'[c].user = u /\ call'[c].conversation = v /\ call'[c].page = p
        /\ call'[c].stamp = clock' /\ clock <= clock' /\ clock' \in Nat
        /\ p # 0 => known'[<<u, v>>].turned
        /\ UNCHANGED <<conversations, messages, room, heard, spoken, raced, overlapped>>
    BY <1>1, ReadBegun DEF ReadBegins
  <1>3. \A x \in Users, w \in ConversationIds :
            /\ known'[<<x, w>>].live = known[<<x, w>>].live
            /\ known'[<<x, w>>].from = known[<<x, w>>].from
            /\ known'[<<x, w>>].seen = known[<<x, w>>].seen
            /\ known[<<x, w>>].turned => known'[<<x, w>>].turned
    BY <1>1, ReadBegun DEF ReadBegins
  <1>4. Opened' = Opened /\ spoken \subseteq MessageIds
    BY <1>1, <1>2 DEF SameSubjects, ChatTyped, ChatTypeOK
  <1>5. \A d \in Clients :
            /\ \A s \in Subjects : Starting(d, s)' => Starting(d, s)
            /\ \A w \in ConversationIds : Sends(d, w)' <=> Sends(d, w)
            /\ \A w \in ConversationIds : Sends(d, w)' => call'[d] = call[d]
            /\ \A w \in ConversationIds, x \in Users : Finds(d, x, w) => Finds(d, x, w)'
            /\ \A m \in MessageIds :
                  /\ Carries(d, m)' <=> Carries(d, m)
                  /\ Carries(d, m)' => call'[d] = call[d]
    BY <1>2 DEF Starting, At, Sends, Finds, Carries, OnlyCalls
  <1>6. SubjectsKept'
    BY <1>1, <1>2, <1>5, SubjectsStay
  <1>7. MessagesKept'
    BY <1>1, <1>2, <1>4, <1>5, MessagesStay
  <1>8. PreviewKept'
    BY <1>1, <1>2, <1>5, PreviewStays
  <1>9. ReadKept'
    <2>1. ASSUME NEW d \in Clients, call'[d].at = "read.mark"
          PROVE  \/ call'[d] = call[d]
                 \/ /\ call'[d].stamp <= clock'
                    /\ call'[d].page # 0 =>
                           known'[<<call'[d].user, call'[d].conversation>>].turned
      BY <1>2 DEF OnlyCalls
    <2>2. \A x \in Users, w \in ConversationIds :
              /\ known[<<x, w>>].turned => known'[<<x, w>>].turned
              /\ known[<<x, w>>].seen \subseteq known'[<<x, w>>].seen
      BY <1>3
    <2> QED
      BY <1>1, <1>2, <1>5, <2>1, <2>2, ReadStays
  <1>10. RoomKept'
    BY <1>1, <1>2, <1>3, <1>4, <1>5, RoomStays
  <1> QED
    BY <1>2, <1>6, <1>7, <1>8, <1>9, <1>10 DEF ChatInv

LEMMA MarkKeepsChat ==
    ASSUME ChatInv, NEW c \in Clients, ReadMark(c)
    PROVE  ChatInv'
  <1>1. ChatTyped /\ SubjectsKept /\ MessagesKept /\ PreviewKept /\ ReadKept /\ RoomKept
    BY DEF ChatInv
  <1>2. PICK v \in Opened, u \in Users :
            /\ v = call[c].conversation /\ u = call[c].user
            /\ conversations'[v].lastMessage = conversations[v].lastMessage
            /\ conversations'[v].lastMessageAt = conversations[v].lastMessageAt
            /\ conversations'[v].lastReadAt =
                  [conversations[v].lastReadAt EXCEPT ![u] = call[c].stamp]
            /\ \A w \in Opened : w # v => conversations'[w] = conversations[w]
    BY <1>1, ReadMarked, ZenonT(30)
  <1>3. /\ ChatTyped' /\ SameSubjects /\ OnlyCalls(c) /\ faults' = faults
        /\ call[c].at = "read.mark" /\ call'[c].at = "read.find"
        /\ call'[c].user = u /\ call'[c].conversation = v
        /\ call'[c].page = call[c].page
        /\ UNCHANGED <<messages, room, heard, clock, known, spoken, raced, overlapped>>
    BY <1>1, <1>2, ReadMarked DEF talked
  <1>4. /\ call[c].stamp \in Nat /\ call[c].stamp <= clock /\ clock \in Nat
        /\ call[c].page \in {0, 1}
        /\ call[c].page # 0 => known[<<u, v>>].turned
    BY <1>1, <1>2, <1>3, ChatCalls DEF ReadKept, StampsKept, ChatTyped, ChatTypeOK
  <1>5. /\ Opened' = Opened /\ Opened \subseteq ConversationIds
        /\ spoken \subseteq MessageIds /\ Stored' = Stored
        /\ \A w \in ConversationIds : MessagesOf(w)' = MessagesOf(w)
        /\ \A w \in Opened : conversations[w].lastReadAt \in [Users -> Nat]
    BY <1>1, <1>3 DEF SameSubjects, Opened, ChatTyped, ChatTypeOK, Conversation,
                            MessagesOf, Stored
  <1>6. \A d \in Clients :
            /\ \A s \in Subjects : Starting(d, s)' => Starting(d, s)
            /\ \A w \in ConversationIds : Sends(d, w)' <=> Sends(d, w)
            /\ \A w \in ConversationIds : Sends(d, w)' => call'[d] = call[d]
            /\ \A w \in ConversationIds, x \in Users : Finds(d, x, w) => Finds(d, x, w)'
            /\ \A m \in MessageIds :
                  /\ Carries(d, m)' <=> Carries(d, m)
                  /\ Carries(d, m)' => call'[d] = call[d]
            /\ call'[d].at = "read.mark" => call'[d] = call[d]
    BY <1>3 DEF Starting, At, Sends, Finds, Carries, OnlyCalls
  <1>7. \A w \in Opened :
            /\ conversations'[w].lastMessage = conversations[w].lastMessage
            /\ conversations'[w].lastMessageAt = conversations[w].lastMessageAt
            /\ \A x \in Users : conversations'[w].lastReadAt[x] =
                  IF w = v /\ x = u THEN call[c].stamp ELSE conversations[w].lastReadAt[x]
    BY <1>2, <1>5
  <1>8. SubjectsKept'
    BY <1>1, <1>3, <1>6, SubjectsStay
  <1>9. MessagesKept'
    BY <1>1, <1>3, <1>5, <1>6, MessagesStay
  <1>10. PreviewKept'
    BY <1>1, <1>3, <1>6, <1>7, PreviewStays
  <1>11. ReadKept'
    <2>1. StampsKept'
      <3>1. ASSUME NEW w \in Opened'
            PROVE  /\ conversations'[w].lastMessage \in Stored' \cup {0}
                   /\ \A x \in Users : conversations'[w].lastReadAt[x] <= clock'
        BY <1>1, <1>3, <1>4, <1>5, <1>7 DEF ReadKept, StampsKept
      <3>2. ASSUME NEW d \in Clients, call'[d].at = "read.mark"
            PROVE  /\ call'[d].stamp <= clock'
                   /\ call'[d].page # 0 =>
                          known'[<<call'[d].user, call'[d].conversation>>].turned
        BY <1>1, <1>3, <1>6, <3>2 DEF ReadKept, StampsKept
      <3> QED
        BY <3>1, <3>2 DEF StampsKept
    <2>2. ASSUME faults' = 0, NEW w \in Opened', NEW x \in Users
          PROVE  SeenOrComing(x, w)'
      <3>1. CASE w = v /\ x = u
        <4>1. call[c].page # 0 => known'[<<u, v>>].turned
          BY <1>3, <1>4
        <4>2. call[c].page = 0 => Finds(c, u, v)'
          BY <1>3 DEF Finds
        <4> QED
          BY <3>1, <4>1, <4>2 DEF SeenOrComing, ShownOrComing
      <3>2. CASE ~(w = v /\ x = u)
        <4>1. SeenOrComing(x, w) /\ w \in ConversationIds /\ w \in Opened
          BY <1>1, <1>3, <1>5, <2>2 DEF ReadKept
        <4>2. conversations'[w].lastReadAt[x] = conversations[w].lastReadAt[x]
          BY <1>7, <3>2, <4>1
        <4>3. \A m, t : Previewed(w, m, t)' => Previewed(w, m, t)
          BY <1>6, <1>7, <4>1 DEF Previewed
        <4> QED
          BY <1>3, <1>5, <1>6, <4>1, <4>2, <4>3, SeenStays
      <3> QED
        BY <3>1, <3>2
    <2> QED
      BY <2>1, <2>2 DEF ReadKept
  <1>12. RoomKept'
    BY <1>1, <1>3, <1>5, <1>6, RoomStays
  <1> QED
    BY <1>3, <1>8, <1>9, <1>10, <1>11, <1>12 DEF ChatInv

LEMMA FindKeepsChat ==
    ASSUME ChatInv, NEW c \in Clients, ReadFind(c)
    PROVE  ChatInv'
  <1>1. ChatTyped /\ SubjectsKept /\ MessagesKept /\ PreviewKept /\ ReadKept /\ RoomKept
    BY DEF ChatInv
  <1>2. /\ ChatTyped' /\ SameSubjects /\ OnlyCalls(c) /\ faults' = faults
        /\ call[c].at = "read.find" /\ call'[c].at = "idle"
        /\ UNCHANGED <<conversations, messages, room, heard, clock, spoken, raced,
                       overlapped>>
    BY <1>1, PageRead
  <1>3. PICK u \in Users, v \in ConversationIds :
            u = call[c].user /\ v = call[c].conversation
    BY <1>1, PageRead
  <1>4. \A x \in Users, w \in ConversationIds :
            /\ known'[<<x, w>>].turned = known[<<x, w>>].turned
            /\ known[<<x, w>>].seen \subseteq known'[<<x, w>>].seen
            /\ x # u \/ w # v \/ call[c].page # 0 =>
                  /\ known'[<<x, w>>].live = known[<<x, w>>].live
                  /\ known'[<<x, w>>].from = known[<<x, w>>].from
    <2>1. \A x \in Users, w \in ConversationIds :
              /\ known'[<<x, w>>].turned = known[<<x, w>>].turned
              /\ known[<<x, w>>].seen \subseteq known'[<<x, w>>].seen
      BY <1>1, PageRead
    <2>2. \A x \in Users, w \in ConversationIds :
              x # call[c].user \/ w # call[c].conversation \/ call[c].page # 0 =>
                  /\ known'[<<x, w>>].live = known[<<x, w>>].live
                  /\ known'[<<x, w>>].from = known[<<x, w>>].from
      BY <1>1, PageRead, ZenonT(30)
    <2> QED
      BY <1>3, <2>1, <2>2
  <1>5. call[c].page = 0 =>
            /\ known'[<<u, v>>].live = (u \in room[v])
            /\ known'[<<u, v>>].from = Oldest(findMessages(v, 0))
            /\ findMessages(v, 0) \subseteq known'[<<u, v>>].seen
    BY <1>1, <1>3, PageRead
  <1>6. /\ Opened' = Opened /\ Opened \subseteq ConversationIds
        /\ spoken \subseteq MessageIds
        /\ \A w \in ConversationIds : MessagesOf(w)' = MessagesOf(w)
    BY <1>1, <1>2 DEF SameSubjects, Opened, ChatTyped, ChatTypeOK, MessagesOf, Stored
  <1>7. \A d \in Clients :
            /\ \A s \in Subjects : Starting(d, s)' => Starting(d, s)
            /\ \A w \in ConversationIds : Sends(d, w)' <=> Sends(d, w)
            /\ \A w \in ConversationIds : Sends(d, w)' => call'[d] = call[d]
            /\ call'[d].at = "read.mark" => call'[d] = call[d]
            /\ \A w \in ConversationIds, x \in Users :
                  Finds(d, x, w) =>
                      \/ Finds(d, x, w)'
                      \/ d = c /\ x = u /\ w = v /\ call[c].page = 0
            /\ \A m \in MessageIds :
                  /\ Carries(d, m)' <=> Carries(d, m)
                  /\ Carries(d, m)' => call'[d] = call[d]
    BY <1>2, <1>3 DEF Starting, At, Sends, Finds, Carries, OnlyCalls
  <1>8. SubjectsKept'
    BY <1>1, <1>2, <1>7, SubjectsStay
  <1>9. MessagesKept'
    BY <1>1, <1>2, <1>6, <1>7, MessagesStay
  <1>10. PreviewKept'
    BY <1>1, <1>2, <1>7, PreviewStays
  <1>11. ReadKept'
    <2>1. StampsKept'
      <3>1. ASSUME NEW w \in Opened'
            PROVE  /\ conversations'[w].lastMessage \in Stored' \cup {0}
                   /\ \A x \in Users : conversations'[w].lastReadAt[x] <= clock'
        BY <1>1, <1>2, <1>6 DEF ReadKept, StampsKept, Stored
      <3>2. ASSUME NEW d \in Clients, call'[d].at = "read.mark"
            PROVE  /\ call'[d].stamp <= clock'
                   /\ call'[d].page # 0 =>
                          known'[<<call'[d].user, call'[d].conversation>>].turned
        <4>1. /\ call'[d] = call[d] /\ call[d].user \in Users
              /\ call[d].conversation \in ConversationIds
              /\ call[d].stamp <= clock
              /\ call[d].page # 0 => known[<<call[d].user, call[d].conversation>>].turned
          BY <1>1, <1>6, <1>7, <3>2, ChatCalls DEF ReadKept, StampsKept
        <4> QED
          BY <1>2, <1>4, <4>1
      <3> QED
        BY <3>1, <3>2 DEF StampsKept
    <2>2. ASSUME faults' = 0, NEW w \in Opened', NEW x \in Users
          PROVE  SeenOrComing(x, w)'
      <3>1. CASE w = v /\ x = u /\ call[c].page = 0
        <4>1. \A m \in MessagesOf(v) : Newer(m, v) < PageSize => m \in findMessages(v, 0)
          BY <1>1, FirstPageFound
        <4>2. \A m : Newer(m, v)' = Newer(m, v)
          BY <1>6 DEF Newer
        <4>3. \A m \in MessagesOf(v)' : Newer(m, v)' < PageSize => m \in known'[<<u, v>>].seen
          BY <1>5, <1>6, <3>1, <4>1, <4>2
        <4> QED
          BY <3>1, <4>3 DEF SeenOrComing, ShownOrComing
      <3>2. CASE ~(w = v /\ x = u /\ call[c].page = 0)
        <4>1. SeenOrComing(x, w) /\ w \in ConversationIds
          BY <1>1, <1>2, <1>6, <2>2 DEF ReadKept
        <4>2. \A d \in Clients : Finds(d, x, w) => Finds(d, x, w)'
          BY <1>7, <3>2, <4>1
        <4>3. conversations' = conversations
          BY <1>2
        <4>4. \A m, t : Previewed(w, m, t)' => Previewed(w, m, t)
          BY <1>7, <4>1, <4>3 DEF Previewed
        <4> QED
          BY <1>4, <1>6, <4>1, <4>2, <4>3, <4>4, SeenStays
      <3> QED
        BY <3>1, <3>2
    <2> QED
      BY <2>1, <2>2 DEF ReadKept
  <1>12. RoomKept'
    <2>1. CASE call[c].page # 0
      BY <1>1, <1>2, <1>4, <1>6, <1>7, <2>1, RoomStays
    <2>2. ASSUME call[c].page = 0,
                 NEW x \in Users, NEW w \in ConversationIds, known'[<<x, w>>].live
          PROVE  x \in room'[w]
      BY <1>1, <1>2, <1>4, <1>5, <2>2 DEF RoomKept
    <2>3. ASSUME call[c].page = 0,
                 NEW x \in Users, NEW w \in ConversationIds, known'[<<x, w>>].live,
                 faults' = 0, NEW k \in MessagesOf(w)' \cap spoken', k > known'[<<x, w>>].from
          PROVE  \/ k \in known'[<<x, w>>].seen \cup heard'[x]
                 \/ \E d \in Clients : Carries(d, k)'
      <3>1. k \in MessagesOf(w) \cap spoken /\ k \in MessageIds
        BY <1>2, <1>6, <2>3
      <3>2. CASE x = u /\ w = v
        <4>1. k > Oldest(findMessages(v, 0)) => k \in findMessages(v, 0)
          BY <1>1, <3>1, <3>2, FirstPageFound
        <4> QED
          BY <1>5, <2>3, <3>2, <4>1
      <3>3. CASE x # u \/ w # v
        <4>1. \/ k \in known[<<x, w>>].seen \cup heard[x]
              \/ \E d \in Clients : Carries(d, k)
          BY <1>1, <1>2, <1>4, <2>3, <3>1, <3>3 DEF RoomKept
        <4> QED
          BY <1>2, <1>4, <1>7, <3>1, <4>1
      <3> QED
        BY <3>2, <3>3
    <2> QED
      BY <2>1, <2>2, <2>3 DEF RoomKept
  <1> QED
    BY <1>2, <1>8, <1>9, <1>10, <1>11, <1>12 DEF ChatInv

\* A request that is given up takes what it carried with it: faults counts it.
LEMMA RejectKeepsChat ==
    ASSUME ChatInv, NEW c \in Clients, Reject(c), UNCHANGED chatVars
    PROVE  ChatInv'
  <1>1. ChatTyped /\ SubjectsKept /\ MessagesKept /\ PreviewKept /\ ReadKept /\ RoomKept
    BY DEF ChatInv
  <1>2. /\ ChatTyped' /\ SameSubjects /\ OnlyCalls(c) /\ faults' > 0
        /\ call'[c].at = "idle"
        /\ UNCHANGED <<conversations, messages, room, heard, clock, known, spoken,
                       raced, overlapped>>
    BY <1>1, ChatRejected
  <1>3. Opened' = Opened /\ faults' # 0
    BY <1>2 DEF SameSubjects
  <1>4. \A d \in Clients :
            /\ \A s \in Subjects : Starting(d, s)' => Starting(d, s)
            /\ \A w \in ConversationIds : Sends(d, w)' => Sends(d, w)
            /\ \A w \in ConversationIds : Sends(d, w)' => call'[d] = call[d]
            /\ call'[d].at = "read.mark" => call'[d] = call[d]
            /\ \A m \in MessageIds :
                  /\ Carries(d, m)' => Carries(d, m)
                  /\ Carries(d, m)' => call'[d] = call[d]
    BY <1>2 DEF Starting, At, Sends, Carries, OnlyCalls
  <1>5. SubjectsKept'
    BY <1>1, <1>2, <1>4, SubjectsStay
  <1>6. MessagesKept'
    BY <1>1, <1>2, <1>3, <1>4, MessagesStay
  <1>7. PreviewKept'
    BY <1>1, <1>2, <1>3, <1>4, PreviewStays
  <1>8. ReadKept'
    BY <1>1, <1>2, <1>3, <1>4, ReadStays
  <1>9. RoomKept'
    BY <1>1, <1>2, <1>3, RoomStays
  <1> QED
    BY <1>2, <1>5, <1>6, <1>7, <1>8, <1>9 DEF ChatInv

LEMMA StartKeepsChat ==
    ASSUME ChatInv, NEW c \in Clients, NEW u \in Users, NEW s \in Subjects,
           StartBookingChat(c, u, s) \/ StartVenueInquiry(c, u, s)
    PROVE  ChatInv'
  <1>1. ChatTyped /\ SubjectsKept /\ MessagesKept /\ PreviewKept /\ ReadKept /\ RoomKept
    BY DEF ChatInv
  <1>2. SubjectsKept' /\ \E found : StartFind(c, s, found)
    BY StartKeepsSubjects
  <1>3. /\ ChatTyped' /\ SameSubjects /\ OnlyCalls(c) /\ faults' = faults
        /\ call[c].at = "idle" /\ call'[c].at \in {"idle", "start.create"}
        /\ UNCHANGED <<conversations, messages, room, heard, clock, known, spoken,
                       overlapped>>
    BY <1>1, <1>2, StartFound
  <1>4. Opened' = Opened /\ spoken \subseteq MessageIds
    BY <1>1, <1>3 DEF SameSubjects, ChatTyped, ChatTypeOK
  <1>5. \A d \in Clients :
            /\ \A w \in ConversationIds : Sends(d, w)' <=> Sends(d, w)
            /\ \A w \in ConversationIds : Sends(d, w)' => call'[d] = call[d]
            /\ call'[d].at = "read.mark" => call'[d] = call[d]
            /\ \A w \in ConversationIds, x \in Users : Finds(d, x, w) => Finds(d, x, w)'
            /\ \A m \in MessageIds :
                  /\ Carries(d, m)' <=> Carries(d, m)
                  /\ Carries(d, m)' => call'[d] = call[d]
    BY <1>3 DEF Sends, Finds, Carries, OnlyCalls
  <1>6. MessagesKept'
    BY <1>1, <1>3, <1>4, <1>5, MessagesStay
  <1>7. PreviewKept'
    BY <1>1, <1>3, <1>5, PreviewStays
  <1>8. ReadKept'
    BY <1>1, <1>3, <1>4, <1>5, ReadStays
  <1>9. RoomKept'
    BY <1>1, <1>3, <1>4, <1>5, RoomStays
  <1> QED
    BY <1>2, <1>3, <1>6, <1>7, <1>8, <1>9 DEF ChatInv

-----------------------------------------------------------------------------
LEMMA ChatStepKeeps ==
    ASSUME ChatInv, ChatNext
    PROVE  ChatInv'
  <1>1. CASE \E u \in Users, v \in ConversationIds :
                 LeaveRoom(u, v) /\ UNCHANGED requestVars
    BY <1>1, LeaveKeepsChat
  <1>2. ASSUME NEW c \in Clients, ChatStep(c)
        PROVE  ChatInv'
    BY <1>2, CreateKeepsChat, PreviewKeepsChat, BroadcastKeepsChat, MarkKeepsChat,
       FindKeepsChat
       DEF ChatStep
  <1>3. ASSUME NEW c \in Clients, NEW u \in Users, ChatBegins(c, u)
        PROVE  ChatInv'
    <2>1. CASE \E s \in Subjects : StartBookingChat(c, u, s) \/ StartVenueInquiry(c, u, s)
      BY <2>1, StartKeepsChat
    <2>2. ASSUME NEW v \in ConversationIds, JoinRoom(c, u, v)
          PROVE  ChatInv'
      BY <2>2, JoinKeepsChat
    <2>3. ASSUME NEW v \in ConversationIds, NEW socket \in BOOLEAN,
                 InsertMessage(c, u, v, socket)
          PROVE  ChatInv'
      BY <2>3, InsertKeepsChat
    <2>4. ASSUME NEW v \in ConversationIds, NEW p \in AskedPages, BeginRead(c, u, v, p)
          PROVE  ChatInv'
      BY <2>4, BeginReadKeepsChat
    <2> QED
      BY <1>3, <2>1, <2>2, <2>3, <2>4 DEF ChatBegins, AskedPages
  <1>4. ASSUME NEW c \in Clients, Reject(c), UNCHANGED chatVars
        PROVE  ChatInv'
    BY <1>4, RejectKeepsChat
  <1> QED
    BY <1>1, <1>2, <1>3, <1>4 DEF ChatNext

LEMMA ChatStart ==
    ASSUME RequestsInit, ChatInit
    PROVE  ChatInv
  <1>1. /\ RequestsTypeOK(ChatCall) /\ \A c \in Clients : call[c].at = "idle"
    BY RequestsBounds DEF RequestsInit, RequestsTypeOK, Idle
  <1>2. /\ conversations = [v \in ConversationIds |-> None]
        /\ messages = [m \in MessageIds |-> None]
        /\ room = [v \in ConversationIds |-> {}]
        /\ heard = [u \in Users |-> {}]
        /\ clock = 1
        /\ known = [uv \in Users \X ConversationIds |-> Ignorant]
        /\ spoken = {} /\ raced = {} /\ overlapped = {}
    BY DEF ChatInit
  <1>3. Opened = {} /\ Stored = {} /\ \A v : MessagesOf(v) = {}
    BY <1>2 DEF Opened, Stored, MessagesOf
  <1>4. Ignorant \in Knowledge /\ ~Ignorant.live
    BY DEF Ignorant, Knowledge
  <1>5. ChatTyped
    BY <1>1, <1>2, <1>4 DEF ChatTyped, ChatTypeOK, TalksMeet
  <1>6. SubjectsKept
    BY <1>1, <1>3 DEF SubjectsKept, OneConversationPerSubject, Starting, At
  <1>7. MessagesKept
    BY <1>1, <1>2, <1>3 DEF MessagesKept, Carries
  <1>8. PreviewKept
    BY <1>1, <1>3 DEF PreviewKept, Sends
  <1>9. ReadKept
    BY <1>1, <1>3 DEF ReadKept, StampsKept
  <1>10. RoomKept
    BY <1>2, <1>4 DEF RoomKept
  <1> QED
    BY <1>5, <1>6, <1>7, <1>8, <1>9, <1>10 DEF ChatInv

LEMMA ChatIdle ==
    ASSUME ChatInv, UNCHANGED <<requestVars, chatVars>>
    PROVE  ChatInv'
  <1>1. ChatTyped /\ SubjectsKept /\ MessagesKept /\ PreviewKept /\ ReadKept /\ RoomKept
    BY DEF ChatInv
  <1>2. UNCHANGED <<call, calls, faults, conversations, messages, room, heard, clock,
                    known, spoken, raced, overlapped>>
    BY DEF requestVars, chatVars, talked
  <1>3. SameSubjects /\ Opened' = Opened
    BY <1>2 DEF SameSubjects, Opened
  <1>4. \A d \in Clients :
            /\ \A s : Starting(d, s)' <=> Starting(d, s)
            /\ \A w : Sends(d, w)' <=> Sends(d, w)
            /\ \A w, x : Finds(d, x, w)' <=> Finds(d, x, w)
            /\ \A m : Carries(d, m)' <=> Carries(d, m)
    BY <1>2 DEF Starting, At, Sends, Finds, Carries
  <1>5. ChatTyped'
    BY <1>1, <1>2, <1>3 DEF ChatTyped, ChatTypeOK, TalksMeet, RequestsTypeOK
  <1>6. SubjectsKept'
    BY <1>1, <1>2, <1>3, <1>4, SubjectsStay
  <1>7. MessagesKept'
    BY <1>1, <1>2, <1>3, <1>4, MessagesStay
  <1>8. PreviewKept'
    BY <1>1, <1>2, <1>4, PreviewStays
  <1>9. ReadKept'
    BY <1>1, <1>2, <1>4, ReadStays
  <1>10. RoomKept'
    BY <1>1, <1>2, <1>4, RoomStays
  <1> QED
    BY <1>5, <1>6, <1>7, <1>8, <1>9, <1>10 DEF ChatInv

\* At rest nobody sends, carries or is about to find.
LEMMA ChatAtRest ==
    ASSUME ChatInv
    PROVE  PreviewIsNewest /\ ReadMeansSeen /\ NoGapInTheRoom
  <1>1. ChatTyped /\ SubjectsKept /\ MessagesKept /\ PreviewKept /\ ReadKept /\ RoomKept
    BY DEF ChatInv
  <1>2. Quiescent => \A c \in Clients :
            /\ \A v : ~Sends(c, v)
            /\ \A u, v : ~Finds(c, u, v)
            /\ \A m : ~Carries(c, m)
    BY DEF Quiescent, At, Sends, Finds, Carries
  <1>3. Opened \subseteq ConversationIds
    BY DEF Opened
  <1>4. \A v \in Opened : conversations[v].participants \subseteq Users
    BY <1>1 DEF ChatTyped, ChatTypeOK, Conversation, Opened
  <1>5. PreviewIsNewest
    BY <1>1, <1>2, <1>3 DEF PreviewIsNewest, PreviewKept
  <1>6. ReadMeansSeen
    <2>1. SUFFICES ASSUME Quiescent, faults = 0, NEW v \in Opened,
                          NEW u \in conversations[v].participants,
                          conversations[v].lastMessageAt < conversations[v].lastReadAt[u],
                          ~known[<<u, v>>].turned
                   PROVE  \A m \in MessagesOf(v) :
                              m <= conversations[v].lastMessage /\ Newer(m, v) < PageSize
                                  => m \in known[<<u, v>>].seen
      BY DEF ReadMeansSeen
    <2>2. SeenOrComing(u, v)
      BY <1>1, <1>4, <2>1 DEF ReadKept
    <2>3. /\ conversations[v].lastMessage \in MessageIds \cup {0}
          /\ conversations[v].lastMessageAt \in Nat
      BY <1>1 DEF ChatTyped, ChatTypeOK, Conversation, Opened
    <2>4. ShownOrComing(u, v, conversations[v].lastMessage, conversations[v].lastMessageAt)
      BY <2>2, <2>3 DEF SeenOrComing, Previewed
    <2> QED
      BY <1>2, <2>1, <2>4 DEF ShownOrComing
  <1>7. NoGapInTheRoom
    BY <1>1, <1>2, <1>3 DEF NoGapInTheRoom, RoomKept
  <1> QED
    BY <1>5, <1>6, <1>7

-----------------------------------------------------------------------------
(* Reminders *)

Reminds(c, b) == call[c].at = "remind.send" /\ b \in call[c].todo

\* The window of a run at t.
WindowAt(t, b) == StartOf[b] \in (t + Lead)..(t + Lead + Period)

\* One run to a period, and none left out unless a fault took it.
RunsKept ==
    /\ \A t \in ran : t <= time
    /\ \A t, r \in ran : t < r => t \div Period < r \div Period
    /\ due => \A t \in ran : t \div Period < time \div Period
    /\ faults = 0 =>
          \A k \in 0..(time \div Period) :
              \/ due /\ k = time \div Period
              \/ \E t \in ran : t \div Period = k

Known(b) == reminded[b] > 0 \/ \E c \in Clients : Reminds(c, b)

\* Reminded of b and about to be again.
KnownTwice(b) ==
    \/ reminded[b] > 1
    \/ reminded[b] > 0 /\ \E c \in Clients : Reminds(c, b)
    \/ \E c, d \in Clients : c # d /\ Reminds(c, b) /\ Reminds(d, b)

\* A reminder comes of a run whose window holds the start, two of two runs.
RemindersKept ==
    \A b \in BookingIds :
        /\ Known(b) => \E t \in ran : WindowAt(t, b)
        /\ KnownTwice(b) =>
              \E t, r \in ran : t < r /\ WindowAt(t, b) /\ WindowAt(r, b)

\* A booking confirmed before a run whose window holds it is reminded of.
WindowsKept ==
    faults = 0 =>
        \A b \in BookingIds \ leftOut, t \in ran :
            status[b] = "CONFIRMED" /\ confirmedAt[b] < t /\ WindowAt(t, b) => Known(b)

RemindersInv == RemindersTypeOK /\ RunsKept /\ RemindersKept /\ WindowsKept

\* Between two multiples of a number there is room for it once.
LEMMA Multiples ==
    ASSUME NEW i \in Nat, NEW j \in Nat, NEW size \in Nat, i < j
    PROVE  (i + 1) * size <= j * size
  <1>1. PICK k \in Nat : j = i + 1 + k
    BY j - i - 1 \in Nat, j = i + 1 + (j - i - 1)
  <1>2. j * size = (i + 1) * size + k * size /\ k * size >= 0
    BY <1>1
  <1>3. (i + 1) * size \in Nat /\ k * size \in Nat
    OBVIOUS
  <1> QED
    BY <1>2, <1>3

LEMMA Quotient ==
    ASSUME NEW n \in Nat, NEW size \in Nat \ {0}
    PROVE  /\ n \div size \in Nat /\ n % size \in Nat /\ n % size < size
           /\ n = (n \div size) * size + (n % size)
           /\ (n \div size) * size <= n /\ n < (n \div size + 1) * size
  OBVIOUS

\* The period of the next tick.
LEMMA NextPeriod ==
    ASSUME NEW n \in Nat, NEW size \in Nat \ {0}
    PROVE  (n + 1) \div size = IF (n + 1) % size = 0 THEN n \div size + 1 ELSE n \div size
  <1> DEFINE q == n \div size
             m == n % size
  <1>1. q \in Nat /\ m \in Nat /\ m < size /\ n = q * size + m
    BY Quotient
  <1> HIDE DEF q, m
  <1>2. CASE m + 1 < size
    <2>1. n + 1 = q * size + (m + 1) /\ q * size <= n + 1 /\ n + 1 < (q + 1) * size
      BY <1>1, <1>2
    <2>2. (n + 1) \div size = q
      BY <1>1, <2>1, PageNumber
    <2>3. n + 1 = ((n + 1) \div size) * size + ((n + 1) % size)
      BY Quotient
    <2>4. (n + 1) % size # 0
      BY <1>1, <2>1, <2>2, <2>3
    <2> QED
      BY <2>2, <2>4 DEF q
  <1>3. CASE m + 1 = size
    <2>1. n + 1 = (q + 1) * size /\ n + 1 < (q + 1 + 1) * size
      BY <1>1, <1>3
    <2>2. (n + 1) \div size = q + 1
      BY <1>1, <2>1, PageNumber
    <2>3. n + 1 = ((n + 1) \div size) * size + ((n + 1) % size) /\ (n + 1) % size \in Nat
      BY Quotient
    <2>4. (n + 1) % size = 0
      BY <1>1, <2>1, <2>2, <2>3
    <2> QED
      BY <2>2, <2>4 DEF q
  <1> QED
    BY <1>1, <1>2, <1>3

LEMMA ReminderCalls ==
    ASSUME RemindersTypeOK, NEW c \in Clients
    PROVE  /\ RequestsTypeOK(ReminderCall)
           /\ call[c].at = "remind.send" =>
                 call[c].todo \in SUBSET BookingIds /\ call[c].todo # {}
           /\ call[c].at = "confirm.note" => call[c].booking \in BookingIds
  <1>1. RequestsTypeOK(ReminderCall)
    BY DEF RemindersTypeOK
  <1>2. call[c] \in ReminderCall \cup {Idle}
    BY <1>1 DEF RequestsTypeOK
  <1>3. call[c].at = "remind.send" =>
            call[c].todo \in SUBSET BookingIds /\ call[c].todo # {}
    BY <1>2 DEF ReminderCall, Idle
  <1>4. call[c].at = "confirm.note" => call[c].booking \in BookingIds
    BY <1>2 DEF ReminderCall, Idle
  <1> QED
    BY <1>1, <1>3, <1>4

LEMMA RunsStay ==
    ASSUME RunsKept, UNCHANGED <<time, due, ran>>, faults' = 0 => faults = 0
    PROVE  RunsKept'
  BY DEF RunsKept

LEMMA RemindersStay ==
    ASSUME RemindersKept, UNCHANGED <<reminded, ran>>,
           \A d \in Clients, b \in BookingIds : Reminds(d, b)' => Reminds(d, b)
    PROVE  RemindersKept'
  <1>1. \A b \in BookingIds :
            /\ Known(b)' => Known(b)
            /\ KnownTwice(b)' => KnownTwice(b)
            /\ \A t : WindowAt(t, b)' = WindowAt(t, b)
    BY DEF Known, KnownTwice, WindowAt
  <1> QED
    BY <1>1 DEF RemindersKept

LEMMA WindowsStay ==
    ASSUME RunsKept, WindowsKept, UNCHANGED <<ran, leftOut>>, time \in Nat, ran \subseteq Nat,
           faults' = 0 => faults = 0,
           \A b \in BookingIds : status'[b] = "CONFIRMED" =>
               \/ status[b] = "CONFIRMED" /\ confirmedAt'[b] = confirmedAt[b]
               \/ confirmedAt'[b] = time,
           \A b \in BookingIds : faults' = 0 /\ Known(b) => Known(b)'
    PROVE  WindowsKept'
  <1>1. SUFFICES ASSUME faults' = 0, NEW b \in BookingIds \ leftOut', NEW t \in ran',
                        status'[b] = "CONFIRMED", confirmedAt'[b] < t, WindowAt(t, b)'
                 PROVE  Known(b)'
    BY DEF WindowsKept
  <1>2. WindowAt(t, b) /\ t \in Nat /\ t <= time
    BY <1>1 DEF WindowAt, RunsKept
  <1>3. confirmedAt'[b] # time
    BY <1>1, <1>2
  <1> QED
    BY <1>1, <1>2, <1>3 DEF WindowsKept

\* The clock passes into the next period when the run of this one is over.
LEMMA MinutesPass ==
    ASSUME RemindersInv, PassMinutes, UNCHANGED requestVars
    PROVE  RemindersInv'
  <1>1. /\ time \in Nat /\ due \in BOOLEAN /\ ran \subseteq Nat /\ Period \in Nat \ {0}
        /\ RunsKept /\ RemindersKept /\ WindowsKept
    BY RemindersBounds DEF RemindersInv, RemindersTypeOK
  <1>2. /\ (time + 1) % Period = 0 => ~due
        /\ time' = time + 1 /\ due' = (due \/ (time + 1) % Period = 0)
        /\ UNCHANGED <<status, confirmedAt, reminded, noted, ran, leftOut>>
        /\ UNCHANGED <<call, calls, faults>>
    BY DEF PassMinutes, requestVars
  <1>3. RemindersTypeOK'
    BY <1>1, <1>2 DEF RemindersInv, RemindersTypeOK, RequestsTypeOK
  <1> DEFINE q == time \div Period
             n == (time + 1) \div Period
             turned == (time + 1) % Period = 0
  <1>4. q \in Nat /\ n = IF turned THEN q + 1 ELSE q
    BY <1>1, Quotient, NextPeriod
  <1>5. time' \div Period = n
    BY <1>2
  <1>6. \A t \in ran : t <= time /\ t \div Period \in Nat /\ t \div Period <= q
    <2>1. ASSUME NEW t \in ran PROVE t <= time /\ t \div Period \in Nat /\ t \div Period <= q
      <3>1. t \in Nat /\ t <= time
        BY <1>1 DEF RunsKept
      <3>2. t \div Period \in Nat /\ (t \div Period) * Period <= t
        BY <1>1, <3>1, Quotient
      <3>3. time < (q + 1) * Period
        BY <1>1, Quotient
      <3>4. PICK k \in Nat : k = t \div Period
        BY <3>2
      <3>5. PICK p \in Nat : p = q
        BY <1>4
      <3>6. p < k => (p + 1) * Period <= k * Period
        BY <1>1, Multiples
      <3>7. (p + 1) * Period \in Nat /\ k * Period \in Nat
        BY <1>1
      <3>8. ~(p < k)
        BY <1>1, <3>1, <3>2, <3>3, <3>4, <3>5, <3>6, <3>7
      <3> QED
        BY <3>1, <3>4, <3>5, <3>8
    <2> QED
      BY <2>1
  <1> HIDE DEF q, n, turned
  <1>7. due' = (due \/ turned) /\ (turned => ~due)
    BY <1>2 DEF turned
  <1>8. RunsKept'
    <2>1. (\A t \in ran : t <= time)'
      BY <1>1, <1>2, <1>6
    <2>2. (\A t, r \in ran : t < r => t \div Period < r \div Period)'
      BY <1>1, <1>2 DEF RunsKept
    <2>3. due' => \A t \in ran' : t \div Period < time' \div Period
      <3>1. CASE turned
        BY <1>2, <1>4, <1>5, <1>6, <3>1
      <3>2. CASE ~turned
        <4>1. due => \A t \in ran : t \div Period < q
          BY <1>1 DEF RunsKept, q
        <4> QED
          BY <1>2, <1>4, <1>5, <1>7, <3>2, <4>1
      <3> QED
        BY <3>1, <3>2
    <2>4. ASSUME faults' = 0, NEW k \in 0..(time' \div Period)
          PROVE  \/ due' /\ k = time' \div Period
                 \/ \E t \in ran' : t \div Period = k
      <3>1. \A i \in 0..q : (due /\ i = q) \/ \E t \in ran : t \div Period = i
        BY <1>1, <1>2, <2>4 DEF RunsKept, q
      <3>2. k \in 0..n
        BY <1>5, <2>4
      <3>3. CASE turned
        <4>1. n = q + 1 /\ due' /\ ~due
          BY <1>4, <1>7, <3>3
        <4>2. k = n \/ k \in 0..q
          BY <1>4, <3>2, <4>1
        <4> QED
          BY <1>2, <1>5, <3>1, <4>1, <4>2
      <3>4. CASE ~turned
        BY <1>2, <1>4, <1>5, <1>7, <3>1, <3>2, <3>4
      <3> QED
        BY <3>3, <3>4
    <2> QED
      BY <2>1, <2>2, <2>3, <2>4 DEF RunsKept
  <1>9. \A d, b : Reminds(d, b)' <=> Reminds(d, b)
    BY <1>2 DEF Reminds
  <1>10. RemindersKept'
    BY <1>1, <1>2, <1>9, RemindersStay
  <1>11. \A b : Known(b) => Known(b)'
    BY <1>2, <1>9 DEF Known
  <1>12. WindowsKept'
    BY <1>1, <1>2, <1>11, WindowsStay
  <1> QED
    BY <1>3, <1>8, <1>10, <1>12 DEF RemindersInv

LEMMA RunLost ==
    ASSUME RemindersInv, LoseRun
    PROVE  RemindersInv'
  <1>1. /\ due' = FALSE /\ faults < MaxFaults /\ faults' = faults + 1
        /\ UNCHANGED <<call, calls, time, status, confirmedAt, reminded, noted, ran, leftOut>>
    BY DEF LoseRun
  <1>2. faults' \in 0..MaxFaults /\ faults' # 0
    BY <1>1, RequestsBounds DEF RemindersInv, RemindersTypeOK, RequestsTypeOK
  <1>3. RemindersTypeOK'
    BY <1>1, <1>2 DEF RemindersInv, RemindersTypeOK, RequestsTypeOK
  <1>4. RunsKept'
    BY <1>1, <1>2 DEF RemindersInv, RunsKept
  <1>5. \A d, b : Reminds(d, b)' <=> Reminds(d, b)
    BY <1>1 DEF Reminds
  <1>6. RemindersKept'
    BY <1>1, <1>5, RemindersStay DEF RemindersInv
  <1>7. WindowsKept'
    BY <1>2 DEF WindowsKept
  <1> QED
    BY <1>3, <1>4, <1>6, <1>7 DEF RemindersInv

\* A booking is confirmed, or cancelled.
LEMMA StatusMoves ==
    ASSUME RemindersInv, NEW b \in BookingIds,
           SetConfirmed(b) \/ (CancelConfirmed(b) /\ UNCHANGED confirmedAt)
    PROVE  /\ status' \in [BookingIds -> {"HOLD", "CONFIRMED", "CANCELLED"}]
           /\ confirmedAt' \in [BookingIds -> Nat]
           /\ \A d \in BookingIds : status'[d] = "CONFIRMED" =>
                 \/ status[d] = "CONFIRMED" /\ confirmedAt'[d] = confirmedAt[d]
                 \/ confirmedAt'[d] = time
  <1>1. /\ status \in [BookingIds -> {"HOLD", "CONFIRMED", "CANCELLED"}]
        /\ confirmedAt \in [BookingIds -> Nat] /\ time \in Nat
    BY DEF RemindersInv, RemindersTypeOK
  <1>2. CASE SetConfirmed(b)
    BY <1>1, <1>2 DEF SetConfirmed
  <1>3. CASE CancelConfirmed(b) /\ UNCHANGED confirmedAt
    BY <1>1, <1>3 DEF CancelConfirmed
  <1> QED
    BY <1>2, <1>3

LEMMA BookingMoves ==
    ASSUME RemindersInv, RequestsTypeOK(ReminderCall)', faults' = faults,
           UNCHANGED <<time, due, reminded, noted, ran, leftOut>>,
           \A d \in Clients, b \in BookingIds : Reminds(d, b)' <=> Reminds(d, b),
           NEW b \in BookingIds,
           SetConfirmed(b) \/ (CancelConfirmed(b) /\ UNCHANGED confirmedAt)
    PROVE  RemindersInv'
  <1>1. /\ status' \in [BookingIds -> {"HOLD", "CONFIRMED", "CANCELLED"}]
        /\ confirmedAt' \in [BookingIds -> Nat]
        /\ \A d \in BookingIds : status'[d] = "CONFIRMED" =>
              \/ status[d] = "CONFIRMED" /\ confirmedAt'[d] = confirmedAt[d]
              \/ confirmedAt'[d] = time
    BY StatusMoves
  <1>2. RemindersTypeOK'
    BY <1>1 DEF RemindersInv, RemindersTypeOK
  <1>3. RunsKept'
    BY RunsStay DEF RemindersInv
  <1>4. RemindersKept'
    BY RemindersStay DEF RemindersInv
  <1>5. \A d \in BookingIds : Known(d) => Known(d)'
    BY DEF Known
  <1>6. time \in Nat /\ ran \subseteq Nat
    BY DEF RemindersInv, RemindersTypeOK
  <1>7. WindowsKept'
    BY <1>1, <1>5, <1>6, WindowsStay DEF RemindersInv
  <1> QED
    BY <1>2, <1>3, <1>4, <1>7 DEF RemindersInv

LEMMA OwnerMoves ==
    ASSUME RemindersInv, NEW c \in Clients, NEW b \in BookingIds, OwnerConfirms(c, b)
    PROVE  RemindersInv'
  <1> DEFINE n == [at |-> "confirm.note", booking |-> b]
  <1>1. /\ SetConfirmed(b) /\ Begin(c, n)
        /\ UNCHANGED <<time, due, reminded, noted, ran, leftOut>>
    BY DEF OwnerConfirms
  <1>2. n \in ReminderCall /\ n.at = "confirm.note"
    BY DEF ReminderCall
  <1> HIDE DEF n
  <1>3. /\ RequestsTypeOK(ReminderCall)' /\ OnlyCalls(c) /\ call'[c] = n
        /\ call[c].at = "idle" /\ faults' = faults
    BY <1>1, <1>2, BegunCall DEF RemindersInv, RemindersTypeOK
  <1>4. \A d \in Clients, e \in BookingIds : Reminds(d, e)' <=> Reminds(d, e)
    BY <1>2, <1>3 DEF Reminds, OnlyCalls
  <1> QED
    BY <1>1, <1>3, <1>4, BookingMoves

\* The job reads its window.
LEMMA JobRuns ==
    ASSUME RemindersInv, NEW c \in Clients, RunReminders(c)
    PROVE  RemindersInv'
  <1> DEFINE n == [at |-> "remind.send", todo |-> FirstPage]
  <1>1. /\ due /\ due' = FALSE /\ ran' = ran \cup {time}
        /\ leftOut' = leftOut \cup (Upcoming \ FirstPage)
        /\ UNCHANGED <<time, status, confirmedAt, reminded, noted>>
        /\ IF FirstPage = {} THEN Begin(c, Idle) ELSE Begin(c, n)
    BY DEF RunReminders
  <1>2. /\ time \in Nat /\ ran \subseteq Nat /\ leftOut \subseteq BookingIds
        /\ Period \in Nat \ {0} /\ RequestsTypeOK(ReminderCall)
        /\ RunsKept /\ RemindersKept /\ WindowsKept
    BY RemindersBounds DEF RemindersInv, RemindersTypeOK
  <1>3. FirstPage \subseteq Upcoming /\ Upcoming \subseteq BookingIds
    BY DEF FirstPage, Upcoming
  <1>4. FirstPage # {} => n \in ReminderCall /\ n.at = "remind.send" /\ n.todo = FirstPage
    BY <1>3 DEF ReminderCall
  <1> HIDE DEF n
  <1>5. /\ RequestsTypeOK(ReminderCall)' /\ OnlyCalls(c) /\ faults' = faults
        /\ call[c].at = "idle"
        /\ call'[c] = IF FirstPage = {} THEN Idle ELSE n
    BY <1>1, <1>2, <1>4, BegunCall
  <1>6. \A d \in Clients, b \in BookingIds :
            /\ Reminds(d, b)' <=> IF d = c THEN b \in FirstPage ELSE Reminds(d, b)
            /\ ~Reminds(c, b)
    BY <1>4, <1>5 DEF Reminds, OnlyCalls, Idle
  <1>7. RemindersTypeOK'
    BY <1>1, <1>2, <1>3, <1>5 DEF RemindersInv, RemindersTypeOK
  <1>8. \A t \in ran : t < time /\ t \in Nat /\ t \div Period < time \div Period
    BY <1>1, <1>2 DEF RunsKept
  <1>9. RunsKept'
    <2>1. (\A t \in ran : t <= time)'
      BY <1>1, <1>2, <1>8
    <2>2. (\A t, r \in ran : t < r => t \div Period < r \div Period)'
      <3>1. ASSUME NEW t \in ran', NEW r \in ran', t < r
            PROVE  t \div Period < r \div Period
        <4>1. r \in ran => t # time
          BY <1>2, <1>8, <3>1
        <4>2. CASE t \in ran /\ r \in ran
          BY <1>2, <3>1, <4>2 DEF RunsKept
        <4>3. CASE t \in ran /\ r = time
          BY <1>8, <4>3
        <4> QED
          BY <1>1, <1>2, <3>1, <4>1, <4>2, <4>3
      <3> QED
        BY <1>1, <3>1
    <2>3. faults' = 0 =>
              \A k \in 0..(time' \div Period) : \E t \in ran' : t \div Period = k
      BY <1>1, <1>2, <1>5 DEF RunsKept
    <2> QED
      BY <1>1, <2>1, <2>2, <2>3 DEF RunsKept
  <1>10. \A b \in BookingIds : \A t : WindowAt(t, b)' = WindowAt(t, b)
    BY DEF WindowAt
  <1>11. \A b \in FirstPage : b \in BookingIds /\ WindowAt(time, b)
    BY <1>3 DEF Upcoming, InWindow, WindowAt
  <1>12. RemindersKept'
    <2>1. ASSUME NEW b \in BookingIds, Known(b)'
          PROVE  \E t \in ran' : WindowAt(t, b)
      <3>1. b \in FirstPage \/ Known(b)
        BY <1>1, <1>6, <2>1 DEF Known
      <3> QED
        BY <1>1, <1>2, <1>11, <3>1 DEF RemindersKept
    <2>2. ASSUME NEW b \in BookingIds, KnownTwice(b)'
          PROVE  \E t, r \in ran' : t < r /\ WindowAt(t, b) /\ WindowAt(r, b)
      <3>1. \/ b \in FirstPage /\ Known(b)
            \/ KnownTwice(b)
        BY <1>1, <1>6, <2>2 DEF Known, KnownTwice
      <3>2. CASE KnownTwice(b)
        BY <1>1, <1>2, <3>2 DEF RemindersKept
      <3>3. CASE b \in FirstPage /\ Known(b)
        <4>1. PICK t \in ran : WindowAt(t, b)
          BY <1>2, <3>3 DEF RemindersKept
        <4> QED
          BY <1>1, <1>8, <1>11, <3>3, <4>1
      <3> QED
        BY <3>1, <3>2, <3>3
    <2> QED
      BY <1>10, <2>1, <2>2 DEF RemindersKept
  <1>13. WindowsKept'
    <2>1. SUFFICES ASSUME faults' = 0, NEW b \in BookingIds \ leftOut', NEW t \in ran',
                          status'[b] = "CONFIRMED", confirmedAt'[b] < t, WindowAt(t, b)
                   PROVE  Known(b)'
      BY <1>10 DEF WindowsKept
    <2>2. CASE t \in ran
      <3>1. Known(b)
        BY <1>1, <1>2, <1>5, <2>1, <2>2 DEF WindowsKept
      <3> QED
        BY <1>1, <1>6, <3>1 DEF Known
    <2>3. CASE t = time
      <3>1. b \in Upcoming
        BY <1>1, <2>1, <2>3 DEF Upcoming, InWindow, WindowAt
      <3>2. b \in FirstPage
        BY <1>1, <2>1, <3>1
      <3> QED
        BY <1>6, <3>2 DEF Known
    <2> QED
      BY <1>1, <2>1, <2>2, <2>3
  <1> QED
    BY <1>7, <1>9, <1>12, <1>13 DEF RemindersInv

\* One reminder is sent, the newest booking's first.
LEMMA ReminderGoes ==
    ASSUME RemindersInv, NEW c \in Clients, SendReminder(c)
    PROVE  RemindersInv'
  <1>1. /\ call[c].at = "remind.send"
        /\ UNCHANGED <<time, due, status, confirmedAt, noted, ran, leftOut>>
        /\ RequestsTypeOK(ReminderCall) /\ reminded \in [BookingIds -> Nat]
        /\ time \in Nat /\ ran \subseteq Nat
        /\ RunsKept /\ RemindersKept /\ WindowsKept
    BY DEF SendReminder, At, RemindersInv, RemindersTypeOK
  <1>2. PICK todo \in SUBSET BookingIds : todo = call[c].todo /\ todo # {}
    BY <1>1, ReminderCalls DEF RemindersInv
  <1>3. \E b \in todo : \A d \in todo : d <= b
    <2>1. MaxBooking \in Nat /\ todo \in SUBSET (1..MaxBooking)
      BY <1>2, RemindersBounds DEF BookingIds
    <2> QED
      BY <1>2, <2>1, LargestElement
  <1>4. PICK b \in BookingIds : /\ b \in todo
                                /\ b = CHOOSE i \in todo : \A d \in todo : d <= i
    BY <1>2, <1>3
  <1> DEFINE rest == todo \ {b}
             n == [at |-> "remind.send", todo |-> rest]
  <1>5. /\ reminded' = [reminded EXCEPT ![b] = @ + 1]
        /\ IF rest = {} THEN Continue(c, Idle) ELSE Continue(c, n)
    BY <1>2, <1>4 DEF SendReminder
  <1>6. rest # {} => n \in ReminderCall /\ n.at = "remind.send" /\ n.todo = rest
    BY <1>2 DEF ReminderCall
  <1> HIDE DEF n
  <1>7. /\ RequestsTypeOK(ReminderCall)' /\ OnlyCalls(c) /\ faults' = faults
        /\ call'[c] = IF rest = {} THEN Idle ELSE n
    BY <1>1, <1>5, <1>6, ContinuedCall
  <1>8. \A d \in Clients, e \in BookingIds :
            /\ Reminds(d, e)' <=> Reminds(d, e) /\ ~(d = c /\ e = b)
            /\ Reminds(c, b)
    BY <1>1, <1>2, <1>4, <1>6, <1>7 DEF Reminds, OnlyCalls, Idle
  <1>9. /\ reminded' \in [BookingIds -> Nat]
        /\ \A e \in BookingIds : reminded'[e] = IF e = b THEN reminded[e] + 1 ELSE reminded[e]
    BY <1>1, <1>5
  <1>10. RemindersTypeOK'
    BY <1>1, <1>7, <1>9 DEF RemindersInv, RemindersTypeOK
  <1>11. RunsKept'
    BY <1>1, <1>7, RunsStay
  <1>12. ASSUME NEW e \in BookingIds
         PROVE  /\ Known(e)' <=> Known(e)
                /\ KnownTwice(e)' => KnownTwice(e)
    <2>1. CASE e = b
      BY <1>1, <1>8, <1>9, <2>1 DEF Known, KnownTwice
    <2>2. CASE e # b
      BY <1>8, <1>9, <2>2 DEF Known, KnownTwice
    <2> QED
      BY <2>1, <2>2
  <1>13. RemindersKept'
    <2>1. \A e \in BookingIds : \A t : WindowAt(t, e)' = WindowAt(t, e)
      BY DEF WindowAt
    <2> QED
      BY <1>1, <1>12, <2>1 DEF RemindersKept
  <1>14. WindowsKept'
    BY <1>1, <1>7, <1>12, WindowsStay
  <1> QED
    BY <1>10, <1>11, <1>13, <1>14 DEF RemindersInv

\* A request that ends with no more than a note.
LEMMA NoteOrReject ==
    ASSUME RemindersInv, NEW c \in Clients,
           NoteConfirmation(c) \/ (Reject(c) /\ UNCHANGED reminderVars)
    PROVE  RemindersInv'
  <1>1. /\ RequestsTypeOK(ReminderCall) /\ noted \in [BookingIds -> Nat]
        /\ time \in Nat /\ ran \subseteq Nat
        /\ RunsKept /\ RemindersKept /\ WindowsKept
    BY DEF RemindersInv, RemindersTypeOK
  <1>2. CASE NoteConfirmation(c)
    <2>1. /\ call[c].at = "confirm.note" /\ Finish(c)
          /\ noted' = [noted EXCEPT ![call[c].booking] = @ + 1]
          /\ UNCHANGED <<time, due, status, confirmedAt, reminded, ran, leftOut>>
      BY <1>2 DEF NoteConfirmation, At
    <2>2. /\ RequestsTypeOK(ReminderCall)' /\ OnlyCalls(c) /\ call'[c].at = "idle"
          /\ faults' = faults
      BY <1>1, <2>1, FinishedCall
    <2>3. call[c].booking \in BookingIds
      BY <2>1, ReminderCalls DEF RemindersInv
    <2>4. noted' \in [BookingIds -> Nat]
      BY <1>1, <2>1, <2>3
    <2>5. RemindersTypeOK'
      BY <2>1, <2>2, <2>4 DEF RemindersInv, RemindersTypeOK
    <2>6. \A d \in Clients, e \in BookingIds : Reminds(d, e)' <=> Reminds(d, e)
      BY <2>1, <2>2 DEF Reminds, OnlyCalls
    <2>7. \A e \in BookingIds : Known(e) => Known(e)'
      BY <2>1, <2>6 DEF Known
    <2>8. RunsKept' /\ RemindersKept'
      BY <1>1, <2>1, <2>2, <2>6, RunsStay, RemindersStay
    <2>9. WindowsKept'
      BY <1>1, <2>1, <2>2, <2>7, WindowsStay
    <2> QED
      BY <2>5, <2>8, <2>9 DEF RemindersInv
  <1>3. CASE Reject(c) /\ UNCHANGED reminderVars
    <2>1. /\ RequestsTypeOK(ReminderCall)' /\ OnlyCalls(c) /\ call'[c].at = "idle"
          /\ faults' > 0
      BY <1>1, <1>3, RejectedCall
    <2>2. UNCHANGED <<time, due, status, confirmedAt, reminded, noted, ran, leftOut>>
      BY <1>3 DEF reminderVars
    <2>3. RemindersTypeOK'
      BY <2>1, <2>2 DEF RemindersInv, RemindersTypeOK
    <2>4. \A d \in Clients, e \in BookingIds : Reminds(d, e)' => Reminds(d, e)
      BY <2>1 DEF Reminds, OnlyCalls
    <2>5. faults' # 0
      BY <2>1
    <2>6. RunsKept' /\ RemindersKept' /\ WindowsKept'
      BY <1>1, <2>2, <2>4, <2>5, RunsStay, RemindersStay DEF WindowsKept
    <2> QED
      BY <2>3, <2>6 DEF RemindersInv
  <1> QED
    BY <1>2, <1>3

LEMMA RemindersStep ==
    ASSUME RemindersInv, RemindersNext
    PROVE  RemindersInv'
  <1>1. CASE LoseRun
    BY <1>1, RunLost
  <1>2. CASE PassMinutes /\ UNCHANGED requestVars
    BY <1>2, MinutesPass
  <1>3. ASSUME NEW b \in BookingIds, WebhookConfirms(b) \/ CancelConfirmed(b),
               UNCHANGED requestVars
        PROVE  RemindersInv'
    <2>1. UNCHANGED <<call, calls, faults>>
      BY <1>3 DEF requestVars
    <2>2. RequestsTypeOK(ReminderCall)'
      BY <2>1 DEF RemindersInv, RemindersTypeOK, RequestsTypeOK
    <2>3. \A d \in Clients, e \in BookingIds : Reminds(d, e)' <=> Reminds(d, e)
      BY <2>1 DEF Reminds
    <2>4. /\ UNCHANGED <<time, due, reminded, noted, ran, leftOut>>
          /\ SetConfirmed(b) \/ (CancelConfirmed(b) /\ UNCHANGED confirmedAt)
      BY <1>3 DEF WebhookConfirms, CancelConfirmed
    <2> QED
      BY <2>1, <2>2, <2>3, <2>4, BookingMoves
  <1>4. ASSUME NEW c \in Clients,
               \/ RunReminders(c) \/ SendReminder(c) \/ NoteConfirmation(c)
               \/ Reject(c) /\ UNCHANGED reminderVars
               \/ \E b \in BookingIds : OwnerConfirms(c, b)
        PROVE  RemindersInv'
    BY <1>4, JobRuns, ReminderGoes, NoteOrReject, OwnerMoves
  <1> QED
    BY <1>1, <1>2, <1>3, <1>4 DEF RemindersNext

LEMMA RemindersStart ==
    ASSUME RequestsInit, RemindersInit
    PROVE  RemindersInv
  <1>1. /\ RequestsTypeOK(ReminderCall) /\ \A c \in Clients : call[c].at = "idle"
    BY RequestsBounds DEF RequestsInit, RequestsTypeOK, Idle
  <1>2. /\ time = 0 /\ due = TRUE /\ ran = {} /\ leftOut = {}
        /\ reminded = [b \in BookingIds |-> 0]
    BY DEF RemindersInit
  <1>3. RemindersTypeOK
    BY <1>1 DEF RemindersTypeOK, RemindersInit
  <1>4. 0 \div Period = 0
    BY RemindersBounds, PageZero
  <1>5. RunsKept
    BY <1>2, <1>4 DEF RunsKept
  <1>6. \A b \in BookingIds : ~Known(b) /\ ~KnownTwice(b)
    BY <1>1, <1>2 DEF Known, KnownTwice, Reminds
  <1>7. RemindersKept /\ WindowsKept
    BY <1>2, <1>6 DEF RemindersKept, WindowsKept
  <1> QED
    BY <1>3, <1>5, <1>7 DEF RemindersInv

LEMMA RemindersIdle ==
    ASSUME RemindersInv, UNCHANGED <<requestVars, reminderVars>>
    PROVE  RemindersInv'
  <1>1. UNCHANGED <<call, calls, faults, time, due, status, confirmedAt, reminded, noted,
                    ran, leftOut>>
    BY DEF requestVars, reminderVars
  <1>2. RemindersTypeOK'
    BY <1>1 DEF RemindersInv, RemindersTypeOK, RequestsTypeOK
  <1>3. \A d \in Clients, e \in BookingIds : Reminds(d, e)' <=> Reminds(d, e)
    BY <1>1 DEF Reminds
  <1>4. \A e \in BookingIds : Known(e) => Known(e)'
    BY <1>1, <1>3 DEF Known
  <1>5. time \in Nat /\ ran \subseteq Nat
    BY DEF RemindersInv, RemindersTypeOK
  <1>6. RunsKept' /\ RemindersKept' /\ WindowsKept'
    BY <1>1, <1>3, <1>4, <1>5, RunsStay, RemindersStay, WindowsStay DEF RemindersInv
  <1> QED
    BY <1>2, <1>6 DEF RemindersInv

\* The window of a run in periods: l of them before the start's own.
LEMMA RunInPeriods ==
    ASSUME NEW t \in Nat
    PROVE  \E k, m, l \in Nat :
              /\ k = t \div Period /\ m = t % Period /\ m < Period
              /\ Lead = l * Period /\ t + Lead = (k + l) * Period + m
              /\ (k + l) * Period \in Nat
  <1>1. Period \in Nat \ {0} /\ Lead \in Nat /\ Lead % Period = 0
    BY RemindersBounds
  <1>2. PICK l \in Nat : Lead = l * Period + 0
    BY <1>1, Quotient
  <1>3. PICK k \in Nat, m \in Nat : /\ k = t \div Period /\ m = t % Period /\ m < Period
                                    /\ t = k * Period + m
    BY <1>1, Quotient
  <1>4. /\ (k + l) * Period = k * Period + l * Period /\ (k + l) * Period \in Nat
        /\ k * Period \in Nat /\ l * Period \in Nat
    BY <1>1
  <1>5. Lead = l * Period /\ t + Lead = (k + l) * Period + m
    BY <1>2, <1>3, <1>4
  <1> QED
    BY <1>3, <1>4, <1>5

LEMMA StartInPeriods ==
    ASSUME NEW b \in BookingIds
    PROVE  \E q, o \in Nat :
              /\ o = Offset(b) /\ o < Period
              /\ StartOf[b] = q * Period + o /\ q * Period \in Nat
  <1>1. Period \in Nat \ {0} /\ StartOf[b] \in Nat
    BY RemindersBounds
  <1>2. PICK q \in Nat, o \in Nat : /\ o = StartOf[b] % Period /\ o < Period
                                    /\ StartOf[b] = q * Period + o
    BY <1>1, Quotient
  <1>3. q * Period \in Nat
    BY <1>1
  <1> QED
    BY <1>2, <1>3 DEF Offset

LEMMA RemindedTwice ==
    ASSUME RemindersInv
    PROVE  RemindedOnce
  <1>1. SUFFICES ASSUME NEW b \in BookingIds, reminded[b] > 1
                 PROVE  IF Offset(b) = 0
                        THEN StartOf[b] - Lead \in ran
                        ELSE \E t \in ran : t % Period >= Offset(b)
    BY DEF RemindedOnce
  <1>2. PICK t \in ran, r \in ran : t < r /\ WindowAt(t, b) /\ WindowAt(r, b)
    BY <1>1 DEF RemindersInv, RemindersKept, KnownTwice
  <1>3. /\ t \in Nat /\ r \in Nat /\ t \div Period < r \div Period
        /\ Period \in Nat \ {0} /\ Lead \in Nat
    BY <1>2, RemindersBounds DEF RemindersInv, RemindersTypeOK, RunsKept
  <1>4. PICK k, m, l \in Nat : /\ k = t \div Period /\ m = t % Period /\ m < Period
                               /\ Lead = l * Period /\ t + Lead = (k + l) * Period + m
                               /\ (k + l) * Period \in Nat
    BY <1>3, RunInPeriods
  <1>5. PICK j, i, h \in Nat : /\ j = r \div Period /\ i = r % Period /\ i < Period
                               /\ Lead = h * Period /\ r + Lead = (j + h) * Period + i
                               /\ (j + h) * Period \in Nat
    BY <1>3, RunInPeriods
  <1>6. PICK q, o \in Nat : /\ o = Offset(b) /\ o < Period
                            /\ StartOf[b] = q * Period + o /\ q * Period \in Nat
    BY StartInPeriods
  <1>7. h = l
    <2>1. l < h => (l + 1) * Period <= h * Period
      BY <1>3, Multiples
    <2>2. h < l => (h + 1) * Period <= l * Period
      BY <1>3, Multiples
    <2>3. (l + 1) * Period = l * Period + Period /\ (h + 1) * Period = h * Period + Period
      BY <1>3
    <2>4. l * Period \in Nat /\ h * Period \in Nat /\ l * Period = h * Period
      BY <1>3, <1>4, <1>5
    <2> QED
      BY <1>3, <2>1, <2>2, <2>3, <2>4
  <1>8. /\ k + l < j + l
        /\ (k + l) * Period + m <= q * Period + o
        /\ q * Period + o <= (k + l) * Period + m + Period
        /\ (j + l) * Period + i <= q * Period + o
        /\ q * Period + o <= (j + l) * Period + i + Period
    BY <1>2, <1>3, <1>4, <1>5, <1>6, <1>7 DEF WindowAt
  <1>9. j + l <= q
    <2>1. q < j + l => (q + 1) * Period <= (j + l) * Period
      BY <1>3, Multiples
    <2>2. (q + 1) * Period = q * Period + Period
      BY <1>3
    <2> QED
      BY <1>3, <1>4, <1>5, <1>6, <1>7, <1>8, <2>1, <2>2
  <1>10. (k + l) * Period + Period <= (j + l) * Period
    <2>1. (k + l + 1) * Period <= (j + l) * Period
      BY <1>3, <1>8, Multiples
    <2>2. (k + l + 1) * Period = (k + l) * Period + Period
      BY <1>3
    <2> QED
      BY <2>1, <2>2
  <1>11. (j + l) * Period <= q * Period
    <2>1. j + l < q => (j + l + 1) * Period <= q * Period
      BY <1>3, Multiples
    <2>2. (j + l + 1) * Period = (j + l) * Period + Period
      BY <1>3
    <2> QED
      BY <1>3, <1>5, <1>6, <1>7, <1>9, <2>1, <2>2
  <1>12. o <= m
    BY <1>3, <1>4, <1>5, <1>6, <1>7, <1>8, <1>10, <1>11
  <1>13. CASE o # 0
    <2>1. t % Period >= Offset(b)
      BY <1>4, <1>6, <1>12
    <2> QED
      BY <1>6, <1>13, <2>1
  <1>14. CASE o = 0
    <2>1. q <= j + l
      <3>1. (k + l) * Period + m + Period < (j + l + 1) * Period
        <4>1. (j + l + 1) * Period = (j + l) * Period + Period
          BY <1>3
        <4> QED
          BY <1>3, <1>4, <1>5, <1>7, <1>10, <4>1
      <3>2. j + l + 1 <= q => (j + l + 1) * Period <= q * Period
        BY <1>3, <1>5, <1>7, Multiples
      <3> QED
        BY <1>3, <1>4, <1>6, <1>8, <1>14, <3>1, <3>2
    <2>2. q = j + l
      BY <1>9, <2>1
    <2>3. i = 0 /\ r + Lead = StartOf[b]
      BY <1>3, <1>5, <1>6, <1>7, <1>8, <1>14, <2>2
    <2>4. StartOf[b] - Lead = r
      BY <1>3, <2>3
    <2> QED
      BY <1>2, <1>6, <1>14, <2>4
  <1> QED
    BY <1>13, <1>14

LEMMA NobodyForgotten ==
    ASSUME RemindersInv
    PROVE  EveryoneIsReminded
  <1>1. SUFFICES ASSUME faults = 0, Quiescent, ~due, NEW b \in BookingIds \ leftOut,
                        OughtToKnow(b)
                 PROVE  reminded[b] > 0
    BY DEF EveryoneIsReminded
  <1>2. /\ status[b] = "CONFIRMED"
        /\ confirmedAt[b] + Lead + Period + Offset(b) < StartOf[b]
        /\ time + Lead >= StartOf[b] - Offset(b)
        /\ Offset(b) = 0 \/ \A t \in ran : t % Period <= Offset(b)
    BY <1>1 DEF OughtToKnow
  <1>3. /\ Period \in Nat \ {0} /\ Lead \in Nat /\ time \in Nat /\ ran \subseteq Nat
        /\ confirmedAt[b] \in Nat /\ RunsKept /\ WindowsKept
    BY RemindersBounds DEF RemindersInv, RemindersTypeOK
  <1>4. PICK q, o \in Nat : /\ o = Offset(b) /\ o < Period
                            /\ StartOf[b] = q * Period + o /\ q * Period \in Nat
    BY StartInPeriods
  <1>5. PICK n, p, l \in Nat : /\ n = time \div Period /\ p = time % Period /\ p < Period
                               /\ Lead = l * Period /\ time + Lead = (n + l) * Period + p
                               /\ (n + l) * Period \in Nat
    BY <1>3, RunInPeriods
  <1>6. /\ confirmedAt[b] + Lead + Period < q * Period
        /\ q * Period <= (n + l) * Period + p
    BY <1>2, <1>3, <1>4, <1>5
  <1>7. q <= n + l
    <2>1. n + l < q => (n + l + 1) * Period <= q * Period
      BY <1>3, Multiples
    <2>2. (n + l + 1) * Period = (n + l) * Period + Period
      BY <1>3
    <2> QED
      BY <1>3, <1>4, <1>5, <1>6, <2>1, <2>2
  <1>8. l + 1 < q
    <2>1. q < l + 1 => (q + 1) * Period <= (l + 1) * Period
      BY <1>3, Multiples
    <2>2. /\ (l + 1) * Period = l * Period + Period
          /\ (q + 1) * Period = q * Period + Period
          /\ l * Period \in Nat
      BY <1>3
    <2>3. q # l + 1
      BY <1>3, <1>5, <1>6, <2>2
    <2> QED
      BY <1>3, <1>4, <1>5, <1>6, <2>1, <2>2, <2>3
  \* The run of the period in which the window holds the start.
  <1>9. PICK d \in {0, 1} : d = IF o = 0 THEN 1 ELSE 0
    OBVIOUS
  <1>10. q - d - l \in 0..n
    BY <1>7, <1>8, <1>9
  <1>11. PICK t \in ran : t \div Period = q - d - l
    <2>1. \A k \in 0..n : (due /\ k = n) \/ \E t \in ran : t \div Period = k
      BY <1>1, <1>3, <1>5 DEF RunsKept
    <2> QED
      BY <1>1, <1>10, <2>1
  <1>12. t \in Nat
    BY <1>3
  <1>13. PICK k, m, h \in Nat : /\ k = t \div Period /\ m = t % Period /\ m < Period
                                /\ Lead = h * Period /\ t + Lead = (k + h) * Period + m
                                /\ (k + h) * Period \in Nat
    BY <1>12, RunInPeriods
  <1>14. t + Lead = (q - d) * Period + m /\ (q - d) * Period \in Nat
    <2>1. k * Period + h * Period = (k + h) * Period
      BY <1>3
    <2>2. k * Period + l * Period = (k + l) * Period
      BY <1>3
    <2>3. k + l = q - d
      BY <1>10, <1>11, <1>13
    <2>4. h * Period = l * Period
      BY <1>5, <1>13
    <2> QED
      BY <1>13, <2>1, <2>2, <2>3, <2>4
  <1>15. (q - d) * Period = IF o = 0 THEN q * Period - Period ELSE q * Period
    BY <1>3, <1>4, <1>9
  <1>16. WindowAt(t, b) /\ confirmedAt[b] < t
    <2>1. CASE o = 0
      BY <1>3, <1>4, <1>6, <1>12, <1>13, <1>14, <1>15, <2>1 DEF WindowAt
    <2>2. CASE o # 0
      <3>1. m <= o
        BY <1>2, <1>4, <1>13, <2>2
      <3> QED
        BY <1>3, <1>4, <1>6, <1>12, <1>13, <1>14, <1>15, <2>2, <3>1 DEF WindowAt
    <2> QED
      BY <2>1, <2>2
  <1>17. Known(b)
    BY <1>1, <1>2, <1>3, <1>16 DEF WindowsKept
  <1> QED
    BY <1>1, <1>17 DEF Known, Reminds, Quiescent, At

-----------------------------------------------------------------------------
(* The features together *)

\* The feature a behaviour is about keeps its invariant; the variables of the
\* others stay as they were.  The lists need no request.
CommunityInv ==
    /\ feature \in Features
    /\ IF feature = "chat" THEN ChatInv ELSE ChatInit
    /\ IF feature = "reviews" THEN ReviewsInv ELSE ReviewsInit
    /\ IF feature = "favorites" THEN FavoritesInv ELSE FavoritesInit
    /\ IF feature = "reminders" THEN RemindersInv ELSE RemindersInit
    /\ ListingsInv

LEMMA CommunityStart ==
    ASSUME Init
    PROVE  CommunityInv
  BY ChatStart, ReviewsStart, FavoritesStart, RemindersStart, ListingsStart
     DEF Init, CommunityInv

LEMMA ChatUnused ==
    ASSUME ChatInit, UNCHANGED chatVars
    PROVE  ChatInit'
  BY DEF ChatInit, chatVars, talked

LEMMA ReviewsUnused ==
    ASSUME ReviewsInit, UNCHANGED reviewVars
    PROVE  ReviewsInit'
  BY DEF ReviewsInit, reviewVars

LEMMA FavoritesUnused ==
    ASSUME FavoritesInit, UNCHANGED favoriteVars
    PROVE  FavoritesInit'
  BY DEF FavoritesInit, favoriteVars

LEMMA RemindersUnused ==
    ASSUME RemindersInit, UNCHANGED reminderVars
    PROVE  RemindersInit'
  BY DEF RemindersInit, reminderVars

LEMMA CommunityIdle ==
    ASSUME CommunityInv, UNCHANGED vars
    PROVE  CommunityInv'
  <1>1. /\ UNCHANGED feature /\ UNCHANGED requestVars /\ UNCHANGED chatVars
        /\ UNCHANGED reviewVars /\ UNCHANGED favoriteVars /\ UNCHANGED reminderVars
        /\ UNCHANGED listingVars
    BY DEF vars
  <1>2. (IF feature = "chat" THEN ChatInv ELSE ChatInit)'
    BY <1>1, ChatIdle, ChatUnused DEF CommunityInv
  <1>3. (IF feature = "reviews" THEN ReviewsInv ELSE ReviewsInit)'
    BY <1>1, ReviewsIdle, ReviewsUnused DEF CommunityInv
  <1>4. (IF feature = "favorites" THEN FavoritesInv ELSE FavoritesInit)'
    BY <1>1, FavoritesIdle, FavoritesUnused DEF CommunityInv
  <1>5. (IF feature = "reminders" THEN RemindersInv ELSE RemindersInit)'
    BY <1>1, RemindersIdle, RemindersUnused DEF CommunityInv
  <1> QED
    BY <1>1, <1>2, <1>3, <1>4, <1>5, ListingsIdle DEF CommunityInv

LEMMA CommunityStep ==
    ASSUME CommunityInv, Next
    PROVE  CommunityInv'
  <1>1. UNCHANGED feature /\ feature' \in Features
    BY DEF CommunityInv, Next
  <1>2. CASE /\ feature = "chat" /\ ChatNext
             /\ UNCHANGED <<reviewVars, favoriteVars, reminderVars, listingVars>>
    BY <1>1, <1>2, ChatStepKeeps, ReviewsUnused, FavoritesUnused, RemindersUnused,
       ListingsIdle DEF CommunityInv
  <1>3. CASE /\ feature = "reviews" /\ ReviewsNext
             /\ UNCHANGED <<chatVars, favoriteVars, reminderVars, listingVars>>
    BY <1>1, <1>3, ReviewsStepKeeps, ChatUnused, FavoritesUnused, RemindersUnused,
       ListingsIdle DEF CommunityInv
  <1>4. CASE /\ feature = "favorites" /\ FavoritesNext
             /\ UNCHANGED <<chatVars, reviewVars, reminderVars, listingVars>>
    BY <1>1, <1>4, FavoritesStep, ChatUnused, ReviewsUnused, RemindersUnused,
       ListingsIdle DEF CommunityInv
  <1>5. CASE /\ feature = "reminders" /\ RemindersNext
             /\ UNCHANGED <<chatVars, reviewVars, favoriteVars, listingVars>>
    BY <1>1, <1>5, RemindersStep, ChatUnused, ReviewsUnused, FavoritesUnused,
       ListingsIdle DEF CommunityInv
  <1>6. CASE /\ feature = "lists" /\ ListingsNext
             /\ UNCHANGED <<requestVars, chatVars, reviewVars, favoriteVars, reminderVars>>
    BY <1>1, <1>6, ListingsStep, ChatUnused, ReviewsUnused, FavoritesUnused,
       RemindersUnused DEF CommunityInv
  <1> QED
    BY <1>2, <1>3, <1>4, <1>5, <1>6 DEF Next

(***************************************************************************)
(* The inductive invariant of chat, reviews, favorites, reminders and      *)
(* paged lists holds in every reachable state.                             *)
(***************************************************************************)
THEOREM CommunityInvariant == Spec => []CommunityInv
  <1>1. Init => CommunityInv
    BY CommunityStart
  <1>2. CommunityInv /\ [Next]_vars => CommunityInv'
    BY CommunityStep, CommunityIdle
  <1> QED
    BY <1>1, <1>2, PTL DEF Spec

(***************************************************************************)
(* Rows, rooms, requests and histories of every feature have their types   *)
(* in every reachable state.                                               *)
(***************************************************************************)
THEOREM CommunityTypeCorrect == Spec => []TypeOK
  <1>1. CommunityInv => TypeOK
    BY DEF CommunityInv, TypeOK, ChatInv, ChatTyped, ReviewsInv, ReviewsTyped,
           FavoritesInv, RemindersInv, ListingsInv
  <1> QED
    BY <1>1, CommunityInvariant, PTL

\* What a feature nobody uses promises, it keeps.
LEMMA NothingStarted ==
    /\ ChatInit => /\ OneConversationPerSubject /\ PreviewIsNewest
                   /\ ReadMeansSeen /\ NoGapInTheRoom
    /\ ReviewsInit => OneReviewPerBooking /\ RatingIsAverage
    /\ FavoritesInit => EveryPressCounts
    /\ RemindersInit => EveryoneIsReminded /\ RemindedOnce
  <1>1. ASSUME ChatInit
        PROVE  /\ OneConversationPerSubject /\ PreviewIsNewest
               /\ ReadMeansSeen /\ NoGapInTheRoom
    <2>1. Opened = {}
      BY <1>1 DEF ChatInit, Opened
    <2> QED
      BY <2>1 DEF OneConversationPerSubject, PreviewIsNewest, ReadMeansSeen, NoGapInTheRoom
  <1>2. ASSUME ReviewsInit
        PROVE  OneReviewPerBooking /\ RatingIsAverage
    <2>1. Written = {}
      BY <1>2 DEF ReviewsInit, Written
    <2>2. \A v \in Venues : rating[v] = {} /\ ReviewsOf(v) = {}
      BY <1>2, <2>1 DEF ReviewsInit, ReviewsOf
    <2> QED
      BY <2>1, <2>2 DEF OneReviewPerBooking, RatingIsAverage
  <1>3. FavoritesInit => EveryPressCounts
    BY DEF FavoritesInit, EveryPressCounts
  <1>4. ASSUME RemindersInit
        PROVE  EveryoneIsReminded /\ RemindedOnce
    <2>1. \A b \in BookingIds : status[b] = "HOLD" /\ reminded[b] = 0
      BY <1>4 DEF RemindersInit
    <2> QED
      BY <2>1 DEF EveryoneIsReminded, OughtToKnow, RemindedOnce
  <1> QED
    BY <1>1, <1>2, <1>3, <1>4

(***************************************************************************)
(* Whatever the requests do between looking for a conversation and         *)
(* creating one: two about the same subject come only of two requests that *)
(* both looked before either created.                                      *)
(***************************************************************************)
THEOREM SubjectHasOneChat == Spec => []OneConversationPerSubject
  <1>1. CommunityInv => OneConversationPerSubject
    BY NothingStarted DEF CommunityInv, ChatInv, SubjectsKept
  <1> QED
    BY <1>1, CommunityInvariant, PTL

(***************************************************************************)
(* At rest the preview of a conversation is its newest message, unless two *)
(* sends overlapped in it or a statement failed.                           *)
(***************************************************************************)
THEOREM PreviewShowsNewest == Spec => []PreviewIsNewest
  <1>1. CommunityInv => PreviewIsNewest
    BY NothingStarted, ChatAtRest DEF CommunityInv
  <1> QED
    BY <1>1, CommunityInvariant, PTL

(***************************************************************************)
(* Read after the preview was stamped means shown: for every page size,    *)
(* number of readers, spacing of the stamps and order in which the         *)
(* stamped updates arrive.                                                 *)
(***************************************************************************)
THEOREM MarkedMeansShown == Spec => []ReadMeansSeen
  <1>1. CommunityInv => ReadMeansSeen
    BY NothingStarted, ChatAtRest DEF CommunityInv
  <1> QED
    BY <1>1, CommunityInvariant, PTL

(***************************************************************************)
(* Joining the room before reading the first page leaves no gap between    *)
(* what is fetched and what is heard.                                      *)
(***************************************************************************)
THEOREM RoomLeavesNoGap == Spec => []NoGapInTheRoom
  <1>1. CommunityInv => NoGapInTheRoom
    BY NothingStarted, ChatAtRest DEF CommunityInv
  <1> QED
    BY <1>1, CommunityInvariant, PTL

(***************************************************************************)
(* The look before the insert and the unique index together let a booking  *)
(* be reviewed once.                                                       *)
(***************************************************************************)
THEOREM BookingReviewedOnce == Spec => []OneReviewPerBooking
  <1>1. CommunityInv => OneReviewPerBooking
    BY NothingStarted DEF CommunityInv, ReviewsInv
  <1> QED
    BY <1>1, CommunityInvariant, PTL

(***************************************************************************)
(* At rest a venue's stars are the average of all its reviews, unless two  *)
(* requests held an average of it at once or a statement failed.           *)
(***************************************************************************)
THEOREM StarsAreAverage == Spec => []RatingIsAverage
  <1>1. CommunityInv => RatingIsAverage
    BY NothingStarted, RatingsAtRest DEF CommunityInv
  <1> QED
    BY <1>1, CommunityInvariant, PTL

(***************************************************************************)
(* A reply is never written over, unless two replies were under way.       *)
(***************************************************************************)
THEOREM RepliesStand == Spec => ReplyStands
  <1> DEFINE Stands == \A r \in Written \ answered :
                 reviews[r].reply # None => reviews'[r].reply = reviews[r].reply
  <1>1. CommunityInv /\ [Next]_vars => [Stands]_reviews
    <2>1. ASSUME CommunityInv, Next
          PROVE  Stands \/ UNCHANGED reviews
      <3>1. CASE feature = "reviews" /\ ReviewsNext
        BY <2>1, <3>1, ReviewsStepKeeps DEF CommunityInv
      <3>2. CASE UNCHANGED reviewVars
        BY <3>2 DEF reviewVars
      <3> QED
        BY <2>1, <3>1, <3>2 DEF Next
    <2>2. UNCHANGED vars => UNCHANGED reviews
      BY DEF vars, reviewVars
    <2> QED
      BY <2>1, <2>2
  <1> QED
    BY <1>1, CommunityInvariant, PTL DEF Spec, ReplyStands

(***************************************************************************)
(* A venue is a favorite iff an odd number of presses succeeded, unless    *)
(* two requests about it overlapped.                                       *)
(***************************************************************************)
THEOREM PressesCount == Spec => []EveryPressCounts
  <1>1. CommunityInv => EveryPressCounts
    BY NothingStarted DEF CommunityInv, FavoritesInv
  <1> QED
    BY <1>1, CommunityInvariant, PTL

(***************************************************************************)
(* With no run lost and nothing rejected, a booking confirmed before its   *)
(* window opens is reminded of, for every period, lead and start.          *)
(***************************************************************************)
THEOREM BookingIsRemindedOf == Spec => []EveryoneIsReminded
  <1>1. CommunityInv => EveryoneIsReminded
    BY NothingStarted, NobodyForgotten DEF CommunityInv
  <1> QED
    BY <1>1, CommunityInvariant, PTL

(***************************************************************************)
(* When a second reminder goes out, a run was exactly on the dot, or at    *)
(* least as late as the start is off.                                      *)
(***************************************************************************)
THEOREM SecondReminderIsLate == Spec => []RemindedOnce
  <1>1. CommunityInv => RemindedOnce
    BY NothingStarted, RemindedTwice DEF CommunityInv
  <1> QED
    BY <1>1, CommunityInvariant, PTL

(***************************************************************************)
(* An undisturbed walk through the pages of a list shows every row the     *)
(* list had when it began, for every page size and number of arrivals.     *)
(***************************************************************************)
THEOREM WalkIsComplete == Spec => []WalkSkipsNothing
  <1>1. CommunityInv => WalkSkipsNothing
    BY DEF CommunityInv, ListingsInv
  <1> QED
    BY <1>1, CommunityInvariant, PTL
=============================================================================
