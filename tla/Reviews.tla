------------------------------ MODULE Reviews -------------------------------
(***************************************************************************)
(* Reviews of completed bookings, the owner's reply, and the average kept  *)
(* in the row of the venue: read in one statement, written in the next.    *)
(***************************************************************************)
EXTENDS Requests, FiniteSetsExt

CONSTANTS Stays,      \* completed bookings, each by one user
          VenueOf,    \* VenueOf[b]: where
          MaxRating,  \* five stars
          Replies     \* what an owner may answer

Venues == {VenueOf[b] : b \in Stays}
ReviewIds == 1..Cardinality(Stays)

ASSUME ReviewsBounds == MaxRating \in Nat \ {0}

VARIABLES reviews,   \* reviews[r]: row r, in order of insertion, or None
          rating,    \* rating[v]: the rows venue.rating is the average of
          averaged,  \* history: venues whose average two requests had in hand
          answered   \* history: reviews two replies were made to at once

reviewVars == <<reviews, rating, averaged, answered>>

Review == [booking : Stays, rating : 1..MaxRating, reply : Replies \cup {None}]

ASSUME NoReviewAssumption == None \notin Review

ReviewCall ==
    [at : {"review.create"}, booking : Stays, rating : 1..MaxRating]
    \cup [at : {"rating.read"}, venue : Venues]
    \cup [at : {"rating.write"}, venue : Venues, rows : SUBSET ReviewIds]
    \cup [at : {"reply.write"}, review : ReviewIds, reply : Replies]

ReviewsTypeOK ==
    /\ reviews \in [ReviewIds -> Review \cup {None}]
    /\ rating \in [Venues -> SUBSET ReviewIds]
    /\ RequestsTypeOK(ReviewCall)
    /\ averaged \subseteq Venues /\ answered \subseteq ReviewIds

ReviewsInit ==
    /\ reviews = [r \in ReviewIds |-> None]
    /\ rating = [v \in Venues |-> {}]
    /\ averaged = {} /\ answered = {}

Written == {r \in ReviewIds : reviews[r] # None}

findByBookingId(b) == {r \in Written : reviews[r].booking = b}

ReviewsOf(v) == {r \in Written : VenueOf[reviews[r].booking] = v}

\* The aggregate, as the rows it goes over: the stars of a row never change.
calculateVenueAverageRating(v) == ReviewsOf(v)

-----------------------------------------------------------------------------
(* POST /bookings/:id/reviews *)

\* Any number of stars.
BeginReview_AnyStars(c, b, stars) ==
    /\ findByBookingId(b) = {}
    /\ Begin(c, [at |-> "review.create", booking |-> b, rating |-> stars])
    /\ UNCHANGED reviewVars

\* Between one and five stars, for a booking that has no review yet.
BeginReview(c, b, stars) ==
    /\ stars \in 1..MaxRating
    /\ findByBookingId(b) = {}
    /\ Begin(c, [at |-> "review.create", booking |-> b, rating |-> stars])
    /\ UNCHANGED reviewVars

\* Nothing but the lookup keeps a booking from two reviews.
UniqueBooking_Looked(b) == TRUE

\* The unique index on bookingId.
UniqueBooking(b) == findByBookingId(b) = {}

\* The average is left as it is.
CreateReview_Only(c) ==
    /\ At(c, "review.create")
    /\ UniqueBooking(call[c].booking)
    /\ \E r \in ReviewIds :
        /\ IsNextRow(r, Written)
        /\ reviews' = [reviews EXCEPT ![r] =
               [booking |-> call[c].booking, rating |-> call[c].rating,
                reply |-> None]]
    /\ Finish(c)
    /\ UNCHANGED <<rating, averaged, answered>>

CreateReview(c) ==
    /\ At(c, "review.create")
    /\ UniqueBooking(call[c].booking)
    /\ \E r \in ReviewIds :
        /\ IsNextRow(r, Written)
        /\ reviews' = [reviews EXCEPT ![r] =
               [booking |-> call[c].booking, rating |-> call[c].rating,
                reply |-> None]]
    /\ Continue(c, [at |-> "rating.read", venue |-> VenueOf[call[c].booking]])
    /\ UNCHANGED <<rating, averaged, answered>>

\* Somebody reviewed the booking since the lookup: Prisma throws.
ReviewConflict(c) ==
    /\ At(c, "review.create")
    /\ findByBookingId(call[c].booking) # {}
    /\ Finish(c)
    /\ UNCHANGED reviewVars

WritingRating(v) ==
    {d \in Clients : At(d, "rating.write") /\ call[d].venue = v}

ReadAverage(c) ==
    /\ At(c, "rating.read")
    /\ Continue(c, [at |-> "rating.write", venue |-> call[c].venue,
                    rows |-> calculateVenueAverageRating(call[c].venue)])
    /\ averaged' = IF WritingRating(call[c].venue) # {}
                   THEN averaged \cup {call[c].venue} ELSE averaged
    /\ UNCHANGED <<reviews, rating, answered>>

WriteRating(c) ==
    /\ At(c, "rating.write")
    /\ rating' = [rating EXCEPT ![call[c].venue] = call[c].rows]
    /\ Finish(c)
    /\ UNCHANGED <<reviews, averaged, answered>>

-----------------------------------------------------------------------------
(* POST /reviews/:id/reply, by the owner of the venue *)

\* Whether the review has its reply is not looked at.
BeginReply_Anyway(c, r, reply) ==
    /\ r \in Written
    /\ Begin(c, [at |-> "reply.write", review |-> r, reply |-> reply])
    /\ UNCHANGED reviewVars

BeginReply(c, r, reply) ==
    /\ r \in Written
    /\ reviews[r].reply = None
    /\ Begin(c, [at |-> "reply.write", review |-> r, reply |-> reply])
    /\ answered' = IF \E d \in Clients : At(d, "reply.write") /\ call[d].review = r
                   THEN answered \cup {r} ELSE answered
    /\ UNCHANGED <<reviews, rating, averaged>>

\* The update does not ask again whether there is a reply.
AddReply(c) ==
    /\ At(c, "reply.write")
    /\ reviews' = [reviews EXCEPT ![call[c].review] =
                      [@ EXCEPT !.reply = call[c].reply]]
    /\ Finish(c)
    /\ UNCHANGED <<rating, averaged, answered>>

-----------------------------------------------------------------------------
ReviewsStep(c) ==
    \/ CreateReview(c) \/ ReviewConflict(c) \/ ReadAverage(c) \/ WriteRating(c)
    \/ AddReply(c)

ReviewsNext ==
    \E c \in Clients :
        \/ ReviewsStep(c)
        \/ Reject(c) /\ UNCHANGED reviewVars
        \/ \E b \in Stays, stars \in 0..(MaxRating + 1) : BeginReview(c, b, stars)
        \/ \E r \in ReviewIds, reply \in Replies : BeginReply(c, r, reply)

-----------------------------------------------------------------------------
(***************************************************************************)
(* One review per booking, although the handler looks first and inserts    *)
(* later.                                                                  *)
(***************************************************************************)
OneReviewPerBooking ==
    \A q, r \in Written : reviews[q].booking = reviews[r].booking => q = r

Stars(rows) == MapThenSumSet(LAMBDA r : reviews[r].rating, rows)

(***************************************************************************)
(* The stars a venue is listed with are the average of its reviews, unless *)
(* two requests held an average of it at the same time (the older one may  *)
(* be written last), or a statement failed.                                *)
(***************************************************************************)
RatingIsAverage ==
    Quiescent /\ faults = 0 =>
        \A v \in Venues \ averaged :
            LET all == ReviewsOf(v)
            IN /\ Stars(rating[v]) * Cardinality(all) = Stars(all) * Cardinality(rating[v])
               /\ all # {} => rating[v] # {}

(***************************************************************************)
(* "Review already has a reply": the owner's word stands once given,       *)
(* unless two replies were under way at once.                              *)
(***************************************************************************)
ReplyStands ==
    [][\A r \in Written \ answered :
            reviews[r].reply # None => reviews'[r].reply = reviews[r].reply]_reviews
=============================================================================
