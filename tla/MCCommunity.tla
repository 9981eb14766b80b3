---------------------------- MODULE MCCommunity -----------------------------
(***************************************************************************)
(* An instance of CommunitySystem for TLC.                                 *)
(***************************************************************************)
EXTENDS CommunitySystem, TLC

CONSTANTS ann, oz, b1, b2, v1

\* A booking of ann, an inquiry by her, and a booking of the owner himself.
MCSubjects ==
    {[type |-> "BOOKING", of |-> b1, customer |-> ann, owner |-> oz],
     [type |-> "VENUE_INQUIRY", of |-> v1, customer |-> ann, owner |-> oz],
     [type |-> "BOOKING", of |-> b2, customer |-> oz, owner |-> oz]}

MCVenueOf == [b \in {b1, b2} |-> v1]

\* One start on a multiple of the period, one off it.
MCStartOf == <<6, 7>>

MCPairs == {<<ann, v1>>, <<oz, v1>>}

CommunitySymmetry == Permutations(Clients)
=============================================================================
