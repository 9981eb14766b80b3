-------------------------- MODULE CommunitySystem ---------------------------
(***************************************************************************)
(* The features around a booking.  They share no row, so a behaviour is    *)
(* about one of them: chat, reviews, favorites, reminders or paged lists.  *)
(***************************************************************************)
EXTENDS Chat, Reviews, Favorites, Reminders, Listings

VARIABLE feature

Features == {"chat", "reviews", "favorites", "reminders", "lists"}

vars == <<feature, requestVars, chatVars, reviewVars, favoriteVars, reminderVars,
          listingVars>>

TypeOK ==
    /\ feature = "chat" => ChatTypeOK
    /\ feature = "reviews" => ReviewsTypeOK
    /\ feature = "favorites" => FavoritesTypeOK
    /\ feature = "reminders" => RemindersTypeOK
    /\ feature = "lists" => ListingsTypeOK

Init ==
    /\ feature \in Features
    /\ RequestsInit
    /\ ChatInit /\ ReviewsInit /\ FavoritesInit /\ RemindersInit /\ ListingsInit
    /\ feature # "lists" => list = MessagesList /\ listed = {}

Next ==
    /\ UNCHANGED feature
    /\ \/ /\ feature = "chat" /\ ChatNext
          /\ UNCHANGED <<reviewVars, favoriteVars, reminderVars, listingVars>>
       \/ /\ feature = "reviews" /\ ReviewsNext
          /\ UNCHANGED <<chatVars, favoriteVars, reminderVars, listingVars>>
       \/ /\ feature = "favorites" /\ FavoritesNext
          /\ UNCHANGED <<chatVars, reviewVars, reminderVars, listingVars>>
       \/ /\ feature = "reminders" /\ RemindersNext
          /\ UNCHANGED <<chatVars, reviewVars, favoriteVars, listingVars>>
       \/ /\ feature = "lists" /\ ListingsNext
          /\ UNCHANGED <<requestVars, chatVars, reviewVars, favoriteVars, reminderVars>>

Spec == Init /\ [][Next]_vars
=============================================================================
