----------------------------- MODULE Favorites ------------------------------
(***************************************************************************)
(* A user's favorite venues: add, remove and toggle all look first and     *)
(* write in a second statement.                                            *)
(***************************************************************************)
EXTENDS Requests

CONSTANT Pairs  \* a user and a venue

VARIABLES favorites,  \* the rows
          presses,    \* history: per pair, answered additions and removals
          tangled     \* history: pairs two requests were at work on at once

favoriteVars == <<favorites, presses, tangled>>

FavoriteCall == [at : {"favorite.add", "favorite.remove"}, pair : Pairs]

FavoritesTypeOK ==
    /\ favorites \subseteq Pairs /\ tangled \subseteq Pairs
    /\ presses \in [Pairs -> Nat]
    /\ RequestsTypeOK(FavoriteCall)

FavoritesInit ==
    /\ favorites = {} /\ tangled = {}
    /\ presses = [p \in Pairs |-> 0]

exists(p) == p \in favorites

BeginWrite(c, p, stage) ==
    /\ Begin(c, [at |-> stage, pair |-> p])
    /\ tangled' = IF \E d \in Clients : ~At(d, "idle") /\ call[d].pair = p
                  THEN tangled \cup {p} ELSE tangled
    /\ UNCHANGED <<favorites, presses>>

\* POST /venues/:id/favorite refuses a venue that is a favorite already.
AddFavorite(c, p) == ~exists(p) /\ BeginWrite(c, p, "favorite.add")

\* No look at what is there: deleting nothing is no error.
RemoveFavorite_Blindly(c, p) == BeginWrite(c, p, "favorite.remove")

\* DELETE /venues/:id/favorite refuses one that is not.
RemoveFavorite(c, p) == exists(p) /\ BeginWrite(c, p, "favorite.remove")

\* POST /venues/:id/favorite/toggle does what there is to do.
ToggleFavorite(c, p) ==
    BeginWrite(c, p, IF exists(p) THEN "favorite.remove" ELSE "favorite.add")

Pressed(c) == presses' = [presses EXCEPT ![call[c].pair] = @ + 1]

\* The pair is unique in the table.
Add(c) ==
    /\ At(c, "favorite.add") /\ ~exists(call[c].pair)
    /\ favorites' = favorites \cup {call[c].pair}
    /\ Pressed(c)
    /\ Finish(c)
    /\ UNCHANGED tangled

\* The row is there by now: Prisma throws.
AddConflict(c) ==
    /\ At(c, "favorite.add") /\ exists(call[c].pair)
    /\ Finish(c)
    /\ UNCHANGED favoriteVars

\* deleteMany is content with nothing to delete.
Remove(c) ==
    /\ At(c, "favorite.remove")
    /\ favorites' = favorites \ {call[c].pair}
    /\ Pressed(c)
    /\ Finish(c)
    /\ UNCHANGED tangled

FavoritesNext ==
    \E c \in Clients :
        \/ Add(c) \/ AddConflict(c) \/ Remove(c)
        \/ Reject(c) /\ UNCHANGED favoriteVars
        \/ \E p \in Pairs : \/ AddFavorite(c, p) \/ RemoveFavorite(c, p)
                            \/ ToggleFavorite(c, p)

-----------------------------------------------------------------------------
(***************************************************************************)
(* Every press that was answered with success changed the heart: a venue   *)
(* is a favorite iff an odd number of them were, unless two requests about *)
(* it overlapped (two removals delete one row and both succeed).           *)
(***************************************************************************)
EveryPressCounts ==
    \A p \in Pairs \ tangled : (p \in favorites) = (presses[p] % 2 = 1)
=============================================================================
