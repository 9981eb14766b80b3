--------------------------- MODULE UserRepository ---------------------------
(***************************************************************************)
(* The users table: rows numbered in the order of insertion, and the two   *)
(* unique columns of the schema, which Postgres enforces on every write.   *)
(***************************************************************************)
EXTENDS Integers, FiniteSets

CONSTANTS MaxUsers,   \* bound: rows in the table
          Emails, Phones,
          Passwords,  \* a password and its hash are the same thing here
          NoUser

ASSUME UsersAssumption == MaxUsers \in Nat

VARIABLE users

UserIds == 1..MaxUsers

UserRow == [email : Emails, phone : Phones, password : Passwords,
            status : {"ACTIVE", "INACTIVE"}]

ASSUME NoUserAssumption == NoUser \notin UserRow

UsersTypeOK == users \in [UserIds -> UserRow \cup {NoUser}]

UsersInit == users = [u \in UserIds |-> NoUser]

Registered == {u \in UserIds : users[u] # NoUser}

findByEmail(email) == {u \in Registered : users[u].email = email}

findByPhone(phone) == {u \in Registered : users[u].phone = phone}

isActive(u) == users[u].status = "ACTIVE"

\* Were the columns not unique, the early checks of register would be all.
Unique_OnlyEmail(u, email, phone) == findByEmail(email) \subseteq {u}

\* The unique indexes on email and phone let this row u be written.
Unique(u, email, phone) ==
    /\ findByEmail(email) \subseteq {u}
    /\ findByPhone(phone) \subseteq {u}

IsNextUser(u) == u \notin Registered /\ \A v \in UserIds : v < u => v \in Registered

create(u, row) ==
    /\ IsNextUser(u)
    /\ Unique(u, row.email, row.phone)
    /\ users' = [users EXCEPT ![u] = row]

updatePassword(u, password) ==
    users' = [users EXCEPT ![u] = [@ EXCEPT !.password = password]]

updateProfile(u, phone) ==
    /\ Unique(u, users[u].email, phone)
    /\ users' = [users EXCEPT ![u] = [@ EXCEPT !.phone = phone]]
=============================================================================
