------------------------------ MODULE Accounts ------------------------------
(***************************************************************************)
(* Registration, login, logout, the check of a bearer token, and the state *)
(* the account use cases share.  call[c] is the request client c has in    *)
(* flight: one action per awaited call that touches users, Redis or mail.  *)
(***************************************************************************)
EXTENDS UserRepository

CONSTANTS Clients,    \* requests in flight at once
          MaxTokens,  \* bound: tokens signed
          MaxCalls,   \* bound: requests made
          MaxTime,    \* bound: when the clock stops
          MaxFaults,  \* bound: calls that fail or processes that die
          TokenTTL,   \* jwt.expiresIn, in ticks
          OtpTTL,     \* otp.ttlSeconds, in ticks
          Codes,      \* the one-time passwords the generator can draw
          None        \* null

TokenIds == 1..MaxTokens

TokenKeys == {<<"token:blacklist", t>> : t \in TokenIds}
OtpKeys == {<<"otp:forgot_password", u>> : u \in UserIds}

VARIABLES now, redis

INSTANCE RedisService WITH Keys <- TokenKeys \cup OtpKeys,
                           Values <- Codes \cup {"revoked"}, Numerals <- Codes,
                           Missing <- None

VARIABLES token,     \* token[t]: who it is for and its exp
          call,      \* call[c]: the request client c waits for
          mail,      \* mail[u]: the codes in u's mailbox
          calls, faults,
          ended,     \* history: tokens whose logout or password change is done
          unwritten  \* history: those for which no blacklist entry was written

history == <<ended, unwritten>>

vars == <<users, now, redis, token, call, mail, calls, faults, history>>

ASSUME AccountsBounds ==
    /\ {MaxTokens, MaxCalls, MaxTime, MaxFaults} \subseteq Nat
    /\ {TokenTTL, OtpTTL} \subseteq Nat \ {0}
ASSUME NoneAssumption ==
    /\ None \notin Codes /\ "revoked" \notin Codes /\ None # "revoked"
    /\ None \notin UserRow \cup Phones \cup Passwords
ASSUME NumbersAreNoStrings == \A code \in Codes : NumberOf(code) \notin Codes

blacklistKey(t) == <<"token:blacklist", t>>
otpKey(u) == <<"otp:forgot_password", u>>

\* Protected use cases, by the first call they make behind the guard.
Behind == {"change.read", "profile.write", "me.read"}
Protected == {"logout"} \cup Behind

\* Stages of the requests that work on a user's one-time password.
OtpStages == {"reset.store", "reset.mail"}

Stages == {"idle", "register.create", "login.sign", "auth.user", "logout.add",
           "change.write", "change.revoke", "notify"} \cup Behind \cup OtpStages

Call == [at    : Stages,
         user  : UserIds \cup {0},
         token : TokenIds \cup {0},
         next  : Protected \cup {None},        \* the handler behind the guard
         ttl   : Nat,                          \* computed before the Redis call
         old   : Passwords \cup {None},        \* changePassword's oldPassword
         arg   : UserRow \cup Phones \cup Passwords \cup {None},
         code  : Codes \cup {None}]

Idle == [at |-> "idle", user |-> 0, token |-> 0, next |-> None, ttl |-> 0,
         old |-> None, arg |-> None, code |-> None]

TypeOK ==
    /\ RedisTypeOK /\ UsersTypeOK
    /\ token \in [TokenIds -> [sub : UserIds \cup {0}, exp : Nat]]
    /\ call \in [Clients -> Call]
    /\ mail \in [UserIds -> SUBSET Codes]
    /\ calls \in Nat /\ faults \in Nat
    /\ ended \subseteq TokenIds /\ unwritten \subseteq TokenIds

Init ==
    /\ RedisInit /\ UsersInit
    /\ token = [t \in TokenIds |-> [sub |-> 0, exp |-> 0]]
    /\ call = [c \in Clients |-> Idle]
    /\ mail = [u \in UserIds |-> {}]
    /\ calls = 0 /\ faults = 0
    /\ ended = {} /\ unwritten = {}

-----------------------------------------------------------------------------
At(c, stage) == call[c].at = stage

Quiescent == \A c \in Clients : At(c, "idle")

Begin(c, r) ==
    /\ At(c, "idle")
    /\ calls < MaxCalls
    /\ calls' = calls + 1
    /\ call' = [call EXCEPT ![c] = r]

Goto(c, stage) == call' = [call EXCEPT ![c] = [@ EXCEPT !.at = stage]]

Finish(c) == call' = [call EXCEPT ![c] = Idle]

Issued == {t \in TokenIds : token[t].sub # 0}

IsNextToken(t) == t \notin Issued /\ \A s \in TokenIds : s < t => s \in Issued

\* The signature and exp of t are good at this moment.
Verifies(t) == t \in Issued /\ now < token[t].exp

\* A token for u, good for TokenTTL from now on.
sign(u) ==
    \E t \in TokenIds :
        /\ IsNextToken(t)
        /\ token' = [token EXCEPT ![t] = [sub |-> u, exp |-> now + TokenTTL]]

remaining(t) == token[t].exp - now

-----------------------------------------------------------------------------
(* POST /auth/register *)

\* Both lookups find nobody; a taken e-mail or phone is refused at once.
BeginRegister(c, email, phone, password) ==
    /\ findByEmail(email) = {} /\ findByPhone(phone) = {}
    /\ Begin(c, [Idle EXCEPT !.at = "register.create",
                    !.arg = [email |-> email, phone |-> phone,
                             password |-> password, status |-> "ACTIVE"]])
    /\ UNCHANGED <<users, now, redis, token, mail, faults, history>>

RegisterCreate(c) ==
    /\ At(c, "register.create")
    /\ \E u \in UserIds : create(u, call[c].arg) /\ sign(u)
    /\ Finish(c)
    /\ UNCHANGED <<now, redis, mail, calls, faults, history>>

\* Somebody took the e-mail or the phone since the lookups: Prisma throws.
RegisterConflict(c) ==
    /\ At(c, "register.create")
    /\ ~Unique(0, call[c].arg.email, call[c].arg.phone)
    /\ Finish(c)
    /\ UNCHANGED <<users, now, redis, token, mail, calls, faults, history>>

-----------------------------------------------------------------------------
(* POST /auth/login *)

\* The row is read; the password is compared with the hash that was read.
BeginLogin(c, u, password) ==
    /\ u \in Registered
    /\ users[u].password = password
    /\ isActive(u)
    /\ Begin(c, [Idle EXCEPT !.at = "login.sign", !.user = u])
    /\ UNCHANGED <<users, now, redis, token, mail, faults, history>>

LoginSign(c) ==
    /\ At(c, "login.sign")
    /\ sign(call[c].user)
    /\ Finish(c)
    /\ UNCHANGED <<users, now, redis, mail, calls, faults, history>>

-----------------------------------------------------------------------------
(* JwtAuthGuard and JwtStrategy, before every protected handler *)

\* The token verifies and is not on the blacklist.
BeginProtected(c, t, handler, old, arg) ==
    /\ Verifies(t)
    /\ ~exists(blacklistKey(t))
    /\ Begin(c, [Idle EXCEPT !.at = "auth.user", !.token = t, !.next = handler,
                             !.old = old, !.arg = arg])
    /\ UNCHANGED <<users, now, redis, token, mail, faults, history>>

\* The user is still active, and the handler runs up to its first call.
Admit(c) ==
    /\ At(c, "auth.user") /\ call[c].next # "logout"
    /\ isActive(token[call[c].token].sub)
    /\ call' = [call EXCEPT ![c] =
                    [@ EXCEPT !.at = call[c].next,
                              !.user = token[call[c].token].sub]]
    /\ UNCHANGED <<users, now, redis, token, mail, calls, faults, history>>

Reject(c) ==
    /\ At(c, "auth.user")
    /\ ~isActive(token[call[c].token].sub)
    /\ Finish(c)
    /\ UNCHANGED <<users, now, redis, token, mail, calls, faults, history>>

-----------------------------------------------------------------------------
(* POST /users/logout *)

\* The lifetime of the entry is computed before the call to Redis; a token
\* with nothing left to live needs no entry.
AdmitLogout(c) ==
    /\ At(c, "auth.user") /\ call[c].next = "logout"
    /\ isActive(token[call[c].token].sub)
    /\ IF remaining(call[c].token) > 0
       THEN call' = [call EXCEPT ![c] = [@ EXCEPT !.at = "logout.add",
                                             !.ttl = remaining(call[c].token)]]
       ELSE Finish(c)
    /\ UNCHANGED <<users, now, redis, token, mail, calls, faults, history>>

Revoking == {"logout.add", "change.revoke"}

\* Logout answers success; for a password change the notice is next.
EndSession(c) ==
    /\ ended' = ended \cup {call[c].token}
    /\ IF At(c, "logout.add") THEN Finish(c) ELSE Goto(c, "notify")

\* The entry is written.
Revoke(c) ==
    /\ call[c].at \in Revoking
    /\ setKey(blacklistKey(call[c].token), "revoked", call[c].ttl)
    /\ unwritten' = unwritten \ {call[c].token}
    /\ EndSession(c)
    /\ UNCHANGED <<users, now, token, mail, calls, faults>>

-----------------------------------------------------------------------------
(* GET /users/me verifies the token a second time and reads one row. *)

GetMe(c) ==
    /\ At(c, "me.read")
    /\ Finish(c)
    /\ UNCHANGED <<users, now, redis, token, mail, calls, faults, history>>

(* PATCH /users/profile: full name and avatar are left out. *)

UpdateProfile(c) ==
    /\ At(c, "profile.write")
    /\ updateProfile(call[c].user, call[c].arg)
    /\ Finish(c)
    /\ UNCHANGED <<now, redis, token, mail, calls, faults, history>>

\* The phone belongs to somebody else: Prisma throws.
UpdateProfileConflict(c) ==
    /\ At(c, "profile.write")
    /\ ~Unique(call[c].user, users[call[c].user].email, call[c].arg)
    /\ Finish(c)
    /\ UNCHANGED <<users, now, redis, token, mail, calls, faults, history>>
=============================================================================
