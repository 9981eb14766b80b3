--------------------------- MODULE AccountsProofs ---------------------------
(***************************************************************************)
(* Proofs about AccountsSystem for every set of clients, e-mails, phones,  *)
(* passwords and codes, every lifetime and every bound.                    *)
(***************************************************************************)
EXTENDS AccountsSystem, TLAPS

-----------------------------------------------------------------------------
(***************************************************************************)
(* Type correctness, together with what the local variables of a request   *)
(* refer to: R are the accounts there are, T the tokens that were signed.  *)
(***************************************************************************)
TokenStages == {"auth.user", "logout.add", "change.read", "change.write", "change.revoke"}

UserStages == {"login.sign", "change.write"} \cup Behind \cup OtpStages

PasswordStages == {"change.read", "change.write"}

BodyOK(handler, arg) ==
    /\ handler = "profile.write" => arg \in Phones
    /\ handler = "change.read" => arg \in Passwords

CallOK(r, R, T) ==
    /\ r.at = "register.create" => r.arg \in UserRow
    /\ r.at \in TokenStages => r.token \in T
    /\ r.at \in UserStages => r.user \in R
    /\ r.at = "auth.user" => r.next \in Protected /\ BodyOK(r.next, r.arg)
    /\ r.at = "profile.write" => r.arg \in Phones
    /\ r.at \in PasswordStages => r.arg \in Passwords
    /\ r.at \in OtpStages => r.code \in Codes

CallsOK ==
    /\ call \in [Clients -> Call]
    /\ \A c \in Clients : CallOK(call[c], Registered, Issued)

\* Whoever a token is for has an account.
TokensOK ==
    /\ token \in [TokenIds -> [sub : UserIds \cup {0}, exp : Nat]]
    /\ \A t \in Issued : token[t].sub \in Registered

\* Under the key of a one-time password there is one.
OtpKeysOK == \A k \in OtpKeys : redis[k] = Absent \/ redis[k].value \in Codes

RestOK ==
    /\ mail \in [UserIds -> SUBSET Codes]
    /\ calls \in Nat /\ faults \in Nat
    /\ ended \subseteq TokenIds /\ unwritten \subseteq TokenIds

Typed == UsersTypeOK /\ RedisTypeOK /\ OtpKeysOK /\ TokensOK /\ CallsOK /\ RestOK

LEMMA TypedIsTypeOK == Typed => TypeOK
  BY DEF Typed, TypeOK, TokensOK, CallsOK, RestOK

-----------------------------------------------------------------------------
(***************************************************************************)
(* What the operations on the stores and on a request's local variables    *)
(* preserve, whoever calls them.                                           *)
(***************************************************************************)
LEMMA IdleIsCall ==
    /\ Idle \in Call /\ Idle.at = "idle"
    /\ \A R, T : CallOK(Idle, R, T)
  BY DEF Idle, Call, Stages, CallOK, TokenStages, UserStages, PasswordStages,
         OtpStages, Behind

LEMMA CallReplaced ==
    ASSUME CallsOK, Registered \subseteq Registered', Issued \subseteq Issued',
           NEW c \in Clients, NEW r \in Call, CallOK(r, Registered', Issued'),
           call' = [call EXCEPT ![c] = r]
    PROVE  CallsOK'
  <1>1. call' \in [Clients -> Call]
    BY DEF CallsOK
  <1>2. ASSUME NEW x \in Clients PROVE CallOK(call'[x], Registered', Issued')
    <2>1. CASE x = c
      BY <2>1 DEF CallsOK
    <2>2. CASE x # c
      <3>1. call'[x] = call[x] /\ CallOK(call[x], Registered, Issued)
        BY <2>2 DEF CallsOK
      <3>2. ASSUME NEW R, NEW S, R \subseteq S, NEW T, NEW U, T \subseteq U,
                   NEW q, CallOK(q, R, T)
            PROVE  CallOK(q, S, U)
        BY <3>2 DEF CallOK
      <3> QED
        BY <3>1, <3>2
    <2> QED
      BY <2>1, <2>2
  <1> QED
    BY <1>1, <1>2 DEF CallsOK

LEMMA CallsKept ==
    ASSUME CallsOK, Registered \subseteq Registered', Issued \subseteq Issued',
           call' = call
    PROVE  CallsOK'
  <1>1. ASSUME NEW R, NEW S, R \subseteq S, NEW T, NEW U, T \subseteq U,
               NEW q, CallOK(q, R, T)
        PROVE  CallOK(q, S, U)
    BY <1>1 DEF CallOK
  <1> QED
    BY <1>1 DEF CallsOK

LEMMA FinishTyped ==
    ASSUME CallsOK, Registered \subseteq Registered', Issued \subseteq Issued',
           NEW c \in Clients, Finish(c)
    PROVE  CallsOK'
  BY IdleIsCall, CallReplaced DEF Finish

\* A request may pass from one stage to another that asks for no more.
Follows(from, to) ==
    /\ to \in Stages \ {"register.create", "auth.user", "profile.write"}
    /\ to \in TokenStages => from \in TokenStages
    /\ to \in UserStages => from \in UserStages
    /\ to \in PasswordStages => from \in PasswordStages
    /\ to \in OtpStages => from \in OtpStages

LEMMA GotoTyped ==
    ASSUME CallsOK, Registered \subseteq Registered', Issued \subseteq Issued',
           NEW c \in Clients, NEW to, Follows(call[c].at, to), Goto(c, to)
    PROVE  CallsOK'
  <1> DEFINE r == [call[c] EXCEPT !.at = to]
  <1>1. call[c] \in Call /\ CallOK(call[c], Registered, Issued)
    BY DEF CallsOK
  <1>2. r \in Call
    BY <1>1 DEF Call, Follows
  <1>3. CallOK(r, Registered', Issued')
    BY <1>1 DEF CallOK, Follows, Call
  <1>4. call' = [call EXCEPT ![c] = r]
    BY DEF Goto
  <1> HIDE DEF r
  <1> QED
    BY <1>2, <1>3, <1>4, CallReplaced

LEMMA BeginTyped ==
    ASSUME CallsOK, RestOK, UNCHANGED <<users, token>>,
           NEW c \in Clients, NEW r \in Call, CallOK(r, Registered, Issued), Begin(c, r)
    PROVE  CallsOK' /\ calls' \in Nat
  <1>1. Registered' = Registered /\ Issued' = Issued
    BY DEF Registered, Issued
  <1>2. CallsOK'
    BY <1>1, CallReplaced DEF Begin
  <1> QED
    BY <1>2 DEF Begin, RestOK

\* An insert adds one account.
LEMMA CreateTyped ==
    ASSUME UsersTypeOK, NEW u \in UserIds, NEW row \in UserRow, create(u, row)
    PROVE  /\ UsersTypeOK'
           /\ Registered' = Registered \cup {u}
           /\ users'[u] = row
           /\ \A v \in UserIds \ {u} : users'[v] = users[v]
  <1>1. users' = [users EXCEPT ![u] = row] /\ row # NoUser
    BY NoUserAssumption DEF create
  <1>2. users'[u] = row /\ \A v \in UserIds \ {u} : users'[v] = users[v]
    BY <1>1 DEF UsersTypeOK
  <1>3. UsersTypeOK'
    BY <1>1 DEF UsersTypeOK
  <1>4. Registered' = Registered \cup {u}
    BY <1>1, <1>2 DEF Registered
  <1> QED
    BY <1>2, <1>3, <1>4

\* A write to one account keeps the others.
LEMMA RowReplaced ==
    ASSUME UsersTypeOK, NEW u \in Registered, NEW row \in UserRow,
           users' = [users EXCEPT ![u] = row]
    PROVE  /\ UsersTypeOK'
           /\ Registered' = Registered
           /\ users'[u] = row
           /\ \A v \in UserIds \ {u} : users'[v] = users[v]
  <1>1. u \in UserIds /\ row # NoUser
    BY NoUserAssumption DEF Registered
  <1>2. users'[u] = row /\ \A v \in UserIds \ {u} : users'[v] = users[v]
    BY <1>1 DEF UsersTypeOK
  <1>3. UsersTypeOK'
    BY <1>1 DEF UsersTypeOK
  <1>4. Registered' = Registered
    BY <1>1, <1>2 DEF Registered
  <1> QED
    BY <1>2, <1>3, <1>4

LEMMA SignTyped ==
    ASSUME TokensOK, RedisTypeOK, NEW u \in UserIds, sign(u)
    PROVE  /\ token' \in [TokenIds -> [sub : UserIds \cup {0}, exp : Nat]]
           /\ Issued \subseteq Issued'
           /\ \A t \in Issued : token'[t] = token[t]
           /\ \A t \in Issued' \ Issued : token'[t].sub = u
  <1>1. PICK t \in TokenIds :
            /\ t \notin Issued
            /\ token' = [token EXCEPT ![t] = [sub |-> u, exp |-> now + TokenTTL]]
    BY DEF sign, IsNextToken
  <1>2. now + TokenTTL \in Nat
    BY AccountsBounds DEF RedisTypeOK
  <1>3. token' \in [TokenIds -> [sub : UserIds \cup {0}, exp : Nat]]
    BY <1>1, <1>2 DEF TokensOK
  <1>4. token'[t].sub = u /\ \A s \in TokenIds \ {t} : token'[s] = token[s]
    BY <1>1 DEF TokensOK
  <1>5. u # 0
    BY UsersAssumption DEF UserIds
  <1> QED
    BY <1>1, <1>3, <1>4, <1>5 DEF Issued

LEMMA KeysDiffer ==
    /\ \A t \in TokenIds : blacklistKey(t) \in TokenKeys
    /\ \A u \in UserIds : otpKey(u) \in OtpKeys
    /\ \A t \in TokenIds, k \in OtpKeys : blacklistKey(t) # k
    /\ \A s, t \in TokenIds : blacklistKey(s) = blacklistKey(t) => s = t
  BY DEF blacklistKey, otpKey, TokenKeys, OtpKeys

LEMMA BodiesTyped ==
    ASSUME NEW b \in Bodies
    PROVE  /\ b[1] \in Protected /\ BodyOK(b[1], b[3])
           /\ b[2] \in Passwords \cup {None}
           /\ b[3] \in Phones \cup Passwords \cup {None}
  BY DEF Bodies, Protected, Behind, BodyOK

LEMMA InitTyped == Init => Typed
  <1> SUFFICES ASSUME Init PROVE Typed
    OBVIOUS
  <1> USE DEF Init
  <1>1. UsersTypeOK
    BY DEF UsersInit, UsersTypeOK
  <1>2. RedisTypeOK /\ OtpKeysOK
    BY DEF RedisInit, RedisTypeOK, OtpKeysOK, Absent
  <1>3. TokensOK
    BY DEF TokensOK, Issued
  <1>4. CallsOK
    BY IdleIsCall DEF CallsOK
  <1>5. RestOK
    BY DEF RestOK
  <1> QED
    BY <1>1, <1>2, <1>3, <1>4, <1>5 DEF Typed

\* A step that leaves the stores and the history alone.
LEMMA OnlyCalls ==
    ASSUME Typed, UNCHANGED <<users, now, redis, token, mail, history>>, CallsOK',
           calls' \in Nat, faults' \in Nat
    PROVE  Typed'
  BY DEF Typed, UsersTypeOK, RedisTypeOK, OtpKeysOK, Absent, TokensOK, Issued,
         Registered, RestOK, history

LEMMA SameAccounts ==
    ASSUME UNCHANGED <<users, token>>
    PROVE  Registered' = Registered /\ Issued' = Issued
  BY DEF Registered, Issued

LEMMA CallTyped ==
    ASSUME Typed, NEW c \in Clients
    PROVE  /\ call[c] \in Call /\ CallOK(call[c], Registered, Issued)
           /\ Registered \subseteq UserIds /\ Issued \subseteq TokenIds
  BY DEF Typed, CallsOK, Registered, Issued

-----------------------------------------------------------------------------
(***************************************************************************)
(* Registration and login.                                                 *)
(***************************************************************************)
LEMMA BeginRegisterTyped ==
    ASSUME Typed, NEW c \in Clients, NEW email \in Emails, NEW phone \in Phones,
           NEW p \in Passwords, BeginRegister(c, email, phone, p)
    PROVE  Typed'
  <1> DEFINE row == [email |-> email, phone |-> phone, password |-> p, status |-> "ACTIVE"]
             r == [Idle EXCEPT !.at = "register.create", !.arg = row]
  <1>1. row \in UserRow
    BY DEF UserRow
  <1>2. Begin(c, r)
    BY DEF BeginRegister
  <1> HIDE DEF row
  <1>3. r \in Call /\ CallOK(r, Registered, Issued)
    BY <1>1 DEF Idle, Call, Stages, CallOK, TokenStages, UserStages, PasswordStages,
                OtpStages, Behind
  <1> HIDE DEF r
  <1>4. CallsOK' /\ calls' \in Nat
    BY <1>2, <1>3, BeginTyped DEF BeginRegister, Typed
  <1> QED
    BY <1>4, OnlyCalls DEF BeginRegister, Typed, RestOK

LEMMA RegisterCreateTyped ==
    ASSUME Typed, NEW c \in Clients, RegisterCreate(c)
    PROVE  Typed'
  <1>1. PICK u \in UserIds : create(u, call[c].arg) /\ sign(u)
    BY DEF RegisterCreate
  <1>2. call[c].arg \in UserRow
    BY CallTyped DEF CallOK, RegisterCreate, At
  <1>3. UsersTypeOK' /\ Registered' = Registered \cup {u}
    BY <1>1, <1>2, CreateTyped DEF Typed
  <1>4. /\ token' \in [TokenIds -> [sub : UserIds \cup {0}, exp : Nat]]
        /\ Issued \subseteq Issued'
        /\ \A t \in Issued : token'[t] = token[t]
        /\ \A t \in Issued' \ Issued : token'[t].sub = u
    BY <1>1, SignTyped DEF Typed
  <1>5. TokensOK'
    BY <1>3, <1>4 DEF TokensOK, Typed
  <1>6. CallsOK'
    BY <1>3, <1>4, FinishTyped DEF RegisterCreate, Typed
  <1>7. RedisTypeOK' /\ OtpKeysOK' /\ RestOK'
    BY DEF RegisterCreate, Typed, RedisTypeOK, OtpKeysOK, Absent, RestOK, history
  <1> QED
    BY <1>3, <1>5, <1>6, <1>7 DEF Typed

LEMMA BeginLoginTyped ==
    ASSUME Typed, NEW c \in Clients, NEW u \in UserIds, NEW p \in Passwords,
           BeginLogin(c, u, p)
    PROVE  Typed'
  <1> DEFINE r == [Idle EXCEPT !.at = "login.sign", !.user = u]
  <1>1. u \in Registered /\ Begin(c, r)
    BY DEF BeginLogin
  <1>2. r \in Call /\ CallOK(r, Registered, Issued)
    BY <1>1 DEF Idle, Call, Stages, CallOK, TokenStages, UserStages, PasswordStages,
                OtpStages, Behind
  <1> HIDE DEF r
  <1>3. CallsOK' /\ calls' \in Nat
    BY <1>1, <1>2, BeginTyped DEF BeginLogin, Typed
  <1> QED
    BY <1>3, OnlyCalls DEF BeginLogin, Typed, RestOK

LEMMA LoginSignTyped ==
    ASSUME Typed, NEW c \in Clients, LoginSign(c)
    PROVE  Typed'
  <1>1. call[c].user \in Registered /\ call[c].user \in UserIds
    BY CallTyped DEF CallOK, LoginSign, At, UserStages
  <1>2. Registered' = Registered
    BY DEF LoginSign, Registered
  <1>3. /\ token' \in [TokenIds -> [sub : UserIds \cup {0}, exp : Nat]]
        /\ Issued \subseteq Issued'
        /\ \A t \in Issued : token'[t] = token[t]
        /\ \A t \in Issued' \ Issued : token'[t].sub = call[c].user
    BY <1>1, SignTyped DEF LoginSign, Typed
  <1>4. TokensOK'
    BY <1>1, <1>2, <1>3 DEF TokensOK, Typed
  <1>5. CallsOK'
    BY <1>2, <1>3, FinishTyped DEF LoginSign, Typed
  <1>6. UsersTypeOK' /\ RedisTypeOK' /\ OtpKeysOK' /\ RestOK'
    BY DEF LoginSign, Typed, UsersTypeOK, RedisTypeOK, OtpKeysOK, Absent, RestOK, history
  <1> QED
    BY <1>4, <1>5, <1>6 DEF Typed

-----------------------------------------------------------------------------
(***************************************************************************)
(* Behind the guard.                                                       *)
(***************************************************************************)
LEMMA GuardedCall ==
    ASSUME Typed, NEW t \in Issued, NEW b \in Bodies
    PROVE  LET r == [Idle EXCEPT !.at = "auth.user", !.token = t, !.next = b[1],
                                 !.old = b[2], !.arg = b[3]]
           IN r \in Call /\ CallOK(r, Registered, Issued)
  <1>1. t \in TokenIds
    BY DEF Issued
  <1> QED
    BY <1>1, BodiesTyped DEF Idle, Call, Stages, CallOK, TokenStages, UserStages,
                             PasswordStages, OtpStages, Behind

LEMMA BeginProtectedTyped ==
    ASSUME Typed, NEW c \in Clients, NEW t \in TokenIds, NEW b \in Bodies,
           \/ BeginProtected(c, t, b[1], b[2], b[3])
           \/ BlindlyAdmit(c, t, b[1], b[2], b[3])
    PROVE  Typed'
  <1> DEFINE r == [Idle EXCEPT !.at = "auth.user", !.token = t, !.next = b[1],
                               !.old = b[2], !.arg = b[3]]
  <1>1. t \in Issued /\ Begin(c, r)
    BY DEF BeginProtected, BlindlyAdmit, Verifies
  <1>2. r \in Call /\ CallOK(r, Registered, Issued)
    BY <1>1, GuardedCall
  <1> HIDE DEF r
  <1>3. /\ UNCHANGED <<users, now, redis, token, mail, history>>
        /\ faults' \in Nat
    <2>1. faults \in Nat
      BY DEF Typed, RestOK
    <2>2. CASE BeginProtected(c, t, b[1], b[2], b[3])
      BY <2>1, <2>2 DEF BeginProtected
    <2>3. CASE BlindlyAdmit(c, t, b[1], b[2], b[3])
      BY <2>1, <2>3 DEF BlindlyAdmit
    <2> QED
      BY <2>2, <2>3
  <1>4. CallsOK' /\ calls' \in Nat
    BY <1>1, <1>2, <1>3, BeginTyped DEF Typed
  <1> QED
    BY <1>3, <1>4, OnlyCalls

LEMMA AdmitTyped ==
    ASSUME Typed, NEW c \in Clients, Admit(c)
    PROVE  Typed'
  <1> DEFINE r == [call[c] EXCEPT !.at = call[c].next,
                                  !.user = token[call[c].token].sub]
  <1>1. /\ call[c] \in Call /\ CallOK(call[c], Registered, Issued)
        /\ call[c].at = "auth.user" /\ call[c].next # "logout"
    BY CallTyped DEF Admit, At
  <1>2. /\ call[c].token \in Issued /\ call[c].next \in Behind
        /\ BodyOK(call[c].next, call[c].arg)
    BY <1>1 DEF CallOK, TokenStages, Protected
  <1>3. token[call[c].token].sub \in Registered /\ Registered \subseteq UserIds
    BY <1>2, CallTyped DEF Typed, TokensOK
  <1>4. r \in Call
    BY <1>1, <1>2, <1>3 DEF Call, Stages, Behind
  <1>5. CallOK(r, Registered, Issued)
    BY <1>1, <1>2, <1>3 DEF Call, CallOK, BodyOK, Behind, TokenStages, UserStages,
                            PasswordStages, OtpStages
  <1>6. call' = [call EXCEPT ![c] = r]
    BY DEF Admit
  <1>7. Registered' = Registered /\ Issued' = Issued
    BY SameAccounts DEF Admit
  <1> HIDE DEF r
  <1>8. CallOK(r, Registered', Issued')
    BY <1>5, <1>7
  <1>9. CallsOK
    BY DEF Typed
  <1>10. CallsOK'
    BY <1>4, <1>6, <1>7, <1>8, <1>9, CallReplaced
  <1> QED
    BY <1>10, OnlyCalls DEF Admit, Typed, RestOK

\* An entry of the blacklist is going to be written.
LEMMA RevocationBegins ==
    ASSUME Typed, NEW c \in Clients, NEW at \in {"logout.add", "change.revoke"},
           call[c].at \in TokenStages, remaining(call[c].token) > 0,
           call' = [call EXCEPT ![c] =
                        [@ EXCEPT !.at = at, !.ttl = remaining(call[c].token)]],
           Registered \subseteq Registered', Issued \subseteq Issued'
    PROVE  CallsOK'
  <1> DEFINE r == [call[c] EXCEPT !.at = at, !.ttl = remaining(call[c].token)]
  <1>1. call[c] \in Call /\ CallOK(call[c], Registered, Issued)
    BY CallTyped
  <1>2. call[c].token \in Issued
    BY <1>1 DEF CallOK
  <1>3. remaining(call[c].token) \in Nat
    BY <1>2 DEF Issued, remaining, Typed, TokensOK, RedisTypeOK
  <1>4. r \in Call
    BY <1>1, <1>3 DEF Call, Stages
  <1>5. CallOK(r, Registered', Issued')
    BY <1>1, <1>2 DEF Call, CallOK, TokenStages, UserStages, PasswordStages, OtpStages,
                      Behind
  <1>6. call' = [call EXCEPT ![c] = r]
    OBVIOUS
  <1> HIDE DEF r
  <1> QED
    BY <1>4, <1>5, <1>6, CallReplaced DEF Typed

LEMMA AdmitLogoutTyped ==
    ASSUME Typed, NEW c \in Clients, AdmitLogout(c)
    PROVE  Typed'
  <1>1. Registered' = Registered /\ Issued' = Issued
    BY SameAccounts DEF AdmitLogout
  <1>2. CallsOK'
    <2>1. CASE remaining(call[c].token) > 0
      BY <1>1, <2>1, RevocationBegins DEF AdmitLogout, At, TokenStages
    <2>2. CASE ~(remaining(call[c].token) > 0)
      BY <1>1, <2>2, FinishTyped DEF AdmitLogout, Typed
    <2> QED
      BY <2>1, <2>2
  <1> QED
    BY <1>2, OnlyCalls DEF AdmitLogout, Typed, RestOK

\* The session is over for its client.
LEMMA EndSessionTyped ==
    ASSUME Typed, NEW c \in Clients, call[c].at \in Revoking, EndSession(c),
           UNCHANGED <<users, token>>
    PROVE  CallsOK' /\ call[c].token \in Issued /\ call[c].token \in TokenIds
  <1>1. call[c].token \in Issued /\ call[c].token \in TokenIds
    BY CallTyped DEF Revoking, CallOK, TokenStages
  <1>2. Registered' = Registered /\ Issued' = Issued
    BY SameAccounts
  <1>3. CASE At(c, "logout.add")
    BY <1>1, <1>2, <1>3, FinishTyped DEF EndSession, Typed
  <1>4. CASE ~At(c, "logout.add")
    <2>1. Follows(call[c].at, "notify")
      BY DEF Follows, Stages, TokenStages, UserStages, PasswordStages, OtpStages, Behind
    <2> QED
      BY <1>1, <1>2, <1>4, <2>1, GotoTyped DEF EndSession, Typed
  <1> QED
    BY <1>3, <1>4

LEMMA RevokeTyped ==
    ASSUME Typed, NEW c \in Clients, Revoke(c)
    PROVE  Typed'
  <1>1. CallsOK' /\ call[c].token \in Issued /\ call[c].token \in TokenIds
    BY EndSessionTyped DEF Revoke
  <1>2. call[c].ttl \in Nat
    BY CallTyped DEF Call
  <1>3. RedisTypeOK' /\ OtpKeysOK'
    <2> DEFINE e == [value |-> "revoked", until |-> now + call[c].ttl]
    <2>1. redis' = [redis EXCEPT ![blacklistKey(call[c].token)] = e] /\ now' = now
      BY DEF Revoke, setKey
    <2>2. e \in [value : Codes \cup {"revoked"} \cup {None}, until : Nat]
      BY <1>2 DEF Typed, RedisTypeOK
    <2> HIDE DEF e
    <2>3. RedisTypeOK'
      BY <2>1, <2>2 DEF Typed, RedisTypeOK
    <2>4. \A k \in OtpKeys : redis'[k] = redis[k]
      BY <1>1, <2>1, KeysDiffer DEF Typed, RedisTypeOK
    <2> QED
      BY <2>3, <2>4 DEF Typed, OtpKeysOK, Absent
  <1>4. UsersTypeOK' /\ TokensOK'
    BY SameAccounts DEF Revoke, Typed, UsersTypeOK, TokensOK
  <1>5. RestOK'
    BY <1>1 DEF Revoke, EndSession, Typed, RestOK
  <1> QED
    BY <1>1, <1>3, <1>4, <1>5 DEF Typed

LEMMA RevokeFailsTyped ==
    ASSUME Typed, NEW c \in Clients, RevokeFails(c)
    PROVE  Typed'
  <1>1. CallsOK' /\ call[c].token \in TokenIds
    BY EndSessionTyped DEF RevokeFails
  <1>2. UsersTypeOK' /\ TokensOK' /\ RedisTypeOK' /\ OtpKeysOK'
    BY SameAccounts DEF RevokeFails, Typed, UsersTypeOK, TokensOK, RedisTypeOK,
                        OtpKeysOK, Absent
  <1>3. RestOK'
    BY <1>1 DEF RevokeFails, EndSession, Typed, RestOK
  <1> QED
    BY <1>1, <1>2, <1>3 DEF Typed

\* Requests that end without a trace: refused, failed, or only read.
LEMMA EndTyped ==
    ASSUME Typed, NEW c \in Clients,
           \/ RegisterConflict(c) \/ Reject(c) \/ GetMe(c)
           \/ UpdateProfileConflict(c) \/ Notify(c) \/ CallFault(c)
    PROVE  Typed'
  <1>1. calls \in Nat /\ faults \in Nat
    BY DEF Typed, RestOK
  <1>2. /\ UNCHANGED <<users, now, redis, token, mail, history>>
        /\ Finish(c) /\ calls' = calls
    BY DEF RegisterConflict, Reject, GetMe, UpdateProfileConflict, Notify, CallFault
  <1>3. faults' \in Nat
    BY <1>1 DEF RegisterConflict, Reject, GetMe, UpdateProfileConflict, Notify, CallFault
  <1>4. CallsOK'
    BY <1>2, SameAccounts, FinishTyped DEF Typed
  <1> QED
    BY <1>1, <1>2, <1>3, <1>4, OnlyCalls

LEMMA CrashTyped ==
    ASSUME Typed, Crash
    PROVE  Typed'
  <1>1. CallsOK'
    BY IdleIsCall DEF Crash, CallsOK
  <1> QED
    BY <1>1, OnlyCalls DEF Crash, Typed, RestOK

\* A write of one account's row, by a request that ends or goes on.
LEMMA RowWriteTyped ==
    ASSUME Typed, NEW u \in Registered, NEW row \in UserRow,
           users' = [users EXCEPT ![u] = row], CallsOK', calls' \in Nat,
           UNCHANGED <<now, redis, token, mail, faults, history>>
    PROVE  Typed'
  <1>1. UsersTypeOK' /\ Registered' = Registered
    BY RowReplaced DEF Typed
  <1>2. Issued' = Issued
    BY DEF Issued
  <1>3. TokensOK'
    BY <1>1, <1>2 DEF Typed, TokensOK
  <1>4. RedisTypeOK' /\ OtpKeysOK'
    BY DEF Typed, RedisTypeOK, OtpKeysOK, Absent
  <1>5. RestOK'
    BY DEF Typed, RestOK, history
  <1> QED
    BY <1>1, <1>3, <1>4, <1>5 DEF Typed

LEMMA RowOf ==
    ASSUME Typed, NEW u \in Registered
    PROVE  u \in UserIds /\ users[u] \in UserRow
  BY DEF Typed, UsersTypeOK, Registered

LEMMA UpdateProfileTyped ==
    ASSUME Typed, NEW c \in Clients, UpdateProfile(c)
    PROVE  Typed'
  <1> DEFINE u == call[c].user
             row == [users[u] EXCEPT !.phone = call[c].arg]
  <1>1. u \in Registered /\ call[c].arg \in Phones
    BY CallTyped DEF UpdateProfile, At, CallOK, UserStages, Behind
  <1>2. row \in UserRow
    BY <1>1, RowOf DEF UserRow
  <1>3. users' = [users EXCEPT ![u] = row]
    BY DEF UpdateProfile, updateProfile
  <1> HIDE DEF row, u
  <1>4. Registered' = Registered
    BY <1>1, <1>2, <1>3, RowReplaced DEF Typed
  <1>5. Issued' = Issued
    BY DEF UpdateProfile, Issued
  <1>6. CallsOK'
    BY <1>4, <1>5, FinishTyped DEF UpdateProfile, Typed
  <1>7. UNCHANGED <<now, redis, token, mail, faults, history>> /\ calls' \in Nat
    BY DEF UpdateProfile, history, Typed, RestOK
  <1> QED
    BY <1>1, <1>2, <1>3, <1>6, <1>7, RowWriteTyped

-----------------------------------------------------------------------------
(***************************************************************************)
(* Passwords.                                                              *)
(***************************************************************************)
LEMMA ChangeReadTyped ==
    ASSUME Typed, NEW c \in Clients, ChangeRead(c)
    PROVE  Typed'
  <1>1. Registered' = Registered /\ Issued' = Issued
    BY SameAccounts DEF ChangeRead
  <1>2. CallsOK'
    <2>1. CASE Goto(c, "change.write")
      <3>1. Follows(call[c].at, "change.write")
        BY DEF ChangeRead, At, Follows, Stages, TokenStages, UserStages,
               PasswordStages, OtpStages, Behind
      <3> QED
        BY <1>1, <2>1, <3>1, GotoTyped DEF Typed
    <2>2. CASE Finish(c)
      BY <1>1, <2>2, FinishTyped DEF Typed
    <2> QED
      BY <2>1, <2>2 DEF ChangeRead
  <1> QED
    BY <1>2, OnlyCalls DEF ChangeRead, Typed, RestOK

\* The row a new password is written to.
LEMMA PasswordRow ==
    ASSUME Typed, NEW c \in Clients, At(c, "change.write")
    PROVE  /\ call[c].user \in Registered
           /\ [users[call[c].user] EXCEPT !.password = call[c].arg] \in UserRow
  <1>1. call[c].user \in Registered /\ call[c].arg \in Passwords
    BY CallTyped DEF At, CallOK, UserStages, PasswordStages, OtpStages
  <1> QED
    BY <1>1, RowOf DEF UserRow

LEMMA ChangeWriteTyped ==
    ASSUME Typed, NEW c \in Clients, ChangeWrite(c)
    PROVE  Typed'
  <1> DEFINE u == call[c].user
             row == [users[u] EXCEPT !.password = call[c].arg]
  <1>1. u \in Registered /\ row \in UserRow
    BY PasswordRow DEF ChangeWrite
  <1>2. users' = [users EXCEPT ![u] = row]
    BY DEF ChangeWrite, updatePassword
  <1> HIDE DEF row, u
  <1>3. Registered' = Registered
    BY <1>1, <1>2, RowReplaced DEF Typed
  <1>4. Issued' = Issued
    BY DEF ChangeWrite, Issued
  <1>5. CallsOK'
    <2>1. CASE remaining(call[c].token) > 0
      BY <1>3, <1>4, <2>1, RevocationBegins DEF ChangeWrite, At, TokenStages
    <2>2. CASE ~(remaining(call[c].token) > 0)
      <3>1. Follows(call[c].at, "notify")
        BY DEF Follows, Stages, TokenStages, UserStages, PasswordStages, OtpStages, Behind
      <3> QED
        BY <1>3, <1>4, <2>2, <3>1, GotoTyped DEF ChangeWrite, Typed
    <2> QED
      BY <2>1, <2>2
  <1>6. UNCHANGED <<now, redis, token, mail, faults, history>> /\ calls' \in Nat
    BY DEF ChangeWrite, history, Typed, RestOK
  <1> QED
    BY <1>1, <1>2, <1>5, <1>6, RowWriteTyped

LEMMA DeactivateTyped ==
    ASSUME Typed, NEW u \in UserIds, Deactivate(u)
    PROVE  Typed'
  <1> DEFINE row == [users[u] EXCEPT !.status = "INACTIVE"]
  <1>1. u \in Registered /\ row \in UserRow
    BY RowOf DEF Deactivate, UserRow
  <1>2. users' = [users EXCEPT ![u] = row]
    BY DEF Deactivate
  <1> HIDE DEF row
  <1>3. Registered' = Registered
    BY <1>1, <1>2, RowReplaced DEF Typed
  <1>4. Issued' = Issued
    BY DEF Deactivate, Issued
  <1>5. CallsOK'
    BY <1>3, <1>4, CallsKept DEF Deactivate, Typed
  <1>6. UNCHANGED <<now, redis, token, mail, faults, history>> /\ calls' \in Nat
    BY DEF Deactivate, history, Typed, RestOK
  <1> QED
    BY <1>1, <1>2, <1>5, <1>6, RowWriteTyped

-----------------------------------------------------------------------------
(***************************************************************************)
(* One-time passwords.                                                     *)
(***************************************************************************)
LEMMA BeginRequestResetTyped ==
    ASSUME Typed, NEW c \in Clients, NEW u \in UserIds, NEW code \in Codes,
           BeginRequestReset(c, u, code)
    PROVE  Typed'
  <1> DEFINE r == [Idle EXCEPT !.at = "reset.store", !.user = u, !.code = code]
  <1>1. u \in Registered /\ Begin(c, r)
    BY DEF BeginRequestReset
  <1>2. r \in Call /\ CallOK(r, Registered, Issued)
    BY <1>1 DEF Idle, Call, Stages, CallOK, TokenStages, UserStages,
                PasswordStages, OtpStages, Behind
  <1> HIDE DEF r
  <1>3. CallsOK' /\ calls' \in Nat
    BY <1>1, <1>2, BeginTyped DEF BeginRequestReset, Typed
  <1> QED
    BY <1>3, OnlyCalls DEF BeginRequestReset, Typed, RestOK

LEMMA RefuseVerifyTyped ==
    ASSUME Typed, NEW c \in Clients, NEW u \in UserIds, NEW code \in Codes,
           RefuseVerify(c, u, code)
    PROVE  Typed'
  <1>1. CallsOK' /\ calls' \in Nat
    BY IdleIsCall, BeginTyped DEF RefuseVerify, Typed
  <1> QED
    BY <1>1, OnlyCalls DEF RefuseVerify, Typed, RestOK

LEMMA OtpCall ==
    ASSUME Typed, NEW c \in Clients, call[c].at \in OtpStages
    PROVE  /\ call[c].user \in UserIds /\ call[c].code \in Codes
           /\ otpKey(call[c].user) \in OtpKeys
  BY CallTyped, KeysDiffer DEF CallOK, UserStages

LEMMA StoreOtpTyped ==
    ASSUME Typed, NEW c \in Clients, StoreOtp(c)
    PROVE  Typed'
  <1> DEFINE e == [value |-> call[c].code, until |-> now + OtpTTL]
  <1>1. call[c].code \in Codes /\ call[c].at = "reset.store"
    BY OtpCall DEF StoreOtp, At, OtpStages
  <1>2. redis' = [redis EXCEPT ![otpKey(call[c].user)] = e] /\ now' = now
    BY DEF StoreOtp, setKey
  <1>3. e \in [value : Codes \cup {"revoked"} \cup {None}, until : Nat] /\ e.value \in Codes
    BY <1>1, AccountsBounds DEF Typed, RedisTypeOK
  <1> HIDE DEF e
  <1>4. RedisTypeOK' /\ OtpKeysOK'
    BY <1>2, <1>3 DEF Typed, RedisTypeOK, OtpKeysOK, Absent
  <1>5. Registered' = Registered /\ Issued' = Issued
    BY SameAccounts DEF StoreOtp
  <1>6. Follows(call[c].at, "reset.mail")
    BY <1>1 DEF Follows, Stages, TokenStages, UserStages, PasswordStages, OtpStages, Behind
  <1>7. CallsOK'
    BY <1>5, <1>6, GotoTyped DEF StoreOtp, Typed
  <1>8. UsersTypeOK' /\ TokensOK' /\ RestOK'
    BY <1>5 DEF StoreOtp, Typed, UsersTypeOK, TokensOK, RestOK, history
  <1> QED
    BY <1>4, <1>7, <1>8 DEF Typed

LEMMA SendOtpTyped ==
    ASSUME Typed, NEW c \in Clients, SendOtp(c)
    PROVE  Typed'
  <1>1. call[c].user \in UserIds /\ call[c].code \in Codes
    BY OtpCall DEF SendOtp, At, OtpStages
  <1>2. Registered' = Registered /\ Issued' = Issued
    BY SameAccounts DEF SendOtp
  <1>3. CallsOK'
    BY <1>2, FinishTyped DEF SendOtp, Typed
  <1>4. UsersTypeOK' /\ TokensOK' /\ RedisTypeOK' /\ OtpKeysOK'
    BY <1>2 DEF SendOtp, Typed, UsersTypeOK, TokensOK, RedisTypeOK, OtpKeysOK, Absent
  <1>5. RestOK'
    BY <1>1 DEF SendOtp, Typed, RestOK, history
  <1> QED
    BY <1>3, <1>4, <1>5 DEF Typed

LEMMA TickTyped ==
    ASSUME Typed, Tick
    PROVE  Typed'
  <1>1. /\ now' = now + 1
        /\ redis' = [k \in TokenKeys \cup OtpKeys |->
                        IF redis[k].until <= now + 1 THEN Absent ELSE redis[k]]
    BY DEF Tick, PassTime
  <1>2. RedisTypeOK'
    BY <1>1 DEF Typed, RedisTypeOK, Absent
  <1>3. Absent' = Absent
    BY DEF Absent
  <1>4. OtpKeysOK'
    BY <1>1, <1>3 DEF Typed, OtpKeysOK
  <1>6. Registered' = Registered /\ Issued' = Issued
    BY SameAccounts DEF Tick
  <1>7. CallsOK'
    BY <1>6, CallsKept DEF Tick, Typed
  <1>8. UsersTypeOK' /\ TokensOK' /\ RestOK'
    BY <1>6 DEF Tick, Typed, UsersTypeOK, TokensOK, RestOK, history
  <1> QED
    BY <1>2, <1>4, <1>7, <1>8 DEF Typed

-----------------------------------------------------------------------------
LEMMA StutterTyped ==
    ASSUME Typed, UNCHANGED vars
    PROVE  Typed'
  <1>1. CallsOK'
    BY SameAccounts, CallsKept DEF vars, Typed
  <1> QED
    BY <1>1, OnlyCalls DEF vars, Typed, RestOK

LEMMA TypedStep == Typed /\ [Next]_vars => Typed'
  <1> SUFFICES ASSUME Typed, [Next]_vars PROVE Typed'
    OBVIOUS
  <1>1. CASE Tick \/ Crash
    BY <1>1, TickTyped, CrashTyped
  <1>2. CASE \E u \in UserIds : Deactivate(u)
    BY <1>2, DeactivateTyped
  <1>3. CASE \E c \in Clients : Begins(c)
    BY <1>3, BeginRegisterTyped, BeginRequestResetTyped, BeginLoginTyped,
       RefuseVerifyTyped, BeginProtectedTyped DEF Begins
  <1>4. CASE \E c \in Clients : Step(c)
    BY <1>4, RegisterCreateTyped, LoginSignTyped, AdmitTyped, AdmitLogoutTyped,
       RevokeTyped, RevokeFailsTyped, EndTyped, UpdateProfileTyped, ChangeReadTyped,
       ChangeWriteTyped, StoreOtpTyped, SendOtpTyped DEF Step
  <1>5. CASE \E c \in Clients : CallFault(c)
    BY <1>5, EndTyped
  <1>6. CASE UNCHANGED vars
    BY <1>6, StutterTyped
  <1> QED
    BY <1>1, <1>2, <1>3, <1>4, <1>5, <1>6 DEF Next

THEOREM AlwaysTyped == Spec => []Typed
  BY InitTyped, TypedStep, PTL DEF Spec

(***************************************************************************)
(* Every variable of the account requests keeps its type: no request works *)
(* for an account that does not exist or on a token that was not signed.   *)
(***************************************************************************)
THEOREM AccountsTypeCorrect == Spec => []TypeOK
  BY AlwaysTyped, TypedIsTypeOK, PTL

-----------------------------------------------------------------------------
(***************************************************************************)
(* E-mail and phone stay unique.  The lookups of register are no part of   *)
(* the argument: the two indexes of the table are.                         *)
(***************************************************************************)
ContactsKept ==
    /\ Registered' = Registered
    /\ \A u \in Registered : /\ users'[u].email = users[u].email
                             /\ users'[u].phone = users[u].phone

LEMMA KeptContactsUnique ==
    ASSUME ContactsAreUnique, ContactsKept
    PROVE  ContactsAreUnique'
  BY DEF ContactsAreUnique, ContactsKept

LEMMA SameUsersKept ==
    ASSUME users' = users
    PROVE  ContactsKept
  BY DEF ContactsKept, Registered

LEMMA PasswordKeepsContacts ==
    ASSUME Typed, NEW c \in Clients, ChangeWrite(c)
    PROVE  ContactsKept
  <1> DEFINE u == call[c].user
             row == [users[u] EXCEPT !.password = call[c].arg]
  <1>1. u \in Registered /\ row \in UserRow
    BY PasswordRow DEF ChangeWrite
  <1>2. users' = [users EXCEPT ![u] = row]
    BY DEF ChangeWrite, updatePassword
  <1>3. row.email = users[u].email /\ row.phone = users[u].phone
    BY <1>1, RowOf DEF UserRow
  <1> HIDE DEF row, u
  <1>4. /\ Registered' = Registered /\ users'[u] = row
        /\ \A v \in UserIds \ {u} : users'[v] = users[v]
    BY <1>1, <1>2, RowReplaced DEF Typed
  <1> QED
    BY <1>3, <1>4 DEF ContactsKept, Registered

LEMMA DeactivateKeepsContacts ==
    ASSUME Typed, NEW u \in UserIds, Deactivate(u)
    PROVE  ContactsKept
  <1> DEFINE row == [users[u] EXCEPT !.status = "INACTIVE"]
  <1>1. u \in Registered /\ row \in UserRow
    BY RowOf DEF Deactivate, UserRow
  <1>2. users' = [users EXCEPT ![u] = row]
    BY DEF Deactivate
  <1>3. row.email = users[u].email /\ row.phone = users[u].phone
    BY <1>1, RowOf DEF UserRow
  <1> HIDE DEF row
  <1>4. /\ Registered' = Registered /\ users'[u] = row
        /\ \A v \in UserIds \ {u} : users'[v] = users[v]
    BY <1>1, <1>2, RowReplaced DEF Typed
  <1> QED
    BY <1>3, <1>4 DEF ContactsKept, Registered

LEMMA CreateUnique ==
    ASSUME Typed, ContactsAreUnique, NEW c \in Clients, RegisterCreate(c)
    PROVE  ContactsAreUnique'
  <1> DEFINE row == call[c].arg
  <1>1. PICK u \in UserIds : create(u, row)
    BY DEF RegisterCreate
  <1>2. row \in UserRow
    BY CallTyped DEF CallOK, RegisterCreate, At
  <1>3. findByEmail(row.email) \subseteq {u} /\ findByPhone(row.phone) \subseteq {u}
    BY <1>1 DEF create, Unique
  <1> HIDE DEF row
  <1>4. /\ Registered' = Registered \cup {u}
        /\ users'[u] = row
        /\ \A v \in UserIds \ {u} : users'[v] = users[v]
    BY <1>1, <1>2, CreateTyped DEF Typed
  <1>5. \A v \in Registered \ {u} : users[v].email # row.email /\ users[v].phone # row.phone
    BY <1>3 DEF findByEmail, findByPhone
  <1> QED
    BY <1>4, <1>5 DEF ContactsAreUnique, Registered

LEMMA ProfileUnique ==
    ASSUME Typed, ContactsAreUnique, NEW c \in Clients, UpdateProfile(c)
    PROVE  ContactsAreUnique'
  <1> DEFINE u == call[c].user
             row == [users[u] EXCEPT !.phone = call[c].arg]
  <1>1. u \in Registered /\ call[c].arg \in Phones
    BY CallTyped DEF UpdateProfile, At, CallOK, UserStages, Behind
  <1>2. row \in UserRow /\ row.email = users[u].email /\ row.phone = call[c].arg
    BY <1>1, RowOf DEF UserRow
  <1>3. /\ users' = [users EXCEPT ![u] = row]
        /\ findByPhone(call[c].arg) \subseteq {u}
    BY DEF UpdateProfile, updateProfile, Unique
  <1> HIDE DEF row, u
  <1>4. /\ Registered' = Registered /\ users'[u] = row
        /\ \A v \in UserIds \ {u} : users'[v] = users[v]
    BY <1>1, <1>2, <1>3, RowReplaced DEF Typed
  <1>5. \A v \in Registered \ {u} : users[v].email # row.email /\ users[v].phone # row.phone
    BY <1>1, <1>2, <1>3 DEF findByPhone, ContactsAreUnique
  <1> QED
    BY <1>4, <1>5 DEF ContactsAreUnique, Registered

\* The actions that do not write to the users table.
LEMMA OthersKeepUsers ==
    ASSUME NEW c \in Clients,
           \/ Begins(c) \/ CallFault(c)
           \/ RegisterConflict(c) \/ LoginSign(c) \/ Admit(c) \/ Reject(c)
           \/ AdmitLogout(c) \/ Revoke(c) \/ RevokeFails(c) \/ GetMe(c)
           \/ UpdateProfileConflict(c)
           \/ ChangeRead(c) \/ StoreOtp(c) \/ SendOtp(c) \/ Notify(c)
    PROVE  users' = users
  BY DEF Begins, BeginRegister, BeginRequestReset, BeginLogin, RefuseVerify,
         BeginProtected, BlindlyAdmit, CallFault, RegisterConflict, LoginSign, Admit,
         Reject, AdmitLogout, Revoke, RevokeFails, GetMe, UpdateProfileConflict,
         ChangeRead, StoreOtp, SendOtp, Notify

LEMMA UniqueStep == Typed /\ ContactsAreUnique /\ [Next]_vars => ContactsAreUnique'
  <1> SUFFICES ASSUME Typed, ContactsAreUnique, [Next]_vars PROVE ContactsAreUnique'
    OBVIOUS
  <1>1. CASE Tick \/ Crash \/ UNCHANGED vars
    BY <1>1, SameUsersKept, KeptContactsUnique DEF Tick, Crash, vars
  <1>2. CASE \E u \in UserIds : Deactivate(u)
    BY <1>2, DeactivateKeepsContacts, KeptContactsUnique
  <1>3. CASE \E c \in Clients : Begins(c) \/ CallFault(c)
    BY <1>3, OthersKeepUsers, SameUsersKept, KeptContactsUnique
  <1>4. CASE \E c \in Clients : Step(c)
    BY <1>4, OthersKeepUsers, SameUsersKept, PasswordKeepsContacts,
       KeptContactsUnique, CreateUnique, ProfileUnique DEF Step
  <1> QED
    BY <1>1, <1>2, <1>3, <1>4 DEF Next

(***************************************************************************)
(* No two accounts share an e-mail or a phone, however registrations and   *)
(* profile updates overlap between their checks and their writes.          *)
(***************************************************************************)
THEOREM ContactsStayUnique == Spec => []ContactsAreUnique
  <1>1. Init => ContactsAreUnique
    BY DEF Init, UsersInit, ContactsAreUnique, Registered
  <1> QED
    BY <1>1, AlwaysTyped, UniqueStep, PTL DEF Spec

-----------------------------------------------------------------------------
(***************************************************************************)
(* Ended sessions stay out.  The lifetime of an entry is computed in one   *)
(* step and used in a later one: meanwhile the clock only moves forward,   *)
(* so the entry outlives the token.                                        *)
(***************************************************************************)
RevocationOK(r) ==
    r.at \in Revoking => now + r.ttl >= token[r.token].exp

SessionsOK ==
    /\ ended \subseteq Issued
    /\ \A t \in ended \ unwritten : now < token[t].exp =>
            /\ redis[blacklistKey(t)].value = "revoked"
            /\ redis[blacklistKey(t)].until >= token[t].exp
    /\ \A c \in Clients : RevocationOK(call[c])

LEMMA SessionsOut == SessionsOK => EndedSessionStaysOut
  BY NoneAssumption DEF SessionsOK, EndedSessionStaysOut, Verifies, exists

TokensKept == Issued \subseteq Issued' /\ \A t \in Issued : token'[t] = token[t]

BlacklistKept ==
    \A t \in TokenIds : redis'[blacklistKey(t)] = redis[blacklistKey(t)]

\* A request that is about to write an entry was about to before the step.
NoNewRevocation ==
    \A c \in Clients : call'[c].at \in Revoking => call'[c] = call[c]

LEMMA SessionsKept ==
    ASSUME Typed, SessionsOK, TokensKept, BlacklistKept, UNCHANGED <<now, history>>,
           \A c \in Clients : call'[c].at \in Revoking =>
                call'[c] = call[c] \/ RevocationOK(call[c])'
    PROVE  SessionsOK'
  <1>1. ended' \subseteq Issued' /\ ended' = ended /\ unwritten' = unwritten
    BY DEF SessionsOK, TokensKept, history
  <1>2. \A t \in ended : t \in Issued /\ t \in TokenIds
    BY DEF SessionsOK, Issued
  <1>3. ASSUME NEW t \in ended' \ unwritten', now' < token'[t].exp
        PROVE  /\ redis'[blacklistKey(t)].value = "revoked"
               /\ redis'[blacklistKey(t)].until >= token'[t].exp
    BY <1>1, <1>2, <1>3 DEF SessionsOK, TokensKept, BlacklistKept
  <1>4. ASSUME NEW c \in Clients PROVE RevocationOK(call[c])'
    <2>1. call[c].at \in Revoking => call[c].token \in Issued
      BY CallTyped DEF CallOK, Revoking, TokenStages
    <2>2. CASE call'[c] = call[c]
      BY <2>1, <2>2 DEF SessionsOK, RevocationOK, TokensKept
    <2>3. CASE call'[c] # call[c]
      BY <2>3 DEF RevocationOK
    <2> QED
      BY <2>2, <2>3
  <1> QED
    BY <1>1, <1>3, <1>4 DEF SessionsOK, blacklistKey

LEMMA QuietCalls ==
    ASSUME Typed, NEW c \in Clients,
           \/ Finish(c)
           \/ \E s \in Stages \ Revoking : Goto(c, s)
           \/ \E r \in Call : r.at \notin Revoking /\ call' = [call EXCEPT ![c] = r]
    PROVE  NoNewRevocation
  <1>1. call \in [Clients -> Call]
    BY DEF Typed, CallsOK
  <1>2. CASE Finish(c)
    BY <1>1, <1>2, IdleIsCall DEF Finish, NoNewRevocation, Revoking
  <1>3. CASE \E s \in Stages \ Revoking : Goto(c, s)
    BY <1>1, <1>3 DEF Goto, NoNewRevocation, Call
  <1>4. CASE \E r \in Call : r.at \notin Revoking /\ call' = [call EXCEPT ![c] = r]
    BY <1>1, <1>4 DEF NoNewRevocation
  <1> QED
    BY <1>2, <1>3, <1>4

LEMMA SameTokensKept ==
    ASSUME token' = token
    PROVE  TokensKept
  BY DEF TokensKept, Issued

LEMMA SignKeepsTokens ==
    ASSUME Typed, NEW u, sign(u)
    PROVE  TokensKept
  <1>1. PICK t \in TokenIds :
            /\ t \notin Issued
            /\ token' = [token EXCEPT ![t] = [sub |-> u, exp |-> now + TokenTTL]]
    BY DEF sign, IsNextToken
  <1>2. \A s \in TokenIds \ {t} : token'[s] = token[s]
    BY <1>1 DEF Typed, TokensOK
  <1> QED
    BY <1>1, <1>2 DEF TokensKept, Issued

LEMMA OtpKeepsBlacklist ==
    ASSUME Typed, NEW u \in UserIds, NEW e,
           redis' = [redis EXCEPT ![otpKey(u)] = e]
    PROVE  BlacklistKept
  <1>1. \A t \in TokenIds : blacklistKey(t) # otpKey(u)
    BY KeysDiffer
  <1>2. \A t \in TokenIds : blacklistKey(t) \in TokenKeys
    BY KeysDiffer
  <1> QED
    BY <1>1, <1>2 DEF BlacklistKept, Typed, RedisTypeOK

\* A request begins, and with no entry to write.
LEMMA BeginsQuietly ==
    ASSUME Typed, NEW c \in Clients, Begins(c)
    PROVE  /\ UNCHANGED <<now, redis, token, history>>
           /\ NoNewRevocation
  <1>1. call \in [Clients -> Call]
    BY DEF Typed, CallsOK
  <1>2. ASSUME NEW r, Begin(c, r), r.at \notin Revoking
        PROVE  NoNewRevocation
    BY <1>1, <1>2 DEF Begin, NoNewRevocation
  <1>3. ASSUME NEW email \in Emails, NEW phone \in Phones, NEW p \in Passwords,
               BeginRegister(c, email, phone, p)
        PROVE  UNCHANGED <<now, redis, token, history>> /\ NoNewRevocation
    BY <1>2, <1>3 DEF BeginRegister, history, Idle, Revoking
  <1>4. ASSUME NEW u \in UserIds, NEW code \in Codes, BeginRequestReset(c, u, code)
        PROVE  UNCHANGED <<now, redis, token, history>> /\ NoNewRevocation
    BY <1>2, <1>4 DEF BeginRequestReset, Idle, Revoking
  <1>5. ASSUME NEW u \in UserIds, NEW p \in Passwords, BeginLogin(c, u, p)
        PROVE  UNCHANGED <<now, redis, token, history>> /\ NoNewRevocation
    BY <1>2, <1>5 DEF BeginLogin, history, Idle, Revoking
  <1>6. ASSUME NEW u \in UserIds, NEW code \in Codes, RefuseVerify(c, u, code)
        PROVE  UNCHANGED <<now, redis, token, history>> /\ NoNewRevocation
    BY <1>2, <1>6 DEF RefuseVerify, Idle, Revoking
  <1>7. ASSUME NEW t \in TokenIds, NEW b \in Bodies,
               \/ BeginProtected(c, t, b[1], b[2], b[3])
               \/ BlindlyAdmit(c, t, b[1], b[2], b[3])
        PROVE  UNCHANGED <<now, redis, token, history>> /\ NoNewRevocation
    BY <1>2, <1>7 DEF BeginProtected, BlindlyAdmit, history, Idle, Revoking
  <1> QED
    BY <1>3, <1>4, <1>5, <1>6, <1>7 DEF Begins

LEMMA QuietSteps ==
    ASSUME Typed, NEW c \in Clients,
           \/ RegisterConflict(c) \/ Reject(c) \/ GetMe(c) \/ UpdateProfile(c)
           \/ UpdateProfileConflict(c) \/ ChangeRead(c)
           \/ Notify(c) \/ CallFault(c)
    PROVE  /\ UNCHANGED <<now, redis, token, history>>
           /\ NoNewRevocation
  <1>1. {"change.write", "notify"} \subseteq Stages \ Revoking
    BY DEF Stages, Revoking
  <1>2. UNCHANGED <<now, redis, token, history>>
    BY DEF RegisterConflict, Reject, GetMe, UpdateProfile, UpdateProfileConflict,
           ChangeRead, Notify, CallFault, history
  <1>3. Finish(c) \/ Goto(c, "change.write") \/ Goto(c, "notify")
    BY DEF RegisterConflict, Reject, GetMe, UpdateProfile, UpdateProfileConflict,
           ChangeRead, Notify, CallFault
  <1> QED
    BY <1>1, <1>2, <1>3, QuietCalls

LEMMA SignSessions ==
    ASSUME Typed, SessionsOK, NEW c \in Clients, RegisterCreate(c) \/ LoginSign(c)
    PROVE  SessionsOK'
  <1>1. /\ \E u : sign(u)
        /\ Finish(c) /\ UNCHANGED <<now, redis, history>>
    BY DEF RegisterCreate, LoginSign, history
  <1>2. TokensKept
    BY <1>1, SignKeepsTokens
  <1>3. BlacklistKept
    BY <1>1 DEF BlacklistKept, blacklistKey
  <1>4. NoNewRevocation
    BY <1>1, QuietCalls
  <1> QED
    BY <1>1, <1>2, <1>3, <1>4, SessionsKept DEF NoNewRevocation

LEMMA AdmitSessions ==
    ASSUME Typed, SessionsOK, NEW c \in Clients, Admit(c)
    PROVE  SessionsOK'
  <1>1. call[c].at = "auth.user" /\ call[c].next \in Behind
    BY CallTyped DEF Admit, At, CallOK, Protected
  <1>2. call \in [Clients -> Call]
    BY DEF Typed, CallsOK
  <1>3. /\ \A d \in Clients \ {c} : call'[d] = call[d]
        /\ call'[c].at = call[c].next
    BY <1>2 DEF Admit, Call
  <1>4. NoNewRevocation
    BY <1>1, <1>3 DEF NoNewRevocation, Revoking, Behind
  <1>5. UNCHANGED <<now, redis, token, history>>
    BY DEF Admit, history
  <1> QED
    BY <1>4, <1>5, SameTokensKept, SessionsKept DEF NoNewRevocation, BlacklistKept, blacklistKey

LEMMA OtpSessions ==
    ASSUME Typed, SessionsOK, NEW c \in Clients,
           StoreOtp(c) \/ SendOtp(c)
    PROVE  SessionsOK'
  <1>1. call[c].user \in UserIds
    BY OtpCall DEF StoreOtp, SendOtp, At, OtpStages
  <1>2. UNCHANGED <<now, token, history>>
    BY DEF StoreOtp, SendOtp, history
  <1>3. BlacklistKept
    <2>1. CASE StoreOtp(c)
      BY <1>1, <2>1, OtpKeepsBlacklist DEF StoreOtp, setKey
    <2>2. CASE SendOtp(c)
      BY <2>2 DEF SendOtp, BlacklistKept, blacklistKey
    <2> QED
      BY <2>1, <2>2
  <1>4. "reset.mail" \in Stages \ Revoking
    BY DEF Stages, Revoking, OtpStages
  <1>5. Finish(c) \/ Goto(c, "reset.mail")
    BY DEF StoreOtp, SendOtp
  <1>6. NoNewRevocation
    BY <1>4, <1>5, QuietCalls
  <1> QED
    BY <1>2, <1>3, <1>6, SameTokensKept, SessionsKept DEF NoNewRevocation

\* The lifetime is computed: it reaches to the end of the token.
LEMMA ComputeSessions ==
    ASSUME Typed, SessionsOK, NEW c \in Clients, AdmitLogout(c) \/ ChangeWrite(c)
    PROVE  SessionsOK'
  <1>1. UNCHANGED <<now, redis, token, history>>
    BY DEF AdmitLogout, ChangeWrite, history
  <1>2. call \in [Clients -> Call]
    BY DEF Typed, CallsOK
  <1>3. ASSUME NEW s \in Revoking,
               call' = [call EXCEPT ![c] = [@ EXCEPT !.at = s,
                                                !.ttl = remaining(call[c].token)]],
               call[c].token \in Issued
        PROVE  \A d \in Clients : call'[d].at \in Revoking =>
                    call'[d] = call[d] \/ RevocationOK(call[d])'
    <2>1. token[call[c].token].exp \in Nat /\ now \in Nat
      BY <1>3 DEF Typed, TokensOK, RedisTypeOK, Issued
    <2>2. \A d \in Clients \ {c} : call'[d] = call[d]
      BY <1>2, <1>3
    <2>3. /\ call'[c].token = call[c].token
          /\ call'[c].ttl = token[call[c].token].exp - now
      BY <1>2, <1>3 DEF remaining, Call
    <2>4. now' + call'[c].ttl >= token'[call'[c].token].exp
      BY <1>1, <2>1, <2>3
    <2> QED
      BY <2>2, <2>4 DEF RevocationOK
  <1>4. call[c].token \in Issued
    BY CallTyped DEF AdmitLogout, ChangeWrite, At, CallOK, TokenStages
  <1>5. \A d \in Clients : call'[d].at \in Revoking =>
            call'[d] = call[d] \/ RevocationOK(call[d])'
    <2>1. CASE Finish(c) \/ Goto(c, "notify")
      BY <2>1, QuietCalls DEF NoNewRevocation, Stages, Revoking
    <2>2. CASE ~(Finish(c) \/ Goto(c, "notify"))
      BY <1>3, <1>4, <2>2 DEF AdmitLogout, ChangeWrite, Revoking
    <2> QED
      BY <2>1, <2>2
  <1> QED
    BY <1>1, <1>5, SameTokensKept, SessionsKept DEF BlacklistKept, blacklistKey

LEMMA RevokeSessions ==
    ASSUME Typed, SessionsOK, NEW c \in Clients, Revoke(c)
    PROVE  SessionsOK'
  <1> DEFINE t == call[c].token
             e == [value |-> "revoked", until |-> now + call[c].ttl]
  <1>1. t \in Issued /\ t \in TokenIds
    BY CallTyped DEF Revoke, Revoking, CallOK, TokenStages, Issued
  <1>2. e.value = "revoked" /\ e.until >= token[t].exp
    BY DEF SessionsOK, RevocationOK, Revoke, Revoking
  <1>3. /\ redis' = [redis EXCEPT ![blacklistKey(t)] = e]
        /\ ended' = ended \cup {t} /\ unwritten' = unwritten \ {t}
        /\ UNCHANGED <<now, token>>
    BY DEF Revoke, EndSession, setKey
  <1> HIDE DEF e
  <1>4. NoNewRevocation
    <2>1. Finish(c) \/ Goto(c, "notify")
      BY DEF Revoke, EndSession
    <2> QED
      BY <2>1, QuietCalls DEF Stages, Revoking
  <1> HIDE DEF t
  <1>5. /\ redis'[blacklistKey(t)] = e
        /\ \A s \in TokenIds \ {t} : redis'[blacklistKey(s)] = redis[blacklistKey(s)]
    BY <1>1, <1>3, KeysDiffer DEF Typed, RedisTypeOK
  <1>6. ended' \subseteq Issued'
    BY <1>1, <1>3 DEF SessionsOK, Issued
  <1>7. \A s \in ended' \ unwritten' : now' < token'[s].exp =>
            /\ redis'[blacklistKey(s)].value = "revoked"
            /\ redis'[blacklistKey(s)].until >= token'[s].exp
    BY <1>2, <1>3, <1>5 DEF SessionsOK, Issued
  <1>8. \A d \in Clients : RevocationOK(call[d])'
    BY <1>3, <1>4 DEF SessionsOK, RevocationOK, NoNewRevocation
  <1> QED
    BY <1>6, <1>7, <1>8 DEF SessionsOK, blacklistKey

\* A write that fails ends a session that is not claimed to stay out.
LEMMA RevokeFailsSessions ==
    ASSUME Typed, SessionsOK, NEW c \in Clients, RevokeFails(c)
    PROVE  SessionsOK'
  <1>1. call[c].token \in Issued /\ call[c].token \in TokenIds
    BY CallTyped DEF RevokeFails, Revoking, CallOK, TokenStages
  <1>2. /\ ended' = ended \cup {call[c].token}
        /\ ended' \ unwritten' \subseteq ended \ unwritten
        /\ UNCHANGED <<now, redis, token>>
    BY DEF RevokeFails, EndSession
  <1>3. NoNewRevocation
    <2>1. Finish(c) \/ Goto(c, "notify")
      BY DEF RevokeFails, EndSession
    <2> QED
      BY <2>1, QuietCalls DEF Stages, Revoking
  <1>4. ended' \subseteq Issued'
    BY <1>1, <1>2 DEF SessionsOK, Issued
  <1>5. \A t \in ended' \ unwritten' : now' < token'[t].exp =>
            /\ redis'[blacklistKey(t)].value = "revoked"
            /\ redis'[blacklistKey(t)].until >= token'[t].exp
    BY <1>2 DEF SessionsOK
  <1>6. \A d \in Clients : RevocationOK(call[d])'
    BY <1>2, <1>3 DEF SessionsOK, RevocationOK, NoNewRevocation
  <1> QED
    BY <1>4, <1>5, <1>6 DEF SessionsOK, blacklistKey

LEMMA TickSessions ==
    ASSUME Typed, SessionsOK, Tick
    PROVE  SessionsOK'
  <1>1. /\ now' = now + 1
        /\ redis' = [k \in TokenKeys \cup OtpKeys |->
                        IF redis[k].until <= now + 1 THEN Absent ELSE redis[k]]
        /\ UNCHANGED <<token, call, history>>
    BY DEF Tick, PassTime
  <1>2. now \in Nat /\ token \in [TokenIds -> [sub : UserIds \cup {0}, exp : Nat]]
    BY DEF Typed, RedisTypeOK, TokensOK
  <1>3. ended' \subseteq Issued' /\ ended' = ended /\ unwritten' = unwritten
    BY <1>1 DEF SessionsOK, Issued, history
  <1>4. ASSUME NEW t \in ended' \ unwritten', now' < token'[t].exp
        PROVE  /\ redis'[blacklistKey(t)].value = "revoked"
               /\ redis'[blacklistKey(t)].until >= token'[t].exp
    <2>1. t \in ended \ unwritten /\ t \in TokenIds /\ now + 1 < token[t].exp
      BY <1>1, <1>3, <1>4 DEF SessionsOK, Issued
    <2>2. token[t].exp \in Nat
      BY <1>2, <2>1
    <2>3. /\ redis[blacklistKey(t)].value = "revoked"
          /\ redis[blacklistKey(t)].until >= token[t].exp
      BY <1>2, <2>1, <2>2 DEF SessionsOK
    <2>4. blacklistKey(t) \in TokenKeys
      BY <2>1, KeysDiffer
    <2>5. redis[blacklistKey(t)].until \in Nat
      BY <2>4 DEF Typed, RedisTypeOK
    <2>6. redis'[blacklistKey(t)] = redis[blacklistKey(t)]
      BY <1>1, <1>2, <2>1, <2>2, <2>3, <2>4, <2>5
    <2> QED
      BY <1>1, <2>3, <2>6
  <1>5. ASSUME NEW c \in Clients, call[c].at \in Revoking
        PROVE  now' + call'[c].ttl >= token'[call'[c].token].exp
    <2>1. call[c].token \in TokenIds /\ call[c].ttl \in Nat
      BY <1>5, CallTyped DEF CallOK, Revoking, TokenStages, Call
    <2>2. token[call[c].token].exp \in Nat
      BY <1>2, <2>1
    <2>3. now + call[c].ttl >= token[call[c].token].exp
      BY <1>5 DEF SessionsOK, RevocationOK
    <2> QED
      BY <1>1, <1>2, <2>1, <2>2, <2>3
  <1> QED
    BY <1>1, <1>3, <1>4, <1>5 DEF SessionsOK, RevocationOK, blacklistKey

LEMMA SessionsStep == Typed /\ SessionsOK /\ [Next]_vars => SessionsOK'
  <1> SUFFICES ASSUME Typed, SessionsOK, [Next]_vars PROVE SessionsOK'
    OBVIOUS
  <1>1. ASSUME UNCHANGED <<now, redis, token, history>>, NoNewRevocation
        PROVE  SessionsOK'
    BY <1>1, SameTokensKept, SessionsKept DEF NoNewRevocation, BlacklistKept, blacklistKey
  <1>2. CASE Tick
    BY <1>2, TickSessions
  <1>3. CASE Crash
    <2>1. NoNewRevocation
      BY <1>3, IdleIsCall DEF Crash, NoNewRevocation, Revoking
    <2> QED
      BY <1>1, <1>3, <2>1 DEF Crash, history
  <1>4. CASE (\E u \in UserIds : Deactivate(u)) \/ UNCHANGED vars
    BY <1>1, <1>4 DEF Deactivate, vars, history, NoNewRevocation
  <1>5. CASE \E c \in Clients : Begins(c) \/ CallFault(c)
    BY <1>1, <1>5, BeginsQuietly, QuietSteps
  <1>6. CASE \E c \in Clients : Step(c)
    BY <1>1, <1>6, QuietSteps, SignSessions, AdmitSessions, OtpSessions,
       ComputeSessions, RevokeSessions, RevokeFailsSessions DEF Step
  <1> QED
    BY <1>2, <1>3, <1>4, <1>5, <1>6 DEF Next

(***************************************************************************)
(* After the answer to a logout or to a password change the token stays    *)
(* refused until its exp, however long the entry took to be written, for   *)
(* every lifetime of tokens and whatever fails meanwhile; only a token for *)
(* which every write failed, unnoticed, is left out.                       *)
(***************************************************************************)
THEOREM EndedSessionsStayOut == Spec => []EndedSessionStaysOut
  <1>1. Init => SessionsOK
    BY IdleIsCall DEF Init, SessionsOK, RevocationOK, Revoking
  <1>2. Spec => []SessionsOK
    BY <1>1, AlwaysTyped, SessionsStep, PTL DEF Spec
  <1> QED
    BY <1>2, SessionsOut, PTL

-----------------------------------------------------------------------------
(***************************************************************************)
(* One-time passwords.  Under a user's key lies a string of digits; what   *)
(* is read from it is a number, and no code of a request equals it.        *)
(***************************************************************************)
THEOREM CodesAreRefused ==
    Spec => [](\A u \in UserIds, code \in Codes : ~verifyOtp(u, code))
  <1>1. Typed => \A u \in UserIds, code \in Codes : ~verifyOtp(u, code)
    <2> SUFFICES ASSUME Typed, NEW u \in UserIds, NEW code \in Codes
                 PROVE  get(otpKey(u)) # code
      BY DEF verifyOtp
    <2>1. redis[otpKey(u)] = Absent \/ redis[otpKey(u)].value \in Codes
      BY KeysDiffer DEF Typed, OtpKeysOK
    <2>2. CASE redis[otpKey(u)] = Absent
      BY <2>2, NoneAssumption DEF get, deserialise, Absent
    <2>3. CASE redis[otpKey(u)].value \in Codes
      BY <2>3, NumbersAreNoStrings DEF get, deserialise
    <2> QED
      BY <2>1, <2>2, <2>3
  <1> QED
    BY <1>1, AlwaysTyped, PTL

(***************************************************************************)
(* Mailboxes.  A code that is stored is mailed, or its request is about to *)
(* mail it; other requests for the same user store and mail codes of their *)
(* own and take nothing out of the mailbox.                                *)
(***************************************************************************)
MailUnderWay(u, code) ==
    \E c \in Clients : /\ At(c, "reset.mail")
                       /\ call[c].user = u /\ call[c].code = code

CodesArrive ==
    faults = 0 => \A u \in UserIds : exists(otpKey(u)) =>
        \/ redis[otpKey(u)].value \in mail[u]
        \/ MailUnderWay(u, redis[otpKey(u)].value)

LEMMA ArrivedIsMailed == CodesArrive => StoredCodeWasMailed
  BY DEF CodesArrive, MailUnderWay, StoredCodeWasMailed, Quiescent, At

\* Nobody leaves the stage before the mail.
MailsKept ==
    /\ mail' = mail
    /\ \A c \in Clients : call[c].at = "reset.mail" => call'[c] = call[c]

LEMMA ArriveKept ==
    ASSUME CodesArrive, MailsKept, faults' = 0 => faults = 0,
           \A u \in UserIds : \/ redis'[otpKey(u)] = redis[otpKey(u)]
                             \/ redis'[otpKey(u)] = Absent
    PROVE  CodesArrive'
  <1> SUFFICES ASSUME faults' = 0, NEW u \in UserIds,
                      redis'[otpKey(u)].value # None
               PROVE  \/ redis'[otpKey(u)].value \in mail'[u]
                      \/ \E d \in Clients :
                             /\ call'[d].at = "reset.mail" /\ call'[d].user = u
                             /\ call'[d].code = redis'[otpKey(u)].value
    BY DEF CodesArrive, otpKey, MailUnderWay, At, exists
  <1>1. redis'[otpKey(u)] = redis[otpKey(u)] /\ exists(otpKey(u))
    BY DEF exists, Absent
  <1>2. CASE redis[otpKey(u)].value \in mail[u]
    BY <1>1, <1>2 DEF MailsKept
  <1>3. CASE MailUnderWay(u, redis[otpKey(u)].value)
    BY <1>1, <1>3 DEF MailsKept, MailUnderWay, At
  <1> QED
    BY <1>1, <1>2, <1>3 DEF CodesArrive

\* A request that is elsewhere ends, begins or goes on.
LEMMA ElsewhereKeepsMails ==
    ASSUME Typed, NEW c \in Clients, call[c].at # "reset.mail", mail' = mail,
           \E r : call' = [call EXCEPT ![c] = r]
    PROVE  MailsKept
  BY DEF MailsKept, Typed, CallsOK

LEMMA StoreArrives ==
    ASSUME Typed, CodesArrive, NEW c \in Clients, StoreOtp(c)
    PROVE  CodesArrive'
  <1> DEFINE u == call[c].user
             k == call[c].code
             e == [value |-> k, until |-> now + OtpTTL]
  <1>1. u \in UserIds /\ call[c].at = "reset.store"
    BY OtpCall DEF StoreOtp, At, OtpStages
  <1>2. /\ redis' = [redis EXCEPT ![otpKey(u)] = e] /\ mail' = mail
        /\ faults' = faults
    BY DEF StoreOtp, setKey
  <1>3. call'[c].at = "reset.mail" /\ call'[c].user = u /\ call'[c].code = k
    BY DEF StoreOtp, Goto, Typed, CallsOK, Call
  <1>4. MailsKept
    BY <1>1, ElsewhereKeepsMails DEF StoreOtp, Goto
  <1>5. e.value = k
    OBVIOUS
  <1> HIDE DEF u, k, e
  <1> SUFFICES ASSUME faults' = 0, NEW v \in UserIds,
                      redis'[otpKey(v)].value # None
               PROVE  \/ redis'[otpKey(v)].value \in mail'[v]
                      \/ \E d \in Clients :
                             /\ call'[d].at = "reset.mail" /\ call'[d].user = v
                             /\ call'[d].code = redis'[otpKey(v)].value
    BY DEF CodesArrive, otpKey, MailUnderWay, At, exists
  <1>6. CASE v = u
    <2>1. redis'[otpKey(v)].value = k
      BY <1>1, <1>2, <1>5, <1>6, KeysDiffer DEF Typed, RedisTypeOK
    <2> QED
      BY <1>3, <1>6, <2>1
  <1>7. CASE v # u
    <2>1. redis'[otpKey(v)] = redis[otpKey(v)]
      BY <1>1, <1>2, <1>7, KeysDiffer DEF Typed, RedisTypeOK, otpKey
    <2>2. \/ redis[otpKey(v)].value \in mail[v]
          \/ MailUnderWay(v, redis[otpKey(v)].value)
      BY <1>2, <2>1 DEF CodesArrive, exists
    <2> QED
      BY <1>4, <2>1, <2>2 DEF MailsKept, MailUnderWay, At
  <1> QED
    BY <1>6, <1>7

LEMMA SendArrives ==
    ASSUME Typed, CodesArrive, NEW c \in Clients, SendOtp(c)
    PROVE  CodesArrive'
  <1> DEFINE u == call[c].user
             k == call[c].code
  <1>1. u \in UserIds
    BY OtpCall DEF SendOtp, At, OtpStages
  <1>2. /\ redis' = redis /\ faults' = faults
        /\ mail'[u] = mail[u] \cup {k}
        /\ \A v \in UserIds : mail[v] \subseteq mail'[v]
    BY <1>1 DEF SendOtp, Typed, RestOK, history
  <1>3. \A d \in Clients \ {c} : call'[d] = call[d]
    BY DEF SendOtp, Finish, Typed, CallsOK
  <1> SUFFICES ASSUME faults' = 0, NEW v \in UserIds,
                      redis'[otpKey(v)].value # None
               PROVE  \/ redis'[otpKey(v)].value \in mail'[v]
                      \/ \E d \in Clients :
                             /\ call'[d].at = "reset.mail" /\ call'[d].user = v
                             /\ call'[d].code = redis'[otpKey(v)].value
    BY DEF CodesArrive, otpKey, MailUnderWay, At, exists
  <1>4. \/ redis[otpKey(v)].value \in mail[v]
        \/ MailUnderWay(v, redis[otpKey(v)].value)
    BY <1>2 DEF CodesArrive, exists
  <1>5. CASE redis[otpKey(v)].value \in mail[v]
    BY <1>2, <1>5
  <1>6. CASE MailUnderWay(v, redis[otpKey(v)].value)
    <2>1. PICK d \in Clients : /\ At(d, "reset.mail") /\ call[d].user = v
                               /\ call[d].code = redis[otpKey(v)].value
      BY <1>6 DEF MailUnderWay
    <2>2. CASE d = c
      BY <1>2, <2>1, <2>2
    <2>3. CASE d # c
      BY <1>2, <1>3, <2>1, <2>3 DEF At
    <2> QED
      BY <2>2, <2>3
  <1> QED
    BY <1>4, <1>5, <1>6

\* A blacklist entry lies under another key.
LEMMA RevokeArrives ==
    ASSUME Typed, CodesArrive, NEW c \in Clients, Revoke(c)
    PROVE  CodesArrive'
  <1>1. call[c].token \in TokenIds
    BY EndSessionTyped DEF Revoke
  <1>2. \A u \in UserIds : redis'[otpKey(u)] = redis[otpKey(u)]
    BY <1>1, KeysDiffer DEF Revoke, setKey, Typed, RedisTypeOK
  <1>3. MailsKept
    BY ElsewhereKeepsMails DEF Revoke, Revoking, EndSession, Finish, Goto
  <1> QED
    BY <1>2, <1>3, ArriveKept DEF Revoke

LEMMA TickArrives ==
    ASSUME Typed, CodesArrive, Tick
    PROVE  CodesArrive'
  <1>1. \A u \in UserIds : \/ redis'[otpKey(u)] = redis[otpKey(u)]
                          \/ redis'[otpKey(u)] = Absent
    BY KeysDiffer DEF Tick, PassTime
  <1>2. MailsKept
    BY DEF Tick, MailsKept
  <1> QED
    BY <1>1, <1>2, ArriveKept DEF Tick

\* What fails voids the promise.
LEMMA FaultsCount ==
    ASSUME Typed, faults' = faults + 1
    PROVE  CodesArrive'
  BY DEF Typed, RestOK, CodesArrive

LEMMA BeginsArrive ==
    ASSUME Typed, CodesArrive, NEW c \in Clients, Begins(c)
    PROVE  CodesArrive'
  <1>1. ASSUME NEW t, NEW b \in Bodies, BlindlyAdmit(c, t, b[1], b[2], b[3])
        PROVE  CodesArrive'
    BY <1>1, FaultsCount DEF BlindlyAdmit
  <1>2. ASSUME NEW r, Begin(c, r), UNCHANGED <<redis, mail, faults>>
        PROVE  CodesArrive'
    <2>1. MailsKept
      BY <1>2, ElsewhereKeepsMails DEF Begin, At
    <2> QED
      BY <1>2, <2>1, ArriveKept
  <1>3. ASSUME \/ \E email \in Emails, phone \in Phones, p \in Passwords :
                    BeginRegister(c, email, phone, p)
               \/ \E u \in UserIds, p \in Passwords : BeginLogin(c, u, p)
        PROVE  CodesArrive'
    BY <1>2, <1>3 DEF BeginRegister, BeginLogin
  <1>4. ASSUME \E u \in UserIds, code \in Codes :
                    BeginRequestReset(c, u, code) \/ RefuseVerify(c, u, code)
        PROVE  CodesArrive'
    BY <1>2, <1>4 DEF BeginRequestReset, RefuseVerify
  <1>5. ASSUME NEW t, NEW b \in Bodies, BeginProtected(c, t, b[1], b[2], b[3])
        PROVE  CodesArrive'
    BY <1>2, <1>5 DEF BeginProtected
  <1> QED
    BY <1>1, <1>3, <1>4, <1>5 DEF Begins

\* The requests that have nothing to do with codes.
LEMMA OtherStepsArrive ==
    ASSUME Typed, CodesArrive, NEW c \in Clients,
           \/ RegisterCreate(c) \/ RegisterConflict(c) \/ LoginSign(c)
           \/ Admit(c) \/ Reject(c) \/ AdmitLogout(c) \/ GetMe(c)
           \/ UpdateProfile(c) \/ UpdateProfileConflict(c)
           \/ ChangeRead(c) \/ ChangeWrite(c) \/ Notify(c)
    PROVE  CodesArrive'
  <1>1. call[c].at # "reset.mail"
    BY DEF RegisterCreate, RegisterConflict, LoginSign, Admit, Reject, AdmitLogout,
           GetMe, UpdateProfile, UpdateProfileConflict, ChangeRead, ChangeWrite,
           Notify, At
  <1>2. UNCHANGED <<redis, mail, faults>>
    BY DEF RegisterCreate, RegisterConflict, LoginSign, Admit, Reject, AdmitLogout,
           GetMe, UpdateProfile, UpdateProfileConflict, ChangeRead, ChangeWrite, Notify
  <1>3. \E r : call' = [call EXCEPT ![c] = r]
    BY DEF RegisterCreate, RegisterConflict, LoginSign, Admit, Reject, AdmitLogout,
           GetMe, UpdateProfile, UpdateProfileConflict, ChangeRead, ChangeWrite,
           Notify, Finish, Goto
  <1>4. MailsKept
    BY <1>1, <1>2, <1>3, ElsewhereKeepsMails
  <1> QED
    BY <1>2, <1>4, ArriveKept

LEMMA ArriveStep == Typed /\ CodesArrive /\ [Next]_vars => CodesArrive'
  <1> SUFFICES ASSUME Typed, CodesArrive, [Next]_vars PROVE CodesArrive'
    OBVIOUS
  <1>1. CASE Tick
    BY <1>1, TickArrives
  <1>2. CASE Crash \/ \E c \in Clients : CallFault(c) \/ RevokeFails(c)
    BY <1>2, FaultsCount DEF Crash, CallFault, RevokeFails
  <1>3. CASE (\E u \in UserIds : Deactivate(u)) \/ UNCHANGED vars
    BY <1>3, ArriveKept DEF Deactivate, vars, MailsKept
  <1>4. CASE \E c \in Clients : Begins(c)
    BY <1>4, BeginsArrive
  <1>5. CASE \E c \in Clients : Step(c)
    BY <1>2, <1>5, StoreArrives, SendArrives, RevokeArrives, OtherStepsArrive DEF Step
  <1> QED
    BY <1>1, <1>2, <1>3, <1>4, <1>5 DEF Next

(***************************************************************************)
(* The code that Redis holds for a user has been mailed to him, however    *)
(* the requests for him interleave, as long as nothing fails.              *)
(***************************************************************************)
THEOREM StoredCodesAreMailed == Spec => []StoredCodeWasMailed
  <1>1. Init => CodesArrive
    <2> SUFFICES ASSUME Init, NEW u \in UserIds PROVE ~exists(otpKey(u))
      BY DEF CodesArrive
    <2> QED
      BY KeysDiffer DEF Init, RedisInit, exists, Absent
  <1>2. Spec => []CodesArrive
    BY <1>1, AlwaysTyped, ArriveStep, PTL DEF Spec
  <1> QED
    BY <1>2, ArrivedIsMailed, PTL
=============================================================================
