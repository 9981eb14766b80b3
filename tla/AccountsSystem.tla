--------------------------- MODULE AccountsSystem ---------------------------
(***************************************************************************)
(* Every account request against one users table and one Redis, with calls *)
(* that fail, a process that dies, users who are deactivated, and time.    *)
(***************************************************************************)
EXTENDS PasswordReset

Tick ==
    /\ now < MaxTime
    /\ PassTime
    /\ UNCHANGED <<users, token, call, mail, calls, faults, history>>

\* An administrator switches an account off, in the database.
Deactivate(u) ==
    /\ u \in Registered /\ isActive(u)
    /\ calls < MaxCalls
    /\ calls' = calls + 1
    /\ users' = [users EXCEPT ![u] = [@ EXCEPT !.status = "INACTIVE"]]
    /\ UNCHANGED <<now, redis, token, call, mail, faults, history>>

\* Redis cannot be asked about the token: isBlacklisted answers false.
BlindlyAdmit(c, t, handler, old, arg) ==
    /\ faults < MaxFaults
    /\ faults' = faults + 1
    /\ Verifies(t)
    /\ Begin(c, [Idle EXCEPT !.at = "auth.user", !.token = t, !.next = handler,
                             !.old = old, !.arg = arg])
    /\ UNCHANGED <<users, now, redis, token, mail, history>>

\* The blacklist cannot be written: the error is logged, and the request
\* answers as if it had been.
RevokeFails(c) ==
    /\ call[c].at \in Revoking
    /\ faults < MaxFaults
    /\ faults' = faults + 1
    /\ unwritten' = IF call[c].token \in ended
                    THEN unwritten ELSE unwritten \cup {call[c].token}
    /\ EndSession(c)
    /\ UNCHANGED <<users, now, redis, token, mail, calls>>

\* An awaited call rejects and the request ends; what it did before stays.
CallFault(c) ==
    /\ call[c].at \notin {"idle"} \cup Revoking
    /\ faults < MaxFaults
    /\ faults' = faults + 1
    /\ Finish(c)
    /\ UNCHANGED <<users, now, redis, token, mail, calls, history>>

Crash ==
    /\ ~Quiescent
    /\ faults < MaxFaults
    /\ faults' = faults + 1
    /\ call' = [c \in Clients |-> Idle]
    /\ UNCHANGED <<users, now, redis, token, mail, calls, history>>

\* What a client may send behind a token: the handler and its body.
Bodies == {<<"logout", None, None>>, <<"me.read", None, None>>}
          \cup {<<"profile.write", None, phone>> : phone \in Phones}
          \cup {<<"change.read", old, new>> : old, new \in Passwords}

Begins(c) ==
    \/ \E email \in Emails, phone \in Phones, p \in Passwords :
            BeginRegister(c, email, phone, p)
    \/ \E u \in UserIds, p \in Passwords : BeginLogin(c, u, p)
    \/ \E u \in UserIds, code \in Codes :
            BeginRequestReset(c, u, code) \/ RefuseVerify(c, u, code)
    \/ \E t \in TokenIds, b \in Bodies :
            \/ BeginProtected(c, t, b[1], b[2], b[3])
            \/ BlindlyAdmit(c, t, b[1], b[2], b[3])

Step(c) ==
    \/ RegisterCreate(c) \/ RegisterConflict(c) \/ LoginSign(c)
    \/ Admit(c) \/ Reject(c) \/ AdmitLogout(c) \/ Revoke(c) \/ RevokeFails(c)
    \/ GetMe(c) \/ UpdateProfile(c) \/ UpdateProfileConflict(c)
    \/ ChangeRead(c) \/ ChangeWrite(c)
    \/ StoreOtp(c) \/ SendOtp(c) \/ Notify(c)

Next ==
    \/ Tick \/ Crash
    \/ \E u \in UserIds : Deactivate(u)
    \/ \E c \in Clients : Begins(c) \/ Step(c) \/ CallFault(c)

Spec == Init /\ [][Next]_vars

-----------------------------------------------------------------------------
(***************************************************************************)
(* E-mail and phone identify one account, although register looks first    *)
(* and inserts later, and a profile may take any phone.                    *)
(***************************************************************************)
ContactsAreUnique ==
    \A u, v \in Registered :
        users[u].email = users[v].email \/ users[u].phone = users[v].phone
            => u = v

(***************************************************************************)
(* A session that has ended stays ended: from the answer to logout or to a *)
(* password change until its exp, the token is on the blacklist, whatever  *)
(* time passed between computing the entry's lifetime and writing it, and  *)
(* however often it is written.  A write that failed, which the answer     *)
(* does not tell, is made good by the next one.                            *)
(***************************************************************************)
EndedSessionStaysOut ==
    \A t \in ended \ unwritten : Verifies(t) => exists(blacklistKey(t))

(***************************************************************************)
(* The code that Redis holds for a user is in his mailbox, in whatever     *)
(* order two requests for him store their codes and mail them, unless      *)
(* something failed.                                                       *)
(***************************************************************************)
StoredCodeWasMailed ==
    Quiescent /\ faults = 0 =>
        \A u \in UserIds :
            exists(otpKey(u)) => redis[otpKey(u)].value \in mail[u]

(***************************************************************************)
(* "POST /users/forgot-password/verify: Password reset successfully": as   *)
(* long as Redis holds a code for a user, some code in his mailbox is      *)
(* accepted, unless something failed.                                      *)
(***************************************************************************)
MailedCodeWorks ==
    Quiescent /\ faults = 0 =>
        \A u \in UserIds :
            exists(otpKey(u)) => \E code \in mail[u] : verifyOtp(u, code)
=============================================================================
