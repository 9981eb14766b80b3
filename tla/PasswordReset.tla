---------------------------- MODULE PasswordReset ----------------------------
(***************************************************************************)
(* Passwords that change: by their owner, who knows the old one, and, as   *)
(* it was meant, by a one-time password sent to the owner's mailbox.       *)
(***************************************************************************)
EXTENDS Accounts

-----------------------------------------------------------------------------
(* POST /users/change-password *)

ChangeRead(c) ==
    /\ At(c, "change.read")
    /\ IF users[call[c].user].password = call[c].old
       THEN Goto(c, "change.write")
       ELSE Finish(c)
    /\ UNCHANGED <<users, now, redis, token, mail, calls, faults, history>>

\* The lifetime is not looked at before it is used.
ChangeWrite_AnyTTL(c) ==
    /\ At(c, "change.write")
    /\ updatePassword(call[c].user, call[c].arg)
    /\ call' = [call EXCEPT ![c] = [@ EXCEPT !.at = "change.revoke",
                                             !.ttl = remaining(call[c].token)]]
    /\ UNCHANGED <<now, redis, token, mail, calls, faults, history>>

\* The new hash is stored, then the lifetime of the token's entry computed.
ChangeWrite(c) ==
    /\ At(c, "change.write")
    /\ updatePassword(call[c].user, call[c].arg)
    /\ IF remaining(call[c].token) > 0
       THEN call' = [call EXCEPT ![c] = [@ EXCEPT !.at = "change.revoke",
                                             !.ttl = remaining(call[c].token)]]
       ELSE Goto(c, "notify")
    /\ UNCHANGED <<now, redis, token, mail, calls, faults, history>>

-----------------------------------------------------------------------------
(* POST /users/forgot-password/request *)

\* Any code may be drawn.  For a user who does not exist the request ends and
\* says nothing.
BeginRequestReset(c, u, code) ==
    /\ u \in Registered
    /\ Begin(c, [Idle EXCEPT !.at = "reset.store", !.user = u, !.code = code])
    /\ UNCHANGED <<users, now, redis, token, mail, faults, history>>

\* A second draw is what is stored.
StoreOtp_DrawnAgain(c) ==
    /\ At(c, "reset.store")
    /\ \E code \in Codes : setKey(otpKey(call[c].user), code, OtpTTL)
    /\ Goto(c, "reset.mail")
    /\ UNCHANGED <<users, now, token, mail, calls, faults, history>>

StoreOtp(c) ==
    /\ At(c, "reset.store")
    /\ setKey(otpKey(call[c].user), call[c].code, OtpTTL)
    /\ Goto(c, "reset.mail")
    /\ UNCHANGED <<users, now, token, mail, calls, faults, history>>

SendOtp(c) ==
    /\ At(c, "reset.mail")
    /\ mail' = [mail EXCEPT ![call[c].user] = @ \cup {call[c].code}]
    /\ Finish(c)
    /\ UNCHANGED <<users, now, redis, token, calls, faults, history>>

-----------------------------------------------------------------------------
(* POST /users/forgot-password/verify *)

\* What GET answers is compared with the string of the request, strictly.
verifyOtp(u, code) == get(otpKey(u)) = code

\* An absent, a lapsed and an unequal code are all refused.  The statements for
\* an equal one (delete the key, store the password, notify) are not modelled:
\* no code gets there (CodesAreRefused in AccountsProofs).
RefuseVerify(c, u, code) ==
    /\ u \in Registered
    /\ ~verifyOtp(u, code)
    /\ Begin(c, Idle)
    /\ UNCHANGED <<users, now, redis, token, mail, faults, history>>

-----------------------------------------------------------------------------
\* The mail that says the password has changed; its failure is swallowed.
Notify(c) ==
    /\ At(c, "notify")
    /\ Finish(c)
    /\ UNCHANGED <<users, now, redis, token, mail, calls, faults, history>>
=============================================================================
