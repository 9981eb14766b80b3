----------------------------- MODULE MCAccounts -----------------------------
(***************************************************************************)
(* Instances of AccountsSystem for TLC.                                    *)
(***************************************************************************)
EXTENDS AccountsSystem, TLC

\* Requests, e-mails, phones, passwords and codes are interchangeable.
AccountSymmetry ==
    Permutations(Clients) \cup Permutations(Emails) \cup Permutations(Phones)
        \cup Permutations(Passwords) \cup Permutations(Codes)
=============================================================================
