---------------------------- MODULE HoldService ----------------------------
(***************************************************************************)
(* The Redis slot locks of HoldService over RedisService, and the clock    *)
(* they expire by.  A key is court:start:end, so there is one key per      *)
(* exact slot and overlapping slots have unrelated keys.  The value stored *)
(* under a key (booking and user ids) is read by no operation of the       *)
(* system, so only the expiry time of a key is kept; 0 stands for no key.  *)
(* No operation looks at who set the key.                                  *)
(***************************************************************************)
EXTENDS Integers

CONSTANTS Slots,    \* the slots customers ask for: records [court, start, end]
          HoldTTL   \* lifetime of a hold, in ticks of the clock

ASSUME SlotsAssumption == \A s \in Slots : s.start \in Int /\ s.end \in Int

ASSUME HoldTTLAssumption == HoldTTL \in Nat \ {0}

VARIABLES now,        \* the time
          holdUntil   \* holdUntil[s]: when the key of slot s expires, 0 if absent

HoldServiceTypeOK ==
    /\ now \in Nat
    /\ holdUntil \in [Slots -> Nat]

HoldServiceInit ==
    /\ now = 0
    /\ holdUntil = [s \in Slots |-> 0]

isHeld(s) == holdUntil[s] # 0

\* A plausible slip: the lifetime counted backwards.
UpdateHold_InThePast(s) == holdUntil' = [holdUntil EXCEPT ![s] = now - HoldTTL]

\* SET key value EX ttl: overwrites and restarts the lifetime.
updateHold(s) == holdUntil' = [holdUntil EXCEPT ![s] = now + HoldTTL]

\* A plausible slip: SET without NX always succeeds.
AcquireHold_WithoutNX(s) == updateHold(s)

\* SET key value EX ttl NX, when it answers OK.
acquireHold(s) == ~isHeld(s) /\ updateHold(s)

\* DEL key, whoever set it.
releaseHold(s) == holdUntil' = [holdUntil EXCEPT ![s] = 0]

\* One unit of time passes; Redis drops the keys whose lifetime is over.
PassTime ==
    /\ now' = now + 1
    /\ holdUntil' = [s \in Slots |-> IF holdUntil[s] > now + 1
                                     THEN holdUntil[s] ELSE 0]
=============================================================================
