---------------------------- MODULE RedisService ----------------------------
(***************************************************************************)
(* The key-value store behind one-time passwords and revoked tokens: the   *)
(* calls redis.service.ts makes, and keys that lapse by themselves.  (Slot *)
(* locks use the same client; HoldService models their keys.)              *)
(***************************************************************************)
EXTENDS Integers

CONSTANTS Keys,     \* the keys this component uses
          Values,   \* the strings stored under them
          Numerals, \* those of them that are JSON numbers
          Missing   \* GET answers null; not one of the values

VARIABLES now,   \* the clock, in ticks
          redis  \* redis[k]: its value and the time it lapses

Absent == [value |-> Missing, until |-> 0]

RedisTypeOK ==
    /\ now \in Nat
    /\ redis \in [Keys -> [value : Values \cup {Missing}, until : Nat]]

RedisInit ==
    /\ now = 0
    /\ redis = [k \in Keys |-> Absent]

\* The number that a string of digits stands for; it is no string.
NumberOf(v) == <<"number", v>>

\* The client parses what it reads as JSON, unless it is told not to: digits
\* come back as a number, what is no JSON as the string it is.
deserialise(v) == IF v \in Numerals THEN NumberOf(v) ELSE v

get(k) == deserialise(redis[k].value)

exists(k) == redis[k].value # Missing

\* A key lives for one tick less: a plausible rounding of a TTL in seconds.
SetKey_Rounded(k, value, ttl) ==
    redis' = [redis EXCEPT ![k] = [value |-> value, until |-> now + ttl - 1]]

\* SETEX replaces the value and the lifetime, whatever was there.
setKey(k, value, ttl) ==
    redis' = [redis EXCEPT ![k] = [value |-> value, until |-> now + ttl]]

\* One tick: the keys whose lifetime ends are gone.
PassTime ==
    /\ now' = now + 1
    /\ redis' = [k \in Keys |->
                    IF redis[k].until <= now + 1 THEN Absent ELSE redis[k]]
=============================================================================
