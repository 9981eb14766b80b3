------------------------------ MODULE Requests ------------------------------
(***************************************************************************)
(* HTTP and socket requests of the use cases around bookings: what each    *)
(* client waits for, between two awaited statements.  A statement that     *)
(* rejects ends its request; what the request wrote before it stays.       *)
(***************************************************************************)
EXTENDS Integers

CONSTANTS Clients,    \* requests in flight at once
          MaxCalls,   \* bound: requests made
          MaxFaults,  \* bound: statements that reject
          None        \* null

ASSUME RequestsBounds == {MaxCalls, MaxFaults} \subseteq Nat

VARIABLES call,   \* call[c]: the statement c is at, and what the handler holds
          calls,  \* requests made so far
          faults  \* statements rejected so far

requestVars == <<call, calls, faults>>

Idle == [at |-> "idle"]

RequestsInit == call = [c \in Clients |-> Idle] /\ calls = 0 /\ faults = 0

RequestsTypeOK(Calls) ==
    /\ call \in [Clients -> Calls \cup {Idle}]
    /\ calls \in 0..MaxCalls /\ faults \in 0..MaxFaults

At(c, stage) == call[c].at = stage

Quiescent == \A c \in Clients : At(c, "idle")

Begin(c, r) ==
    /\ At(c, "idle")
    /\ calls < MaxCalls
    /\ calls' = calls + 1
    /\ call' = [call EXCEPT ![c] = r]
    /\ UNCHANGED faults

Continue(c, r) ==
    /\ call' = [call EXCEPT ![c] = r]
    /\ UNCHANGED <<calls, faults>>

Goto(c, stage) == Continue(c, [call[c] EXCEPT !.at = stage])

Finish(c) == Continue(c, Idle)

Reject(c) ==
    /\ ~At(c, "idle")
    /\ faults < MaxFaults
    /\ faults' = faults + 1
    /\ call' = [call EXCEPT ![c] = Idle]
    /\ UNCHANGED calls

\* Rows are numbered in the order of insertion.
IsNextRow(i, rows) == i \notin rows /\ \A j \in 1..(i - 1) : j \in rows
=============================================================================
