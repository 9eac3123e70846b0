---------------------------- MODULE SingleFlight ----------------------------
(***************************************************************************)
(* What `Coalescer::do_or_join` promises, without its locks, its slots'    *)
(* condition variables or the steps of its leader.  A call attaches to the *)
(* open flight of its key or opens one; a flight gets one outcome; its     *)
(* opener closes it when it returns; every other attached call returns the *)
(* flight's outcome.  The fetchers that coalesce compose this              *)
(* specification; Coalescer.tla is shown to implement it.                  *)
(***************************************************************************)
EXTENDS Naturals

CONSTANTS Threads,    \* callers of do_or_join
          Keys,       \* keys of the coalescer (object ids in the fetchers)
          Results,    \* what f may return: Ok(v) or Err(string)
          MaxCalls,   \* bound on the calls one thread makes
          NoFlight,   \* no flight
          Pending     \* the outcome of a flight that is still running

\* A flight is named by the call that opened it: the thread and its call number.
Flights == Threads \X (1..MaxCalls)

VARIABLES open,      \* key -> the flight a new call attaches to, or NoFlight
          outcome,   \* flight -> its result, Pending until there is one
          phase,     \* thread -> "idle" | "called" | "leader" | "follower"
          key,       \* thread -> key of its current (or last) call
          flight,    \* thread -> flight of its current (or last) call
          calls      \* thread -> calls made so far

vars == <<open, outcome, phase, key, flight, calls>>

TypeOK ==
    /\ open \in [Keys -> Flights \cup {NoFlight}]
    /\ outcome \in [Flights -> Results \cup {Pending}]
    /\ phase \in [Threads -> {"idle", "called", "leader", "follower"}]
    /\ key \in [Threads -> Keys]
    /\ flight \in [Threads -> Flights \cup {NoFlight}]
    /\ calls \in [Threads -> 0..MaxCalls]

Init ==
    /\ open = [k \in Keys |-> NoFlight]
    /\ outcome = [f \in Flights |-> Pending]
    /\ phase = [t \in Threads |-> "idle"]
    /\ key \in [Threads -> Keys]
    /\ flight = [t \in Threads |-> NoFlight]
    /\ calls = [t \in Threads |-> 0]

Call(t, k) ==
    /\ phase[t] = "idle"
    /\ calls[t] < MaxCalls
    /\ phase' = [phase EXCEPT ![t] = "called"]
    /\ key' = [key EXCEPT ![t] = k]
    /\ calls' = [calls EXCEPT ![t] = @ + 1]
    /\ UNCHANGED <<open, outcome, flight>>

\* The call finds no open flight for its key and opens one of its own.
OpenMutantNoInsert(t) ==
    /\ phase[t] = "called"
    /\ open[key[t]] = NoFlight
    /\ flight' = [flight EXCEPT ![t] = <<t, calls[t]>>]
    /\ phase' = [phase EXCEPT ![t] = "leader"]
    /\ UNCHANGED <<open, outcome, key, calls>>

Open(t) ==
    /\ phase[t] = "called"
    /\ open[key[t]] = NoFlight
    /\ open' = [open EXCEPT ![key[t]] = <<t, calls[t]>>]
    /\ flight' = [flight EXCEPT ![t] = <<t, calls[t]>>]
    /\ phase' = [phase EXCEPT ![t] = "leader"]
    /\ UNCHANGED <<outcome, key, calls>>

\* The call attaches to the open flight of its key.
Attach(t) ==
    /\ phase[t] = "called"
    /\ open[key[t]] # NoFlight
    /\ flight' = [flight EXCEPT ![t] = open[key[t]]]
    /\ phase' = [phase EXCEPT ![t] = "follower"]
    /\ UNCHANGED <<open, outcome, key, calls>>

\* The flight's work is over and its outcome is known to every call attached.
Settle(t, r) ==
    /\ phase[t] = "leader"
    /\ outcome[flight[t]] = Pending
    /\ outcome' = [outcome EXCEPT ![flight[t]] = r]
    /\ UNCHANGED <<open, phase, key, flight, calls>>

\* The opener closes its flight and returns.
Close(t) ==
    /\ phase[t] = "leader"
    /\ outcome[flight[t]] # Pending
    /\ open' = [open EXCEPT ![key[t]] = NoFlight]
    /\ phase' = [phase EXCEPT ![t] = "idle"]
    /\ UNCHANGED <<outcome, key, flight, calls>>

Return(t) ==
    /\ phase[t] = "follower"
    /\ outcome[flight[t]] # Pending
    /\ phase' = [phase EXCEPT ![t] = "idle"]
    /\ UNCHANGED <<open, outcome, key, flight, calls>>

SettleSome(t) == \E r \in Results : Settle(t, r)

Next == \E t \in Threads :
    \/ \E k \in Keys : Call(t, k)
    \/ Open(t)
    \/ Attach(t)
    \/ SettleSome(t)
    \/ Close(t)
    \/ Return(t)

\* Nobody is obliged to call; a call that was made goes on.
Fairness == \A t \in Threads :
    /\ WF_vars(Open(t) \/ Attach(t))
    /\ WF_vars(SettleSome(t))
    /\ WF_vars(Close(t))
    /\ WF_vars(Return(t))

Spec == Init /\ [][Next]_vars /\ Fairness

\* What Spec says of each step, without what must eventually happen.
SafetySpec == Init /\ [][Next]_vars
=============================================================================
