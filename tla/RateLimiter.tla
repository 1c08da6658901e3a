----------------------------- MODULE RateLimiter -----------------------------
(***************************************************************************)
(* RateLimiterMiddleware, for the requests of one address.  Addresses do   *)
(* not share anything.  The window of an address begins with a request and *)
(* is replaced by the first request after its end; it is in memory, and a  *)
(* restart forgets it.                                                     *)
(***************************************************************************)
EXTENDS Naturals, Sequences, FiniteSets

CONSTANTS
  MAX_REQUESTS,  \* of a window
  WindowSize,    \* in units of the clock
  MaxTime,       \* bound on the time
  MaxRestarts    \* bound on the restarts

LimiterAssumption ==
  /\ MAX_REQUESTS \in Nat \ {0}
  /\ WindowSize \in Nat
  /\ MaxTime \in Nat
  /\ MaxRestarts \in Nat

VARIABLES
  now,       \* the clock
  info,      \* the requestMap: at most one entry
  served,    \* when the requests went through, in their order
  refused,   \* the last request was refused
  restarts   \* so far

vars == <<now, info, served, refused, restarts>>

Time == 0..MaxTime

Init ==
  /\ now = 0
  /\ info = {}
  /\ served = <<>>
  /\ refused = FALSE
  /\ restarts = 0

Serve == served' = Append(served, now) /\ refused' = FALSE

NewWindow == info' = {[count |-> 1, firstRequestTime |-> now]} /\ Serve

\* (seeded fault) the limit is checked after one request too many
UseLate ==
  /\ \/ info = {} /\ NewWindow
     \/ \E i \in info :
          \/ now - i.firstRequestTime > WindowSize /\ NewWindow
          \/ /\ now - i.firstRequestTime <= WindowSize
             /\ IF i.count > MAX_REQUESTS
                  THEN refused' = TRUE /\ UNCHANGED <<info, served>>
                  ELSE info' = {[i EXCEPT !.count = @ + 1]} /\ Serve
  /\ UNCHANGED <<now, restarts>>

\* A request: the first, the first after a window, or one of a window.
Use ==
  /\ \/ info = {} /\ NewWindow
     \/ \E i \in info :
          \/ now - i.firstRequestTime > WindowSize /\ NewWindow
          \/ /\ now - i.firstRequestTime <= WindowSize
             /\ IF i.count >= MAX_REQUESTS
                  THEN refused' = TRUE /\ UNCHANGED <<info, served>>
                  ELSE info' = {[i EXCEPT !.count = @ + 1]} /\ Serve
  /\ UNCHANGED <<now, restarts>>

\* The bound of the model: MaxTime.
Tick ==
  /\ now < MaxTime
  /\ now' = now + 1
  /\ refused' = FALSE
  /\ UNCHANGED <<info, served, restarts>>

Restart ==
  /\ restarts < MaxRestarts
  /\ restarts' = restarts + 1
  /\ info' = {}
  /\ refused' = FALSE
  /\ UNCHANGED <<now, served>>

Next == Use \/ Tick \/ Restart

Spec == Init /\ [][Next]_vars

-----------------------------------------------------------------------------
(* Properties.                                                             *)

\* Every variable has its type.
TypeOK ==
  /\ now \in Time
  /\ \A i \in info : i.count \in 1..MAX_REQUESTS /\ i.firstRequestTime \in 0..now
  /\ Cardinality(info) <= 1
  /\ served \in Seq(0..now)
  /\ refused \in BOOLEAN
  /\ restarts \in 0..MaxRestarts

ServedIn(first, last) == Cardinality({n \in DOMAIN served : served[n] \in first..last})

\* Windows that begin anew wherever the last one ended let through, in any
\* stretch of time as long as a window, at most two windows' requests, and one
\* more for each restart; and a request is refused only when a full window's
\* went through within the last WindowSize.
LimitHolds ==
  /\ \A t \in Time : ServedIn(t, t + WindowSize) <= (2 + restarts) * MAX_REQUESTS
  /\ refused => \E t \in Time : /\ t <= now /\ now <= t + WindowSize
                                /\ ServedIn(t, now) >= MAX_REQUESTS
=============================================================================
