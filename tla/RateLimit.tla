-------------------------------- MODULE RateLimit --------------------------------
(***************************************************************************)
(* The fixed-window limiter of integrations/rate_limit.py for one bucket    *)
(* and one identifier.  A call reads the clock, increments the counter of   *)
(* its window, sets the counter's expiry and only then decides.  The expiry *)
(* is a command of its own; a call that dies before it leaves a counter     *)
(* that never expires.                                                      *)
(***************************************************************************)
EXTENDS Integers, FiniteSets

CONSTANTS
    Calls,        \* the calls to check
    Limit,        \* how many a window admits
    MaxWindow,    \* the last window followed
    NotCalled

\* A call: the window of its clock, what its increment answered, its progress.
CallRows == [window : 0..MaxWindow, count : Nat,
             stage : {"timed", "counted", "admitted", "refused", "dead"}]

ASSUME RateLimitAssumption ==
    /\ Limit \in Nat \ {0} /\ MaxWindow \in Nat
    /\ IsFiniteSet(Calls) /\ NotCalled \notin CallRows

VARIABLES
    current,    \* the current window
    counter,    \* count and remaining lifetime of each counter, in windows
    call        \* the progress of each call

limitVars == <<current, counter, call>>

Endless == -1

Lifetime == 2

KeyOf(w) == w

LimitInit ==
    /\ current = 0
    /\ counter = [w \in 0..MaxWindow |-> [count |-> 0, left |-> Endless]]
    /\ call = [c \in Calls |-> NotCalled]

ReadClock(c) ==
    /\ call[c] = NotCalled
    /\ call' = [call EXCEPT ![c] = [window |-> current, count |-> 0, stage |-> "timed"]]
    /\ UNCHANGED <<current, counter>>

Increment(c) ==
    /\ call[c] # NotCalled /\ call[c].stage = "timed"
    /\ LET key == KeyOf(call[c].window)
       IN /\ counter' = [counter EXCEPT ![key].count = @ + 1]
          /\ call' = [call EXCEPT ![c].count = counter[key].count + 1, ![c].stage = "counted"]
    /\ UNCHANGED current

\* EXPIRE ... NX touches neither a counter with an expiry nor one that is gone.
SetExpiry(c) ==
    /\ call[c] # NotCalled /\ call[c].stage = "counted"
    /\ LET key == KeyOf(call[c].window)
       IN counter' = IF counter[key].count > 0 /\ counter[key].left = Endless
                     THEN [counter EXCEPT ![key].left = Lifetime] ELSE counter
    /\ call' = [call EXCEPT ![c].stage = IF call[c].count > Limit THEN "refused" ELSE "admitted"]
    /\ UNCHANGED current

CallDies(c) ==
    /\ call[c] # NotCalled /\ call[c].stage \in {"timed", "counted"}
    /\ call' = [call EXCEPT ![c].stage = "dead"]
    /\ UNCHANGED <<current, counter>>

\* A call stalls for less than a window between its clock and its increment.
NextWindow ==
    /\ current < MaxWindow
    /\ \A c \in Calls : call[c] # NotCalled /\ call[c].stage = "timed" => call[c].window = current
    /\ current' = current + 1
    /\ counter' = [w \in 0..MaxWindow |->
                     CASE counter[w].left = Endless -> counter[w]
                       [] counter[w].left = 1 -> [count |-> 0, left |-> Endless]
                       [] OTHER -> [counter[w] EXCEPT !.left = @ - 1]]
    /\ UNCHANGED call

LimitNext ==
    \/ \E c \in Calls : ReadClock(c) \/ Increment(c) \/ SetExpiry(c) \/ CallDies(c)
    \/ NextWindow

LimitSpec == LimitInit /\ [][LimitNext]_limitVars

-----------------------------------------------------------------------------
(* Properties.                                                              *)

\* Types; a counter without an expiry has not been decided upon by any call.
LimitTypeOK ==
    /\ current \in 0..MaxWindow
    /\ \A w \in 0..MaxWindow : counter[w].count \in Nat /\ counter[w].left \in {Endless} \cup 1..Lifetime
    /\ \A c \in Calls : call[c] # NotCalled =>
           /\ call[c].stage \in {"timed", "counted", "admitted", "refused", "dead"}
           /\ call[c].stage \in {"admitted", "refused"} =>
                  LET key == KeyOf(call[c].window)
                  IN counter[key].count > 0 => counter[key].left # Endless

CallsOf(w) == {c \in Calls : call[c] # NotCalled /\ call[c].window = w}
Ended(w, stage) == {c \in CallsOf(w) : call[c].stage = stage}

\* No window admits more than the limit, although its last calls may count after it
\* has ended and its counter is thrown away some time later.
WindowBounded == \A w \in 0..MaxWindow : Cardinality(Ended(w, "admitted")) <= Limit

\* A call is refused only if as many as the limit admits had counted in its own
\* window: the counter a dead call left without expiry costs no later window anything.
RefusalIsEarned ==
    \A w \in 0..MaxWindow :
        Ended(w, "refused") # {} => Cardinality({c \in CallsOf(w) : call[c].count > 0}) > Limit

\* A window admits no more than its limit and refuses nobody before.
LimitSound ==
    /\ LimitTypeOK
    /\ WindowBounded
    /\ RefusalIsEarned

=============================================================================
