------------------------- MODULE BoundedStaleness --------------------------
(***************************************************************************)
(* What the inventory caches of the integration handlers promise to their  *)
(* readers, with no cache in sight: a request is answered, for every kind  *)
(* of resource, with what the cluster held at some instant less than the   *)
(* kind's window before the request was made, or it is told that the kind  *)
(* could not be listed, or it fails as a whole.  Only a kind that is named *)
(* as silent may be missing from an answer without a word.  Several        *)
(* requests may be answered at once and with the same data.                *)
(***************************************************************************)
EXTENDS Naturals

CONSTANTS Readers,  \* requests that may be open at the same time
          Kinds,    \* kinds of resource a snapshot holds
          MaxTime   \* bound on the clock

VARIABLES promise,  \* what is promised: for each kind the window its data is
                    \* from, and the kinds that may be missing silently
          clock,    \* the time
          request,  \* the requests that are open, and when they were made
          answer    \* what the last step gave to which requests

vars == <<promise, clock, request, answer>>

Times == 0 .. MaxTime

\* A kind that is absent from the answer, which says so, ...
Missing == MaxTime + 1

\* ... and one that is absent though the answer looks complete.
Silent == MaxTime + 2

\* For each kind, an instant at which the data was what the cluster held.
Answers == [Kinds -> Times \cup {Missing, Silent}]

Closed == [open |-> FALSE, asked |-> 0]

None == [state |-> "none"]

\* Data that keeps the promise to a request made at the time asked.
Recent(asked, d) ==
    \A k \in Kinds : /\ d[k] = Silent => k \in promise.silent
                     /\ d[k] \in Times => /\ d[k] <= clock
                                         /\ asked < d[k] + promise.window[k]

\* The promise is made once and for all.
Init ==
    /\ promise \in [window: [Kinds -> Nat], silent: SUBSET Kinds]
    /\ clock = 0
    /\ request = [r \in Readers |-> Closed]
    /\ answer = None

\* A request is made and has to wait.
Ask(r) ==
    /\ ~request[r].open
    /\ request' = [request EXCEPT ![r] = [open |-> TRUE, asked |-> clock]]
    /\ answer' = None
    /\ UNCHANGED <<promise, clock>>

\* A request is made and answered at once.  The step says itself, through the
\* new value of answer, which requests it answers and with what.
AskAnswered ==
    /\ answer'.state = "data"
    /\ answer'.data \in Answers
    /\ \E r \in Readers : answer'.to = {r} /\ ~request[r].open
    /\ Recent(clock, answer'.data)
    /\ UNCHANGED <<promise, clock, request>>

\* Open requests are closed together,
Close(S) ==
    /\ \A r \in S : request[r].open
    /\ request' = [r \in Readers |-> IF r \in S THEN Closed ELSE request[r]]
    /\ UNCHANGED <<promise, clock>>

\* with data that is recent for each of them, or with an error.
Answer ==
    /\ answer'.state = "data"
    /\ answer'.data \in Answers
    /\ answer'.to \subseteq Readers
    /\ Close(answer'.to)
    /\ \A r \in answer'.to : Recent(request[r].asked, answer'.data)

Fail ==
    /\ answer'.state = "error"
    /\ answer'.to \subseteq Readers
    /\ Close(answer'.to)

\* Something happens that no request notices.
Work ==
    /\ answer' = None
    /\ UNCHANGED <<promise, clock, request>>

Tick ==
    /\ clock < MaxTime
    /\ clock' = clock + 1
    /\ answer' = None
    /\ UNCHANGED <<promise, request>>

Next ==
    \/ \E r \in Readers : Ask(r)
    \/ AskAnswered
    \/ Answer
    \/ Fail
    \/ Work
    \/ Tick

Spec == Init /\ [][Next]_vars

=============================================================================
