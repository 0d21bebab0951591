------------------------------ MODULE OnceOnly ------------------------------
(***************************************************************************)
(* What the mutation path promises: an operation id takes effect at most   *)
(* once, for one request, and the verdict a caller gets agrees with that.  *)
(* There is no queue, transaction, retry, crash or lost answer here; the   *)
(* module Mutations has all of them and implements this specification.     *)
(***************************************************************************)
CONSTANTS OpIds,      \* the operation ids clients generate
          Requests,   \* the requests, each a command with its arguments
          NoRequest   \* "no effect yet"

VARIABLES outcome,    \* outcome[o] is the request o took effect for, if any
          verdicts    \* the triples <<id, request, verdict>> given so far

vars == <<outcome, verdicts>>

Init == /\ outcome = [o \in OpIds |-> NoRequest]
        /\ verdicts = {}

\* The first execution of o.
Take(o, r) ==
    /\ outcome[o] = NoRequest
    /\ outcome' = [outcome EXCEPT ![o] = r]
    /\ verdicts' = verdicts \cup {<<o, r, "saved">>}

\* A repetition of a request that already took effect is told so.
Repeat(o, r) ==
    /\ outcome[o] = r
    /\ verdicts' = verdicts \cup {<<o, r, "saved">>}
    /\ UNCHANGED outcome

\* A refusal means that this request has not taken effect under this id.
Refuse(o, r) ==
    /\ outcome[o] # r
    /\ verdicts' = verdicts \cup {<<o, r, "rejected">>}
    /\ UNCHANGED outcome

Next == \E o \in OpIds, r \in Requests : Take(o, r) \/ Repeat(o, r) \/ Refuse(o, r)

Spec == Init /\ [][Next]_vars
=============================================================================
