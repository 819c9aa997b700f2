------------------------- MODULE SubmissionContract --------------------------
(***************************************************************************)
(* What an Idempotency-Key promises to clients: a key is bound once, to    *)
(* one run and one piece of work, and whoever asks for that work under the *)
(* key is answered with that run, whatever fails in between.  Submission   *)
(* implements this contract with a lookup, a unique index and a second     *)
(* lookup; manual retry uses it with the original run as the key.          *)
(***************************************************************************)
CONSTANTS
    Requests,  \* requests; a run is named by the request that creates it
    Keys,      \* client keys and, for retries, the originals
    Works,
    None

VARIABLES
    wants,   \* [Requests -> [key, work]], or None before the request arrives
    bound,   \* [Keys -> [run, work]], or None
    answer   \* [Requests -> run], or None

promise == <<wants, bound, answer>>

ContractInit ==
    /\ wants = [p \in Requests |-> None]
    /\ bound = [k \in Keys |-> None]
    /\ answer = [p \in Requests |-> None]

Ask(p) ==
    /\ wants[p] = None
    /\ wants'[p] \in [key : Keys, work : Works]
    /\ wants' = [wants EXCEPT ![p] = wants'[p]]
    /\ UNCHANGED <<bound, answer>>

\* The run of p is created and takes the key for good.
Bind(p) ==
    /\ wants[p] # None /\ answer[p] = None
    /\ bound[wants[p].key] = None
    /\ bound' = [bound EXCEPT ![wants[p].key] = [run |-> p, work |-> wants[p].work]]
    /\ UNCHANGED <<wants, answer>>

\* The answer names the run of the key, and only if it is the same work.
Answer(p) ==
    /\ wants[p] # None /\ answer[p] = None
    /\ bound[wants[p].key] # None
    /\ bound[wants[p].key].work = wants[p].work
    /\ answer' = [answer EXCEPT ![p] = bound[wants[p].key].run]
    /\ UNCHANGED <<wants, bound>>

ContractNext ==
    \E p \in Requests :
        \/ Ask(p)
        \/ Bind(p)
        \/ Answer(p)

ContractSpec == ContractInit /\ [][ContractNext]_promise
=============================================================================
