-------------------------------- MODULE Fifo --------------------------------
(***************************************************************************)
(* What a queue of the server promises: whatever is added to queue k is    *)
(* handed to k's reader once, whole, in the order it was added, and is     *)
(* eventually handed over unless k is reset first.                         *)
(***************************************************************************)
EXTENDS Sequences

CONSTANTS Queues, Messages

VARIABLES
    pending,    \* pending[k]: added to k, not yet read, oldest first
    taken       \* taken[k]: what k's reader was given, in order

fifoVars == <<pending, taken>>

Init == /\ pending = [k \in Queues |-> <<>>]
        /\ taken = [k \in Queues |-> <<>>]

Add(k, m) == /\ pending' = [pending EXCEPT ![k] = Append(@, m)]
             /\ UNCHANGED taken

Take(k) == /\ pending[k] # <<>>
           /\ pending' = [pending EXCEPT ![k] = Tail(@)]
           /\ taken' = [taken EXCEPT ![k] = Append(@, Head(pending[k]))]

Reset(k) == /\ pending' = [pending EXCEPT ![k] = <<>>]
            /\ UNCHANGED taken

Next == \E k \in Queues : (\E m \in Messages : Add(k, m)) \/ Take(k) \/ Reset(k)

Spec == Init /\ [][Next]_fifoVars /\ \A k \in Queues : WF_fifoVars(Take(k))
=============================================================================
