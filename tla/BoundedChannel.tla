--------------------------- MODULE BoundedChannel ---------------------------
(***************************************************************************)
(* What a message bus promises for each of its queues: a FIFO of bounded   *)
(* length, from which nothing disappears except into the hands of a        *)
(* receiver, until the bus is shut.  Then queued messages may be discarded *)
(* too, oldest first.                                                      *)
(***************************************************************************)
EXTENDS Naturals, Sequences

CONSTANTS Queue, Msg, Cap

VARIABLES contents, received, shut

absVars == <<contents, received, shut>>

AbsInit ==
    /\ contents = [k \in Queue |-> <<>>]
    /\ received = [k \in Queue |-> <<>>]
    /\ shut = FALSE

Put(k) ==
    /\ Len(contents[k]) < Cap
    /\ \E m \in Msg : contents' = [contents EXCEPT ![k] = Append(@, m)]
    /\ UNCHANGED <<received, shut>>

Get(k) ==
    /\ contents[k] # <<>>
    /\ received' = [received EXCEPT ![k] = Append(@, Head(contents[k]))]
    /\ contents' = [contents EXCEPT ![k] = Tail(@)]
    /\ UNCHANGED shut

Discard(k) ==
    /\ shut = TRUE
    /\ contents[k] # <<>>
    /\ contents' = [contents EXCEPT ![k] = Tail(@)]
    /\ UNCHANGED <<received, shut>>

Shut ==
    /\ shut' = TRUE
    /\ UNCHANGED <<contents, received>>

AbsNext == Shut \/ \E k \in Queue : Put(k) \/ Get(k) \/ Discard(k)

AbsSpec == AbsInit /\ [][AbsNext]_absVars
=============================================================================
