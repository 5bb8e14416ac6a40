------------------------------- MODULE Duplex -------------------------------
(* What a WebSocket session promises the two applications that hold its ends *)
(* (runtime/include/opal/http/websocket.h), with no threads, no callbacks    *)
(* and no parked operations: a bounded first-in first-out channel in each    *)
(* direction and one end for both.  Nothing enters after the end; what had   *)
(* entered before it may still be taken.                                     *)
EXTENDS Naturals, Sequences

CONSTANTS
    Bound,     \* messages a direction holds before a sender must wait
    Messages   \* what may be sent

VARIABLES
    transit,   \* per sending end: accepted, not yet taken by the other end
    taken,     \* per receiving end: everything it was handed, in order
    ended

dvars == <<transit, taken, ended>>

Sides == {0, 1}
Other(e) == 1 - e

DInit ==
    /\ transit = [e \in Sides |-> <<>>]
    /\ taken = [e \in Sides |-> <<>>]
    /\ ended = FALSE

\* A message is accepted and waits for the other end.
Accept(e, m) ==
    /\ ~ended
    /\ Len(transit[e]) < Bound
    /\ transit' = [transit EXCEPT ![e] = Append(@, m)]
    /\ UNCHANGED <<taken, ended>>

\* A message is accepted by a channel with nothing waiting and taken at once.
HandOff(e, m) ==
    /\ ~ended
    /\ transit[e] = <<>>
    /\ taken' = [taken EXCEPT ![Other(e)] = Append(@, m)]
    /\ UNCHANGED <<transit, ended>>

\* End e takes the oldest message waiting for it.
Take(e) ==
    /\ transit[Other(e)] # <<>>
    /\ taken' = [taken EXCEPT ![e] = Append(@, Head(transit[Other(e)]))]
    /\ transit' = [transit EXCEPT ![Other(e)] = Tail(@)]
    /\ UNCHANGED ended

\* The same, and a sender that was waiting for the room gets it.
TakeAndAdmit(e, m) ==
    /\ ~ended
    /\ transit[Other(e)] # <<>>
    /\ taken' = [taken EXCEPT ![e] = Append(@, Head(transit[Other(e)]))]
    /\ transit' = [transit EXCEPT ![Other(e)] = Append(Tail(@), m)]
    /\ UNCHANGED ended

Finish ==
    /\ ended' = TRUE
    /\ UNCHANGED <<transit, taken>>

DNext ==
    \/ \E e \in Sides :
         \/ \E m \in Messages : Accept(e, m) \/ HandOff(e, m) \/ TakeAndAdmit(e, m)
         \/ Take(e)
    \/ Finish

DSpec == DInit /\ [][DNext]_dvars
=============================================================================
