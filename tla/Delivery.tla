------------------------------ MODULE Delivery ------------------------------
(***************************************************************************)
(* What two connected applications are promised about the messages they    *)
(* send each other, whatever happens to the connection in between: every   *)
(* message a send() accepted reaches the other side at most once, in the   *)
(* order of sending, and no message overtakes one that is still missing.   *)
(***************************************************************************)
EXTENDS Naturals, Sequences

CONSTANTS Peers, Other(_), Bodies

VARIABLES
  submitted,  \* submitted[p]: what p's application sent, in order
  delivered   \* delivered[p]: what p's application received, in order

vars == <<submitted, delivered>>

Init ==
  /\ submitted = [p \in Peers |-> <<>>]
  /\ delivered = [p \in Peers |-> <<>>]

(* A send() of p returns OK.                                               *)
Submit(p, body) ==
  /\ submitted' = [submitted EXCEPT ![p] = Append(@, body)]
  /\ UNCHANGED delivered

(* fromApp of p is called with the first message it has not had yet.       *)
Receive(p) ==
  LET next == Len(delivered[p]) + 1
      from == submitted[Other(p)]
  IN  /\ next =< Len(from)
      /\ delivered' = [delivered EXCEPT ![p] = Append(@, from[next])]
      /\ UNCHANGED submitted

Next == \E p \in Peers : Receive(p) \/ \E body \in Bodies : Submit(p, body)

Spec == Init /\ [][Next]_vars

=============================================================================
