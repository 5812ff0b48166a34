------------------------------- MODULE MCEngine -------------------------------
(* Instances of Engine for TLC: small graphs with chosen contracts. *)
EXTENDS Engine, TLC

CONSTANTS na, nb, nc, nr, tick, req, always, left, right

\* na -> nb
LinearRelease == {<<na, nb>>}
NoRouteEdges == {}
GuardedContract == (na :> "reconcilable") @@ (nb :> "non_replayable")
PureContract == [n \in Nodes |-> "pure"]
IdempotentContract == [n \in Nodes |-> "idempotent"]
\* nr (router) routes to na, nb depends on na
RoutedChain == {[from |-> nr, to |-> na, when |-> always]}
ChainContract == (nr :> "none") @@ (na :> "reconcilable") @@ (nb :> "idempotent")
\* na routes to nb or nc
Branch == {[from |-> na, to |-> nb, when |-> left],
           [from |-> na, to |-> nc, when |-> right]}
\* nc chooses nb or nothing; nb also depends on na
MixedRelease == {<<na, nb>>}
Mixed == {[from |-> nc, to |-> nb, when |-> left]}
OneAttempt == [n \in Nodes |-> 1]
TwoAttempts == [n \in Nodes |-> 2]
=============================================================================
