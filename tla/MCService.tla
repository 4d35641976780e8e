----------------------------- MODULE MCService -----------------------------
(***************************************************************************)
(* Service for TLC.  The requests are those that can succeed; Job is       *)
(* checked with the others.                                                *)
(***************************************************************************)
EXTENDS Service, TLC

CONSTANTS
  w1, w2, p1,
  Requests     \* those that are made

WorkerSymmetry == Permutations(Workers)

AzureRequests == {[source |-> "s3", engine |-> "azure", storage |-> TRUE]}
AnyEngine     == [source : {"s3"}, engine : {"azure", "markitdown"}, storage : {TRUE}]

MCInit ==
  /\ ServiceInit
  /\ request \in Requests
MCSpec     == MCInit /\ [][ServiceNext]_all
MCFairSpec == MCSpec /\ ServiceFairness
=============================================================================
