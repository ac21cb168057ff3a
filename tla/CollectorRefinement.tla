-------------------------- MODULE CollectorRefinement --------------------------
(***************************************************************************)
(* A single operator instance implements DurableHistory: the calls of Save *)
(* and the failures between them amount to one atomic checkpoint of the    *)
(* memory, or to none, and Rehydrate to resuming from what is kept.        *)
(***************************************************************************)
EXTENDS Collector

TheInstance == CHOOSE o \in Operators : TRUE

Abstract == INSTANCE DurableHistory WITH
  recorded <- [w \in Workloads |->
                 [c \in DOMAIN state[TheInstance][w] |->
                    state[TheInstance][w][c].hist]],
  kept     <- [w \in Workloads |-> status[w].containers],
  running  <- pc[TheInstance] # "down"

\* design/operator.md section 7, "in-memory live state + periodic CRD
\* checkpoint": what readers of the profiles and a restarted operator see is
\* that of atomic checkpoints, though Save writes in up to three calls any of
\* which may fail (dynamicStore.Save, Collector.observeAndCheckpoint).
ImplementsDurableHistory == Abstract!Spec
=============================================================================
