----------------------------- MODULE MCCollector -----------------------------
(* Values for the constants of Collector that a cfg cannot write down. *)
EXTENDS CollectorRefinement

\* A container that is busy, and one that uses memory but no CPU.
BusyOrIdle == {{"cpu", "mem"}, {"mem"}}
AlwaysBusy == {{"cpu", "mem"}}
=============================================================================
