----------------------------- MODULE MCCollector -----------------------------
(* Small instances of Collector for TLC. *)
EXTENDS CollectorRefines, TLC

\* Handlers are interchangeable: none of the safety properties names one.
HandlerSymmetry == Permutations(Handlers)
==============================================================================
