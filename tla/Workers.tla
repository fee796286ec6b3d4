------------------------------- MODULE Workers -------------------------------
(***************************************************************************)
(* The threads that run request handlers.  A server starts with a set of   *)
(* them and keeps it: properties that hold only while handlers run one at  *)
(* a time are stated for a server with a single worker.                    *)
(***************************************************************************)
EXTENDS FiniteSets

CONSTANT WorkerSets  \* the sets of workers that servers start with

ASSUME WorkersAssumption == \A W \in WorkerSets : IsFiniteSet(W) /\ W # {}

VARIABLE workers

Worker == UNION WorkerSets
Serial == Cardinality(workers) = 1
WorkersInit == workers \in WorkerSets
=============================================================================
