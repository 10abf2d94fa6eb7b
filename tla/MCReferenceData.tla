-------------------------- MODULE MCReferenceData --------------------------
(* A small instance of ReferenceData for TLC.                              *)
EXTENDS ReferenceDataProperties, TLC

(* Payments are interchangeable.                                           *)
Interchangeable == Permutations(Payments)
=============================================================================
