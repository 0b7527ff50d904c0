---------------------------- MODULE MCReviewKeys ------------------------------
(* Small instances of the review-service's key set, without symmetry: one of *)
(* the properties is a liveness property.                                    *)
EXTENDS ReviewKeys
===============================================================================
