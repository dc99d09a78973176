------------------------------- MODULE MCIngest -------------------------------
(* Ingest.tla on a venue of six notes in batches of two: two full batches and a
   short one, and a note without an abstract. *)
EXTENDS Ingest

CONSTANTS n1, n2, n3, n4, n5, n6, v1, v2, v3, v4

MCNote == {n1, n2, n3, n4, n5, n6}
MCReview == {v1, v2, v3, v4}
MCReviewsOf == [n \in MCNote |->
    CASE n = n1 -> {v1, v2} [] n = n2 -> {v3} [] n = n3 -> {v4} [] OTHER -> {}]
================================================================================
