--------------------------- MODULE MCReviewFrames ---------------------------
(***************************************************************************)
(* ReviewFrames on a small instance, with the labels of MCReviewSegments.  *)
(***************************************************************************)
EXTENDS ReviewFrames, MCReviewSegments
=============================================================================
