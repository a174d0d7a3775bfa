-------------------------- MODULE MCObjectDetection --------------------------
(***************************************************************************)
(* ObjectDetection on small instances. Detectors are interchangeable, and  *)
(* so are cameras.                                                         *)
(***************************************************************************)
EXTENDS ObjectDetection, TLC

Symmetric == Permutations(Detectors) \cup Permutations(Cameras)
=============================================================================
