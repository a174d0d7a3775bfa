--------------------------- MODULE MCTrackedObjects ---------------------------
(***************************************************************************)
(* TrackedObjects on small instances: a camera that users change, and one  *)
(* that sends empty frames.                                                *)
(***************************************************************************)
EXTENDS TrackedObjects

CONSTANTS yard, door

MCObjects == {1}
MCMaxObjects == [c \in Cameras |-> IF c = yard THEN 1 ELSE 0]
=============================================================================
