--------------------------- MODULE MCAutoQuality ---------------------------
(* A small instance: three cameras, two hours, the second one without a   *)
(* low stream for c1 and without any for the others; an original of c2    *)
(* and two streams of c3 that cannot be decoded; throughputs below,       *)
(* between and above the two margins.  The clock outlasts the window, so  *)
(* that old stalls leave it.                                              *)
EXTENDS AutoQuality, TLC
CONSTANTS c1, c2, c3

MCCameras == {c1, c2, c3}
MCChunks == {1, 2}
MCHasMain == (MCCameras \X MCChunks) \ {<<c2, 2>>, <<c3, 2>>}
MCHasSub == MCHasMain \ {<<c1, 2>>}
MCCodec == (c1 :> "plays") @@ (c2 :> "fails") @@ (c3 :> "fails")
MCLowCodec == (c1 :> "plays") @@ (c2 :> "plays") @@ (c3 :> "fails")
MCBitrate == (c1 :> 10) @@ (c2 :> 0) @@ (c3 :> 0)
MCRates == {10, 16}
MCPins == {"auto", "main"}
============================================================================
