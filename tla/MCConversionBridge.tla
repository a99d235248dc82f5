------------------------- MODULE MCConversionBridge -------------------------
(* Two or three canvases, one of which the page refuses. *)
EXTENDS ConversionBridge
CONSTANTS good, odd
=============================================================================
