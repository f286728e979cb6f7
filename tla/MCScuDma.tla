------------------------------ MODULE MCScuDma ------------------------------
(* Two DMA levels: the lower one started by writes, the upper one by the   *)
(* end of a VDP1 drawing.                                                  *)
EXTENDS ScuDma, TLC

StartFactor == 0 :> Write @@ 1 :> "vdp1"
=============================================================================
