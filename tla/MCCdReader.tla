----------------------------- MODULE MCCdReader -----------------------------
(* CdReader for TLC.  LiveView leaves out what no step reads before it is   *)
(* written again: an address word that no sequence number refers to, and    *)
(* the old contents of the slots in free_sectors and in the worker's hand.  *)
EXTENDS CdReader, TLC

LiveView ==
  <<epc, goal, lba, demanding, held, cache, reserveCount, got,
    free, ready, cancelled, stopping, request, hint,
    IF request \/ sawRequest \/ epc = "requestseq" THEN requestLba ELSE Nothing,
    IF hint \/ sawHint \/ epc = "hintseq" THEN hintLba ELSE Nothing,
    [s \in Slots |-> IF InFree(s) \/ s = taken THEN Nothing ELSE sector[s]],
    wpc, sig, sawRequest, sawHint, raLba, raCount, lastReadLba, demanded, taken>>
=============================================================================
