------------------------------ MODULE MCUpload ------------------------------
(* A short file, chunks of every size that matters, one good and one bad   *)
(* pair of heatshrink parameters.                                          *)
EXTENDS UploadLink

MCSyncBody == Plain("sync")
MCChunk == [from : 0 .. 2, len : 1 .. 3]
MCBody == FilePacket \cup {ControlClose}
MCText == FileText
MCStrayOk == Chatter
MCParams == {[window |-> 11, lookahead |-> 4], [window |-> 4, lookahead |-> 4]}
MCRequests == {CompAuto}
=============================================================================
