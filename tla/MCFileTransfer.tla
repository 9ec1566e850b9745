--------------------------- MODULE MCFileTransfer ---------------------------
(* A transfer fed any line at any time, one pair of heatshrink parameters  *)
(* of the caller's own and one of the device's.                            *)
EXTENDS FileTransfer

MCSyncBody == [kind |-> "sync"]
MCBody == FilePacket
MCText == FileText
MCStrayOk == Chatter
=============================================================================
