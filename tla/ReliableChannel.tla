-------------------------- MODULE ReliableChannel --------------------------
(***************************************************************************)
(* What a caller that sends one packet at a time may expect of the session *)
(* and the line under it, whatever the line loses: packets 1, 2, 3, ...    *)
(* reach the device in that order, none is acknowledged that has not       *)
(* reached it, and the sender is never left waiting.                       *)
(***************************************************************************)
EXTENDS Naturals

CONSTANT Last       \* the caller has packets 1 .. Last

VARIABLES
    submitted,      \* packets 1 .. submitted have been handed to send
    delivered,      \* packets 1 .. delivered have reached the device
    acknowledged,   \* packets 1 .. acknowledged have been acknowledged
    gaveUp          \* the caller has been told that the session failed

channelVars == <<submitted, delivered, acknowledged, gaveUp>>

Init == submitted = 0 /\ delivered = 0 /\ acknowledged = 0 /\ gaveUp = FALSE

Submit ==
    /\ ~gaveUp
    /\ submitted = acknowledged /\ submitted < Last
    /\ submitted' = submitted + 1
    /\ UNCHANGED <<delivered, acknowledged, gaveUp>>

Deliver ==
    /\ delivered < submitted
    /\ delivered' = delivered + 1
    /\ UNCHANGED <<submitted, acknowledged, gaveUp>>

Acknowledge ==
    /\ acknowledged < delivered
    /\ acknowledged' = acknowledged + 1
    /\ UNCHANGED <<submitted, delivered, gaveUp>>

GiveUp ==
    /\ ~gaveUp
    /\ gaveUp' = TRUE
    /\ UNCHANGED <<submitted, delivered, acknowledged>>

Next == Submit \/ Deliver \/ Acknowledge \/ GiveUp

(* A packet waits for its acknowledgement, or for the bad news, but not    *)
(* for ever.                                                               *)
Outcome == ~gaveUp /\ acknowledged < submitted /\ (Acknowledge \/ GiveUp)

Spec == Init /\ [][Next]_channelVars /\ WF_channelVars(Outcome)

=============================================================================
