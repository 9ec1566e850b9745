-------------------------- MODULE RetransmitBudget --------------------------
(***************************************************************************)
(* Session with a history variable: how many times the packet now in       *)
(* flight has been handed to the caller, at dispatch and by tick.  It      *)
(* stops counting at TotalTimeout + 1, which AttemptBudget already rules   *)
(* out whatever the response timeout.                                      *)
(***************************************************************************)
EXTENDS Session

VARIABLE attempts

Count ==
    attempts' = IF in_flight' = None THEN 0
                ELSE IF in_flight = None \/ Replaced THEN 1
                ELSE IF TickRetransmit THEN Later(attempts, TotalTimeout + 1)
                ELSE attempts

CountedInit == Init /\ attempts = 0
CountedNext == Next /\ Count
CountedVars == <<vars, attempts>>

CountedSpec == CountedInit /\ [][CountedNext]_CountedVars

CountedFairSpec == CountedSpec /\ Fairness

(* "Total budget for a single packet (= 20 attempts at the per-attempt     *)
(* timeout)": however late tick is called, the n-th writing of a packet    *)
(* starts before (n - 1) response timeouts have reached the total timeout; *)
(* with the defaults, 20 writings and no more.                             *)
AttemptBudget ==
    attempts * ResponseTimeout < TotalTimeout + ResponseTimeout

=============================================================================
