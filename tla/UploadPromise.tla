--------------------------- MODULE UploadPromise ---------------------------
(***************************************************************************)
(* What the caller of upload is promised, whatever the line and the device *)
(* do: the file reaches the device from its first byte to its last, the    *)
(* progress reported never runs ahead of what the device has, Ok is said   *)
(* only of a file that is complete and closed, and there is an answer.     *)
(***************************************************************************)
EXTENDS Naturals

CONSTANT None

VARIABLES
    total,      \* length of the payload, None before the source is read
    stored,     \* bytes 0 .. stored - 1 are on the device
    reported,   \* bytes the progress callback has been told of
    filed,      \* the device has closed the file
    answer      \* "none", "ok" or "failed": an error or a panic

promiseVars == <<total, stored, reported, filed, answer>>

Init == total = None /\ stored = 0 /\ reported = 0 /\ filed = FALSE /\ answer = "none"

ReadSource ==
    /\ total = None /\ total' \in Nat
    /\ UNCHANGED <<stored, reported, filed, answer>>

Store ==
    /\ total # None /\ ~filed
    /\ stored' \in (stored + 1) .. total
    /\ UNCHANGED <<total, reported, filed, answer>>

Report ==
    /\ reported' \in (reported + 1) .. stored
    /\ UNCHANGED <<total, stored, filed, answer>>

File ==
    /\ total # None /\ stored = total
    /\ filed' = TRUE
    /\ UNCHANGED <<total, stored, reported, answer>>

AnswerOk ==
    /\ answer = "none" /\ filed /\ reported = total
    /\ answer' = "ok"
    /\ UNCHANGED <<total, stored, reported, filed>>

AnswerFailed ==
    /\ answer = "none"
    /\ answer' = "failed"
    /\ UNCHANGED <<total, stored, reported, filed>>

Next == ReadSource \/ Store \/ Report \/ File \/ AnswerOk \/ AnswerFailed

Spec == Init /\ [][Next]_promiseVars /\ WF_promiseVars(AnswerOk \/ AnswerFailed)

=============================================================================
