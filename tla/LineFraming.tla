----------------------------- MODULE LineFraming -----------------------------
(***************************************************************************)
(* How Session::feed of src/session.rs makes lines of what the caller      *)
(* reads, which may be a fragment of a line or several lines: bytes gather *)
(* in inbound_buf, every LF in it ends a line, trailing CRs and LFs are    *)
(* stripped, and a line with nothing left is skipped.  The others go to    *)
(* process_line one after the other: Feed of module Session.               *)
(***************************************************************************)
EXTENDS Naturals, Sequences, SequencesExt

CONSTANTS
    Char,       \* bytes that end no line
    MaxBytes    \* bound on the bytes fed between two resets

CR == "CR"
LF == "LF"
Byte == Char \cup {CR, LF}

ASSUME FramingAssumption == Char \cap {CR, LF} = {} /\ MaxBytes \in Nat

VARIABLES
    inbound_buf,
    feeding,      \* feed has been called and has not returned
    lines,        \* history: what process_line has been given since a reset
    fed           \* history: all bytes fed since a reset

framingVars == <<inbound_buf, feeding, lines, fed>>

(* position(|b| b == LF), as an index from 1; 0 where there is none. *)
LineEnd(buf) == SelectInSeq(buf, LAMBDA b : b = LF)

(* strip_line_endings: up to the last byte that is neither CR nor LF. *)
Mutant_Strip(line) == SubSeq(line, 1, Len(line) - 1)

Strip(line) == SubSeq(line, 1, SelectLastInSeq(line, LAMBDA b : b \notin {CR, LF}))

-----------------------------------------------------------------------------
Feed(bytes) ==
    /\ ~feeding
    /\ Len(fed) + Len(bytes) <= MaxBytes
    /\ inbound_buf' = inbound_buf \o bytes
    /\ fed' = fed \o bytes
    /\ feeding' = TRUE
    /\ UNCHANGED lines

(* (Mutant_ operators are faulty variants of what follows them.) *)
Mutant_TakesLine ==
    /\ feeding /\ LineEnd(inbound_buf) # 0
    /\ lines' = Append(lines, Strip(SubSeq(inbound_buf, 1, LineEnd(inbound_buf))))
    /\ inbound_buf' = SubSeq(inbound_buf, LineEnd(inbound_buf) + 1, Len(inbound_buf))
    /\ feeding' = FALSE
    /\ UNCHANGED fed

TakesLine ==
    /\ feeding /\ LineEnd(inbound_buf) # 0
    /\ LET line == Strip(SubSeq(inbound_buf, 1, LineEnd(inbound_buf)))
       IN  lines' = IF line = <<>> THEN lines ELSE Append(lines, line)
    /\ inbound_buf' = SubSeq(inbound_buf, LineEnd(inbound_buf) + 1, Len(inbound_buf))
    /\ UNCHANGED <<feeding, fed>>

FeedReturns ==
    /\ feeding /\ LineEnd(inbound_buf) = 0
    /\ feeding' = FALSE
    /\ UNCHANGED <<inbound_buf, lines, fed>>

(* reset clears inbound_buf with the queues: the rest of a line it cuts in *)
(* two is the beginning of the next line.                                  *)
Reset ==
    /\ ~feeding
    /\ inbound_buf' = <<>> /\ lines' = <<>> /\ fed' = <<>>
    /\ UNCHANGED feeding

FramingInit == inbound_buf = <<>> /\ feeding = FALSE /\ lines = <<>> /\ fed = <<>>

FramingNext ==
    \/ \E n \in 1 .. MaxBytes : \E bytes \in [1 .. n -> Byte] : Feed(bytes)
    \/ TakesLine
    \/ FeedReturns
    \/ Reset

FramingSpec == FramingInit /\ [][FramingNext]_framingVars

-----------------------------------------------------------------------------
(* Between two calls of feed the buffer holds no complete line: no answer  *)
(* of the device waits for the next read to be looked at.                  *)
NoLineHeldBack ==
    /\ inbound_buf \in Seq(Byte) /\ feeding \in BOOLEAN /\ fed \in Seq(Byte)
    /\ ~feeding => ~Contains(inbound_buf, LF)

(* The reference: the text before an LF of the input, from the LF before   *)
(* it, without the CRs at its end.                                         *)
Ends(input) == { i \in 1 .. Len(input) : input[i] = LF }
Trimmed(input, from, to) ==
    CHOOSE text \in { SubSeq(input, from, k) : k \in (from - 1) .. to } :
        /\ text # <<>> => text[Len(text)] # CR
        /\ \A k \in (from + Len(text)) .. to : input[k] = CR
LastOf(S) == IF S = {} THEN 0 ELSE Max(S)
TextBefore(input, end) ==
    Trimmed(input, LastOf({ i \in Ends(input) : i < end }) + 1, end - 1)

(* The LFs of the input that end a line with text in it.                   *)
Filled(input) == { end \in Ends(input) : TextBefore(input, end) # <<>> }
FilledUpTo(input, n) == { end \in Filled(input) : end <= n }

(* However the input is cut into reads, process_line gets exactly the      *)
(* lines of it that are not empty, in their order, and what follows the    *)
(* last LF stays in the buffer.                                            *)
LinesAreTheInputs ==
    ~feeding =>
        /\ Len(lines) = Cardinality(Filled(fed))
        /\ \A end \in Filled(fed) :
              lines[Cardinality(FilledUpTo(fed, end))] = TextBefore(fed, end)
        /\ inbound_buf = SubSeq(fed, LastOf(Ends(fed)) + 1, Len(fed))

=============================================================================
