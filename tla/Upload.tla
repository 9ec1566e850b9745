------------------------------- MODULE Upload -------------------------------
(***************************************************************************)
(* upload of src/adapters/blocking.rs and src/adapters/tokio.rs, which are *)
(* one program but for the read: the ASCII trigger, the handshake, QUERY,  *)
(* OPEN, one WRITE per chunk, CLOSE, and the control CLOSE that leaves     *)
(* binary mode, over a transport that may fail at any call.                *)
(*                                                                         *)
(* Between two requests the program is in one of its four drive_ loops.    *)
(* phase says which answer the loop is for, step where in the loop's body  *)
(* it is: write out, read, feed what was read, drain the events, tick.     *)
(* After step done the straight-line code between two loops runs.          *)
(*                                                                         *)
(* A unit of time is one read that times out: 100 ms on the serial port    *)
(* that adapters::serialport opens, response_timeout with tokio.  Only the *)
(* read waits.  What a read brings that is no complete line, or chatter, or*)
(* end of file, changes nothing and is ReadReturnsNothing.                 *)
(***************************************************************************)
EXTENDS FileTransfer

CONSTANTS
    Iterations,         \* 200 in the code: turns of a loop
    Requests,           \* compression preferences the caller may have
    ChunkSizeOption,    \* chunk sizes the caller may ask for
    FallbackChunkSize,  \* 256 in the code
    PayloadLen,         \* lengths of the source, compressed or not
    MaxFrames           \* bound on what the line to the device holds

ControlClose == Plain("control_close")

ASSUME UploadAssumption ==
    /\ Iterations \in Nat \ {0} /\ FallbackChunkSize \in Nat \ {0}
    /\ BlockSize \cup ChunkSizeOption \cup PayloadLen \subseteq Nat
    /\ Requests \subseteq Compression
    /\ Params \subseteq [window : Nat, lookahead : Nat]
    /\ ControlClose \in Body
    /\ None \notin Nat

(* Chunk has every piece a payload may be cut into. *)
ASSUME PiecesAssumption ==
    \A total \in PayloadLen : [from : 0 .. (total - 1), len : 1 .. total] \subseteq Chunk

SessionPhase == {"syncing", "leaving"}
TransferPhase == {"querying", "opening", "writing", "closing"}
Phase == {"starting"} \cup SessionPhase \cup TransferPhase
Step == {"write", "read", "feed", "drain", "tick", "done", "returned"}

(* How upload ends: Ok, one of enum UploadError, or a failed assertion. *)
Outcome(kind) == [outcome |-> kind]
Transfer(error) == [outcome |-> "Transfer", error |-> error]
Running == Outcome("Running")
Result ==
    { Outcome(kind) : kind \in {"Running", "Ok", "Io", "Stalled", "HandshakeFailed",
                                "Heatshrink", "Panic"} }
      \cup { Transfer(error) : error \in FileError }

(* The line to the device carries frames and the ASCII trigger M28B1. *)
Trigger == [ascii |-> "M28B1"]

VARIABLES
    phase, step,
    iteration,    \* turns of the current loop that are behind
    result,
    chunk_size,   \* None until the handshake
    payload,      \* how much there is to send; None until the source is read
    bytes_sent,   \* UploadStats::bytes_sent, what the progress callback is told
    hurried,      \* history: a read of the current loop did not time out
    toDevice,     \* the line to the device, oldest first
    toHost        \* lines on the way back, oldest first

loopVars == <<phase, step, iteration, result, hurried>>
statVars == <<chunk_size, payload, bytes_sent>>
lineVars == <<toDevice, toHost>>
callerVars == <<fileVars, loopVars, statVars>>

-----------------------------------------------------------------------------
(* Control flow.  (Mutant_ operators are faulty variants, as in Session.) *)
Goto(next) == step' = next /\ UNCHANGED <<phase, iteration, result, hurried>>

Enter(loop) ==
    /\ phase' = loop /\ step' = "write"
    /\ iteration' = 0 /\ hurried' = FALSE
    /\ UNCHANGED result

Return(with) ==
    /\ result' = with /\ step' = "returned"
    /\ UNCHANGED <<phase, iteration, hurried>>

After(loop) == phase = loop /\ step = "done"

(* A call of the transfer panics unless it is in the state it asserts. *)
Asserting(expected, call) ==
    \/ state = expected /\ call
    \/ state # expected /\ Return(Outcome("Panic")) /\ UNCHANGED fileVars

(* What the line cannot hold is lost at once. *)
Carry(line, item) == IF Len(line) < MaxFrames THEN Append(line, item) ELSE line

-----------------------------------------------------------------------------
(* The straight-line code. *)
StartsSync ==
    /\ After("starting")
    /\ toDevice' = Carry(toDevice, Trigger)
    /\ Connect
    /\ Enter("syncing")
    /\ UNCHANGED <<toHost, statVars, ftVars>>

Mutant_ResolveChunkSize(size, device_max) ==
    IF size = 0 THEN IF device_max = 0 THEN FallbackChunkSize ELSE device_max ELSE size

ResolveChunkSize(size, device_max) ==
    LET max == IF device_max = 0 THEN FallbackChunkSize ELSE device_max
    IN  IF size = 0 \/ size > max THEN max ELSE size

(* device_max is taken when the handshake is over. *)
DeviceMax == IF max_block_size = None THEN 0 ELSE max_block_size

StartsQuery ==
    /\ After("syncing")
    /\ \E size \in ChunkSizeOption : chunk_size' = ResolveChunkSize(size, DeviceMax)
    /\ \E comp \in Requests : Query(comp)
    /\ Enter("querying")
    /\ UNCHANGED <<lineVars, payload, bytes_sent>>

StartsOpen ==
    /\ After("querying")
    /\ Asserting("Negotiated", Open /\ Enter("opening"))
    /\ UNCHANGED <<lineVars, statVars>>

(* compression::compress; the limits are embedded_heatshrink's. *)
Compresses(comp) ==
    comp.mode = "heatshrink" =>
        /\ comp.params.window \in 4 .. 15
        /\ comp.params.lookahead >= 3 /\ comp.params.lookahead < comp.params.window

ReadsSource ==
    /\ After("opening")
    /\ payload = None
    /\ IF Compresses(negotiated)
       THEN (\E len \in PayloadLen : payload' = len) /\ UNCHANGED loopVars
       ELSE Return(Outcome("Heatshrink")) /\ UNCHANGED payload
    /\ UNCHANGED <<fileVars, lineVars, chunk_size, bytes_sent>>

AtChunk == payload # None /\ (After("opening") \/ After("writing"))

Mutant_NextLength == chunk_size

NextLength ==
    IF payload - bytes_sent < chunk_size THEN payload - bytes_sent ELSE chunk_size

NextChunk == [from |-> bytes_sent, len |-> NextLength]

StartsWrite ==
    /\ AtChunk /\ bytes_sent < payload
    /\ Asserting("Opened", Write(NextChunk) /\ Enter("writing"))
    /\ UNCHANGED <<lineVars, statVars>>

StartsClose ==
    /\ AtChunk /\ bytes_sent >= payload
    /\ Asserting("Opened", Close /\ Enter("closing"))
    /\ UNCHANGED <<lineVars, statVars>>

(* The transfer is dropped, whatever its state. *)
StartsLeaving ==
    /\ After("closing")
    /\ Send(ControlClose)
    /\ Enter("leaving")
    /\ UNCHANGED <<lineVars, statVars, ftVars>>

Finishes ==
    /\ After("leaving")
    /\ Return(Outcome("Ok"))
    /\ UNCHANGED <<fileVars, lineVars, statVars>>

StraightLine ==
    \/ StartsSync \/ StartsQuery \/ StartsOpen \/ ReadsSource
    \/ StartsWrite \/ StartsClose \/ StartsLeaving \/ Finishes

-----------------------------------------------------------------------------
(* The body of a loop. *)
WritesOut ==
    /\ step = "write"
    /\ \/ PollOutbound /\ toDevice' = Carry(toDevice, Head(outbound)) /\ UNCHANGED loopVars
       \/ outbound = <<>> /\ Goto("read") /\ UNCHANGED <<vars, toDevice>>
    /\ UNCHANGED <<toHost, statVars, ftVars>>

Clock == in_flight # None /\ (in_flight.age < TotalTimeout \/ in_flight.idle < ResponseTimeout)

(* A read, or the caller's turn at the processor, may take longer. *)
ReadWaits ==
    /\ step = "read"
    /\ Clock /\ Elapse
    /\ UNCHANGED <<loopVars, lineVars, statVars, ftVars>>

ReadTimesOut ==
    /\ step = "read"
    /\ IF Clock THEN Elapse ELSE UNCHANGED vars
    /\ Goto("drain")
    /\ UNCHANGED <<lineVars, statVars, ftVars>>

Brings(next) ==
    /\ step' = next /\ hurried' = TRUE
    /\ UNCHANGED <<phase, iteration, result>>

ReadReturnsNothing ==
    /\ step = "read"
    /\ Brings("drain")
    /\ UNCHANGED <<fileVars, lineVars, statVars>>

(* A read brings one line or several. *)
FeedsLine ==
    /\ step \in {"read", "feed"}
    /\ toHost # <<>>
    /\ ProcessLine(Head(toHost))
    /\ toHost' = Tail(toHost)
    /\ Brings("feed")
    /\ UNCHANGED <<toDevice, statVars, ftVars>>

FeedEnds ==
    /\ step = "feed"
    /\ Goto("drain")
    /\ UNCHANGED <<fileVars, lineVars, statVars>>

(* The loop has got what it is for; a WRITE that is acknowledged counts.   *)
LoopDone ==
    /\ Goto("done")
    /\ bytes_sent' = IF phase = "writing" THEN bytes_sent + NextLength ELSE bytes_sent
    /\ UNCHANGED <<chunk_size, payload>>

(* What the two session loops make of an event; the rest is passed over. *)
Awaits == [syncing |-> "Synced", leaving |-> "Ack"]

Mutant_Verdict == [FatalError |-> "SessionFatalError", OutOfSync |-> "SessionOutOfSync"]

Verdict == [FatalError |-> "SessionFatalError", OutOfSync |-> "SessionOutOfSync",
            Timeout |-> "SessionTimeout"]

Mutant_AwaitedEvent(type) ==
    type = Awaits[phase] \/ (phase = "leaving" /\ type \notin DOMAIN Verdict)

AwaitedEvent(type) == type = Awaits[phase]

DrainsSession ==
    /\ step = "drain" /\ phase \in SessionPhase
    /\ \/ events = <<>> /\ Goto("tick") /\ UNCHANGED <<vars, statVars>>
       \/ /\ PollEvent
          /\ LET type == Head(events).type
             IN  \/ AwaitedEvent(type) /\ LoopDone
                 \/ ~AwaitedEvent(type) /\ UNCHANGED statVars
                    /\ IF type \in DOMAIN Verdict THEN Return(Transfer(Verdict[type]))
                       ELSE UNCHANGED loopVars
    /\ UNCHANGED <<lineVars, ftVars>>

(* What the two transfer loops make of the event poll returns. *)
AwaitsFile == [querying |-> "Negotiated", opening |-> "Opened",
               writing  |-> "WriteAcked", closing |-> "Closed"]

FileVerdict(event) ==
    \/ event.type = AwaitsFile[phase] /\ LoopDone
    \/ event.type = "Failed" /\ Return(Transfer(event.error)) /\ UNCHANGED statVars
    \/ event.type \notin {AwaitsFile[phase], "Failed"} /\ UNCHANGED <<loopVars, statVars>>

DrainsTransfer ==
    /\ step = "drain" /\ phase \in TransferPhase
    /\ \/ (PollStart \/ PollHandle) /\ UNCHANGED <<loopVars, statVars>>
       \/ /\ PollReturn
          /\ IF out_events # <<>> THEN FileVerdict(Head(out_events))
             ELSE Goto("tick") /\ UNCHANGED statVars
       \/ /\ ~polling /\ events = <<>> /\ out_events = <<>>
          /\ Goto("tick") /\ UNCHANGED <<fileVars, statVars>>
    /\ UNCHANGED lineVars

NothingDue == in_flight # None => ~BudgetSpent /\ ~RetransmitDue

Mutant_NextTurn ==
    /\ step' = "write"
    /\ UNCHANGED <<phase, iteration, result, hurried>>

NextTurn ==
    IF iteration + 1 < Iterations
    THEN /\ step' = "write" /\ iteration' = iteration + 1
         /\ UNCHANGED <<phase, result, hurried>>
    ELSE Return(Outcome(IF phase = "syncing" THEN "HandshakeFailed" ELSE "Stalled"))

Ticks ==
    /\ step = "tick"
    /\ Tick \/ (NothingDue /\ UNCHANGED vars)
    /\ NextTurn
    /\ UNCHANGED <<lineVars, statVars, ftVars>>

LoopBody ==
    \/ WritesOut \/ ReadWaits \/ ReadTimesOut \/ ReadReturnsNothing \/ FeedsLine \/ FeedEnds
    \/ DrainsSession \/ DrainsTransfer \/ Ticks

(* A write, a read of the transport or of the source returns an error. *)
IoFails ==
    /\ \/ After("starting")
       \/ step = "write" /\ outbound # <<>>
       \/ step = "read"
       \/ After("opening") /\ payload = None
    /\ Return(Outcome("Io"))
    /\ UNCHANGED <<fileVars, lineVars, statVars>>

-----------------------------------------------------------------------------
UploadInit ==
    /\ FileInit
    /\ phase = "starting" /\ step = "done" /\ iteration = 0
    /\ result = Running /\ hurried = FALSE
    /\ chunk_size = None /\ payload = None /\ bytes_sent = 0
    /\ toDevice = <<>>

UploadStep == StraightLine \/ LoopBody \/ IoFails

=============================================================================
