------------------------------ MODULE Session ------------------------------
(***************************************************************************)
(* The sans-I/O session driver, struct Session of src/session.rs: a        *)
(* stop-and-wait sender of binary packets with a one-byte sync counter.    *)
(* The caller hands it packets (connect, send), writes out what            *)
(* poll_outbound returns, feeds it the ASCII lines the device answers      *)
(* with, drains poll_event, and calls tick as time passes.                 *)
(*                                                                         *)
(* Abstractions.  A packet is its body (protocol, type and payload as one  *)
(* value); an encoded packet is a frame, the body with the sync number it  *)
(* was built with.  A body that connect queued, is_sync_handshake in the   *)
(* code, is SyncBody.  Instants are replaced by the in-flight packet's age *)
(* (now - first_sent) and idle time (now - last_sent), which stop counting *)
(* at the timeout they are compared with.  feed is modelled one complete   *)
(* line at a time; a read that holds several lines is several steps with   *)
(* nothing of the caller's in between.  The three queues are unbounded in  *)
(* the code: MaxQueued, MaxOutbound and MaxEvents bound them here.         *)
(***************************************************************************)
EXTENDS Naturals, Sequences

CONSTANTS
    SyncMod,          \* 256 in the code: values of the sync counter
    Body,             \* bodies the caller may send
    SyncBody,         \* the handshake packet's body
    Text,             \* ASCII lines that match no control token
    StrayOk,          \* the text "ok<n>" a stray ack is passed through as
    SsNumber,         \* sync numbers an ss line may carry (a u16, taken mod 256)
    BlockSize,        \* block sizes an ss line may carry
    ResponseTimeout,  \* response_timeout, in units of Elapse
    TotalTimeout,     \* total_timeout, in units of Elapse
    MaxQueued, MaxOutbound, MaxEvents,  \* bounds of this model
    None              \* Option::None

Sync == 0 .. (SyncMod - 1)
Packet == Body \cup {SyncBody}
Frame == [sync : Sync, body : Packet]
InFlight == [sync : Sync, body : Packet,
             age : 0 .. TotalTimeout, idle : 0 .. ResponseTimeout]

ASSUME NumbersAssumption ==
    /\ SyncMod \in Nat \ {0}
    /\ ResponseTimeout \in Nat \ {0}
    /\ TotalTimeout \in Nat \ {0}
    /\ MaxQueued \in Nat /\ MaxOutbound \in Nat /\ MaxEvents \in Nat
ASSUME InputsAssumption ==
    /\ SyncBody \notin Body
    /\ StrayOk \in Text
    /\ SsNumber \subseteq Nat
ASSUME NoneAssumption ==
    None \notin InFlight \cup BlockSize

(* What the caller sees: enum Event. *)
Synced(size)        == [type |-> "Synced", max_block_size |-> size]
Ack(n)              == [type |-> "Ack", sync |-> n]
ResendRequested(n)  == [type |-> "ResendRequested", sync |-> n]
AsciiLine(t)        == [type |-> "AsciiLine", text |-> t]
FatalError          == [type |-> "FatalError"]
OutOfSync(want, n)  == [type |-> "OutOfSync", expected |-> want, got |-> n]
Timeout(n)          == [type |-> "Timeout", sync |-> n]

Event ==
    { Synced(size) : size \in BlockSize }
      \cup { Ack(n) : n \in Sync } \cup { ResendRequested(n) : n \in Sync }
      \cup { AsciiLine(t) : t \in Text } \cup { FatalError }
      \cup { OutOfSync(want, n) : want \in Sync, n \in Sync }
      \cup { Timeout(n) : n \in Sync }

(* The lines of the device the session tells apart.  "noise" stands for    *)
(* those it drops without an event: malformed ss lines, non-UTF-8 lines.   *)
OkLine(n)       == [token |-> "ok", sync |-> n]
RsLine(n)       == [token |-> "rs", sync |-> n]
SsLine(n, size) == [token |-> "ss", sync |-> n, max_block_size |-> size]
FeLine          == [token |-> "fe"]
TextLine(t)     == [token |-> "text", text |-> t]
NoiseLine       == [token |-> "noise"]

Line ==
    { OkLine(n) : n \in Sync } \cup { RsLine(n) : n \in Sync }
      \cup { SsLine(n, size) : n \in SsNumber, size \in BlockSize }
      \cup { TextLine(t) : t \in Text } \cup { FeLine, NoiseLine }

VARIABLES
    sync,            \* the counter the next dispatched packet gets
    is_synced,       \* an ss line has been seen since construction or reset
    max_block_size,  \* as the last ss line reported it
    in_flight,       \* the packet that waits for its ack, or None
    queued,          \* packets that wait for in_flight to clear, oldest first
    outbound,        \* frames the caller has yet to write to the wire
    events           \* events the caller has yet to poll

vars == <<sync, is_synced, max_block_size, in_flight, queued, outbound, events>>

(* Operators named Mutant_... are faulty variants of the definition that   *)
(* follows them; the properties are checked to tell the two apart.         *)
Mutant_NextSync(n) == n + 1

NextSync(n) == (n + 1) % SyncMod
FrameOf(flight) == [sync |-> flight.sync, body |-> flight.body]
IsHandshake(flight) == flight.body = SyncBody

(* The caller keeps up: one more event and one more frame fit in the       *)
(* queues of this model.  No condition of the code.                        *)
Room == Len(events) < MaxEvents /\ Len(outbound) < MaxOutbound

Emit(e) == events' = Append(events, e)

-----------------------------------------------------------------------------
(* The in-flight record of a packet written now under the number n. *)
Mutant_Launched(n, packet) == [sync |-> NextSync(n), body |-> packet, age |-> 0, idle |-> 0]

Launched(n, packet) == [sync |-> n, body |-> packet, age |-> 0, idle |-> 0]

(* dispatch_if_idle, once flight is what is in flight and pending is the   *)
(* queue: an idle session gives the oldest packet the number n and hands   *)
(* its frame to the caller.                                                *)
DispatchIfIdle(flight, pending, n) ==
    IF flight # None \/ pending = <<>>
    THEN /\ in_flight' = flight
         /\ queued' = pending
         /\ UNCHANGED outbound
    ELSE /\ in_flight' = Launched(n, Head(pending))
         /\ queued' = Tail(pending)
         /\ outbound' = Append(outbound, [sync |-> n, body |-> Head(pending)])

(* What connect and send share: queue, then dispatch_if_idle. *)
Enqueue(packet) ==
    /\ Len(queued) < MaxQueued /\ Len(outbound) < MaxOutbound
    /\ DispatchIfIdle(in_flight, Append(queued, packet), sync)
    /\ UNCHANGED <<sync, is_synced, max_block_size, events>>

Connect == Enqueue(SyncBody)

(* send panics unless the handshake has completed. *)
Send(body) ==
    /\ is_synced
    /\ Enqueue(body)

Mutant_ClearQueues == queued' = <<>> /\ events' = <<>> /\ UNCHANGED outbound

ClearQueues == queued' = <<>> /\ outbound' = <<>> /\ events' = <<>>

Reset ==
    /\ sync' = 0
    /\ is_synced' = FALSE
    /\ max_block_size' = None
    /\ in_flight' = None
    /\ ClearQueues

PollOutbound ==
    /\ outbound # <<>>
    /\ outbound' = Tail(outbound)
    /\ UNCHANGED <<sync, is_synced, max_block_size, in_flight, queued, events>>

PollEvent ==
    /\ events # <<>>
    /\ events' = Tail(events)
    /\ UNCHANGED <<sync, is_synced, max_block_size, in_flight, queued, outbound>>

-----------------------------------------------------------------------------
(* handle_ok.  A stray ack is surfaced as text; an ack of the handshake or *)
(* of another number than the in-flight packet's is OutOfSync and changes  *)
(* nothing else; the ack awaited retires the packet, steps the counter and *)
(* dispatches the next one.                                                *)
Mutant_Retires(n) == ~IsHandshake(in_flight)

Retires(n) == ~IsHandshake(in_flight) /\ n = in_flight.sync

HandleOk(n) ==
    \/ /\ in_flight = None
       /\ Emit(AsciiLine(StrayOk))
       /\ UNCHANGED <<sync, is_synced, max_block_size, in_flight, queued, outbound>>
    \/ /\ in_flight # None /\ ~Retires(n)
       /\ Emit(OutOfSync(in_flight.sync, n))
       /\ UNCHANGED <<sync, is_synced, max_block_size, in_flight, queued, outbound>>
    \/ /\ in_flight # None /\ Retires(n)
       /\ sync' = NextSync(sync)
       /\ Emit(Ack(n))
       /\ DispatchIfIdle(None, queued, NextSync(sync))
       /\ UNCHANGED <<is_synced, max_block_size>>

(* handle_ss on a well-formed line: whenever it comes, the device's number *)
(* replaces the counter.  Only a handshake in flight is consumed.          *)
Mutant_HandleSs(n, size) ==
    LET consumed == in_flight # None /\ IsHandshake(in_flight)
    IN  /\ is_synced' = TRUE
        /\ max_block_size' = size
        /\ Emit(Synced(size))
        /\ DispatchIfIdle(IF consumed THEN None ELSE in_flight, queued, sync)
        /\ UNCHANGED sync

HandleSs(n, size) ==
    LET consumed == in_flight # None /\ IsHandshake(in_flight)
    IN  /\ sync' = n % SyncMod
        /\ is_synced' = TRUE
        /\ max_block_size' = size
        /\ Emit(Synced(size))
        /\ DispatchIfIdle(IF consumed THEN None ELSE in_flight, queued, n % SyncMod)

(* The lines that only become events: rs<n>, fe and everything else that   *)
(* is valid UTF-8.                                                         *)
Surface(e) ==
    /\ Emit(e)
    /\ UNCHANGED <<sync, is_synced, max_block_size, in_flight, queued, outbound>>

ProcessLine(line) ==
    /\ Room
    /\ \/ line.token = "ok" /\ HandleOk(line.sync)
       \/ line.token = "rs" /\ Surface(ResendRequested(line.sync))
       \/ line.token = "ss" /\ HandleSs(line.sync, line.max_block_size)
       \/ line.token = "fe" /\ Surface(FatalError)
       \/ line.token = "text" /\ Surface(AsciiLine(line.text))
       \/ line.token = "noise" /\ UNCHANGED vars

-----------------------------------------------------------------------------
(* tick.  The total budget is looked at first: it drops the packet and     *)
(* dispatches the next one.  Otherwise a packet that has waited for        *)
(* response_timeout is written again, as the bytes built at dispatch.      *)
Mutant_BudgetSpent == in_flight.idle >= TotalTimeout

BudgetSpent == in_flight.age >= TotalTimeout

Mutant_AfterTimeout == in_flight' = None /\ UNCHANGED <<queued, outbound>>

AfterTimeout == DispatchIfIdle(None, queued, sync)

TickTimeout ==
    /\ Room
    /\ in_flight # None
    /\ BudgetSpent
    /\ Emit(Timeout(in_flight.sync))
    /\ AfterTimeout
    /\ UNCHANGED <<sync, is_synced, max_block_size>>

Mutant_RetransmitDue == in_flight.idle >= ResponseTimeout

RetransmitDue == ~BudgetSpent /\ in_flight.idle >= ResponseTimeout

Mutant_Retransmission == [sync |-> sync, body |-> in_flight.body]

Retransmission == FrameOf(in_flight)

SentNow == [in_flight EXCEPT !.idle = 0]

TickRetransmit ==
    /\ Len(outbound) < MaxOutbound
    /\ in_flight # None
    /\ RetransmitDue
    /\ outbound' = Append(outbound, Retransmission)
    /\ in_flight' = SentNow
    /\ UNCHANGED <<sync, is_synced, max_block_size, queued, events>>

Tick == TickTimeout \/ TickRetransmit

(* The caller's clock moves on between two calls. *)
Later(t, limit) == IF t < limit THEN t + 1 ELSE t

Elapse ==
    /\ in_flight # None
    /\ in_flight.age < TotalTimeout \/ in_flight.idle < ResponseTimeout
    /\ in_flight' = [in_flight EXCEPT !.age = Later(@, TotalTimeout),
                                      !.idle = Later(@, ResponseTimeout)]
    /\ UNCHANGED <<sync, is_synced, max_block_size, queued, outbound, events>>

-----------------------------------------------------------------------------
(* Session::new *)
Init ==
    /\ sync = 0
    /\ is_synced = FALSE
    /\ max_block_size = None
    /\ in_flight = None
    /\ queued = <<>>
    /\ outbound = <<>>
    /\ events = <<>>

Feed == \E line \in Line : ProcessLine(line)

Next ==
    \/ Connect
    \/ \E body \in Body : Send(body)
    \/ Reset
    \/ PollOutbound
    \/ PollEvent
    \/ Feed
    \/ Tick
    \/ Elapse

Spec == Init /\ [][Next]_vars

(* The caller the documentation of tick and the adapters' loops describe:  *)
(* it writes what poll_outbound hands it, polls its events, and calls tick *)
(* again and again while time passes.  tick itself never waits for a       *)
(* queue; that it may here is due to Room, hence strong fairness.          *)
Fairness ==
    /\ WF_vars(PollOutbound)
    /\ WF_vars(PollEvent)
    /\ WF_vars(Elapse)
    /\ SF_vars(Tick)

FairSpec == Spec /\ Fairness

-----------------------------------------------------------------------------
TypeOK ==
    /\ sync \in Sync
    /\ is_synced \in BOOLEAN
    /\ max_block_size \in BlockSize \cup {None}
    /\ in_flight \in InFlight \cup {None}
    /\ queued \in Seq(Packet)
    /\ outbound \in Seq(Frame)
    /\ events \in Seq(Event)

(* Every way a packet leaves in_flight (its ack, the ss that consumes a    *)
(* handshake, the total timeout, reset) sees to the packets behind it: the *)
(* queue never holds a packet while nothing is in flight, when no later    *)
(* line or tick would dispatch it.                                         *)
NoStrandedPacket == in_flight = None => queued = <<>>

(* A retransmission writes the bytes built at dispatch.  Whatever ss lines *)
(* have done to the counter since, the last frame handed to the caller is  *)
(* the in-flight packet under the number whose ack handle_ok waits for.    *)
LastFrameIsInFlight ==
    in_flight # None /\ outbound # <<>>
        => outbound[Len(outbound)] = FrameOf(in_flight)

(* Before the device has confirmed a counter nothing but handshakes is     *)
(* queued, in flight or on its way to the wire, also after a reset with    *)
(* data packets in every queue: send's assert promises that no data packet *)
(* leaves with an unconfirmed number.                                      *)
NoDataBeforeHandshake ==
    ~is_synced =>
        /\ in_flight # None => in_flight.body = SyncBody
        /\ \A i \in 1 .. Len(queued) : queued[i] = SyncBody
        /\ \A i \in 1 .. Len(outbound) : outbound[i].body = SyncBody


(* The step ends the flight of a packet: nothing is in flight after it, or *)
(* the oldest queued packet is.                                            *)
Replaced ==
    in_flight # None /\ (in_flight' = None \/ Len(queued') < Len(queued))

(* No packet stays in flight for ever: lines of the device in any number   *)
(* (out-of-sync acks, rs, text) and retransmissions do not keep it from    *)
(* its ack or its total timeout.                                           *)
NoPacketStuck == []<>(in_flight = None) \/ []<><<Replaced>>_vars

=============================================================================
