--------------------------- MODULE SessionProofs ---------------------------
(***************************************************************************)
(* Proofs, for every value of the constants, of the session's type         *)
(* invariant and of its safety invariants.                                 *)
(***************************************************************************)
EXTENDS RetransmitBudget, TLAPS

SessionInv ==
    /\ TypeOK
    /\ NoStrandedPacket
    /\ LastFrameIsInFlight
    /\ NoDataBeforeHandshake

(* A last element survives Tail, and Append puts one there.                *)
LEMMA TailKeepsLast ==
    ASSUME NEW S, NEW s \in Seq(S), Tail(s) # <<>>, s # <<>>
    PROVE  /\ Len(s) > 1
           /\ Len(Tail(s)) = Len(s) - 1
           /\ Tail(s)[Len(Tail(s))] = s[Len(s)]
           /\ \A i \in 1 .. Len(Tail(s)) : i + 1 \in 1 .. Len(s) /\ Tail(s)[i] = s[i + 1]
  OBVIOUS

(* The counter wraps within its range. *)
LEMMA NextSyncInRange ==
    /\ \A n \in Sync : NextSync(n) \in Sync
    /\ \A n \in Nat : n % SyncMod \in Sync
    /\ 0 \in Sync
  BY NumbersAssumption DEF Sync, NextSync

(* Where it has two values at least, it steps from one to another and back *)
(* by one way only.                                                        *)
LEMMA NextSyncIsInjective ==
    ASSUME SyncMod > 1
    PROVE  /\ \A n \in Sync : NextSync(n) \in Sync /\ NextSync(n) # n /\ n % SyncMod = n
           /\ \A m, n \in Sync : NextSync(m) = NextSync(n) => m = n
  <1>1. \A n \in Sync : n % SyncMod = n
    BY NumbersAssumption DEF Sync
  <1>2. \A n \in Sync : NextSync(n) = IF n = SyncMod - 1 THEN 0 ELSE n + 1
    <2> SUFFICES ASSUME NEW n \in Sync
                 PROVE  NextSync(n) = IF n = SyncMod - 1 THEN 0 ELSE n + 1
      OBVIOUS
    <2>1. CASE n = SyncMod - 1
      <3>1. n + 1 = SyncMod /\ SyncMod % SyncMod = 0
        BY <2>1, NumbersAssumption
      <3> QED
        BY <2>1, <3>1 DEF NextSync
    <2>2. CASE n # SyncMod - 1
      <3>1. n + 1 \in Sync
        BY <2>2, NumbersAssumption DEF Sync
      <3> QED
        BY <1>1, <2>2, <3>1 DEF NextSync
    <2> QED
      BY <2>1, <2>2
  <1> QED
    BY <1>1, <1>2, NumbersAssumption DEF Sync

(* dispatch_if_idle keeps the types, strands nothing, and leaves the       *)
(* in-flight packet as the last frame handed out, whichever packet flight  *)
(* it starts from as long as that one is already the last.                 *)
LEMMA DispatchType ==
    ASSUME TypeOK,
           NEW flight \in InFlight \cup {None},
           NEW pending \in Seq(Packet),
           NEW n \in Sync,
           DispatchIfIdle(flight, pending, n)
    PROVE  /\ in_flight' \in InFlight \cup {None}
           /\ queued' \in Seq(Packet)
           /\ outbound' \in Seq(Frame)
  <1>1. CASE flight # None \/ pending = <<>>
    BY <1>1 DEF DispatchIfIdle, TypeOK
  <1>2. CASE flight = None /\ pending # <<>>
    <2>1. Head(pending) \in Packet /\ Tail(pending) \in Seq(Packet)
      BY <1>2
    <2>2. [sync |-> n, body |-> Head(pending), age |-> 0, idle |-> 0] \in InFlight
      BY <2>1, NumbersAssumption DEF InFlight
    <2>3. [sync |-> n, body |-> Head(pending)] \in Frame
      BY <2>1 DEF Frame
    <2>4. Append(outbound, [sync |-> n, body |-> Head(pending)]) \in Seq(Frame)
      BY <2>3 DEF TypeOK
    <2>5. /\ in_flight' = [sync |-> n, body |-> Head(pending), age |-> 0, idle |-> 0]
          /\ queued' = Tail(pending)
          /\ outbound' = Append(outbound, [sync |-> n, body |-> Head(pending)])
      BY <1>2 DEF DispatchIfIdle, Launched
    <2> QED
      BY <2>1, <2>2, <2>4, <2>5
  <1> QED
    BY <1>1, <1>2

LEMMA DispatchKeeps ==
    ASSUME TypeOK,
           NEW flight \in InFlight \cup {None},
           NEW pending \in Seq(Packet),
           NEW n \in Sync,
           DispatchIfIdle(flight, pending, n),
           flight # None /\ outbound # <<>> => outbound[Len(outbound)] = FrameOf(flight)
    PROVE  NoStrandedPacket' /\ LastFrameIsInFlight'
  <1>1. CASE flight # None \/ pending = <<>>
    BY <1>1 DEF DispatchIfIdle, NoStrandedPacket, LastFrameIsInFlight, FrameOf
  <1>2. CASE flight = None /\ pending # <<>>
    <2>1. in_flight' = [sync |-> n, body |-> Head(pending), age |-> 0, idle |-> 0]
      BY <1>2 DEF DispatchIfIdle, Launched
    <2>2. outbound' = Append(outbound, [sync |-> n, body |-> Head(pending)])
      BY <1>2 DEF DispatchIfIdle, Launched
    <2>3. in_flight' \in InFlight /\ in_flight' # None
      BY <2>1, <1>2, NumbersAssumption, NoneAssumption DEF InFlight
    <2>4. outbound'[Len(outbound')] = [sync |-> n, body |-> Head(pending)]
      BY <2>2 DEF TypeOK
    <2> QED
      BY <2>1, <2>3, <2>4 DEF NoStrandedPacket, LastFrameIsInFlight, FrameOf
  <1> QED
    BY <1>1, <1>2
(* With nothing but handshakes in hand it hands out nothing else.          *)
LEMMA DispatchKeepsHandshake ==
    ASSUME TypeOK,
           NEW flight \in InFlight \cup {None},
           NEW pending \in Seq(Packet),
           NEW n \in Sync,
           DispatchIfIdle(flight, pending, n),
           flight # None => flight.body = SyncBody,
           \A i \in 1 .. Len(pending) : pending[i] = SyncBody,
           \A i \in 1 .. Len(outbound) : outbound[i].body = SyncBody
    PROVE  NoDataBeforeHandshake'
  <1>1. CASE flight # None \/ pending = <<>>
    BY <1>1 DEF DispatchIfIdle, NoDataBeforeHandshake
  <1>2. CASE flight = None /\ pending # <<>>
    <2> DEFINE frame == [sync |-> n, body |-> Head(pending)]
    <2>1. /\ in_flight' = [sync |-> n, body |-> Head(pending), age |-> 0, idle |-> 0]
          /\ queued' = Tail(pending)
          /\ outbound' = Append(outbound, frame)
      BY <1>2 DEF DispatchIfIdle, Launched
    <2>2. Head(pending) = SyncBody /\ Head(pending) \in Packet
      BY <1>2
    <2>3. \A i \in 1 .. Len(queued') : queued'[i] = SyncBody
      BY <1>2, <2>1
    <2>4. frame \in Frame /\ frame.body = SyncBody
      BY <2>2 DEF Frame
    <2>5. \A i \in 1 .. Len(outbound') : outbound'[i].body = SyncBody
      <3> HIDE DEF frame
      <3> QED
        BY <2>1, <2>4 DEF TypeOK
    <2>6. in_flight'.body = SyncBody
      BY <2>1, <2>2
    <2> QED
      BY <2>3, <2>5, <2>6 DEF NoDataBeforeHandshake
  <1> QED
    BY <1>1, <1>2

-----------------------------------------------------------------------------
(* The queues new and reset leave behind.                                  *)
LEMMA EmptyQueue ==
    ASSUME NEW q, q = <<>>
    PROVE  /\ \A S : q \in Seq(S)
           /\ \A i \in 1 .. Len(q) : FALSE
  <1>1. \A S : <<>> \in Seq(S)
    OBVIOUS
  <1> QED
    BY <1>1

LEMMA SessionInvInit == Init => SessionInv
  <1> SUFFICES ASSUME Init
               PROVE  SessionInv
    OBVIOUS
  <1>1. TypeOK
    BY NextSyncInRange, EmptyQueue DEF Init, TypeOK
  <1>2. NoDataBeforeHandshake
    BY EmptyQueue DEF Init, NoDataBeforeHandshake
  <1> QED
    BY <1>1, <1>2 DEF Init, SessionInv, NoStrandedPacket, LastFrameIsInFlight

(* connect and send: before the handshake only SyncBody can be queued.     *)
LEMMA EnqueueKeeps ==
    ASSUME SessionInv, NEW packet \in Packet, Enqueue(packet),
           is_synced \/ packet = SyncBody
    PROVE  SessionInv'
  <1> DEFINE pending == Append(queued, packet)
  <1>1. /\ pending \in Seq(Packet)
        /\ in_flight \in InFlight \cup {None} /\ sync \in Sync
        /\ DispatchIfIdle(in_flight, pending, sync)
        /\ TypeOK
        /\ UNCHANGED <<sync, is_synced, max_block_size, events>>
    BY DEF Enqueue, SessionInv, TypeOK
  <1>2. TypeOK'
    <2>1. /\ in_flight' \in InFlight \cup {None}
          /\ queued' \in Seq(Packet) /\ outbound' \in Seq(Frame)
      <3> HIDE DEF pending
      <3> QED
        BY <1>1, DispatchType
    <2> QED
      BY <1>1, <2>1 DEF TypeOK
  <1>3. NoStrandedPacket' /\ LastFrameIsInFlight'
    <2> HIDE DEF pending
    <2> QED
      BY <1>1, DispatchKeeps DEF SessionInv, LastFrameIsInFlight
  <1>4. NoDataBeforeHandshake'
    <2>1. CASE is_synced
      BY <1>1, <2>1 DEF NoDataBeforeHandshake
    <2>2. CASE ~is_synced
      <3>1. \A i \in 1 .. Len(pending) : pending[i] = SyncBody
        BY <2>2 DEF SessionInv, NoDataBeforeHandshake, TypeOK
      <3> HIDE DEF pending
      <3> QED
        BY <1>1, <2>2, <3>1, DispatchKeepsHandshake DEF SessionInv, NoDataBeforeHandshake
    <2> QED
      BY <2>1, <2>2
  <1> QED
    BY <1>2, <1>3, <1>4 DEF SessionInv

LEMMA ResetKeeps == SessionInv /\ Reset => SessionInv'
  <1> SUFFICES ASSUME Reset
               PROVE  SessionInv'
    OBVIOUS
  <1> USE DEF Reset, ClearQueues
  <1>1. TypeOK'
    BY NextSyncInRange, EmptyQueue DEF TypeOK
  <1>2. NoDataBeforeHandshake'
    BY EmptyQueue DEF NoDataBeforeHandshake
  <1> QED
    BY <1>1, <1>2 DEF SessionInv, NoStrandedPacket, LastFrameIsInFlight

LEMMA PollOutboundKeeps == SessionInv /\ PollOutbound => SessionInv'
  <1> SUFFICES ASSUME SessionInv, PollOutbound
               PROVE  SessionInv'
    OBVIOUS
  <1>1. TypeOK'
    BY DEF PollOutbound, SessionInv, TypeOK
  <1>2. outbound' # <<>> =>
            /\ outbound # <<>>
            /\ outbound'[Len(outbound')] = outbound[Len(outbound)]
    BY TailKeepsLast DEF PollOutbound, SessionInv, TypeOK
  <1>3. \A i \in 1 .. Len(outbound') : i + 1 \in 1 .. Len(outbound) /\ outbound'[i] = outbound[i + 1]
    BY DEF PollOutbound, SessionInv, TypeOK
  <1> QED
    BY <1>1, <1>2, <1>3
       DEF PollOutbound, SessionInv, NoStrandedPacket, LastFrameIsInFlight,
           NoDataBeforeHandshake, FrameOf

LEMMA PollEventKeeps == SessionInv /\ PollEvent => SessionInv'
  BY DEF PollEvent, SessionInv, TypeOK, NoStrandedPacket, LastFrameIsInFlight,
         NoDataBeforeHandshake, FrameOf

(* A line that only becomes an event. *)
LEMMA SurfaceKeeps ==
    ASSUME SessionInv, NEW e \in Event, Surface(e)
    PROVE  SessionInv'
  BY DEF Surface, Emit, SessionInv, TypeOK, NoStrandedPacket, LastFrameIsInFlight,
         NoDataBeforeHandshake, FrameOf

LEMMA HandleOkKeeps ==
    ASSUME SessionInv, NEW n \in Sync, HandleOk(n)
    PROVE  SessionInv'
  <1>1. CASE in_flight = None
    <2>1. AsciiLine(StrayOk) \in Event
      BY InputsAssumption DEF Event
    <2>2. Surface(AsciiLine(StrayOk))
      BY <1>1 DEF HandleOk, Surface
    <2> QED
      BY <2>1, <2>2, SurfaceKeeps
  <1>2. CASE in_flight # None /\ ~Retires(n)
    <2>1. OutOfSync(in_flight.sync, n) \in Event
      BY <1>2 DEF Event, SessionInv, TypeOK, InFlight
    <2>2. Surface(OutOfSync(in_flight.sync, n))
      BY <1>2 DEF HandleOk, Surface
    <2> QED
      BY <2>1, <2>2, SurfaceKeeps
  <1>3. CASE in_flight # None /\ Retires(n)
    <2>1. /\ sync' = NextSync(sync) /\ Emit(Ack(n))
          /\ DispatchIfIdle(None, queued, NextSync(sync))
          /\ UNCHANGED <<is_synced, max_block_size>>
      BY <1>3 DEF HandleOk
    <2>2. TypeOK /\ queued \in Seq(Packet) /\ NextSync(sync) \in Sync
      BY NextSyncInRange DEF SessionInv, TypeOK
    <2>3. TypeOK'
      <3>1. Ack(n) \in Event
        BY DEF Event
      <3>2. events' \in Seq(Event)
        BY <2>1, <2>2, <3>1 DEF Emit, TypeOK
      <3> QED
        BY <2>1, <2>2, <3>2, DispatchType DEF TypeOK
    <2>4. NoStrandedPacket' /\ LastFrameIsInFlight'
      BY <2>1, <2>2, DispatchKeeps
    <2>5. is_synced'
      BY <1>3, <2>1 DEF SessionInv, NoDataBeforeHandshake, Retires, IsHandshake, TypeOK
    <2> QED
      BY <2>3, <2>4, <2>5 DEF SessionInv, NoDataBeforeHandshake
  <1> QED
    BY <1>1, <1>2, <1>3 DEF HandleOk

LEMMA HandleSsKeeps ==
    ASSUME SessionInv, NEW n \in SsNumber, NEW size \in BlockSize, HandleSs(n, size)
    PROVE  SessionInv'
  <1> DEFINE left == IF in_flight # None /\ IsHandshake(in_flight) THEN None ELSE in_flight
  <1>1. /\ sync' = n % SyncMod /\ is_synced' = TRUE /\ max_block_size' = size
        /\ Emit(Synced(size))
        /\ DispatchIfIdle(left, queued, n % SyncMod)
    BY DEF HandleSs
  <1>2. /\ left \in InFlight \cup {None} /\ TypeOK /\ queued \in Seq(Packet)
        /\ n % SyncMod \in Sync
        /\ left # None => left = in_flight
    BY NextSyncInRange, InputsAssumption DEF SessionInv, TypeOK
  <1> HIDE DEF left
  <1>3. TypeOK'
    <2>1. Synced(size) \in Event
      BY DEF Event
    <2>2. events' \in Seq(Event)
      BY <1>1, <1>2, <2>1 DEF Emit, TypeOK
    <2> QED
      BY <1>1, <1>2, <2>2, DispatchType DEF TypeOK
  <1>4. NoStrandedPacket' /\ LastFrameIsInFlight'
    BY <1>1, <1>2, DispatchKeeps DEF SessionInv, LastFrameIsInFlight
  <1> QED
    BY <1>1, <1>3, <1>4 DEF SessionInv, NoDataBeforeHandshake

LEMMA ProcessLineKeeps ==
    ASSUME SessionInv, NEW line \in Line, ProcessLine(line)
    PROVE  SessionInv'
  <1>1. CASE line.token = "ok" /\ HandleOk(line.sync)
    <2>1. line.sync \in Sync
      BY <1>1 DEF Line, OkLine, RsLine, SsLine, TextLine, FeLine, NoiseLine
    <2> QED
      BY <1>1, <2>1, HandleOkKeeps
  <1>2. CASE line.token = "rs" /\ Surface(ResendRequested(line.sync))
    <2>1. ResendRequested(line.sync) \in Event
      BY <1>2 DEF Line, OkLine, RsLine, SsLine, TextLine, FeLine, NoiseLine, Event
    <2> QED
      BY <1>2, <2>1, SurfaceKeeps
  <1>3. CASE line.token = "ss" /\ HandleSs(line.sync, line.max_block_size)
    <2>1. line.sync \in SsNumber /\ line.max_block_size \in BlockSize
      BY <1>3 DEF Line, OkLine, RsLine, SsLine, TextLine, FeLine, NoiseLine
    <2> QED
      BY <1>3, <2>1, HandleSsKeeps
  <1>4. CASE line.token = "fe" /\ Surface(FatalError)
    <2>1. FatalError \in Event
      BY DEF Event
    <2> QED
      BY <1>4, <2>1, SurfaceKeeps
  <1>5. CASE line.token = "text" /\ Surface(AsciiLine(line.text))
    <2>1. AsciiLine(line.text) \in Event
      BY <1>5 DEF Line, OkLine, RsLine, SsLine, TextLine, FeLine, NoiseLine, Event
    <2> QED
      BY <1>5, <2>1, SurfaceKeeps
  <1>6. CASE line.token = "noise" /\ UNCHANGED vars
    BY <1>6
       DEF vars, SessionInv, TypeOK, NoStrandedPacket, LastFrameIsInFlight,
           NoDataBeforeHandshake, FrameOf
  <1> QED
    BY <1>1, <1>2, <1>3, <1>4, <1>5, <1>6 DEF ProcessLine

LEMMA TickTimeoutKeeps == SessionInv /\ TickTimeout => SessionInv'
  <1> SUFFICES ASSUME SessionInv, TickTimeout
               PROVE  SessionInv'
    OBVIOUS
  <1>1. /\ in_flight # None
        /\ Emit(Timeout(in_flight.sync))
        /\ DispatchIfIdle(None, queued, sync)
        /\ UNCHANGED <<sync, is_synced, max_block_size>>
    BY DEF TickTimeout, AfterTimeout
  <1>2. TypeOK /\ queued \in Seq(Packet) /\ sync \in Sync
    BY DEF SessionInv, TypeOK
  <1>3. TypeOK'
    <2>1. Timeout(in_flight.sync) \in Event
      BY <1>1, <1>2 DEF Event, TypeOK, InFlight
    <2>2. events' \in Seq(Event)
      BY <1>1, <1>2, <2>1 DEF Emit, TypeOK
    <2> QED
      BY <1>1, <1>2, <2>2, DispatchType DEF TypeOK
  <1>4. NoStrandedPacket' /\ LastFrameIsInFlight'
    BY <1>1, <1>2, DispatchKeeps
  <1>5. NoDataBeforeHandshake'
    <2>1. CASE is_synced
      BY <1>1, <2>1 DEF NoDataBeforeHandshake
    <2>2. CASE ~is_synced
      BY <1>1, <1>2, <2>2, DispatchKeepsHandshake DEF SessionInv, NoDataBeforeHandshake
    <2> QED
      BY <2>1, <2>2
  <1> QED
    BY <1>3, <1>4, <1>5 DEF SessionInv

LEMMA TickRetransmitKeeps == SessionInv /\ TickRetransmit => SessionInv'
  <1> SUFFICES ASSUME SessionInv, TickRetransmit
               PROVE  SessionInv'
    OBVIOUS
  <1> DEFINE frame == FrameOf(in_flight)
  <1>1. /\ in_flight \in InFlight /\ outbound \in Seq(Frame)
        /\ outbound' = Append(outbound, frame)
        /\ in_flight' = [in_flight EXCEPT !.idle = 0]
        /\ UNCHANGED <<sync, is_synced, max_block_size, queued, events>>
    BY DEF TickRetransmit, Retransmission, SentNow, SessionInv, TypeOK
  <1>2. frame \in Frame /\ frame = FrameOf(in_flight') /\ frame.body = in_flight.body
    BY <1>1 DEF FrameOf, InFlight, Frame
  <1>3. in_flight' \in InFlight /\ in_flight'.body = in_flight.body
    BY <1>1, NumbersAssumption DEF InFlight
  <1> HIDE DEF frame
  <1>4. /\ outbound' \in Seq(Frame)
        /\ outbound'[Len(outbound')] = frame
        /\ \A i \in 1 .. Len(outbound') : outbound'[i] = frame \/ (i \in 1 .. Len(outbound) /\ outbound'[i] = outbound[i])
    BY <1>1, <1>2
  <1>5. TypeOK'
    BY <1>1, <1>3, <1>4 DEF SessionInv, TypeOK
  <1>6. in_flight # None /\ in_flight' # None
    BY <1>1, <1>3, NoneAssumption
  <1>7. NoStrandedPacket' /\ LastFrameIsInFlight'
    BY <1>2, <1>4, <1>6 DEF NoStrandedPacket, LastFrameIsInFlight
  <1>8. NoDataBeforeHandshake'
    BY <1>1, <1>2, <1>3, <1>4, <1>6 DEF SessionInv, NoDataBeforeHandshake
  <1> QED
    BY <1>5, <1>7, <1>8 DEF SessionInv

LEMMA ElapseKeeps == SessionInv /\ Elapse => SessionInv'
  <1> SUFFICES ASSUME SessionInv, Elapse
               PROVE  SessionInv'
    OBVIOUS
  <1>1. /\ in_flight \in InFlight
        /\ in_flight' = [in_flight EXCEPT !.age = Later(@, TotalTimeout),
                                          !.idle = Later(@, ResponseTimeout)]
        /\ UNCHANGED <<sync, is_synced, max_block_size, queued, outbound, events>>
    BY DEF Elapse, SessionInv, TypeOK
  <1>2. /\ \A t \in 0 .. TotalTimeout : Later(t, TotalTimeout) \in 0 .. TotalTimeout
        /\ \A t \in 0 .. ResponseTimeout : Later(t, ResponseTimeout) \in 0 .. ResponseTimeout
    BY NumbersAssumption DEF Later
  <1>3. /\ in_flight' \in InFlight
        /\ in_flight'.body = in_flight.body /\ in_flight'.sync = in_flight.sync
    BY <1>1, <1>2 DEF InFlight
  <1> QED
    BY <1>1, <1>3, NoneAssumption
       DEF SessionInv, TypeOK, NoStrandedPacket, LastFrameIsInFlight,
           NoDataBeforeHandshake, FrameOf

-----------------------------------------------------------------------------
LEMMA SessionInvStep == SessionInv /\ [Next]_vars => SessionInv'
  <1> SUFFICES ASSUME SessionInv, [Next]_vars
               PROVE  SessionInv'
    OBVIOUS
  <1>1. CASE Connect
    BY <1>1, EnqueueKeeps DEF Connect, Packet
  <1>2. ASSUME NEW body \in Body, Send(body)
        PROVE  SessionInv'
    BY <1>2, EnqueueKeeps DEF Send, Packet
  <1>3. CASE Reset
    BY <1>3, ResetKeeps
  <1>4. CASE PollOutbound
    BY <1>4, PollOutboundKeeps
  <1>5. CASE PollEvent
    BY <1>5, PollEventKeeps
  <1>6. CASE Feed
    BY <1>6, ProcessLineKeeps DEF Feed
  <1>7. CASE Tick
    BY <1>7, TickTimeoutKeeps, TickRetransmitKeeps DEF Tick
  <1>8. CASE Elapse
    BY <1>8, ElapseKeeps
  <1>9. CASE UNCHANGED vars
    BY <1>9
       DEF vars, SessionInv, TypeOK, NoStrandedPacket, LastFrameIsInFlight,
           NoDataBeforeHandshake, FrameOf
  <1> QED
    BY <1>1, <1>2, <1>3, <1>4, <1>5, <1>6, <1>7, <1>8, <1>9 DEF Next

LEMMA SessionInvariant == Spec => []SessionInv
  <1>1. Init => SessionInv
    BY SessionInvInit
  <1>2. SessionInv /\ [Next]_vars => SessionInv'
    BY SessionInvStep
  <1> QED
    BY <1>1, <1>2, PTL DEF Spec

(* Every value the session holds is of its type: the counter never leaves  *)
(* a byte, queues hold packets, frames and events only.                    *)
THEOREM SessionTypeCorrect == Spec => []TypeOK
  BY SessionInvariant, PTL DEF SessionInv

(* No call, line or tick leaves a packet in the queue of an idle session.  *)
THEOREM NothingIsStranded == Spec => []NoStrandedPacket
  BY SessionInvariant, PTL DEF SessionInv

(* What was last handed to the caller is the packet in flight, under the   *)
(* number its ack must carry.                                              *)
THEOREM RetransmissionsAreVerbatim == Spec => []LastFrameIsInFlight
  BY SessionInvariant, PTL DEF SessionInv

(* No data packet is queued, sent or handed out while the counter is not   *)
(* confirmed by the device.                                                *)
THEOREM HandshakeComesFirst == Spec => []NoDataBeforeHandshake
  BY SessionInvariant, PTL DEF SessionInv

-----------------------------------------------------------------------------
(* The retransmit budget.  As long as the packet's total time is not out,  *)
(* its age pays for a response timeout per writing after the first and for *)
(* the time since the last one; the writing that tick adds comes before    *)
(* the total time is out, and none comes after.                            *)
BudgetInv ==
    /\ attempts \in Nat
    /\ AttemptBudget
    /\ in_flight # None /\ in_flight.age < TotalTimeout =>
          attempts * ResponseTimeout + in_flight.idle
              <= in_flight.age + ResponseTimeout

LEMMA BudgetInit == CountedInit => BudgetInv
  BY NumbersAssumption, SMT DEF CountedInit, Init, BudgetInv, AttemptBudget

(* One more writing is one more response timeout. *)
LEMMA OneMore == \A a, r \in Nat : (a + 1) * r = a * r + r /\ a * r \in Nat
  BY SMT

(* A packet just put in flight has age and idle time 0. *)
LEMMA FreshPacket ==
    ASSUME TypeOK, Next, in_flight = None \/ Replaced, in_flight' # None
    PROVE  in_flight'.age = 0 /\ in_flight'.idle = 0
  <1>1. ASSUME NEW flight, NEW pending, NEW n,
               DispatchIfIdle(flight, pending, n),
               in_flight' # flight
        PROVE  in_flight'.age = 0 /\ in_flight'.idle = 0
    BY <1>1 DEF DispatchIfIdle, Launched
  <1>2. ASSUME NEW packet, Enqueue(packet)
        PROVE  in_flight'.age = 0 /\ in_flight'.idle = 0
    <2>1. CASE in_flight = None
      BY <1>1, <1>2, <2>1 DEF Enqueue
    <2>2. CASE in_flight # None
      BY <1>2, <2>2 DEF Enqueue, DispatchIfIdle, Replaced, TypeOK
    <2> QED
      BY <2>1, <2>2
  <1>3. CASE UNCHANGED <<in_flight, queued>>
    BY <1>3 DEF Replaced, TypeOK
  <1>4. ASSUME NEW n, HandleOk(n)
        PROVE  in_flight'.age = 0 /\ in_flight'.idle = 0
    BY <1>1, <1>3, <1>4 DEF HandleOk
  <1>5. ASSUME NEW n, NEW size, HandleSs(n, size)
        PROVE  in_flight'.age = 0 /\ in_flight'.idle = 0
    <2>1. CASE in_flight = None \/ IsHandshake(in_flight)
      BY <1>1, <1>5, <2>1 DEF HandleSs
    <2>2. CASE in_flight # None /\ ~IsHandshake(in_flight)
      BY <1>3, <1>5, <2>2 DEF HandleSs, DispatchIfIdle
    <2> QED
      BY <2>1, <2>2
  <1>6. CASE Feed
    <2>1. PICK line \in Line : ProcessLine(line)
      BY <1>6 DEF Feed
    <2> QED
      BY <1>3, <1>4, <1>5, <2>1 DEF ProcessLine, Surface, vars
  <1>7. CASE Tick
    <2>1. CASE TickTimeout
      BY <1>1, <2>1 DEF TickTimeout, AfterTimeout
    <2>2. CASE TickRetransmit
      BY <2>2 DEF TickRetransmit, Replaced, TypeOK
    <2> QED
      BY <1>7, <2>1, <2>2 DEF Tick
  <1>8. CASE Elapse
    BY <1>8 DEF Elapse, Replaced, TypeOK
  <1>9. CASE Reset
    BY <1>9 DEF Reset
  <1>10. CASE PollOutbound \/ PollEvent
    BY <1>3, <1>10 DEF PollOutbound, PollEvent
  <1> QED
    BY <1>2, <1>6, <1>7, <1>8, <1>9, <1>10 DEF Next, Connect, Send

(* A step that keeps the packet in flight leaves its times alone, unless   *)
(* time passes or tick writes it again.                                    *)
LEMMA SamePacketTimes ==
    ASSUME TypeOK, Next, in_flight # None, in_flight' # None, ~Replaced
    PROVE  \/ in_flight' = in_flight
           \/ Elapse
           \/ TickRetransmit
  <1>1. ASSUME NEW pending \in Seq(Packet), NEW n,
               DispatchIfIdle(None, pending, n),
               Len(pending) <= Len(queued)
        PROVE  FALSE
    BY <1>1 DEF DispatchIfIdle, Replaced, TypeOK
  <1>2. ASSUME NEW packet, Enqueue(packet)
        PROVE  in_flight' = in_flight
    BY <1>2 DEF Enqueue, DispatchIfIdle
  <1>3. ASSUME NEW n, HandleOk(n)
        PROVE  in_flight' = in_flight
    BY <1>1, <1>3 DEF HandleOk, TypeOK
  <1>4. ASSUME NEW n, NEW size, HandleSs(n, size)
        PROVE  in_flight' = in_flight
    <2>1. CASE IsHandshake(in_flight)
      BY <1>1, <1>4, <2>1 DEF HandleSs, TypeOK
    <2>2. CASE ~IsHandshake(in_flight)
      BY <1>4, <2>2 DEF HandleSs, DispatchIfIdle
    <2> QED
      BY <2>1, <2>2
  <1>5. CASE Feed
    <2>1. PICK line \in Line : ProcessLine(line)
      BY <1>5 DEF Feed
    <2> QED
      BY <1>3, <1>4, <2>1 DEF ProcessLine, Surface, vars
  <1>6. CASE TickTimeout
    BY <1>1, <1>6 DEF TickTimeout, AfterTimeout, TypeOK
  <1>7. CASE Reset \/ PollOutbound \/ PollEvent
    BY <1>7 DEF Reset, PollOutbound, PollEvent
  <1> QED
    BY <1>2, <1>5, <1>6, <1>7 DEF Next, Connect, Send, Tick

LEMMA BudgetStep ==
    ASSUME TypeOK, TypeOK', BudgetInv, [CountedNext]_CountedVars
    PROVE  BudgetInv'
  <1>1. CASE UNCHANGED CountedVars
    BY <1>1 DEF CountedVars, vars, BudgetInv, AttemptBudget
  <1> SUFFICES ASSUME Next, Count
               PROVE  BudgetInv'
    BY <1>1 DEF CountedNext
  <1>2. CASE in_flight' = None
    BY <1>2, NumbersAssumption, SMT DEF Count, BudgetInv, AttemptBudget
  <1>3. CASE in_flight' # None /\ (in_flight = None \/ Replaced)
    <2>1. attempts' = 1 /\ in_flight'.age = 0 /\ in_flight'.idle = 0
      BY <1>3, FreshPacket DEF Count
    <2> QED
      BY <2>1, NumbersAssumption, SMT DEF BudgetInv, AttemptBudget
  <1>4. CASE in_flight' # None /\ in_flight # None /\ ~Replaced
    <2>1. /\ in_flight \in InFlight
          /\ in_flight.age \in Nat /\ in_flight.idle \in Nat
          /\ in_flight.age <= TotalTimeout /\ in_flight.idle <= ResponseTimeout
          /\ ResponseTimeout \in Nat \ {0} /\ TotalTimeout \in Nat \ {0}
          /\ attempts \in Nat
      BY <1>4, NumbersAssumption DEF TypeOK, InFlight, BudgetInv
    <2> DEFINE paid == attempts * ResponseTimeout
    <2>2. /\ paid \in Nat
          /\ (attempts + 1) * ResponseTimeout = paid + ResponseTimeout
      BY <2>1, OneMore
    <2>3. paid < TotalTimeout + ResponseTimeout
      BY DEF BudgetInv, AttemptBudget
    <2>4. in_flight.age < TotalTimeout =>
              paid + in_flight.idle <= in_flight.age + ResponseTimeout
      BY <1>4 DEF BudgetInv
    <2>5. CASE TickRetransmit
      <3>1. /\ in_flight.age < TotalTimeout /\ in_flight.idle >= ResponseTimeout
            /\ in_flight' = [in_flight EXCEPT !.idle = 0]
        BY <2>1, <2>5 DEF TickRetransmit, RetransmitDue, BudgetSpent, SentNow
      <3>2. in_flight'.age = in_flight.age /\ in_flight'.idle = 0
        BY <2>1, <3>1 DEF InFlight
      <3>3. attempts' = attempts + 1 \/ attempts' = attempts
        BY <1>4, <2>5 DEF Count, Later
      <3>4. /\ attempts' \in Nat
            /\ attempts' * ResponseTimeout <= paid + ResponseTimeout
        BY <2>1, <2>2, <3>3
      <3> HIDE DEF paid
      <3>5. attempts' * ResponseTimeout \in Nat
        BY <2>1, <3>4, OneMore
      <3>6. attempts' * ResponseTimeout <= in_flight.age + ResponseTimeout
        BY <2>1, <2>2, <2>4, <3>1, <3>4, <3>5
      <3> QED
        BY <2>1, <3>1, <3>2, <3>4, <3>5, <3>6 DEF BudgetInv, AttemptBudget
    <2>6. CASE ~TickRetransmit
      <3>1. attempts' = attempts
        BY <1>4, <2>6 DEF Count
      <3>2. CASE in_flight' = in_flight
        BY <3>1, <3>2 DEF BudgetInv, AttemptBudget
      <3>3. CASE Elapse
        <4>1. /\ in_flight'.age = Later(in_flight.age, TotalTimeout)
              /\ in_flight'.idle = Later(in_flight.idle, ResponseTimeout)
          BY <2>1, <3>3 DEF Elapse, InFlight
        <4> HIDE DEF paid
        <4>2. in_flight'.age < TotalTimeout =>
                  paid + in_flight'.idle <= in_flight'.age + ResponseTimeout
          BY <2>1, <2>2, <2>4, <4>1 DEF Later
        <4> QED
          BY <2>3, <3>1, <4>2, <2>1 DEF BudgetInv, AttemptBudget, paid
      <3> QED
        BY <1>4, <2>6, <3>2, <3>3, SamePacketTimes
    <2> QED
      BY <2>5, <2>6
  <1> QED
    BY <1>2, <1>3, <1>4

(* Whatever the lines of the device and however late the ticks, a packet   *)
(* is written at most total_timeout / response_timeout times, rounded up:  *)
(* the 20 attempts the default timeouts are meant to allow.                *)
THEOREM WithinBudget == CountedSpec => []AttemptBudget
  <1>1. CountedInit => SessionInv /\ BudgetInv
    BY SessionInvInit, BudgetInit DEF CountedInit
  <1>2. SessionInv /\ BudgetInv /\ [CountedNext]_CountedVars => (SessionInv /\ BudgetInv)'
    <2> SUFFICES ASSUME SessionInv, BudgetInv, [CountedNext]_CountedVars
                 PROVE  SessionInv' /\ BudgetInv'
      OBVIOUS
    <2>1. SessionInv'
      BY SessionInvStep DEF CountedNext, CountedVars
    <2> QED
      BY <2>1, BudgetStep DEF SessionInv
  <1>3. SessionInv /\ BudgetInv => AttemptBudget
    BY DEF BudgetInv
  <1> QED
    BY <1>1, <1>2, <1>3, PTL DEF CountedSpec

=============================================================================
