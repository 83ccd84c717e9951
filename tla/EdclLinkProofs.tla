---------------------------- MODULE EdclLinkProofs ----------------------------
(***************************************************************************)
(* What holds of EdclLink for every size of the memory, of a request, of   *)
(* the sequence number and of the server's queue, and any number of calls. *)
(***************************************************************************)
EXTENDS EdclLink, SequenceTheorems, TLAPS

Requests == {r \in RequestType : r.addr + r.len <= SIZE}
Buffers  == {b \in BufferType : b.addr + b.len <= SIZE}
Word     == 0 .. MaxCalls
Replies  == [call : 1 .. MaxCalls, addr : Addr, nak : BOOLEAN, seq : SeqNo, len : Nat,
             data : Seq(Word)]

ClientType == /\ pc \in {"idle", "send", "wait"} /\ op \in Op /\ bytes \in Nat
              /\ obuf \in Seq(Word) /\ result \in Nat \cup {-1} /\ seq_cnt \in SeqNo
NetType    == wire \in Requests \cup {NoRequest} /\ socket \in Seq(Replies)
ServerType == /\ seq \in SeqNo /\ bufs \in Seq(Buffers) /\ started \in BOOLEAN
              /\ written \in Nat /\ mem \in [Addr -> Word]
GhostType  == /\ calls \in 0 .. MaxCalls /\ alone \in BOOLEAN /\ served \in [Addr -> Nat]
              /\ late \in Nat /\ mistaken \in Nat

(* A call that is under way has something left to move. *)
InCall == pc # "idle" => bytes < op.len /\ calls # 0

(* The burst on the bus is the oldest request's, a write. *)
OnTheBus == IF started THEN bufs # <<>> /\ Head(bufs).write /\ written < Head(bufs).len
                       ELSE written = 0

(* Requests that may still be answered, and replies not read: one per buffer, one for the call. *)
Outstanding == Len(socket) + Len(bufs) + (IF wire = NoRequest THEN 0 ELSE 1)
                 - (IF started THEN 1 ELSE 0) + (IF pc = "send" THEN 1 ELSE 0)
Room == /\ Len(bufs) <= NBUF
        /\ Outstanding <= NBUF + 1
        /\ pc = "idle" => Outstanding <= NBUF

Typed == ClientType /\ NetType /\ ServerType /\ GhostType
TInv == Typed /\ InCall /\ OnTheBus /\ Room

-----------------------------------------------------------------------------
(* A sequence number stays one when it is counted. *)
LEMMA NextNumber == \A n \in SeqNo : (n + 1) % SEQ_MOD \in SeqNo
  BY LinkAssumption DEF SeqNo

(* The request edcl.cpp composes lies within the call's words. *)
LEMMA RequestTyped ==
  ASSUME op \in Op, bytes \in Nat, bytes < op.len, seq_cnt \in SeqNo, calls \in 1 .. MaxCalls
  PROVE  /\ Request \in Requests /\ Request.len = ChunkLen /\ Request.addr = op.addr + bytes
         /\ ChunkLen \in 1 .. CHUNK /\ bytes + ChunkLen <= op.len
  <1>1. /\ op.len \in Nat /\ op.addr \in Nat /\ op.write \in BOOLEAN
        /\ op.addr + op.len <= SIZE
    BY LinkAssumption DEF Op, Addr
  <1>2. ChunkLen \in 1 .. CHUNK /\ bytes + ChunkLen <= op.len
    BY <1>1, LinkAssumption DEF ChunkLen
  <1>3. op.addr + bytes \in Addr /\ op.addr + bytes + ChunkLen <= SIZE
    BY <1>1, <1>2, LinkAssumption DEF Addr
  <1>. QED
    BY <1>1, <1>2, <1>3 DEF Request, Requests, RequestType

(* A request never equals the absence of one. *)
LEMMA RequestThere == \A r \in Requests : r # NoRequest /\ r.call \in 1 .. MaxCalls
  BY DEF Requests, RequestType, NoRequest

(* The initial state. *)
LEMMA TInit == Init => TInv
  <1>. SUFFICES ASSUME Init PROVE TInv
    OBVIOUS
  <1>1. ClientType
    <2>1. op \in Op
      BY LinkAssumption DEF Init, Op, Addr
    <2>2. seq_cnt \in SeqNo
      BY LinkAssumption DEF Init, SeqNo
    <2>. QED
      BY <2>1, <2>2 DEF Init, ClientType
  <1>2. NetType
    BY DEF Init, NetType
  <1>3. ServerType
    <2>1. 0 \in Word
      BY LinkAssumption DEF Word
    <2>2. mem \in [Addr -> Word]
      BY <2>1 DEF Init
    <2>3. bufs \in Seq(Buffers)
      BY DEF Init
    <2>4. seq \in SeqNo /\ started \in BOOLEAN /\ written \in Nat
      BY DEF Init
    <2>. QED
      BY <2>2, <2>3, <2>4 DEF ServerType
  <1>4. GhostType
    <2>1. calls \in 0 .. MaxCalls /\ late \in Nat /\ mistaken \in Nat
      BY LinkAssumption DEF Init
    <2>2. served \in [Addr -> Nat] /\ alone \in BOOLEAN
      BY DEF Init
    <2>. QED
      BY <2>1, <2>2 DEF GhostType
  <1>5. InCall /\ OnTheBus
    BY DEF Init, InCall, OnTheBus
  <1>6. Room
    <2>1. Outstanding = 0
      BY DEF Init, Outstanding
    <2>2. Len(bufs) = 0
      BY DEF Init
    <2>. QED
      BY <2>1, <2>2, LinkAssumption DEF Room
  <1>. QED
    BY <1>1, <1>2, <1>3, <1>4, <1>5, <1>6 DEF TInv, Typed

(* Begin: the call's arguments are in range and one more reply is due. *)
LEMMA TBegin ==
  ASSUME TInv, NEW o \in Op, Begin(o)
  PROVE  TInv'
  <1>1. /\ pc = "idle" /\ calls < MaxCalls
        /\ pc' = "send" /\ op' = o /\ bytes' = 0 /\ obuf' = <<>>
        /\ calls' = calls + 1 /\ served' = [a \in Addr |-> 0]
        /\ UNCHANGED <<result, seq_cnt, wire, seq, bufs, started, written, mem, socket, late,
                       mistaken>>
    BY DEF Begin, server
  <1>2. ClientType'
    BY <1>1 DEF TInv, Typed, ClientType
  <1>3. NetType' /\ ServerType'
    BY <1>1 DEF TInv, Typed, NetType, ServerType
  <1>4. GhostType'
    <2>1. calls' \in 0 .. MaxCalls
      BY <1>1, LinkAssumption DEF TInv, Typed, GhostType
    <2>2. served' \in [Addr -> Nat] /\ late' \in Nat /\ mistaken' \in Nat
      BY <1>1 DEF TInv, Typed, GhostType
    <2>3. alone' \in BOOLEAN
      BY DEF Begin
    <2>. QED
      BY <2>1, <2>2, <2>3 DEF GhostType
  <1>5. InCall'
    <2>1. o.len \in 1 .. SIZE
      BY DEF Op
    <2>2. 0 < o.len /\ calls + 1 # 0
      BY <2>1, LinkAssumption DEF TInv, Typed, GhostType
    <2>. QED
      BY <1>1, <2>2 DEF InCall
  <1>6. OnTheBus'
    BY <1>1 DEF TInv, OnTheBus
  <1>7. Room'
    <2>1. Len(bufs) <= NBUF /\ Outstanding <= NBUF
      BY <1>1 DEF TInv, Room
    <2>2. Len(socket) \in Nat /\ Len(bufs) \in Nat
      BY LenProperties DEF TInv, Typed, NetType, ServerType
    <2>3. Outstanding' = Outstanding + 1
      BY <1>1, <2>2 DEF Outstanding
    <2>4. Outstanding \in Int
      BY <2>2 DEF Outstanding
    <2>. QED
      BY <1>1, <2>1, <2>3, <2>4, LinkAssumption DEF Room
  <1>. QED
    BY <1>2, <1>3, <1>4, <1>5, <1>6, <1>7 DEF TInv, Typed

(* Send: the request on the wire is the one due. *)
LEMMA TSend ==
  ASSUME TInv, Send
  PROVE  TInv'
  <1>1. /\ pc = "send" /\ pc' = "wait" /\ wire = NoRequest /\ wire' = Request
        /\ UNCHANGED <<op, bytes, obuf, result, seq_cnt, seq, bufs, started, written, mem, socket,
                       calls, alone, served, late, mistaken>>
    BY DEF Send, server, ghosts
  <1>2. Request \in Requests
    <2>1. bytes < op.len /\ calls \in 1 .. MaxCalls
      BY <1>1, LinkAssumption DEF TInv, InCall, Typed, GhostType
    <2>. QED
      BY <2>1, RequestTyped DEF TInv, Typed, ClientType
  <1>3. ClientType' /\ ServerType' /\ GhostType'
    BY <1>1 DEF TInv, Typed, ClientType, ServerType, GhostType
  <1>4. NetType'
    BY <1>1, <1>2 DEF TInv, Typed, NetType
  <1>5. InCall' /\ OnTheBus'
    BY <1>1 DEF TInv, InCall, OnTheBus
  <1>6. Room'
    <2>1. Len(bufs) <= NBUF /\ Outstanding <= NBUF + 1
      BY DEF TInv, Room
    <2>2. Len(socket) \in Nat /\ Len(bufs) \in Nat
      BY LenProperties DEF TInv, Typed, NetType, ServerType
    <2>3. wire' # NoRequest
      BY <1>1, <1>2, RequestThere
    <2>4. Outstanding' = Outstanding
      BY <1>1, <2>2, <2>3 DEF Outstanding
    <2>. QED
      BY <1>1, <2>1, <2>4 DEF Room
  <1>. QED
    BY <1>2, <1>3, <1>4, <1>5, <1>6 DEF TInv, Typed

(* The oldest of a queue, and what stays behind it. *)
LEMMA QueueHead ==
  ASSUME NEW S, NEW q \in Seq(S), q # <<>>
  PROVE  /\ Head(q) \in S /\ Tail(q) \in Seq(S) /\ Head(q) = q[1]
         /\ Len(q) \in Nat /\ Len(q) >= 1 /\ Len(Tail(q)) = Len(q) - 1
  <1>1. Head(q) \in S /\ Tail(q) \in Seq(S) /\ Len(Tail(q)) = Len(q) - 1
    BY HeadTailProperties
  <1>2. Len(q) \in Nat /\ Len(q) # 0
    BY EmptySeq
  <1>3. Head(q) = q[1]
    OBVIOUS
  <1>. QED
    BY <1>1, <1>2, <1>3

(* Read: an ACK, whosever it is, moves the call on; a NAK makes it due again. *)
LEMMA TRead ==
  ASSUME TInv, Read
  PROVE  TInv'
  <1>. DEFINE r == Head(socket)
  <1>1. /\ pc = "wait" /\ socket # <<>> /\ socket' = Tail(socket)
        /\ UNCHANGED <<op, wire, seq, bufs, started, written, mem, calls, alone, served, late>>
        /\ Ack(r) \/ Nak(r)
    BY DEF Read, server
  <1>2. /\ r \in Replies /\ Tail(socket) \in Seq(Replies)
        /\ Len(socket) \in Nat /\ Len(socket) >= 1 /\ Len(Tail(socket)) = Len(socket) - 1
    BY <1>1, QueueHead DEF TInv, Typed, NetType
  <1>3. r.len \in Nat /\ r.seq \in SeqNo /\ r.data \in Seq(Word)
    BY <1>2 DEF Replies
  <1>4. bytes < op.len /\ calls # 0 /\ op.len \in Nat /\ ChunkLen \in Nat
    <2>1. bytes < op.len /\ calls # 0 /\ bytes \in Nat
      BY <1>1 DEF TInv, InCall, Typed, ClientType
    <2>2. op.len \in Nat
      BY DEF TInv, Typed, ClientType, Op
    <2>. QED
      BY <2>1, <2>2, LinkAssumption DEF ChunkLen
  <1>5. Progress(r) \in Nat
    BY <1>3, <1>4 DEF Progress, TInv, Typed, ClientType
  <1>6. ClientType' /\ InCall'
    <2>1. CASE Ack(r)
      <3>1. /\ seq_cnt' \in SeqNo /\ bytes' \in Nat
        BY <2>1, <1>5, NextNumber DEF Ack, TInv, Typed, ClientType
      <3>2. obuf' \in Seq(Word)
        <4>1. obuf \o r.data \in Seq(Word)
          BY <1>3, ConcatProperties DEF TInv, Typed, ClientType
        <4>. QED
          BY <4>1, <2>1 DEF Ack, TInv, Typed, ClientType
      <3>3. CASE Progress(r) < op.len
        <4>1. pc' = "send" /\ result' = result /\ bytes' = Progress(r) /\ op' = op /\ calls' = calls
          BY <2>1, <3>3, <1>1 DEF Ack
        <4>. QED
          BY <4>1, <3>1, <3>2, <3>3, <1>4 DEF ClientType, InCall, TInv, Typed
      <3>4. CASE ~(Progress(r) < op.len)
        <4>1. pc' = "idle" /\ result' = Progress(r) /\ op' = op
          BY <2>1, <3>4, <1>1 DEF Ack
        <4>. QED
          BY <4>1, <3>1, <3>2, <1>5 DEF ClientType, InCall, TInv, Typed
      <3>. QED
        BY <3>3, <3>4
    <2>2. CASE Nak(r)
      <3>1. seq_cnt' = r.seq /\ pc' = "send" /\ UNCHANGED <<bytes, obuf, result, op, calls>>
        BY <2>2, <1>1 DEF Nak, ServersNumber
      <3>. QED
        BY <3>1, <1>3, <1>4 DEF ClientType, InCall, TInv, Typed
    <2>. QED
      BY <1>1, <2>1, <2>2
  <1>7. NetType' /\ ServerType'
    BY <1>1, <1>2 DEF TInv, Typed, NetType, ServerType
  <1>8. GhostType'
    <2>1. mistaken' = mistaken \/ mistaken' = mistaken + 1
      BY <1>1 DEF Ack, Nak
    <2>. QED
      BY <1>1, <2>1 DEF TInv, Typed, GhostType
  <1>9. OnTheBus'
    BY <1>1 DEF TInv, OnTheBus
  <1>10. Room'
    <2>1. Len(bufs) <= NBUF /\ Outstanding <= NBUF + 1
      BY DEF TInv, Room
    <2>2. Len(bufs) \in Nat
      BY LenProperties DEF TInv, Typed, ServerType
    <2>3. pc' = "send" \/ pc' = "idle"
      BY <1>1 DEF Ack, Nak
    <2>4. Outstanding' = Outstanding - (IF pc' = "send" THEN 0 ELSE 1)
      BY <1>1, <1>2, <2>2, <2>3 DEF Outstanding
    <2>5. Outstanding \in Int
      BY <1>2, <2>2 DEF Outstanding
    <2>. QED
      BY <1>1, <2>1, <2>3, <2>4, <2>5, LinkAssumption DEF Room
  <1>. QED
    BY <1>6, <1>7, <1>8, <1>9, <1>10 DEF TInv, Typed

(* Timeout: only what the server holds is still outstanding. *)
LEMMA TTimeout ==
  ASSUME TInv, Timeout
  PROVE  TInv'
  <1>1. /\ pc = "wait" /\ pc' = "idle" /\ result' = -1 /\ socket = <<>> /\ wire = NoRequest
        /\ UNCHANGED <<op, bytes, obuf, seq_cnt, wire, seq, bufs, started, written, mem, socket,
                       calls, alone, served, late, mistaken>>
    BY DEF Timeout, server, ghosts
  <1>2. ClientType' /\ InCall'
    BY <1>1 DEF TInv, Typed, ClientType, InCall
  <1>3. NetType' /\ ServerType' /\ GhostType'
    BY <1>1 DEF TInv, Typed, NetType, ServerType, GhostType
  <1>4. OnTheBus'
    BY <1>1 DEF TInv, OnTheBus
  <1>5. Room'
    <2>1. Len(bufs) <= NBUF
      BY DEF TInv, Room
    <2>2. Len(bufs) \in Nat /\ Len(socket) = 0
      BY <1>1, LenProperties DEF TInv, Typed, ServerType
    <2>3. Outstanding' = Len(bufs) - IF started THEN 1 ELSE 0
      BY <1>1, <2>2 DEF Outstanding
    <2>. QED
      BY <1>1, <2>1, <2>2, <2>3, LinkAssumption DEF Room
  <1>. QED
    BY <1>2, <1>3, <1>4, <1>5 DEF TInv, Typed

(* Lose and Overtaken: a request the server does not keep is one reply less to come. *)
LEMMA TLoseOvertaken ==
  ASSUME TInv, Lose \/ Overtaken
  PROVE  TInv'
  <1>1. /\ wire # NoRequest /\ wire' = NoRequest /\ seq' \in {seq, Counted}
        /\ UNCHANGED <<pc, op, bytes, obuf, result, seq_cnt, bufs, started, written, mem, socket,
                       calls, alone, served, late, mistaken>>
    BY DEF Lose, Overtaken, client, server, ghosts
  <1>2. ClientType' /\ NetType' /\ GhostType' /\ InCall' /\ OnTheBus'
    <2>1. ClientType' /\ InCall'
      BY <1>1 DEF TInv, Typed, ClientType, InCall
    <2>2. NetType'
      BY <1>1 DEF TInv, Typed, NetType
    <2>3. GhostType'
      BY <1>1 DEF TInv, Typed, GhostType
    <2>4. OnTheBus'
      BY <1>1 DEF TInv, OnTheBus
    <2>. QED
      BY <2>1, <2>2, <2>3, <2>4
  <1>3. ServerType'
    <2>1. seq \in SeqNo
      BY DEF TInv, Typed, ServerType
    <2>2. seq' \in SeqNo
      <3>1. (seq + 1) % SEQ_MOD \in SeqNo
        BY <2>1, NextNumber
      <3>. QED
        BY <1>1, <2>1, <3>1 DEF Counted
    <2>3. UNCHANGED <<bufs, started, written, mem>>
      BY <1>1
    <2>. QED
      BY <2>2, <2>3 DEF TInv, Typed, ServerType
  <1>4. Room'
    <2>1. Len(bufs) <= NBUF /\ Outstanding <= NBUF + 1 /\ (pc = "idle" => Outstanding <= NBUF)
      BY DEF TInv, Room
    <2>2. Len(socket) \in Nat /\ Len(bufs) \in Nat
      BY LenProperties DEF TInv, Typed, NetType, ServerType
    <2>3. Outstanding' = Outstanding - 1 /\ Outstanding \in Int
      BY <1>1, <2>2 DEF Outstanding
    <2>. QED
      BY <1>1, <2>1, <2>3, LinkAssumption DEF Room
  <1>. QED
    BY <1>2, <1>3, <1>4 DEF TInv, Typed

(* What Receive keeps is of the buffers' type, at the end of the queue. *)
LEMMA BufferedTyped ==
  ASSUME wire \in Requests, seq \in SeqNo
  PROVE  Buffered \in Buffers
  <1>1. /\ wire.call \in 1 .. MaxCalls /\ wire.write \in BOOLEAN /\ wire.addr \in Addr
        /\ wire.len \in 1 .. CHUNK /\ wire.addr + wire.len <= SIZE
    BY DEF Requests, RequestType
  <1>2. Refused \in BOOLEAN
    BY DEF Refused
  <1>. QED
    BY <1>1, <1>2 DEF Buffered, Buffers, BufferType

(* Receive: from the wire to a buffer. *)
LEMMA TReceive ==
  ASSUME TInv, Receive
  PROVE  TInv'
  <1>1. /\ wire # NoRequest /\ wire' = NoRequest /\ Len(bufs) < NBUF
        /\ bufs' = Append(bufs, Buffered) /\ seq' = Counted
        /\ UNCHANGED <<pc, op, bytes, obuf, result, seq_cnt, started, written, mem, socket,
                       calls, alone, served, late, mistaken>>
    BY DEF Receive, client, ghosts
  <1>2. /\ Buffered \in Buffers /\ bufs \in Seq(Buffers) /\ Len(bufs) \in Nat
    BY <1>1, BufferedTyped, LenProperties DEF TInv, Typed, NetType, ServerType
  <1>3. /\ bufs' \in Seq(Buffers) /\ Len(bufs') = Len(bufs) + 1
        /\ bufs # <<>> => bufs' # <<>> /\ Head(bufs') = Head(bufs)
    <2>1. bufs' \in Seq(Buffers) /\ Len(bufs') = Len(bufs) + 1
      BY <1>1, <1>2, AppendProperties
    <2>2. bufs # <<>> => bufs' # <<>> /\ Head(bufs') = Head(bufs)
      BY <1>1, <1>2, HeadTailAppend, AppendProperties
    <2>. QED
      BY <2>1, <2>2
  <1>4. ClientType' /\ NetType' /\ GhostType' /\ InCall'
    BY <1>1 DEF TInv, Typed, ClientType, NetType, GhostType, InCall
  <1>5. ServerType'
    <2>1. seq' \in SeqNo
      BY <1>1, NextNumber DEF Counted, TInv, Typed, ServerType
    <2>. QED
      BY <1>1, <1>3, <2>1 DEF TInv, Typed, ServerType
  <1>6. OnTheBus'
    <2>1. started' = started /\ written' = written
      BY <1>1
    <2>. QED
      BY <1>3, <2>1 DEF TInv, OnTheBus
  <1>7. Room'
    <2>1. Outstanding <= NBUF + 1 /\ (pc = "idle" => Outstanding <= NBUF)
      BY DEF TInv, Room
    <2>2. Len(socket) \in Nat
      BY LenProperties DEF TInv, Typed, NetType
    <2>3. Outstanding' = Outstanding
      BY <1>1, <1>2, <1>3, <2>2 DEF Outstanding
    <2>4. Len(bufs') <= NBUF
      BY <1>1, <1>2, <1>3, LinkAssumption
    <2>. QED
      BY <1>1, <2>1, <2>3, <2>4 DEF Room
  <1>. QED
    BY <1>4, <1>5, <1>6, <1>7 DEF TInv, Typed

(* The reply is typed, whatever it answers. *)
LEMMA ReplyTyped ==
  ASSUME NEW b \in Buffers, mem \in [Addr -> Word]
  PROVE  /\ Reply(b) \in Replies
         /\ b.call \in 1 .. MaxCalls /\ b.addr \in Addr /\ b.len \in 1 .. CHUNK
         /\ \A a \in Words(b) : a \in Addr
  <1>1. /\ b.call \in 1 .. MaxCalls /\ b.write \in BOOLEAN /\ b.nak \in BOOLEAN /\ b.addr \in Addr
        /\ b.seq \in SeqNo /\ b.len \in 1 .. CHUNK /\ b.addr + b.len <= SIZE
    BY DEF Buffers, BufferType
  <1>2. b.len \in Nat /\ b.addr \in Nat
    BY <1>1, LinkAssumption DEF Addr
  <1>3. \A a \in Words(b) : a \in Addr
    BY <1>1, <1>2, LinkAssumption DEF Words, Addr
  <1>4. [i \in 1 .. b.len |-> mem[b.addr + i - 1]] \in Seq(Word)
    <2>1. \A i \in 1 .. b.len : b.addr + i - 1 \in Words(b)
      BY <1>2 DEF Words
    <2>2. \A i \in 1 .. b.len : mem[b.addr + i - 1] \in Word
      BY <2>1, <1>3
    <2>3. [i \in 1 .. b.len |-> mem[b.addr + i - 1]] \in [1 .. b.len -> Word]
      BY <2>2
    <2>4. [1 .. b.len -> Word] \subseteq Seq(Word)
      BY <1>2, SeqDef, ZenonT(60)
    <2>. QED
      BY <2>3, <2>4, Zenon
  <1>5. <<>> \in Seq(Word)
    OBVIOUS
  <1>6. Reply(b).len \in Nat /\ Reply(b).data \in Seq(Word)
    BY <1>2, <1>4, <1>5 DEF Reply
  <1>7. Reply(b) = [call |-> b.call, addr |-> b.addr, nak |-> b.nak, seq |-> b.seq,
                    len |-> Reply(b).len, data |-> Reply(b).data]
    BY DEF Reply
  <1>8. Reply(b) \in Replies
    BY <1>1, <1>6, <1>7 DEF Replies
  <1>. QED
    BY <1>1, <1>3, <1>8

(* Answer: a reply more, and the buffer is given back or, for a write, held by the bus. *)
LEMMA TAnswer ==
  ASSUME TInv, Answer
  PROVE  TInv'
  <1>. DEFINE b == Head(bufs)
  <1>1. /\ bufs # <<>> /\ ~started
        /\ socket' = Append(socket, Reply(b)) \/ socket' = socket
        /\ late' = late + 1 \/ late' = late
        /\ UNCHANGED <<pc, op, bytes, obuf, result, seq_cnt, wire, seq, mem, calls, alone, mistaken>>
    BY DEF Answer, client
  <1>2. /\ b \in Buffers /\ Tail(bufs) \in Seq(Buffers)
        /\ Len(bufs) \in Nat /\ Len(bufs) >= 1 /\ Len(Tail(bufs)) = Len(bufs) - 1
    BY <1>1, QueueHead DEF TInv, Typed, ServerType
  <1>3. /\ socket \in Seq(Replies) /\ mem \in [Addr -> Word] /\ bufs \in Seq(Buffers)
        /\ written \in Nat /\ written = 0
    BY <1>1 DEF TInv, Typed, NetType, ServerType, OnTheBus
  <1>4. /\ socket' \in Seq(Replies) /\ Len(socket) \in Nat
        /\ Len(socket') \in Nat /\ Len(socket') <= Len(socket) + 1
    <2>1. Reply(b) \in Replies
      BY <1>2, <1>3, ReplyTyped
    <2>2. Append(socket, Reply(b)) \in Seq(Replies) /\ Len(Append(socket, Reply(b))) = Len(socket) + 1
      BY <2>1, <1>3, AppendProperties
    <2>3. Len(socket) \in Nat
      BY <1>3, LenProperties
    <2>. QED
      BY <1>1, <1>3, <2>2, <2>3
  <1>5. \/ /\ b.write /\ started' = TRUE /\ UNCHANGED <<bufs, written>>
        \/ /\ bufs' = Tail(bufs) /\ started' = FALSE /\ written' = 0
    BY DEF Answer, Free
  <1>6. ClientType' /\ NetType' /\ InCall'
    <2>1. ClientType'
      BY <1>1 DEF TInv, Typed, ClientType
    <2>2. NetType'
      BY <1>1, <1>4 DEF TInv, Typed, NetType
    <2>3. InCall'
      BY <1>1 DEF TInv, InCall
    <2>. QED
      BY <2>1, <2>2, <2>3
  <1>7. ServerType'
    <2>1. seq' \in SeqNo /\ mem' \in [Addr -> Word]
      BY <1>1 DEF TInv, Typed, ServerType
    <2>2. bufs' \in Seq(Buffers) /\ started' \in BOOLEAN /\ written' \in Nat
      BY <1>2, <1>3, <1>5
    <2>. QED
      BY <2>1, <2>2 DEF ServerType
  <1>8. GhostType'
    <2>1. served' \in [Addr -> Nat]
      <3>1. served \in [Addr -> Nat]
        BY DEF TInv, Typed, GhostType
      <3>2. served' = [a \in Addr |-> IF Serves(b) /\ b.call = calls /\ a \in Words(b)
                                      THEN served[a] + 1 ELSE served[a]]
        BY DEF Answer
      <3>. QED
        BY <3>1, <3>2
    <2>2. late' \in Nat
      BY <1>1 DEF TInv, Typed, GhostType
    <2>3. calls' \in 0 .. MaxCalls /\ alone' \in BOOLEAN /\ mistaken' \in Nat
      BY <1>1 DEF TInv, Typed, GhostType
    <2>. QED
      BY <2>1, <2>2, <2>3 DEF GhostType
  <1>9. OnTheBus'
    <2>1. b.len \in 1 .. CHUNK
      BY <1>2, <1>3, ReplyTyped
    <2>2. 0 < b.len
      BY <2>1, LinkAssumption
    <2>. QED
      BY <1>1, <1>3, <1>5, <2>2 DEF OnTheBus
  <1>10. Room'
    <2>1. Len(bufs) <= NBUF /\ Outstanding <= NBUF + 1 /\ (pc = "idle" => Outstanding <= NBUF)
      BY DEF TInv, Room
    <2>2. Len(bufs') \in Nat /\ Len(bufs') <= Len(bufs)
      BY <1>2, <1>5
    <2>3. Outstanding' <= Outstanding /\ Outstanding \in Int /\ Outstanding' \in Int
      <3>1. CASE started' = TRUE /\ bufs' = bufs
        BY <1>1, <1>2, <1>4, <3>1 DEF Outstanding
      <3>2. CASE bufs' = Tail(bufs) /\ started' = FALSE
        BY <1>1, <1>2, <1>4, <3>2 DEF Outstanding
      <3>. QED
        BY <1>5, <3>1, <3>2
    <2>4. Len(bufs') <= NBUF
      BY <2>1, <2>2, <1>2, LinkAssumption
    <2>5. Outstanding' <= NBUF + 1 /\ (pc' = "idle" => Outstanding' <= NBUF)
      BY <1>1, <2>1, <2>3, LinkAssumption
    <2>. QED
      BY <2>4, <2>5 DEF Room
  <1>. QED
    BY <1>6, <1>7, <1>8, <1>9, <1>10 DEF TInv, Typed

(* BusWrite: a word of memory takes the call's number; the last one gives the buffer back. *)
LEMMA TBusWrite ==
  ASSUME TInv, BusWrite
  PROVE  TInv'
  <1>. DEFINE b == Head(bufs)
  <1>1. /\ started /\ mem' = [mem EXCEPT ![b.addr + written] = b.call]
        /\ UNCHANGED <<pc, op, bytes, obuf, result, seq_cnt, wire, seq, socket,
                       calls, alone, served, late, mistaken>>
    BY DEF BusWrite, client, ghosts
  <1>2. /\ bufs # <<>> /\ b.write /\ written < b.len
    BY <1>1 DEF TInv, OnTheBus
  <1>3. /\ b \in Buffers /\ Tail(bufs) \in Seq(Buffers)
        /\ Len(bufs) \in Nat /\ Len(bufs) >= 1 /\ Len(Tail(bufs)) = Len(bufs) - 1
    BY <1>2, QueueHead DEF TInv, Typed, ServerType
  <1>4. /\ b.call \in 1 .. MaxCalls /\ b.len \in Nat
    <2>1. b.call \in 1 .. MaxCalls /\ b.len \in 1 .. CHUNK
      BY <1>3 DEF Buffers, BufferType
    <2>. QED
      BY <2>1, LinkAssumption
  <1>5. written \in Nat /\ mem \in [Addr -> Word] /\ bufs \in Seq(Buffers)
    BY DEF TInv, Typed, ServerType
  <1>6. \/ bufs' = Tail(bufs) /\ started' = FALSE /\ written' = 0
        \/ /\ written + 1 # b.len /\ written' = written + 1 /\ UNCHANGED <<bufs, started>>
    BY DEF BusWrite, Free, LastWord
  <1>7. ClientType' /\ NetType' /\ GhostType' /\ InCall'
    <2>1. ClientType' /\ InCall'
      BY <1>1 DEF TInv, Typed, ClientType, InCall
    <2>2. NetType'
      BY <1>1 DEF TInv, Typed, NetType
    <2>3. GhostType'
      BY <1>1 DEF TInv, Typed, GhostType
    <2>. QED
      BY <2>1, <2>2, <2>3
  <1>8. ServerType'
    <2>1. mem' \in [Addr -> Word]
      <3>1. b.call \in Word
        BY <1>4, LinkAssumption DEF Word
      <3>. QED
        BY <1>1, <1>5, <3>1
    <2>2. seq' \in SeqNo
      BY <1>1 DEF TInv, Typed, ServerType
    <2>3. bufs' \in Seq(Buffers) /\ written' \in Nat
      BY <1>3, <1>5, <1>6, SMTT(40)
    <2>4. started' \in BOOLEAN
      <3>1. started \in BOOLEAN
        BY DEF TInv, Typed, ServerType
      <3>2. started' = FALSE \/ started' = started
        BY <1>6
      <3>. QED
        BY <3>1, <3>2, Zenon
    <2>. QED
      BY <2>1, <2>2, <2>3, <2>4 DEF ServerType
  <1>9. OnTheBus'
    <2>1. written + 1 # b.len => written + 1 < b.len
      BY <1>2, <1>4, <1>5
    <2>. QED
      BY <1>1, <1>2, <1>6, <2>1 DEF OnTheBus
  <1>10. Room'
    <2>1. Len(bufs) <= NBUF /\ Outstanding <= NBUF + 1 /\ (pc = "idle" => Outstanding <= NBUF)
      BY DEF TInv, Room
    <2>2. Len(socket) \in Nat
      BY LenProperties DEF TInv, Typed, NetType
    <2>3. Outstanding' = Outstanding /\ Len(bufs') \in Nat /\ Len(bufs') <= Len(bufs)
      <3>1. CASE bufs' = Tail(bufs) /\ started' = FALSE
        BY <1>1, <1>3, <2>2, <3>1 DEF Outstanding
      <3>2. CASE UNCHANGED <<bufs, started>>
        BY <1>1, <1>3, <2>2, <3>2 DEF Outstanding
      <3>. QED
        BY <1>6, <3>1, <3>2
    <2>4. Len(bufs') <= NBUF
      BY <2>1, <2>3, <1>3, LinkAssumption
    <2>. QED
      BY <1>1, <2>1, <2>3, <2>4 DEF Room
  <1>. QED
    BY <1>7, <1>8, <1>9, <1>10 DEF TInv, Typed

-----------------------------------------------------------------------------
(* Every step of the link keeps the invariant. *)
LEMMA TNext == TInv /\ [Next]_vars => TInv'
  <1>. SUFFICES ASSUME TInv, [Next]_vars PROVE TInv'
    OBVIOUS
  <1>1. ASSUME NEW o \in Op, Begin(o) PROVE TInv'
    BY <1>1, TBegin
  <1>2. CASE Send
    BY <1>2, TSend
  <1>3. CASE Read
    BY <1>3, TRead
  <1>4. CASE Timeout
    BY <1>4, TTimeout
  <1>5. CASE Lose \/ Overtaken
    BY <1>5, TLoseOvertaken
  <1>6. CASE Receive
    BY <1>6, TReceive
  <1>7. CASE Answer
    BY <1>7, TAnswer
  <1>8. CASE BusWrite
    BY <1>8, TBusWrite
  <1>9. CASE UNCHANGED vars
    <2>1. UNCHANGED <<pc, op, bytes, obuf, result, seq_cnt>>
      BY <1>9 DEF vars
    <2>2. UNCHANGED <<wire, socket, seq, bufs, started, written, mem>>
      BY <1>9 DEF vars
    <2>3. UNCHANGED <<calls, alone, served, late, mistaken>>
      BY <1>9 DEF vars
    <2>4. ClientType' /\ InCall'
      BY <2>1, <2>3 DEF TInv, Typed, ClientType, InCall
    <2>5. NetType' /\ ServerType' /\ OnTheBus'
      BY <2>2 DEF TInv, Typed, NetType, ServerType, OnTheBus
    <2>6. GhostType'
      BY <2>3 DEF TInv, Typed, GhostType
    <2>7. Room'
      BY <2>1, <2>2 DEF TInv, Room, Outstanding
    <2>. QED
      BY <2>4, <2>5, <2>6, <2>7 DEF TInv, Typed
  <1>. QED
    BY <1>1, <1>2, <1>3, <1>4, <1>5, <1>6, <1>7, <1>8, <1>9 DEF Next, Step

(* The invariant gives the types the runs check. *)
LEMMA TInvTypeOK == TInv => TypeOK
  <1>. SUFFICES ASSUME TInv PROVE TypeOK
    OBVIOUS
  <1>1. wire # NoRequest => wire \in RequestType /\ Words(wire) \subseteq Addr
    <2>1. ASSUME wire # NoRequest PROVE wire \in RequestType /\ wire.addr + wire.len <= SIZE
      BY <2>1 DEF TInv, Typed, NetType, Requests
    <2>2. ASSUME wire # NoRequest PROVE wire.addr \in Addr /\ wire.len \in 1 .. CHUNK
      BY <2>1, <2>2 DEF RequestType
    <2>. QED
      BY <2>1, <2>2, LinkAssumption DEF Words, Addr
  <1>2. \A i \in 1 .. Len(bufs) : bufs[i] \in BufferType /\ Words(bufs[i]) \subseteq Addr
    <2>. TAKE i \in 1 .. Len(bufs)
    <2>1. bufs[i] \in Buffers
      BY ElementOfSeq DEF TInv, Typed, ServerType
    <2>2. bufs[i] \in BufferType /\ \A a \in Words(bufs[i]) : a \in Addr
      BY <2>1, ReplyTyped DEF Buffers, TInv, Typed, ServerType
    <2>. QED
      BY <2>2
  <1>3. written \in 0 .. CHUNK - 1
    <2>1. CASE started
      <3>1. bufs # <<>> /\ written < Head(bufs).len /\ written \in Nat
        BY <2>1 DEF TInv, OnTheBus, Typed, ServerType
      <3>2. Head(bufs) \in Buffers
        BY <3>1, QueueHead DEF TInv, Typed, ServerType
      <3>3. Head(bufs).len \in 1 .. CHUNK
        BY <3>2 DEF Buffers, BufferType
      <3>. QED
        BY <3>1, <3>3, LinkAssumption
    <2>2. CASE ~started
      BY <2>2, LinkAssumption DEF TInv, OnTheBus
    <2>. QED
      BY <2>1, <2>2
  <1>4. Len(bufs) <= NBUF /\ Len(socket) <= NBUF + 1
    <2>1. Len(bufs) <= NBUF /\ Outstanding <= NBUF + 1
      BY DEF TInv, Room
    <2>2. Len(socket) \in Nat /\ Len(bufs) \in Nat
      BY LenProperties DEF TInv, Typed, NetType, ServerType
    <2>3. started => Len(bufs) >= 1
      BY QueueHead DEF TInv, OnTheBus, Typed, ServerType
    <2>4. Len(socket) <= Outstanding /\ Outstanding \in Int
      BY <2>2, <2>3 DEF Outstanding
    <2>. QED
      BY <2>1, <2>2, <2>4, LinkAssumption
  <1>5. /\ pc \in {"idle", "send", "wait"} /\ op \in Op /\ bytes \in Nat
        /\ obuf \in Seq(0 .. MaxCalls) /\ result \in Nat \cup {-1}
    BY DEF TInv, Typed, ClientType, Word
  <1>6. seq_cnt \in SeqNo /\ seq \in SeqNo /\ started \in BOOLEAN /\ mem \in [Addr -> 0 .. MaxCalls]
    BY DEF TInv, Typed, ClientType, ServerType, Word
  <1>7. /\ calls \in 0 .. MaxCalls /\ alone \in BOOLEAN
        /\ served \in [Addr -> Nat] /\ late \in Nat /\ mistaken \in Nat
    BY DEF TInv, Typed, GhostType
  <1>. QED
    BY <1>1, <1>2, <1>3, <1>4, <1>5, <1>6, <1>7, Zenon DEF TypeOK

(* Types, and requests inside their call's words, for every size of link and memory. *)
THEOREM EdclTypeOK == Spec => []TypeOK
  <1>1. Init => TInv
    BY TInit
  <1>2. TInv /\ [Next]_vars => TInv'
    BY TNext
  <1>3. TInv => TypeOK
    BY TInvTypeOK
  <1>. QED
    BY <1>1, <1>2, <1>3, PTL DEF Spec

-----------------------------------------------------------------------------
(* A call of the PC tool that begins with nothing outstanding is exact, and   *)
(* reaches the bus once.                                                     *)

(* Requests in buffers and not answered: a write on the bus is answered.  They are the last. *)
Unserved == Len(bufs) - IF started THEN 1 ELSE 0
Pending  == bufs[Len(bufs)]

(* Memory as a later request will find it. *)
View == [a \in Addr |-> Seen(a)]

(* The words of the burst on the bus that are done. *)
BusDone == started => \A k \in 0 .. written - 1 : mem[Head(bufs).addr + k] = Head(bufs).call

(* The first n words of the call were served once, the others never. *)
Served(n) == \A a \in Addr : served[a] = IF op.addr <= a /\ a < op.addr + n THEN 1 ELSE 0

(* Its first n words are as the call is to leave them, or as it found them. *)
Moved(n) == IF op.write THEN \A i \in 0 .. n - 1 : View[op.addr + i] = calls
            ELSE Len(obuf) = n /\ \A i \in 0 .. n - 1 : obuf[i + 1] = View[op.addr + i]

(* The buffers hold this call's requests only. *)
Mine == \A i \in 1 .. Len(bufs) : bufs[i].call = calls /\ (bufs[i].write <=> op.write)

(* The last buffer holds the piece the client waits for. *)
AsRequested == Pending.addr = op.addr + bytes /\ Pending.len = ChunkLen

(* The reply says the piece is done, and it is. *)
Fulfils(r) ==
  /\ ~r.nak
  /\ IF op.write THEN \A i \in 0 .. ChunkLen - 1 : View[op.addr + bytes + i] = calls
     ELSE /\ r.len = ChunkLen /\ Len(r.data) = ChunkLen
          /\ \A i \in 0 .. ChunkLen - 1 : r.data[i + 1] = View[op.addr + bytes + i]

(* Where the piece is: not sent, on the wire, in a buffer, refused, done, or lost on the way. *)
NotSent  == wire = NoRequest /\ socket = <<>> /\ Unserved = 0 /\ Served(bytes)
OnWire   == wire = Request /\ socket = <<>> /\ Unserved = 0 /\ Served(bytes)
InBuffer == wire = NoRequest /\ socket = <<>> /\ Unserved = 1 /\ Served(bytes) /\ AsRequested
IsRefused == /\ wire = NoRequest /\ Len(socket) = 1 /\ Unserved = 0 /\ Served(bytes)
             /\ Head(socket).nak
IsDone   == /\ wire = NoRequest /\ Len(socket) = 1 /\ Unserved = 0 /\ Served(bytes + ChunkLen)
            /\ Fulfils(Head(socket))
IsLost   == /\ wire = NoRequest /\ socket = <<>> /\ Unserved = 0
            /\ Served(bytes) \/ Served(bytes + ChunkLen)

Waiting == OnWire \/ InBuffer \/ IsRefused \/ IsDone \/ IsLost

Succeeded == /\ wire = NoRequest /\ socket = <<>> /\ Unserved = 0
             /\ result = op.len /\ Served(op.len) /\ Moved(op.len)

(* A call that gave up may leave one request in a buffer. *)
LeftBehind == wire = NoRequest /\ Unserved = 1 /\ Served(bytes) /\ AsRequested
GaveUp     == wire = NoRequest /\ Unserved = 0 /\ \E n \in Nat : Served(n)

Alone == /\ Mine
         /\ pc = "send" => NotSent /\ Moved(bytes)
         /\ pc = "wait" => Waiting /\ Moved(bytes)
         /\ Returned => Succeeded
         /\ pc = "idle" /\ ~Returned => LeftBehind \/ GaveUp

IInv == TInv /\ BusDone /\ (alone => Alone)

-----------------------------------------------------------------------------
(* The types the arguments below use. *)
LEMMA Basics ==
  ASSUME TInv
  PROVE  /\ op.addr \in Nat /\ op.len \in Nat /\ op.len >= 1 /\ op.addr + op.len <= SIZE
         /\ op.write \in BOOLEAN /\ bytes \in Nat /\ calls \in Nat
         /\ Len(bufs) \in Nat /\ Len(socket) \in Nat
         /\ bufs \in Seq(Buffers) /\ socket \in Seq(Replies) /\ mem \in [Addr -> Word]
         /\ obuf \in Seq(Word) /\ Len(obuf) \in Nat
         /\ served \in [Addr -> Nat]
  <1>1. op \in Op /\ bytes \in Nat /\ obuf \in Seq(Word)
    BY DEF TInv, Typed, ClientType
  <1>2. bufs \in Seq(Buffers) /\ socket \in Seq(Replies) /\ mem \in [Addr -> Word]
    BY DEF TInv, Typed, NetType, ServerType
  <1>3. calls \in Nat /\ served \in [Addr -> Nat]
    BY LinkAssumption DEF TInv, Typed, GhostType
  <1>4. Len(bufs) \in Nat /\ Len(socket) \in Nat /\ Len(obuf) \in Nat
    BY <1>1, <1>2, LenProperties
  <1>5. op.addr \in Nat /\ op.len \in Nat /\ op.len >= 1 /\ op.addr + op.len <= SIZE
    BY <1>1, LinkAssumption DEF Op, Addr
  <1>6. op.write \in BOOLEAN
    BY <1>1 DEF Op
  <1>. QED
    BY <1>1, <1>2, <1>3, <1>4, <1>5, <1>6

(* What the server does not touch looks the same. *)
LEMMA Untouched ==
  ASSUME UNCHANGED <<bufs, started, written, mem>>
  PROVE  /\ BusDone => BusDone'
         /\ Unserved' = Unserved /\ Pending' = Pending /\ View' = View
  <1>1. BusDone => BusDone'
    BY DEF BusDone
  <1>2. Unserved' = Unserved /\ Pending' = Pending
    BY DEF Unserved, Pending
  <1>3. View' = View
    BY Zenon DEF View, Seen
  <1>. QED
    BY <1>1, <1>2, <1>3

(* The piece a call under way is about. *)
LEMMA Piece ==
  ASSUME TInv, pc # "idle"
  PROVE  /\ Request \in Requests /\ Request # NoRequest
         /\ Request.call = calls /\ Request.write = op.write
         /\ Request.addr = op.addr + bytes /\ Request.len = ChunkLen
         /\ ChunkLen \in Nat /\ ChunkLen >= 1 /\ bytes + ChunkLen <= op.len
  <1>1. bytes < op.len /\ calls \in 1 .. MaxCalls
    BY LinkAssumption DEF TInv, InCall, Typed, GhostType
  <1>2. /\ Request \in Requests /\ Request.len = ChunkLen /\ Request.addr = op.addr + bytes
        /\ ChunkLen \in 1 .. CHUNK /\ bytes + ChunkLen <= op.len
    BY <1>1, RequestTyped DEF TInv, Typed, ClientType
  <1>3. Request.call = calls /\ Request.write = op.write
    BY DEF Request
  <1>. QED
    BY <1>2, <1>3, RequestThere, LinkAssumption

(* The initial state: no call, nothing served. *)
LEMMA InitIInv == Init => IInv
  <1>. SUFFICES ASSUME Init PROVE IInv
    OBVIOUS
  <1>1. TInv
    BY TInit
  <1>2. bufs = <<>> /\ ~started /\ wire = NoRequest /\ pc = "idle" /\ calls = 0
    BY DEF Init
  <1>3. Mine /\ Unserved = 0 /\ ~Returned /\ BusDone
    BY <1>2 DEF Mine, Unserved, Returned, BusDone
  <1>4. Served(0)
    <2>1. served = [a \in Addr |-> 0]
      BY DEF Init
    <2>2. op.addr \in Nat
      BY <1>1, Basics
    <2>. QED
      BY <2>1, <2>2, LinkAssumption DEF Served, Addr
  <1>5. GaveUp
    BY <1>2, <1>3, <1>4 DEF GaveUp
  <1>6. Alone
    BY <1>2, <1>3, <1>5 DEF Alone
  <1>. QED
    BY <1>1, <1>3, <1>6 DEF IInv

(* Begin: with nothing outstanding there is nothing to confuse with the call. *)
LEMMA BeginIInv ==
  ASSUME IInv, NEW o \in Op, Begin(o)
  PROVE  BusDone' /\ (alone' => Alone')
  <1>1. /\ pc' = "send" /\ op' = o /\ bytes' = 0 /\ obuf' = <<>> /\ calls' = calls + 1
        /\ served' = [a \in Addr |-> 0]
        /\ UNCHANGED <<wire, bufs, started, written, mem, socket>>
    BY DEF Begin, server
  <1>2. BusDone'
    BY <1>1 DEF IInv, BusDone
  <1>3. ASSUME alone' PROVE Alone'
    <2>1. wire = NoRequest /\ bufs = <<>> /\ socket = <<>>
      BY <1>3 DEF Begin
    <2>2. ~started
      BY <2>1 DEF IInv, TInv, OnTheBus
    <2>3. Mine' /\ Unserved' = 0
      BY <1>1, <2>1, <2>2 DEF Mine, Unserved
    <2>4. Served(bytes)'
      <3>1. o.addr \in Nat
        BY LinkAssumption DEF Op, Addr
      <3>2. \A a \in Addr : ~(o.addr <= a /\ a < o.addr + 0)
        BY <3>1, LinkAssumption DEF Addr
      <3>. QED
        BY <1>1, <3>2 DEF Served
    <2>5. Moved(bytes)'
      BY <1>1 DEF Moved
    <2>6. NotSent'
      BY <1>1, <2>1, <2>3, <2>4 DEF NotSent
    <2>7. ~Returned'
      BY <1>1 DEF Returned
    <2>. QED
      BY <1>1, <2>3, <2>5, <2>6, <2>7 DEF Alone
  <1>. QED
    BY <1>2, <1>3

(* Send: from the client to the wire. *)
LEMMA SendIInv ==
  ASSUME IInv, Send
  PROVE  BusDone' /\ (alone' => Alone')
  <1>1. /\ pc = "send" /\ pc' = "wait" /\ wire' = Request
        /\ UNCHANGED <<op, bytes, obuf, result, seq_cnt, bufs, started, written, mem, socket,
                       calls, alone, served>>
    BY DEF Send, server, ghosts
  <1>2. BusDone' /\ Unserved' = Unserved /\ View' = View
    BY <1>1, Untouched DEF IInv
  <1>3. ASSUME alone' PROVE Alone'
    <2>1. Mine /\ NotSent /\ Moved(bytes)
      BY <1>1, <1>3 DEF IInv, Alone
    <2>2. Mine'
      BY <1>1, <2>1 DEF Mine
    <2>3. Moved(bytes)'
      BY <1>1, <1>2, <2>1 DEF Moved
    <2>4. OnWire'
      <3>1. Request' = Request
        BY <1>1 DEF Request, ChunkLen
      <3>2. Served(bytes)'
        BY <1>1, <2>1 DEF NotSent, Served
      <3>. QED
        BY <1>1, <1>2, <2>1, <3>1, <3>2 DEF NotSent, OnWire
    <2>5. ~Returned'
      BY <1>1 DEF Returned
    <2>. QED
      BY <1>1, <2>2, <2>3, <2>4, <2>5 DEF Alone, Waiting
  <1>. QED
    BY <1>2, <1>3

(* Timeout: the piece may be in a buffer still, or is gone. *)
LEMMA TimeoutIInv ==
  ASSUME IInv, Timeout
  PROVE  BusDone' /\ (alone' => Alone')
  <1>1. /\ pc = "wait" /\ pc' = "idle" /\ result' = -1 /\ socket = <<>> /\ wire = NoRequest
        /\ UNCHANGED <<op, bytes, obuf, seq_cnt, wire, bufs, started, written, mem, socket,
                       calls, alone, served>>
    BY DEF Timeout, server, ghosts
  <1>2. BusDone' /\ Unserved' = Unserved /\ Pending' = Pending
    BY <1>1, Untouched DEF IInv
  <1>3. ASSUME alone' PROVE Alone'
    <2>1. Mine /\ Waiting
      BY <1>1, <1>3 DEF IInv, Alone
    <2>2. Mine' /\ ~Returned'
      BY <1>1, <2>1 DEF Mine, Returned
    <2>3. ~OnWire
      BY <1>1, Piece DEF OnWire, IInv
    <2>4. ~IsRefused /\ ~IsDone
      <3>1. Len(socket) = 0
        BY <1>1
      <3>. QED
        BY <3>1 DEF IsRefused, IsDone
    <2>5. CASE InBuffer
      <3>1. Served(bytes)' /\ AsRequested'
        BY <1>1, <1>2, <2>5 DEF InBuffer, Served, AsRequested, ChunkLen
      <3>2. LeftBehind'
        BY <1>1, <1>2, <2>5, <3>1 DEF InBuffer, LeftBehind
      <3>. QED
        BY <1>1, <2>2, <3>2 DEF Alone
    <2>6. CASE IsLost
      <3>1. bytes \in Nat /\ bytes + ChunkLen \in Nat
        BY <1>1, Basics, Piece DEF IInv
      <3>2. \E n \in Nat : Served(n)
        BY <2>6, <3>1 DEF IsLost
      <3>3. (\E n \in Nat : Served(n))'
        BY <1>1, <3>2 DEF Served
      <3>4. GaveUp'
        BY <1>1, <1>2, <2>6, <3>3 DEF IsLost, GaveUp
      <3>. QED
        BY <1>1, <2>2, <3>4 DEF Alone
    <2>. QED
      BY <2>1, <2>3, <2>4, <2>5, <2>6 DEF Waiting
  <1>. QED
    BY <1>2, <1>3

(* A request on the wire is the piece the client waits for. *)
LEMMA WireIsOurs ==
  ASSUME IInv, alone, wire # NoRequest
  PROVE  pc = "wait" /\ OnWire /\ Moved(bytes) /\ Mine
  <1>1. Alone
    BY DEF IInv
  <1>2. pc \in {"idle", "send", "wait"}
    BY DEF IInv, TInv, Typed, ClientType
  <1>3. pc # "send"
    BY <1>1 DEF Alone, NotSent
  <1>4. pc # "idle"
    BY <1>1 DEF Alone, Succeeded, LeftBehind, GaveUp
  <1>5. OnWire
    BY <1>1, <1>2, <1>3, <1>4 DEF Alone, Waiting, InBuffer, IsRefused, IsDone, IsLost
  <1>. QED
    BY <1>1, <1>2, <1>3, <1>4, <1>5 DEF Alone

(* Lose and Overtaken: the piece is gone, and was not served. *)
LEMMA LoseIInv ==
  ASSUME IInv, Lose \/ Overtaken
  PROVE  BusDone' /\ (alone' => Alone')
  <1>1. /\ wire # NoRequest /\ wire' = NoRequest
        /\ UNCHANGED <<pc, op, bytes, obuf, result, bufs, started, written, mem, socket,
                       calls, alone, served>>
    BY DEF Lose, Overtaken, client, server, ghosts
  <1>2. BusDone' /\ Unserved' = Unserved /\ View' = View
    BY <1>1, Untouched DEF IInv
  <1>3. ASSUME alone' PROVE Alone'
    <2>1. pc = "wait" /\ OnWire /\ Moved(bytes) /\ Mine
      BY <1>1, <1>3, WireIsOurs
    <2>2. Mine' /\ ~Returned'
      BY <1>1, <2>1 DEF Mine, Returned
    <2>3. Moved(bytes)'
      BY <1>1, <1>2, <2>1 DEF Moved
    <2>4. Served(bytes)'
      BY <1>1, <2>1 DEF OnWire, Served
    <2>5. IsLost'
      BY <1>1, <1>2, <2>1, <2>4 DEF OnWire, IsLost
    <2>. QED
      BY <1>1, <2>1, <2>2, <2>3, <2>5 DEF Alone, Waiting
  <1>. QED
    BY <1>2, <1>3

(* Receive: from the wire to the last buffer. *)
LEMMA ReceiveIInv ==
  ASSUME IInv, Receive
  PROVE  BusDone' /\ (alone' => Alone')
  <1>1. /\ wire # NoRequest /\ wire' = NoRequest /\ bufs' = Append(bufs, Buffered)
        /\ UNCHANGED <<pc, op, bytes, obuf, result, started, written, mem, socket,
                       calls, alone, served>>
    BY DEF Receive, client, ghosts
  <1>2. /\ Buffered \in Buffers /\ bufs \in Seq(Buffers) /\ Len(bufs) \in Nat
    BY <1>1, BufferedTyped, LenProperties DEF IInv, TInv, Typed, NetType, ServerType
  <1>3. /\ Len(bufs') = Len(bufs) + 1 /\ bufs'[Len(bufs')] = Buffered
        /\ \A i \in 1 .. Len(bufs) : bufs'[i] = bufs[i]
    BY <1>1, <1>2, AppendProperties
  <1>4. bufs # <<>> => Head(bufs') = Head(bufs)
    BY <1>1, <1>2, HeadTailAppend, AppendProperties
  <1>5. started => Head(bufs') = Head(bufs)
    BY <1>4 DEF IInv, TInv, OnTheBus
  <1>6. View' = View
    <2>1. CASE started
      BY <1>1, <1>5, <2>1, Zenon DEF View, Seen
    <2>2. CASE ~started
      BY <1>1, <2>2, Zenon DEF View, Seen
    <2>. QED
      BY <2>1, <2>2
  <1>7. BusDone'
    BY <1>1, <1>5 DEF IInv, BusDone
  <1>8. Unserved' = Unserved + 1
    BY <1>1, <1>2, <1>3 DEF Unserved
  <1>9. ASSUME alone' PROVE Alone'
    <2>1. pc = "wait" /\ OnWire /\ Moved(bytes) /\ Mine
      BY <1>1, <1>9, WireIsOurs
    <2>2. /\ Buffered.call = calls /\ Buffered.write = op.write
          /\ Buffered.addr = op.addr + bytes /\ Buffered.len = ChunkLen
      <3>1. /\ wire.call = calls /\ wire.write = op.write
            /\ wire.addr = op.addr + bytes /\ wire.len = ChunkLen
        BY <2>1, Piece DEF OnWire, IInv
      <3>. QED
        BY <3>1 DEF Buffered
    <2>3. Mine'
      <3>. SUFFICES ASSUME NEW i \in 1 .. Len(bufs')
                    PROVE  bufs'[i].call = calls' /\ (bufs'[i].write <=> op'.write)
        BY DEF Mine
      <3>1. CASE i = Len(bufs')
        BY <1>1, <1>3, <2>2, <3>1
      <3>2. CASE i # Len(bufs')
        <4>1. i \in 1 .. Len(bufs)
          BY <1>2, <1>3, <3>2
        <4>. QED
          BY <1>1, <1>3, <2>1, <4>1 DEF Mine
      <3>. QED
        BY <3>1, <3>2
    <2>4. Moved(bytes)'
      BY <1>1, <1>6, <2>1 DEF Moved
    <2>5. Served(bytes)'
      BY <1>1, <2>1 DEF OnWire, Served
    <2>6. Unserved' = 1
      BY <1>8, <2>1 DEF OnWire
    <2>7. AsRequested'
      <3>1. ChunkLen' = ChunkLen
        BY <1>1 DEF ChunkLen
      <3>. QED
        BY <1>1, <1>3, <2>2, <3>1 DEF AsRequested, Pending
    <2>8. InBuffer'
      BY <1>1, <2>1, <2>5, <2>6, <2>7 DEF InBuffer, OnWire
    <2>9. ~Returned'
      BY <1>1, <2>1 DEF Returned
    <2>. QED
      BY <1>1, <2>1, <2>3, <2>4, <2>8, <2>9 DEF Alone, Waiting
  <1>. QED
    BY <1>7, <1>9

(* A piece done, added to what was done before: the call is that much further. *)
LEMMA Further ==
  ASSUME IInv, pc = "wait", Moved(bytes), IsDone, Ack(Head(socket)), UNCHANGED <<op, calls>>,
         View' = View
  PROVE  bytes' = bytes + ChunkLen /\ Moved(bytes)'
  <1>. DEFINE r == Head(socket)
  <1>1. r.data \in Seq(Word)
    <2>1. socket # <<>> /\ socket \in Seq(Replies)
      <3>1. socket \in Seq(Replies)
        BY Basics DEF IInv
      <3>2. Len(socket) = 1
        BY DEF IsDone
      <3>. QED
        BY <3>1, <3>2
    <2>2. r \in Replies
      BY <2>1, QueueHead
    <2>. QED
      BY <2>2 DEF Replies
  <1>2. /\ bytes \in Nat /\ ChunkLen \in Nat /\ ChunkLen >= 1 /\ op.addr \in Nat
        /\ obuf \in Seq(Word) /\ op.write \in BOOLEAN
    BY Basics, Piece DEF IInv
  <1>3. bytes' = bytes + ChunkLen
    BY DEF Ack, Progress, IsDone, Fulfils
  <1>4. CASE op.write
    <2>1. /\ \A i \in 0 .. bytes - 1 : View[op.addr + i] = calls
          /\ \A i \in 0 .. ChunkLen - 1 : View[op.addr + bytes + i] = calls
      BY <1>4 DEF Moved, IsDone, Fulfils
    <2>2. ASSUME NEW i \in 0 .. bytes + ChunkLen - 1 PROVE View[op.addr + i] = calls
      <3>1. CASE i \in 0 .. bytes - 1
        BY <2>1, <3>1
      <3>2. CASE i \notin 0 .. bytes - 1
        <4>1. i - bytes \in 0 .. ChunkLen - 1 /\ op.addr + bytes + (i - bytes) = op.addr + i
          BY <1>2, <3>2
        <4>2. View[op.addr + bytes + (i - bytes)] = calls
          BY <2>1, <4>1
        <4>. QED
          BY <4>1, <4>2
      <3>. QED
        BY <3>1, <3>2
    <2>3. \A i \in 0 .. bytes' - 1 : View'[op'.addr + i] = calls'
      <3>1. op' = op /\ calls' = calls /\ View' = View
        OBVIOUS
      <3>2. bytes' - 1 = bytes + ChunkLen - 1
        BY <1>2, <1>3
      <3>. QED
        BY <2>2, <3>1, <3>2
    <2>. QED
      BY <1>3, <1>4, <2>3 DEF Moved
  <1>5. CASE ~op.write
    <2>1. /\ Len(obuf) = bytes /\ \A i \in 0 .. bytes - 1 : obuf[i + 1] = View[op.addr + i]
          /\ Len(r.data) = ChunkLen
          /\ \A i \in 0 .. ChunkLen - 1 : r.data[i + 1] = View[op.addr + bytes + i]
      BY <1>5 DEF Moved, IsDone, Fulfils
    <2>2. obuf' = obuf \o r.data
      BY <1>5 DEF Ack
    <2>3. /\ Len(obuf') = bytes + ChunkLen
          /\ \A k \in 1 .. bytes + ChunkLen :
               obuf'[k] = IF k <= bytes THEN obuf[k] ELSE r.data[k - bytes]
      <3>1. /\ Len(obuf \o r.data) = Len(obuf) + Len(r.data)
            /\ \A k \in 1 .. Len(obuf) + Len(r.data) : (obuf \o r.data)[k] =
                 IF k <= Len(obuf) THEN obuf[k] ELSE r.data[k - Len(obuf)]
        BY <1>1, <1>2, ConcatProperties
      <3>. QED
        BY <2>1, <2>2, <3>1
    <2>4. ASSUME NEW i \in 0 .. bytes + ChunkLen - 1 PROVE obuf'[i + 1] = View[op.addr + i]
      <3>1. i + 1 \in 1 .. bytes + ChunkLen
        BY <1>2
      <3>2. CASE i \in 0 .. bytes - 1
        <4>1. obuf'[i + 1] = obuf[i + 1]
          BY <1>2, <2>3, <3>1, <3>2
        <4>. QED
          BY <2>1, <3>2, <4>1
      <3>3. CASE i \notin 0 .. bytes - 1
        <4>1. obuf'[i + 1] = r.data[i + 1 - bytes]
          BY <1>2, <2>3, <3>1, <3>3
        <4>2. i - bytes \in 0 .. ChunkLen - 1 /\ op.addr + bytes + (i - bytes) = op.addr + i
              /\ i - bytes + 1 = i + 1 - bytes
          BY <1>2, <3>3
        <4>3. r.data[i - bytes + 1] = View[op.addr + bytes + (i - bytes)]
          BY <2>1, <4>2
        <4>. QED
          BY <4>1, <4>2, <4>3
      <3>. QED
        BY <3>2, <3>3
    <2>5. \A i \in 0 .. bytes' - 1 : obuf'[i + 1] = View'[op'.addr + i]
      <3>1. op' = op /\ View' = View
        OBVIOUS
      <3>2. bytes' - 1 = bytes + ChunkLen - 1
        BY <1>2, <1>3
      <3>. QED
        BY <2>4, <3>1, <3>2
    <2>6. Len(obuf') = bytes'
      BY <1>3, <2>3
    <2>. QED
      BY <1>3, <1>5, <2>5, <2>6 DEF Moved
  <1>. QED
    BY <1>2, <1>3, <1>4, <1>5

(* Read: a refusal starts the piece again; an answer moves the call on, or ends it. *)
LEMMA ReadIInv ==
  ASSUME IInv, Read
  PROVE  BusDone' /\ (alone' => Alone')
  <1>. DEFINE r == Head(socket)
  <1>1. /\ pc = "wait" /\ socket # <<>> /\ socket' = Tail(socket)
        /\ Ack(r) \/ Nak(r)
        /\ UNCHANGED <<op, wire, bufs, started, written, mem, calls, alone, served>>
    BY DEF Read, server
  <1>2. BusDone' /\ Unserved' = Unserved /\ View' = View
    BY <1>1, Untouched DEF IInv
  <1>3. ASSUME alone' PROVE Alone'
    <2>1. Mine /\ Waiting /\ Moved(bytes)
      BY <1>1, <1>3 DEF IInv, Alone
    <2>2. Mine'
      BY <1>1, <2>1 DEF Mine
    <2>3. IsRefused \/ IsDone
      BY <1>1, <2>1 DEF Waiting, OnWire, InBuffer, IsLost
    <2>4. Len(socket) = 1
      BY <2>3 DEF IsRefused, IsDone
    <2>5. socket' = <<>>
      <3>1. socket \in Seq(Replies)
        BY Basics DEF IInv
      <3>2. Len(Tail(socket)) = 0 /\ Tail(socket) \in Seq(Replies)
        BY <1>1, <2>4, <3>1, QueueHead
      <3>. QED
        BY <1>1, <3>2, EmptySeq
    <2>6. CASE IsRefused
      <3>1. /\ pc' = "send" /\ UNCHANGED <<bytes, obuf, result>>
        BY <1>1, <2>6 DEF IsRefused, Ack, Nak
      <3>2. Moved(bytes)'
        BY <1>1, <1>2, <2>1, <3>1 DEF Moved
      <3>3. Served(bytes)'
        BY <1>1, <2>6, <3>1 DEF IsRefused, Served
      <3>4. NotSent'
        BY <1>1, <1>2, <2>5, <2>6, <3>3 DEF IsRefused, NotSent
      <3>. QED
        BY <2>2, <3>1, <3>2, <3>4 DEF Alone, Returned
    <2>7. CASE IsDone
      <3>1. Ack(r)
        BY <1>1, <2>7 DEF IsDone, Fulfils, Nak
      <3>2. bytes' = bytes + ChunkLen /\ Moved(bytes)'
        BY <1>1, <1>2, <2>1, <2>7, <3>1, Further
      <3>3. Served(bytes)'
        BY <1>1, <2>7, <3>2 DEF IsDone, Served
      <3>4. wire' = NoRequest /\ Unserved' = 0
        BY <1>1, <1>2, <2>7 DEF IsDone
      <3>5. CASE pc' = "send"
        <4>1. NotSent'
          BY <2>5, <3>3, <3>4 DEF NotSent
        <4>. QED
          BY <2>2, <3>2, <3>5, <4>1 DEF Alone, Returned
      <3>6. CASE pc' # "send"
        <4>1. Progress(r) = bytes'
          BY <3>1 DEF Ack
        <4>2. pc' = "idle" /\ result' = bytes' /\ ~(bytes' < op.len)
          BY <3>1, <3>6, <4>1 DEF Ack
        <4>3. bytes' = op.len
          BY <1>1, <3>2, <4>2, Basics, Piece DEF IInv
        <4>4. Served(op.len)' /\ Moved(op.len)'
          BY <1>1, <3>2, <3>3, <4>3 DEF Served, Moved
        <4>5. Succeeded'
          BY <1>1, <2>5, <3>4, <4>2, <4>3, <4>4 DEF Succeeded
        <4>6. Returned'
          <5>1. result' # -1
            BY <4>2, <4>3, Basics DEF IInv
          <5>2. calls' > 0
            <6>1. calls # 0
              BY <1>1 DEF IInv, TInv, InCall
            <6>2. calls \in Nat
              BY Basics DEF IInv
            <6>. QED
              BY <1>1, <6>1, <6>2
          <5>. QED
            BY <4>2, <5>1, <5>2 DEF Returned
        <4>. QED
          BY <2>2, <4>2, <4>5, <4>6 DEF Alone
      <3>. QED
        BY <3>5, <3>6
    <2>. QED
      BY <2>3, <2>6, <2>7
  <1>. QED
    BY <1>2, <1>3

(* A step that leaves the client alone and the server's standing as it is. *)
LEMMA Carry ==
  ASSUME Alone, Mine', View' = View, Unserved' = Unserved, Unserved = 1 => Pending' = Pending,
         UNCHANGED <<pc, op, bytes, obuf, result, seq_cnt, wire, socket, calls, served>>
  PROVE  Alone'
  <1>1. /\ Served(bytes)' <=> Served(bytes)
        /\ Served(bytes + ChunkLen)' <=> Served(bytes + ChunkLen)
        /\ Served(op.len)' <=> Served(op.len)
    BY DEF Served, ChunkLen
  <1>2. /\ Moved(bytes)' <=> Moved(bytes)
        /\ Moved(op.len)' <=> Moved(op.len)
    BY DEF Moved
  <1>3. Request' = Request /\ ChunkLen' = ChunkLen
    BY DEF Request, ChunkLen
  <1>4. (\E n \in Nat : Served(n)) => (\E n \in Nat : Served(n))'
    BY DEF Served
  <1>5. Unserved = 1 /\ AsRequested => AsRequested'
    BY <1>3 DEF AsRequested
  <1>6. Fulfils(Head(socket)) => Fulfils(Head(socket))'
    BY <1>3 DEF Fulfils
  <1>7. NotSent => NotSent'
    BY <1>1 DEF NotSent
  <1>8. Waiting => Waiting'
    <2>1. OnWire => OnWire'
      BY <1>1, <1>3 DEF OnWire
    <2>2. InBuffer => InBuffer'
      BY <1>1, <1>5 DEF InBuffer
    <2>3. IsRefused => IsRefused'
      BY <1>1 DEF IsRefused
    <2>4. IsDone => IsDone'
      BY <1>1, <1>6 DEF IsDone
    <2>5. IsLost => IsLost'
      BY <1>1 DEF IsLost
    <2>. QED
      BY <2>1, <2>2, <2>3, <2>4, <2>5 DEF Waiting
  <1>9. Succeeded => Succeeded'
    BY <1>1, <1>2 DEF Succeeded
  <1>10. LeftBehind => LeftBehind'
    BY <1>1, <1>5 DEF LeftBehind
  <1>11. GaveUp => GaveUp'
    BY <1>4 DEF GaveUp
  <1>12. Returned' <=> Returned
    BY DEF Returned
  <1>. QED
    BY <1>2, <1>7, <1>8, <1>9, <1>10, <1>11, <1>12 DEF Alone

(* BusWrite: the burst brings memory to what it already counts as. *)
LEMMA BusWriteIInv ==
  ASSUME IInv, BusWrite
  PROVE  BusDone' /\ (alone' => Alone')
  <1>. DEFINE b == Head(bufs)
              x == b.addr + written
  <1>1. /\ started /\ mem' = [mem EXCEPT ![x] = b.call]
        /\ UNCHANGED <<pc, op, bytes, obuf, result, seq_cnt, wire, socket, calls, alone, served>>
    BY DEF BusWrite, client, ghosts
  <1>2. \/ bufs' = Tail(bufs) /\ started' = FALSE /\ written' = 0 /\ written + 1 = b.len
        \/ written' = written + 1 /\ UNCHANGED <<bufs, started>>
    BY DEF BusWrite, Free, LastWord
  <1>3. bufs # <<>> /\ b.write /\ written < b.len /\ written \in Nat
    BY <1>1 DEF IInv, TInv, OnTheBus, Typed, ServerType
  <1>4. /\ b \in Buffers /\ b = bufs[1] /\ bufs \in Seq(Buffers) /\ mem \in [Addr -> Word]
        /\ Len(bufs) \in Nat /\ Len(bufs) >= 1 /\ Len(Tail(bufs)) = Len(bufs) - 1
    BY <1>3, QueueHead, Basics DEF IInv
  <1>5. b.addr \in Nat /\ b.len \in Nat
    <2>1. b.addr \in Addr /\ b.len \in 1 .. CHUNK
      BY <1>4 DEF Buffers, BufferType
    <2>. QED
      BY <2>1, LinkAssumption DEF Addr
  <1>6. \A k \in 0 .. written - 1 : mem[b.addr + k] = b.call
    BY <1>1 DEF IInv, BusDone
  <1>7. \A a \in Addr : mem'[a] = IF a = x THEN b.call ELSE mem[a]
    BY <1>1, <1>4
  <1>8. x \in Addr
    <2>1. x \in Words(b)
      BY <1>3, <1>5 DEF Words
    <2>. QED
      BY <1>4, <2>1, ReplyTyped
  <1>9. \A k \in 0 .. written : mem'[b.addr + k] = b.call
    <2>. TAKE k \in 0 .. written
    <2>1. b.addr + k \in Addr
      <3>1. b.addr + k \in Words(b)
        BY <1>3, <1>5 DEF Words
      <3>. QED
        BY <1>4, <3>1, ReplyTyped
    <2>2. CASE k = written
      BY <1>7, <2>1, <2>2
    <2>3. CASE k # written
      <3>1. k \in 0 .. written - 1 /\ b.addr + k # x
        BY <1>3, <1>5, <2>3
      <3>. QED
        BY <1>6, <1>7, <2>1, <3>1
    <2>. QED
      BY <2>2, <2>3
  <1>10. BusDone'
    <2>1. CASE started' = FALSE
      BY <2>1 DEF BusDone
    <2>2. CASE written' = written + 1 /\ UNCHANGED <<bufs, started>>
      <3>1. written' - 1 = written
        BY <1>3, <2>2
      <3>. QED
        BY <1>9, <2>2, <3>1 DEF BusDone
    <2>. QED
      BY <1>2, <2>1, <2>2
  <1>11. View' = View
    <2>1. \A a \in Addr : View'[a] = View[a]
      <3>. TAKE a \in Addr
      <3>1. View[a] = IF a \in Words(b) THEN b.call ELSE mem[a]
        BY <1>1 DEF View, Seen
      <3>2. a \notin Words(b) => mem'[a] = mem[a]
        BY <1>3, <1>5, <1>7 DEF Words
      <3>3. CASE bufs' = Tail(bufs) /\ started' = FALSE /\ written + 1 = b.len
        <4>1. View'[a] = mem'[a]
          BY <3>3 DEF View, Seen
        <4>2. a \in Words(b) => mem'[a] = b.call
          <5>1. a \in Words(b) => a - b.addr \in 0 .. written /\ b.addr + (a - b.addr) = a
            BY <1>3, <1>5, <3>3, SMTT(40) DEF Words
          <5>. QED
            BY <1>9, <5>1
        <4>. QED
          BY <3>1, <3>2, <4>1, <4>2
      <3>4. CASE UNCHANGED <<bufs, started>>
        <4>1. View'[a] = IF a \in Words(b) THEN b.call ELSE mem'[a]
          BY <1>1, <3>4 DEF View, Seen, Words
        <4>. QED
          BY <3>1, <3>2, <4>1
      <3>. QED
        BY <1>2, <3>3, <3>4
    <2>2. View = [a \in Addr |-> View[a]] /\ View' = [a \in Addr |-> View'[a]]
      BY DEF View
    <2>. QED
      BY <2>1, <2>2
  <1>12. /\ Unserved' = Unserved
         /\ Unserved = 1 => Pending' = Pending
         /\ Mine => Mine'
    <2>1. CASE bufs' = Tail(bufs) /\ started' = FALSE
      <3>1. /\ Len(bufs') = Len(bufs) - 1
            /\ \A i \in 1 .. Len(bufs') : bufs'[i] = bufs[i + 1]
        BY <1>3, <1>4, <2>1, HeadTailProperties
      <3>2. Unserved' = Unserved
        BY <1>1, <1>4, <2>1, <3>1 DEF Unserved
      <3>3. Unserved = 1 => Pending' = Pending
        <4>1. Unserved = 1 => Len(bufs') = 1 /\ Len(bufs) = 2
          <5>1. Unserved = Len(bufs) - 1
            BY <1>1 DEF Unserved
          <5>2. Len(bufs) \in Nat /\ Len(bufs') = Len(bufs) - 1
            BY <1>4, <3>1
          <5>. QED
            BY <5>1, <5>2
        <4>2. Len(bufs') = 1 /\ Len(bufs) = 2 => bufs'[1] = bufs[2]
          BY <3>1
        <4>. QED
          BY <4>1, <4>2 DEF Pending
      <3>4. Mine => Mine'
        <4>1. ASSUME Mine, NEW i \in 1 .. Len(bufs')
              PROVE  bufs'[i].call = calls' /\ (bufs'[i].write <=> op'.write)
          <5>1. i + 1 \in 1 .. Len(bufs) /\ bufs'[i] = bufs[i + 1]
            BY <1>4, <3>1
          <5>. QED
            BY <1>1, <4>1, <5>1 DEF Mine
        <4>. QED
          BY <4>1 DEF Mine
      <3>. QED
        BY <3>2, <3>3, <3>4
    <2>2. CASE UNCHANGED <<bufs, started>>
      <3>1. Unserved' = Unserved /\ Pending' = Pending
        BY <2>2 DEF Unserved, Pending
      <3>2. Mine => Mine'
        BY <1>1, <2>2 DEF Mine
      <3>. QED
        BY <3>1, <3>2
    <2>. QED
      BY <1>2, <2>1, <2>2
  <1>13. ASSUME alone' PROVE Alone'
    <2>1. Alone
      BY <1>1, <1>13 DEF IInv
    <2>2. Mine'
      BY <1>12, <2>1 DEF Alone
    <2>. QED
      BY <1>1, <1>11, <1>12, <2>1, <2>2, Carry
  <1>. QED
    BY <1>10, <1>13

(* What the server is about to answer is the piece the client waits, or waited, for. *)
LEMMA HeadIsOurs ==
  ASSUME IInv, alone, bufs # <<>>, ~started
  PROVE  /\ Len(bufs) = 1 /\ Head(bufs).call = calls /\ (Head(bufs).write <=> op.write)
         /\ Head(bufs).addr = op.addr + bytes /\ Head(bufs).len = ChunkLen
         /\ wire = NoRequest /\ Served(bytes)
         /\ \/ pc = "wait" /\ socket = <<>> /\ Moved(bytes)
            \/ pc = "idle" /\ ~Returned
  <1>1. Alone /\ Mine
    BY DEF IInv, Alone
  <1>2. bufs \in Seq(Buffers) /\ Len(bufs) \in Nat /\ Len(bufs) >= 1 /\ Head(bufs) = bufs[1]
    BY QueueHead, Basics DEF IInv
  <1>3. Unserved = Len(bufs)
    BY <1>2 DEF Unserved
  <1>4. Unserved # 0
    BY <1>2, <1>3
  <1>5. pc \in {"idle", "send", "wait"}
    BY DEF IInv, TInv, Typed, ClientType
  <1>6. \/ pc = "wait" /\ InBuffer /\ Moved(bytes)
        \/ pc = "idle" /\ ~Returned /\ LeftBehind
    <2>1. CASE pc = "send"
      BY <1>1, <1>4, <2>1 DEF Alone, NotSent
    <2>2. CASE pc = "wait"
      BY <1>1, <1>4, <2>2 DEF Alone, Waiting, OnWire, IsRefused, IsDone, IsLost
    <2>3. CASE pc = "idle"
      BY <1>1, <1>4, <2>3 DEF Alone, Succeeded, GaveUp
    <2>. QED
      BY <1>5, <2>1, <2>2, <2>3
  <1>7. Len(bufs) = 1 /\ AsRequested /\ wire = NoRequest /\ Served(bytes)
    BY <1>3, <1>6 DEF InBuffer, LeftBehind
  <1>8. Pending = Head(bufs)
    BY <1>2, <1>7 DEF Pending
  <1>9. Head(bufs).call = calls /\ (Head(bufs).write <=> op.write)
    BY <1>1, <1>2 DEF Mine
  <1>. QED
    BY <1>6, <1>7, <1>8, <1>9 DEF AsRequested, InBuffer

(* Answer: a refusal serves nothing; anything else serves the piece once, and says so truly. *)
LEMMA AnswerIInv ==
  ASSUME IInv, Answer
  PROVE  BusDone' /\ (alone' => Alone')
  <1>. DEFINE b == Head(bufs)
              r == Reply(b)
  <1>1. /\ bufs # <<>> /\ ~started
        /\ socket' = Append(socket, r) \/ socket' = socket
        /\ UNCHANGED <<pc, op, bytes, obuf, result, seq_cnt, wire, mem, calls, alone>>
    BY DEF Answer, client
  <1>2. served' = [a \in Addr |-> IF ~b.nak /\ b.call = calls /\ a \in Words(b)
                                  THEN served[a] + 1 ELSE served[a]]
    BY DEF Answer, Serves
  <1>3. IF b.write /\ ~b.nak THEN started' = TRUE /\ UNCHANGED <<bufs, written>>
                             ELSE bufs' = Tail(bufs) /\ started' = FALSE /\ written' = 0
    BY DEF Answer, Free, Serves
  <1>4. BusDone'
    <2>1. written = 0
      BY <1>1 DEF IInv, TInv, OnTheBus
    <2>2. started' => written' = 0
      BY <1>3, <2>1
    <2>. QED
      BY <2>2 DEF BusDone
  <1>5. ASSUME alone' PROVE Alone'
    <2>1. /\ Len(bufs) = 1 /\ b.call = calls /\ (b.write <=> op.write)
          /\ b.addr = op.addr + bytes /\ b.len = ChunkLen
          /\ wire = NoRequest /\ Served(bytes)
          /\ \/ pc = "wait" /\ socket = <<>> /\ Moved(bytes)
             \/ pc = "idle" /\ ~Returned
      BY <1>1, <1>5, HeadIsOurs
    <2>2. /\ b \in Buffers /\ b = bufs[1] /\ r \in Replies /\ b.len \in 1 .. CHUNK
          /\ Len(Tail(bufs)) = 0 /\ Tail(bufs) \in Seq(Buffers)
      BY <1>1, <2>1, QueueHead, Basics, ReplyTyped DEF IInv
    <2>3. ChunkLen \in Nat /\ op.addr \in Nat /\ bytes \in Nat /\ served \in [Addr -> Nat]
      BY <2>1, <2>2, Basics, LinkAssumption, SMTT(40) DEF IInv
    <2>4. Mine' /\ Unserved' = 0
      <3>1. CASE b.write /\ ~b.nak
        <4>1. started' = TRUE /\ UNCHANGED bufs
          BY <1>3, <3>1
        <4>2. Unserved' = 0
          BY <2>1, <4>1 DEF Unserved
        <4>3. Mine
          BY <1>1, <1>5 DEF IInv, Alone
        <4>4. Mine'
          BY <1>1, <4>1, <4>3 DEF Mine
        <4>. QED
          BY <4>2, <4>4
      <3>2. CASE ~(b.write /\ ~b.nak)
        <4>1. ~started' /\ Len(bufs') = 0
          BY <1>3, <2>2, <3>2
        <4>2. Unserved' = 0
          <5>1. Unserved' = Len(bufs') - 0
            BY <4>1 DEF Unserved
          <5>. QED
            BY <4>1, <5>1
        <4>3. 1 .. Len(bufs') = {}
          BY <4>1
        <4>4. Mine'
          BY <4>3 DEF Mine
        <4>. QED
          BY <4>2, <4>4
      <3>. QED
        BY <3>1, <3>2
    <2>5. IF b.nak THEN Served(bytes)' ELSE Served(bytes + ChunkLen)'
      <3>1. ChunkLen' = ChunkLen
        BY <1>1 DEF ChunkLen
      <3>2. \A a \in Addr : served[a] = IF op.addr <= a /\ a < op.addr + bytes THEN 1 ELSE 0
        BY <2>1 DEF Served
      <3>3. CASE b.nak
        BY <1>1, <1>2, <3>2, <3>3 DEF Served
      <3>4. CASE ~b.nak
        <4>1. ASSUME NEW a \in Addr
              PROVE  served'[a] = IF op.addr <= a /\ a < op.addr + (bytes + ChunkLen) THEN 1 ELSE 0
          <5>1. a \in Words(b) <=> op.addr + bytes <= a /\ a <= op.addr + bytes + ChunkLen - 1
            BY <2>1, <2>3 DEF Words, Addr
          <5>2. served'[a] = IF a \in Words(b) THEN served[a] + 1 ELSE served[a]
            BY <1>2, <2>1, <3>4
          <5>3. a \in Int
            BY DEF Addr
          <5>. QED
            BY <2>3, <3>2, <5>1, <5>2, <5>3
        <4>. QED
          BY <1>1, <3>1, <3>4, <4>1 DEF Served
      <3>. QED
        BY <3>3, <3>4
    <2>6. \A a \in Addr : /\ View[a] = mem[a]
                          /\ View'[a] = IF b.write /\ ~b.nak /\ a \in Words(b) THEN calls ELSE mem[a]
      <3>. TAKE a \in Addr
      <3>1. View[a] = mem[a]
        BY <1>1 DEF View, Seen
      <3>2. CASE b.write /\ ~b.nak
        <4>1. started' = TRUE /\ bufs' = bufs /\ mem' = mem
          BY <1>1, <1>3, <3>2
        <4>2. View'[a] = IF a \in Words(b) THEN b.call ELSE mem[a]
          BY <4>1 DEF View, Seen, Words
        <4>. QED
          BY <2>1, <3>1, <3>2, <4>2
      <3>3. CASE ~(b.write /\ ~b.nak)
        <4>1. started' = FALSE /\ mem' = mem
          BY <1>1, <1>3, <3>3
        <4>2. View'[a] = mem[a]
          BY <4>1 DEF View, Seen
        <4>. QED
          BY <3>1, <3>3, <4>2
      <3>. QED
        BY <3>2, <3>3
    <2>7. \A i \in 0 .. bytes + ChunkLen - 1 : op.addr + i \in Addr
      <3>1. b.addr + b.len <= SIZE
        BY <2>2 DEF Buffers
      <3>. QED
        BY <2>1, <2>3, <3>1, LinkAssumption, SMTT(40) DEF Addr
    <2>8. Moved(bytes) => Moved(bytes)'
      <3>1. \A i \in 0 .. bytes - 1 : op.addr + i \in Addr
        BY <2>3, <2>7
      <3>2. CASE op.write
        <4>1. \A a \in Addr : View[a] = calls => View'[a] = calls
          BY <2>6
        <4>. QED
          BY <1>1, <3>1, <3>2, <4>1 DEF Moved
      <3>3. CASE ~op.write
        <4>1. \A a \in Addr : View'[a] = View[a]
          BY <2>1, <2>6, <3>3
        <4>. QED
          BY <1>1, <3>1, <3>3, <4>1 DEF Moved
      <3>. QED
        BY <3>2, <3>3
    <2>9. ASSUME ~b.nak, socket' # <<>> => Head(socket') = r, Len(socket') = 1
          PROVE  Fulfils(Head(socket))'
      <3>1. ChunkLen' = ChunkLen /\ op' = op /\ bytes' = bytes /\ calls' = calls
        BY <1>1 DEF ChunkLen
      <3>2. Head(socket') = r /\ ~r.nak
        <4>1. socket' # <<>>
          BY <2>9
        <4>. QED
          BY <2>9, <4>1 DEF Reply
      <3>3. \A i \in 0 .. ChunkLen - 1 : /\ op.addr + bytes + i \in Addr
                                         /\ op.addr + bytes + i \in Words(b)
        <4>. TAKE i \in 0 .. ChunkLen - 1
        <4>1. bytes + i \in 0 .. bytes + ChunkLen - 1 /\ op.addr + (bytes + i) = op.addr + bytes + i
          BY <2>3
        <4>2. op.addr + bytes + i \in Words(b)
          BY <2>1, <2>3 DEF Words
        <4>. QED
          BY <2>7, <4>1, <4>2
      <3>4. CASE op.write
        <4>1. \A i \in 0 .. ChunkLen - 1 : View'[op.addr + bytes + i] = calls
          BY <2>1, <2>6, <2>9, <3>3, <3>4
        <4>. QED
          BY <3>1, <3>2, <3>4, <4>1 DEF Fulfils
      <3>5. CASE ~op.write
        <4>1. r.len = b.len /\ r.data = [i \in 1 .. b.len |-> mem[b.addr + i - 1]]
          BY <2>1, <2>9, <3>5 DEF Reply, Serves
        <4>2. Len(r.data) = ChunkLen
          BY <2>1, <2>3, <4>1
        <4>3. ASSUME NEW i \in 0 .. ChunkLen - 1
              PROVE  r.data[i + 1] = View'[op.addr + bytes + i]
          <5>1. i + 1 \in 1 .. b.len /\ b.addr + (i + 1) - 1 = op.addr + bytes + i
            BY <2>1, <2>3
          <5>2. r.data[i + 1] = mem[op.addr + bytes + i]
            BY <4>1, <5>1
          <5>3. View'[op.addr + bytes + i] = mem[op.addr + bytes + i]
            BY <2>1, <2>6, <3>3, <3>5
          <5>. QED
            BY <5>2, <5>3
        <4>. QED
          BY <2>1, <3>1, <3>2, <3>5, <4>1, <4>2, <4>3 DEF Fulfils
      <3>. QED
        BY <3>4, <3>5
    <2>10. CASE pc = "wait"
      <3>1. socket = <<>> /\ Moved(bytes) /\ Moved(bytes)'
        BY <2>1, <2>8, <2>10
      <3>2. socket' = <<>> \/ (Len(socket') = 1 /\ Head(socket') = r)
        BY <1>1, <3>1
      <3>3. wire' = NoRequest /\ (r.nak <=> b.nak)
        BY <1>1, <2>1 DEF Reply
      <3>4. CASE socket' = <<>>
        <4>1. IsLost'
          BY <2>4, <2>5, <3>3, <3>4 DEF IsLost
        <4>. QED
          BY <1>1, <2>4, <2>10, <3>1, <4>1 DEF Alone, Waiting, Returned
      <3>5. CASE Len(socket') = 1 /\ Head(socket') = r /\ b.nak
        <4>1. Served(bytes)'
          BY <2>5, <3>5
        <4>2. IsRefused'
          BY <2>4, <3>3, <3>5, <4>1 DEF IsRefused
        <4>. QED
          BY <1>1, <2>4, <2>10, <3>1, <4>2 DEF Alone, Waiting, Returned
      <3>6. CASE Len(socket') = 1 /\ Head(socket') = r /\ ~b.nak
        <4>1. Fulfils(Head(socket))'
          BY <2>9, <3>6
        <4>2. Served(bytes + ChunkLen)'
          BY <2>5, <3>6
        <4>3. IsDone'
          BY <2>4, <3>3, <3>6, <4>1, <4>2 DEF IsDone
        <4>. QED
          BY <1>1, <2>4, <2>10, <3>1, <4>3 DEF Alone, Waiting, Returned
      <3>. QED
        BY <3>2, <3>4, <3>5, <3>6
    <2>11. CASE pc = "idle" /\ ~Returned
      <3>1. pc' = "idle" /\ ~Returned'
        BY <1>1, <2>11 DEF Returned
      <3>2. bytes' \in Nat /\ (bytes + ChunkLen)' \in Nat
        BY <1>1, <2>3 DEF ChunkLen
      <3>3. (\E n \in Nat : Served(n))'
        <4>1. CASE b.nak
          <5>1. Served(bytes)'
            BY <2>5, <4>1
          <5>. QED
            BY <3>2, <5>1
        <4>2. CASE ~b.nak
          <5>1. Served(bytes + ChunkLen)'
            BY <2>5, <4>2
          <5>. QED
            BY <3>2, <5>1
        <4>. QED
          BY <4>1, <4>2
      <3>4. GaveUp'
        BY <1>1, <2>1, <2>4, <3>3 DEF GaveUp
      <3>. QED
        BY <2>4, <3>1, <3>4 DEF Alone
    <2>. QED
      BY <2>1, <2>10, <2>11
  <1>. QED
    BY <1>4, <1>5

-----------------------------------------------------------------------------
(* Every step of the link keeps the invariant. *)
LEMMA NextIInv == IInv /\ [Next]_vars => IInv'
  <1>. SUFFICES ASSUME IInv, [Next]_vars PROVE IInv'
    OBVIOUS
  <1>1. TInv'
    BY TNext DEF IInv
  <1>2. BusDone' /\ (alone' => Alone')
    <2>1. ASSUME NEW o \in Op, Begin(o) PROVE BusDone' /\ (alone' => Alone')
      BY <2>1, BeginIInv
    <2>2. CASE Send
      BY <2>2, SendIInv
    <2>3. CASE Read
      BY <2>3, ReadIInv
    <2>4. CASE Timeout
      BY <2>4, TimeoutIInv
    <2>5. CASE Lose \/ Overtaken
      BY <2>5, LoseIInv
    <2>6. CASE Receive
      BY <2>6, ReceiveIInv
    <2>7. CASE Answer
      BY <2>7, AnswerIInv
    <2>8. CASE BusWrite
      BY <2>8, BusWriteIInv
    <2>9. CASE UNCHANGED vars
      <3>1. UNCHANGED <<pc, op, bytes, obuf, result, seq_cnt, wire, socket, calls, alone, served>>
        BY <2>9 DEF vars
      <3>2. UNCHANGED <<bufs, started, written, mem>>
        BY <2>9 DEF vars
      <3>3. BusDone' /\ Unserved' = Unserved /\ Pending' = Pending /\ View' = View
        BY <3>2, Untouched DEF IInv
      <3>4. ASSUME alone' PROVE Alone'
        <4>1. Alone
          BY <3>1, <3>4 DEF IInv
        <4>2. Mine'
          BY <3>1, <3>2, <4>1 DEF Alone, Mine
        <4>. QED
          BY <3>1, <3>3, <4>1, <4>2, Carry
      <3>. QED
        BY <3>3, <3>4
    <2>. QED
      BY <2>1, <2>2, <2>3, <2>4, <2>5, <2>6, <2>7, <2>8, <2>9 DEF Next, Step
  <1>. QED
    BY <1>1, <1>2 DEF IInv

(* Where the piece of a call is, and what is true of it there, in every reachable state. *)
LEMMA EdclInvariance == Spec => []IInv
  BY InitIInv, NextIInv, PTL DEF Spec

(* A call that began with nothing outstanding and returns a length is exact: edcl.cpp's read and
   write, over a link that loses and a server that refuses, for every size of both. *)
THEOREM EdclReturnExact == Spec => []ReturnExact
  <1>1. IInv => ReturnExact
    <2>. SUFFICES ASSUME IInv, Returned, alone PROVE
                    /\ result = op.len
                    /\ \A i \in 0 .. op.len - 1 : IF op.write THEN Seen(op.addr + i) = calls
                                                    ELSE obuf[i + 1] = Seen(op.addr + i)
      BY DEF ReturnExact
    <2>1. result = op.len /\ Moved(op.len)
      BY DEF IInv, Alone, Succeeded
    <2>2. ASSUME NEW i \in 0 .. op.len - 1
          PROVE  View[op.addr + i] = Seen(op.addr + i)
      <3>1. op.addr + i \in Addr
        <4>1. op.addr \in Nat /\ op.len \in Nat /\ op.addr + op.len <= SIZE
          BY Basics DEF IInv
        <4>. QED
          BY <4>1, LinkAssumption DEF Addr
      <3>. QED
        BY <3>1 DEF View
    <2>3. CASE op.write
      BY <2>1, <2>2, <2>3 DEF Moved
    <2>4. CASE ~op.write
      BY <2>1, <2>2, <2>4 DEF Moved
    <2>. QED
      BY <2>1, <2>3, <2>4
  <1>. QED
    BY <1>1, EdclInvariance, PTL

(* Such a call reaches the bus at most once per word, and once when it succeeds: the sequence
   number lets no request that was answered with a refusal, or not at all, be served twice. *)
THEOREM EdclOncePerCall == Spec => []OncePerCall
  <1>1. IInv => OncePerCall
    <2>. SUFFICES ASSUME IInv, alone
                  PROVE  /\ \A a \in Addr : served[a] <= 1
                         /\ Returned => \A a \in Words(op) : served[a] = 1
      BY DEF OncePerCall
    <2>1. Alone /\ pc \in {"idle", "send", "wait"}
      BY DEF IInv, TInv, Typed, ClientType
    <2>2. /\ Served(bytes) \/ Served(bytes + ChunkLen) \/ Served(op.len) \/ \E n \in Nat : Served(n)
      BY <2>1 DEF Alone, NotSent, Waiting, OnWire, InBuffer, IsRefused, IsDone, IsLost, Succeeded,
                  LeftBehind, GaveUp
    <2>3. \A a \in Addr : served[a] <= 1
      BY <2>2 DEF Served
    <2>4. ASSUME Returned, NEW a \in Words(op) PROVE served[a] = 1
      <3>1. Served(op.len)
        BY <2>1, <2>4 DEF Alone, Succeeded
      <3>2. a \in Addr /\ op.addr <= a /\ a < op.addr + op.len
        BY Basics, LinkAssumption, SMTT(40) DEF IInv, Words, Addr
      <3>. QED
        BY <3>1, <3>2 DEF Served
    <2>. QED
      BY <2>3, <2>4
  <1>. QED
    BY <1>1, EdclInvariance, PTL

-----------------------------------------------------------------------------
(* A client that takes a late ACK for its own is misled once, and falls back  *)
(* in step.                                                                  *)

(* What is still to be read, or to be answered and then read, oldest first. *)
Queued  == IF started THEN Tail(bufs) ELSE bufs
Owed    == Len(socket) + Len(Queued)
Note(r) == [call |-> r.call, addr |-> r.addr, nak |-> r.nak, seq |-> r.seq]
Due     == [i \in 1 .. Owed |->
              Note(IF i <= Len(socket) THEN socket[i] ELSE Queued[i - Len(socket)])]

(* Of the piece the client is at. *)
Current(r) == pc # "idle" /\ r.call = calls /\ r.addr = op.addr + bytes

(* Refusals only: once one of them carries the server's number, so do those after it; and a
   request that will be accepted finds nothing that could put the client out of step again. *)
RefusalsDue ==
  /\ \A i \in 1 .. Owed : Due[i].nak
  /\ \A i, j \in 1 .. Owed : i <= j /\ Due[i].seq = seq => Due[j].seq = seq
  /\ seq_cnt = seq => \A i \in 1 .. Owed : Due[i].seq = seq
  /\ wire # NoRequest /\ wire.seq = seq => seq_cnt = seq /\ Current(wire)

(* The only ACK is the i-th.  Until it is read the client's number is one behind, and what it
   sends is refused.  It is the client's own, or already counted late, or about to be. *)
AckDue(i) ==
  /\ ~Due[i].nak /\ Due[i].seq = seq_cnt /\ seq = (seq_cnt + 1) % SEQ_MOD
  /\ \A j \in 1 .. Owed : j < i => Due[j].nak /\ Due[j].seq = seq_cnt
  /\ \A j \in 1 .. Owed : j > i => Due[j].nak /\ Due[j].seq = seq
  /\ wire # NoRequest => wire.seq = seq_cnt
  /\ Due[i].call <= calls
  /\ \/ Current(Due[i])
     \/ IF i <= Len(socket) THEN mistaken < late ELSE pc = "idle" \/ Due[i].call # calls

InStep == mistaken <= late /\ (RefusalsDue \/ \E i \in 1 .. Owed : AckDue(i))

(* A number that is counted is another. *)
LEMMA NextDiffers == \A n \in SeqNo : (n + 1) % SEQ_MOD # n
  BY LinkAssumption DEF SeqNo

(* The types of the replies due. *)
LEMMA DueTyped ==
  ASSUME TInv
  PROVE  /\ Len(socket) \in Nat /\ Len(Queued) \in Nat /\ Owed \in Nat
         /\ Owed = Len(socket) + Len(Queued) /\ Queued \in Seq(Buffers)
         /\ \A i \in 1 .. Owed :
              /\ Due[i].nak \in BOOLEAN /\ Due[i].seq \in SeqNo /\ Due[i].call \in Nat
              /\ Due[i].call <= MaxCalls
         /\ seq_cnt \in SeqNo /\ seq \in SeqNo /\ calls \in Nat /\ late \in Nat /\ mistaken \in Nat
         /\ seq_cnt \in Nat /\ seq \in Nat
  <1>1. socket \in Seq(Replies) /\ bufs \in Seq(Buffers) /\ started \in BOOLEAN
    BY DEF TInv, Typed, NetType, ServerType
  <1>2. Queued \in Seq(Buffers)
    <2>1. CASE started
      <3>1. bufs # <<>>
        BY <2>1 DEF TInv, OnTheBus
      <3>. QED
        BY <1>1, <2>1, <3>1, QueueHead DEF Queued
    <2>. QED
      BY <1>1, <2>1 DEF Queued
  <1>3. Len(socket) \in Nat /\ Len(Queued) \in Nat
    BY <1>1, <1>2, LenProperties
  <1>4. ASSUME NEW i \in 1 .. Owed
        PROVE  /\ Due[i].nak \in BOOLEAN /\ Due[i].seq \in SeqNo /\ Due[i].call \in 1 .. MaxCalls
    <2>1. CASE i <= Len(socket)
      <3>1. socket[i] \in Replies
        BY <1>1, <1>3, <2>1, ElementOfSeq DEF Owed
      <3>2. Due[i] = Note(socket[i])
        BY <2>1 DEF Due
      <3>. QED
        BY <3>1, <3>2 DEF Replies, Note
    <2>2. CASE ~(i <= Len(socket))
      <3>1. i - Len(socket) \in 1 .. Len(Queued)
        BY <1>3, <2>2 DEF Owed
      <3>2. Queued[i - Len(socket)] \in Buffers
        BY <1>2, <3>1, ElementOfSeq
      <3>3. Due[i] = Note(Queued[i - Len(socket)])
        BY <2>2 DEF Due
      <3>. QED
        BY <3>2, <3>3 DEF Buffers, BufferType, Note
    <2>. QED
      BY <2>1, <2>2
  <1>5. /\ seq_cnt \in SeqNo /\ seq \in SeqNo /\ calls \in Nat /\ late \in Nat /\ mistaken \in Nat
    BY LinkAssumption DEF TInv, Typed, ClientType, ServerType, GhostType
  <1>6. Owed = Len(socket) + Len(Queued)
    BY DEF Owed
  <1>7. \A n \in SeqNo : n \in Nat
    BY LinkAssumption DEF SeqNo
  <1>. QED
    BY <1>2, <1>3, <1>4, <1>5, <1>6, <1>7, LinkAssumption

(* Neither the replies nor the buffers change. *)
LEMMA SameDue ==
  ASSUME socket' = socket, Queued' = Queued
  PROVE  Owed' = Owed /\ Due' = Due /\ Len(socket)' = Len(socket)
  <1>1. Owed' = Owed
    BY DEF Owed
  <1>. QED
    BY <1>1, Zenon DEF Due

(* The call begins: an ACK due is another call's. *)
LEMMA BeginInStep ==
  ASSUME TInv, InStep, NEW o \in Op, Begin(o)
  PROVE  InStep'
  <1>1. /\ pc = "idle" /\ calls' = calls + 1
        /\ UNCHANGED <<seq_cnt, wire, seq, bufs, started, socket, late, mistaken>>
    BY DEF Begin, server
  <1>2. Queued' = Queued
    BY <1>1 DEF Queued
  <1>3. Owed' = Owed /\ Due' = Due /\ Len(socket)' = Len(socket)
    BY <1>1, <1>2, SameDue
  <1>4. CASE RefusalsDue
    <2>1. ~(wire # NoRequest /\ wire.seq = seq)
      BY <1>1, <1>4 DEF RefusalsDue, Current
    <2>2. RefusalsDue'
      BY <1>1, <1>3, <1>4, <2>1, Zenon DEF RefusalsDue
    <2>. QED
      BY <1>1, <2>2 DEF InStep
  <1>5. ASSUME NEW i \in 1 .. Owed, AckDue(i) PROVE InStep'
    <2>1. Due[i].call <= calls /\ Due[i].call \in Nat /\ calls \in Nat
      BY <1>5, DueTyped DEF AckDue
    <2>2. Due[i].call <= calls + 1 /\ Due[i].call # calls + 1
      BY <2>1
    <2>3. i <= Len(socket) => mistaken < late
      BY <1>1, <1>5 DEF AckDue, Current
    <2>4. (IF i <= Len(socket) THEN mistaken < late ELSE pc = "idle" \/ Due[i].call # calls)'
      BY <1>1, <1>3, <2>2, <2>3, Zenon
    <2>5. /\ ~Due[i].nak /\ Due[i].seq = seq_cnt /\ seq = (seq_cnt + 1) % SEQ_MOD
          /\ \A j \in 1 .. Owed : j < i => Due[j].nak /\ Due[j].seq = seq_cnt
          /\ \A j \in 1 .. Owed : j > i => Due[j].nak /\ Due[j].seq = seq
          /\ wire # NoRequest => wire.seq = seq_cnt
      BY <1>5 DEF AckDue
    <2>6. AckDue(i)'
      BY <1>1, <1>3, <2>2, <2>4, <2>5, Zenon DEF AckDue
    <2>. QED
      BY <1>1, <1>3, <2>6, Zenon DEF InStep
  <1>. QED
    BY <1>4, <1>5 DEF InStep

(* Only the client or the wire changes: Send, Timeout, Lose and a step of nothing. *)
LEMMA ClientInStep ==
  ASSUME TInv, InStep,
         UNCHANGED <<op, bytes, calls, seq_cnt, seq, bufs, started, socket, late, mistaken>>,
         \/ wire' = NoRequest /\ pc' = pc
         \/ wire' = wire /\ pc' = pc
         \/ wire' = NoRequest /\ socket = <<>> /\ pc' = "idle"
         \/ wire' = Request /\ pc # "idle" /\ pc' # "idle"
  PROVE  InStep'
  <1>1. Queued' = Queued
    BY DEF Queued
  <1>2. Owed' = Owed /\ Due' = Due /\ Len(socket)' = Len(socket)
    BY <1>1, SameDue
  <1>3. mistaken' <= late' /\ mistaken <= late
    BY DEF InStep
  <1>4. Request.seq = seq_cnt /\ Request.call = calls /\ Request.addr = op.addr + bytes
    BY DEF Request
  <1>5. CASE RefusalsDue
    <2>1. /\ \A i \in 1 .. Owed : Due[i].nak
          /\ \A i, j \in 1 .. Owed : i <= j /\ Due[i].seq = seq => Due[j].seq = seq
          /\ seq_cnt = seq => \A i \in 1 .. Owed : Due[i].seq = seq
          /\ wire # NoRequest /\ wire.seq = seq => seq_cnt = seq /\ Current(wire)
      BY <1>5 DEF RefusalsDue
    <2>2. wire' # NoRequest /\ wire'.seq = seq' => seq_cnt' = seq' /\ Current(wire)'
      <3>1. CASE wire' = NoRequest
        BY <3>1
      <3>2. CASE wire' = wire /\ pc' = pc
        BY <2>1, <3>2 DEF Current
      <3>3. CASE wire' = Request /\ pc' # "idle"
        BY <1>4, <3>3 DEF Current
      <3>. QED
        BY <3>1, <3>2, <3>3
    <2>3. RefusalsDue'
      BY <1>2, <2>1, <2>2, Zenon DEF RefusalsDue
    <2>. QED
      BY <1>3, <2>3 DEF InStep
  <1>6. ASSUME NEW i \in 1 .. Owed, AckDue(i) PROVE InStep'
    <2>1. /\ ~Due[i].nak /\ Due[i].seq = seq_cnt /\ seq = (seq_cnt + 1) % SEQ_MOD
          /\ \A j \in 1 .. Owed : j < i => Due[j].nak /\ Due[j].seq = seq_cnt
          /\ \A j \in 1 .. Owed : j > i => Due[j].nak /\ Due[j].seq = seq
          /\ wire # NoRequest => wire.seq = seq_cnt
          /\ Due[i].call <= calls
      BY <1>6 DEF AckDue
    <2>2. wire' # NoRequest => wire'.seq = seq_cnt
      BY <1>4, <2>1
    <2>3. (\/ Current(Due[i])
           \/ IF i <= Len(socket) THEN mistaken < late ELSE pc = "idle" \/ Due[i].call # calls)'
      <3>1. \/ Current(Due[i])
            \/ IF i <= Len(socket) THEN mistaken < late ELSE pc = "idle" \/ Due[i].call # calls
        BY <1>6 DEF AckDue
      <3>2. CASE pc' = pc
        <4>1. Current(Due[i])' <=> Current(Due[i])
          BY <1>2, <3>2 DEF Current
        <4>. QED
          BY <1>2, <3>1, <3>2, <4>1, Zenon
      <3>3. CASE pc # "idle" /\ pc' # "idle"
        <4>1. Current(Due[i])' <=> Current(Due[i])
          BY <1>2, <3>3 DEF Current
        <4>. QED
          BY <1>2, <3>1, <3>3, <4>1, Zenon
      <3>4. CASE socket = <<>> /\ pc' = "idle"
        <4>1. ~(i <= Len(socket))
          BY <3>4
        <4>. QED
          BY <1>2, <3>4, <4>1, Zenon
      <3>. QED
        BY <3>2, <3>3, <3>4
    <2>4. AckDue(i)'
      BY <1>2, <2>1, <2>2, <2>3, Zenon DEF AckDue
    <2>. QED
      BY <1>2, <1>3, <2>4, Zenon DEF InStep
  <1>. QED
    BY <1>5, <1>6 DEF InStep

(* The bus writes words of a request that is answered. *)
LEMMA BusWriteInStep ==
  ASSUME TInv, InStep, BusWrite
  PROVE  InStep'
  <1>1. /\ started
        /\ UNCHANGED <<pc, op, bytes, calls, seq_cnt, seq, wire, socket, late, mistaken>>
        /\ IF LastWord THEN Free ELSE UNCHANGED <<bufs, started>>
    BY DEF BusWrite, client, ghosts
  <1>2. Queued' = Queued
    BY <1>1 DEF Queued, Free
  <1>3. Owed' = Owed /\ Due' = Due /\ Len(socket)' = Len(socket)
    BY <1>1, <1>2, SameDue
  <1>4. RefusalsDue => RefusalsDue'
    BY <1>1, <1>3, Zenon DEF RefusalsDue, Current
  <1>5. ASSUME NEW i \in 1 .. Owed, AckDue(i) PROVE AckDue(i)'
    BY <1>1, <1>3, <1>5, Zenon DEF AckDue, Current
  <1>. QED
    BY <1>1, <1>3, <1>4, <1>5, Zenon DEF InStep

(* Receive: what is accepted finds refusals due, and becomes the only ACK; a refusal carries the
   server's number. *)
LEMMA ReceiveInStep ==
  ASSUME TInv, InStep, Receive
  PROVE  InStep'
  <1>1. /\ wire # NoRequest /\ wire' = NoRequest /\ bufs' = Append(bufs, Buffered)
        /\ seq' = Counted
        /\ UNCHANGED <<pc, op, bytes, calls, seq_cnt, started, socket, late, mistaken>>
    BY DEF Receive, client, ghosts
  <1>0. PICK n \in Nat : n = Owed + 1
    BY DueTyped
  <1>2. Queued' = Append(Queued, Buffered)
    <2>1. bufs \in Seq(Buffers) /\ (started => bufs # <<>>)
      BY DEF TInv, Typed, ServerType, OnTheBus
    <2>2. bufs # <<>> => Tail(Append(bufs, Buffered)) = Append(Tail(bufs), Buffered)
      BY <2>1
    <2>. QED
      BY <1>1, <2>1, <2>2, Zenon DEF Queued
  <1>3. /\ Len(socket) \in Nat /\ Len(Queued) \in Nat /\ Owed \in Nat
        /\ Owed = Len(socket) + Len(Queued) /\ Queued \in Seq(Buffers)
        /\ seq_cnt \in SeqNo /\ seq \in SeqNo /\ calls \in Nat
    BY DueTyped
  <1>4. Len(Queued)' = Len(Queued) + 1
    BY <1>2, <1>3
  <1>5. Owed' = n /\ Len(socket)' = Len(socket) /\ n = Owed + 1
    BY <1>0, <1>1, <1>3, <1>4 DEF Owed
  <1>6. Due'[n] = Note(Buffered)
    <2>1. n \in 1 .. Owed' /\ ~(n <= Len(socket)) /\ n - Len(socket) = Len(Queued) + 1
      BY <1>3, <1>5
    <2>2. Due'[n] = Note(Queued'[n - Len(socket)])
      BY <1>1, <2>1, Zenon DEF Due
    <2>3. Append(Queued, Buffered)[Len(Queued) + 1] = Buffered
      BY <1>3
    <2>. QED
      BY <1>2, <2>1, <2>2, <2>3, Zenon
  <1>7. ASSUME NEW i \in 1 .. Owed PROVE Due'[i] = Due[i] /\ i \in 1 .. Owed'
    <2>1. i \in 1 .. Owed'
      BY <1>3, <1>5
    <2>2. CASE i <= Len(socket)
      BY <1>1, <2>1, <2>2, Zenon DEF Due
    <2>3. CASE ~(i <= Len(socket))
      <3>1. i - Len(socket) \in 1 .. Len(Queued)
        BY <1>3, <2>3
      <3>2. Queued'[i - Len(socket)] = Queued[i - Len(socket)]
        BY <1>2, <1>3, <3>1
      <3>3. Due'[i] = Note(Queued'[i - Len(socket)])
        BY <1>1, <2>1, <2>3, Zenon DEF Due
      <3>4. Due[i] = Note(Queued[i - Len(socket)])
        BY <2>3, Zenon DEF Due
      <3>. QED
        BY <2>1, <3>2, <3>3, <3>4, Zenon
    <2>. QED
      BY <2>1, <2>2, <2>3
  <1>8. \A i \in 1 .. Owed' : i \in 1 .. Owed \/ i = n
    BY <1>3, <1>5
  <1>9. /\ Due'[n].seq = seq /\ (Due'[n].nak <=> wire.seq # seq)
        /\ Due'[n].call = wire.call /\ Due'[n].addr = wire.addr
    <2>1. /\ Due'[n] = [call |-> Buffered.call, addr |-> Buffered.addr, nak |-> Buffered.nak,
                         seq |-> Buffered.seq]
      BY <1>6 DEF Note
    <2>2. /\ Buffered.call = wire.call /\ Buffered.addr = wire.addr /\ Buffered.seq = seq
          /\ Buffered.nak = Refused
      BY DEF Buffered
    <2>3. /\ Due'[n].call = Buffered.call /\ Due'[n].addr = Buffered.addr
          /\ Due'[n].nak = Buffered.nak /\ Due'[n].seq = Buffered.seq
      BY <2>1
    <2>4. Due'[n].nak = Refused
      BY <2>2, <2>3, Zenon
    <2>5. Due'[n].nak <=> wire.seq # seq
      BY <2>4, Zenon DEF Refused
    <2>. QED
      BY <2>2, <2>3, <2>5
  <1>10. mistaken' <= late' /\ n \in 1 .. Owed'
    BY <1>1, <1>3, <1>5 DEF InStep
  <1>11. CASE RefusalsDue /\ wire.seq # seq
    <2>1. seq' = seq
      BY <1>1, <1>11 DEF Counted, Refused
    <2>2. \A i \in 1 .. Owed' : Due'[i].nak
      BY <1>7, <1>8, <1>9, <1>11, Zenon DEF RefusalsDue
    <2>3. ASSUME NEW i \in 1 .. Owed', NEW j \in 1 .. Owed', i <= j, Due'[i].seq = seq
          PROVE  Due'[j].seq = seq
      <3>1. CASE j = n
        BY <1>9, <3>1
      <3>2. CASE j \in 1 .. Owed
        <4>1. i \in 1 .. Owed
          BY <2>3, <3>2, <1>3
        <4>. QED
          BY <1>7, <1>11, <2>3, <3>2, <4>1, Zenon DEF RefusalsDue
      <3>. QED
        BY <1>8, <3>1, <3>2
    <2>4. seq_cnt = seq => \A i \in 1 .. Owed' : Due'[i].seq = seq
      BY <1>7, <1>8, <1>9, <1>11, Zenon DEF RefusalsDue
    <2>5. RefusalsDue'
      BY <1>1, <2>1, <2>2, <2>3, <2>4, Zenon DEF RefusalsDue
    <2>. QED
      BY <1>10, <2>5 DEF InStep
  <1>12. CASE RefusalsDue /\ wire.seq = seq
    <2>1. /\ seq' = (seq + 1) % SEQ_MOD /\ seq_cnt = seq /\ Current(wire)
          /\ \A i \in 1 .. Owed : Due[i].nak /\ Due[i].seq = seq
      BY <1>1, <1>12 DEF Counted, Refused, RefusalsDue
    <2>2. \A j \in 1 .. Owed' : j < n => Due'[j].nak /\ Due'[j].seq = seq
      <3>1. ~(n < n)
        BY <1>3
      <3>. QED
        BY <1>7, <1>8, <2>1, <3>1, Zenon
    <2>3. \A j \in 1 .. Owed' : ~(j > n)
      BY <1>3, <1>5
    <2>4. /\ ~Due'[n].nak /\ Due'[n].seq = seq_cnt' /\ seq' = (seq_cnt' + 1) % SEQ_MOD
      BY <1>1, <1>9, <1>12, <2>1
    <2>5. Due'[n].call = calls /\ Current(Due[n])'
      BY <1>1, <1>9, <2>1 DEF Current
    <2>6. Due'[n].call <= calls'
      BY <1>1, <1>3, <2>5
    <2>7. \A j \in 1 .. Owed' : j < n => Due'[j].nak /\ Due'[j].seq = seq_cnt'
      BY <1>1, <2>1, <2>2, Zenon
    <2>8. AckDue(n)'
      BY <1>1, <2>3, <2>4, <2>5, <2>6, <2>7, Zenon DEF AckDue
    <2>. QED
      BY <1>10, <2>8 DEF InStep
  <1>13. ASSUME NEW i \in 1 .. Owed, AckDue(i) PROVE InStep'
    <2>1. /\ ~Due[i].nak /\ Due[i].seq = seq_cnt /\ seq = (seq_cnt + 1) % SEQ_MOD
          /\ \A j \in 1 .. Owed : j < i => Due[j].nak /\ Due[j].seq = seq_cnt
          /\ \A j \in 1 .. Owed : j > i => Due[j].nak /\ Due[j].seq = seq
          /\ wire.seq = seq_cnt /\ Due[i].call <= calls
      BY <1>1, <1>13 DEF AckDue
    <2>2. wire.seq # seq
      BY <1>3, <2>1, NextDiffers
    <2>3. seq' = seq
      BY <1>1, <2>2 DEF Counted, Refused
    <2>4. Due'[n].nak /\ Due'[n].seq = seq /\ ~(n < i)
      <3>1. ~(n < i)
        BY <1>3, <1>5
      <3>. QED
        BY <1>9, <2>2, <3>1, Zenon
    <2>5. \A j \in 1 .. Owed' : j < i => Due'[j].nak /\ Due'[j].seq = seq_cnt
      BY <1>7, <1>8, <2>1, <2>4, Zenon
    <2>6. \A j \in 1 .. Owed' : j > i => Due'[j].nak /\ Due'[j].seq = seq
      BY <1>7, <1>8, <2>1, <2>4, Zenon
    <2>7. Due'[i] = Due[i] /\ i \in 1 .. Owed'
      BY <1>7
    <2>8. (\/ Current(Due[i])
           \/ IF i <= Len(socket) THEN mistaken < late ELSE pc = "idle" \/ Due[i].call # calls)'
      <3>1. Current(Due[i])' <=> Current(Due[i])
        BY <1>1, <2>7, Zenon DEF Current
      <3>. QED
        BY <1>1, <1>5, <1>13, <2>7, <3>1, Zenon DEF AckDue
    <2>9. AckDue(i)'
      BY <1>1, <2>1, <2>3, <2>5, <2>6, <2>7, <2>8, Zenon DEF AckDue
    <2>. QED
      BY <1>10, <2>7, <2>9 DEF InStep
  <1>. QED
    BY <1>11, <1>12, <1>13 DEF InStep

(* Overtaken: a number that is counted and not answered leaves refusals of earlier numbers. *)
LEMMA OvertakenInStep ==
  ASSUME TInv, InStep, Overtaken
  PROVE  InStep'
  <1>1. /\ wire # NoRequest /\ wire' = NoRequest /\ seq' = Counted
        /\ UNCHANGED <<pc, op, bytes, calls, seq_cnt, bufs, started, socket, late, mistaken>>
    BY DEF Overtaken, client, ghosts
  <1>2. CASE wire.seq # seq
    <2>1. seq' = seq
      BY <1>1, <1>2 DEF Counted, Refused
    <2>. QED
      BY <1>1, <2>1, ClientInStep
  <1>3. CASE wire.seq = seq
    <2>1. /\ seq_cnt \in SeqNo /\ seq \in SeqNo
      BY DueTyped
    <2>2. ~ \E i \in 1 .. Owed : AckDue(i)
      BY <1>1, <1>3, <2>1, NextDiffers DEF AckDue
    <2>3. RefusalsDue
      BY <2>2 DEF InStep
    <2>4. /\ seq' = (seq + 1) % SEQ_MOD /\ seq_cnt = seq
          /\ \A i \in 1 .. Owed : Due[i].nak /\ Due[i].seq = seq
      BY <1>1, <1>3, <2>3 DEF Counted, Refused, RefusalsDue
    <2>5. seq' # seq
      BY <2>1, <2>4, NextDiffers
    <2>6. Owed' = Owed /\ Due' = Due
      <3>1. Queued' = Queued
        BY <1>1 DEF Queued
      <3>. QED
        BY <1>1, <3>1, SameDue
    <2>7. RefusalsDue'
      BY <1>1, <2>4, <2>5, <2>6, Zenon DEF RefusalsDue
    <2>. QED
      BY <1>1, <2>7 DEF InStep
  <1>. QED
    BY <1>2, <1>3

(* Answer: an ACK whose call has returned is counted late as it enters the socket, and one that
   is lost leaves refusals only. *)
LEMMA AnswerInStep ==
  ASSUME TInv, InStep, Answer
  PROVE  InStep'
  <1>. DEFINE b == Head(bufs)
  <1>0. PICK k \in Nat : k = Len(socket) + 1
    BY DueTyped
  <1>1. /\ bufs # <<>> /\ ~started
        /\ socket' = Append(socket, Reply(b)) \/ socket' = socket
        /\ late' = IF ~b.nak /\ (pc = "idle" \/ b.call # calls) THEN late + 1 ELSE late
        /\ UNCHANGED <<pc, op, bytes, calls, seq_cnt, seq, wire, mistaken>>
    BY DEF Answer, client
  <1>2. Queued = bufs /\ Queued' = Tail(bufs)
    <2>1. Queued = bufs
      BY <1>1 DEF Queued
    <2>2. \/ started' = TRUE /\ bufs' = bufs
          \/ started' = FALSE /\ bufs' = Tail(bufs)
      BY DEF Answer, Free
    <2>. QED
      BY <2>1, <2>2 DEF Queued
  <1>3. /\ Len(socket) \in Nat /\ Len(Queued) \in Nat /\ Owed \in Nat
        /\ Owed = Len(socket) + Len(Queued) /\ Queued \in Seq(Buffers)
        /\ seq_cnt \in SeqNo /\ seq \in SeqNo /\ calls \in Nat /\ late \in Nat /\ mistaken \in Nat
    BY DueTyped
  <1>4. /\ Tail(bufs) \in Seq(Buffers) /\ Len(Tail(bufs)) = Len(Queued) - 1 /\ Len(Queued) >= 1
        /\ b = Queued[1]
    BY <1>1, <1>2, <1>3, QueueHead
  <1>5. \A j \in 1 .. Len(Queued) - 1 : Tail(bufs)[j] = Queued[j + 1]
    BY <1>1, <1>2, <1>3, <1>4
  <1>6. k \in 1 .. Owed /\ Due[k] = Note(b)
    <2>1. k \in 1 .. Owed /\ ~(k <= Len(socket)) /\ k - Len(socket) = 1
      BY <1>0, <1>3, <1>4
    <2>. QED
      BY <1>4, <2>1, Zenon DEF Due
  <1>7. mistaken' <= late' /\ late <= late' /\ late' \in Nat
    BY <1>1, <1>3 DEF InStep
  <1>8. Note(Reply(b)) = Note(b)
    BY DEF Note, Reply
  <1>9. ASSUME NEW j \in 1 .. Owed, j > k
        PROVE  Due[j] = Note(Tail(bufs)[j - k])
    <2>1. ~(j <= Len(socket)) /\ j - k \in 1 .. Len(Queued) - 1 /\ (j - k) + 1 = j - Len(socket)
      BY <1>0, <1>3, <1>9
    <2>2. Due[j] = Note(Queued[j - Len(socket)])
      BY <2>1, Zenon DEF Due
    <2>3. Tail(bufs)[j - k] = Queued[(j - k) + 1]
      BY <1>5, <2>1
    <2>. QED
      BY <2>1, <2>2, <2>3, Zenon
  <1>10. ASSUME NEW j \in 1 .. Owed, j < k
         PROVE  j <= Len(socket) /\ j \in 1 .. Len(socket) /\ Due[j] = Note(socket[j])
    <2>1. j <= Len(socket) /\ j \in 1 .. Len(socket)
      BY <1>0, <1>3, <1>10
    <2>. QED
      BY <2>1, Zenon DEF Due
  <1>11. CASE socket' = Append(socket, Reply(b))
    <2>1. Len(socket)' = k /\ \A j \in 1 .. Len(socket) : socket'[j] = socket[j]
      <3>1. socket \in Seq(Replies)
        BY DEF TInv, Typed, NetType
      <3>. QED
        BY <1>0, <1>3, <1>11, <3>1
    <2>2. socket'[k] = Reply(b)
      <3>1. socket \in Seq(Replies)
        BY DEF TInv, Typed, NetType
      <3>. QED
        BY <1>0, <1>3, <1>11, <3>1
    <2>3. Owed' = Owed
      BY <1>0, <1>2, <1>3, <1>4, <2>1 DEF Owed
    <2>4. ASSUME NEW j \in 1 .. Owed PROVE Due'[j] = Due[j]
      <3>1. CASE j < k
        <4>1. j <= k
          BY <1>0, <3>1
        <4>2. Due'[j] = Note(socket'[j])
          BY <2>1, <2>3, <4>1, Zenon DEF Due
        <4>. QED
          BY <1>10, <2>1, <3>1, <4>2, Zenon
      <3>2. CASE j = k
        <4>1. j <= k
          BY <1>0, <3>2
        <4>2. Due'[j] = Note(socket'[j])
          BY <2>1, <2>3, <4>1, Zenon DEF Due
        <4>. QED
          BY <1>6, <1>8, <2>2, <3>2, <4>2, Zenon
      <3>3. CASE j > k
        <4>1. ~(j <= k)
          BY <1>0, <3>3
        <4>2. Due'[j] = Note(Tail(bufs)[j - k])
          BY <1>2, <2>1, <2>3, <4>1, Zenon DEF Due
        <4>. QED
          BY <1>9, <3>3, <4>2, Zenon
      <3>. QED
        BY <1>0, <3>1, <3>2, <3>3
    <2>5. RefusalsDue => RefusalsDue'
      BY <1>1, <2>3, <2>4, ZenonT(60) DEF RefusalsDue, Current
    <2>6. ASSUME NEW i \in 1 .. Owed, AckDue(i) PROVE AckDue(i)'
      <3>1. Current(Due[i])' <=> Current(Due[i])
        BY <1>1, <2>4, Zenon DEF Current
      <3>2. \/ Current(Due[i])
            \/ IF i <= Len(socket) THEN mistaken < late ELSE pc = "idle" \/ Due[i].call # calls
        BY <2>6 DEF AckDue
      <3>3. \/ Current(Due[i])
            \/ IF i <= k THEN mistaken < late' ELSE pc = "idle" \/ Due[i].call # calls
        <4>1. CASE i = k
          <5>1. ~b.nak /\ Due[i].call = b.call
            <6>1. ~Due[i].nak
              BY <2>6 DEF AckDue
            <6>2. Due[i].nak = b.nak /\ Due[i].call = b.call
              BY <1>6, <4>1 DEF Note
            <6>. QED
              BY <6>1, <6>2, Zenon
          <5>2. ~(i <= Len(socket)) /\ i <= k
            BY <1>0, <1>3, <4>1
          <5>3. pc = "idle" \/ Due[i].call # calls => late' = late + 1
            BY <1>1, <5>1
          <5>4. pc = "idle" \/ Due[i].call # calls => mistaken < late'
            BY <1>3, <5>3 DEF InStep
          <5>. QED
            BY <3>2, <5>2, <5>4
        <4>2. CASE i < k
          BY <1>0, <1>1, <1>3, <1>7, <3>2, <4>2
        <4>3. CASE i > k
          <5>1. ~(i <= k) /\ ~(i <= Len(socket))
            BY <1>0, <1>3, <4>3
          <5>. QED
            BY <3>2, <5>1
        <4>. QED
          BY <1>0, <4>1, <4>2, <4>3
      <3>4. (\/ Current(Due[i])
             \/ IF i <= Len(socket) THEN mistaken < late ELSE pc = "idle" \/ Due[i].call # calls)'
        BY <1>1, <2>1, <2>4, <3>1, <3>3, Zenon
      <3>. QED
        BY <1>1, <2>3, <2>4, <2>6, <3>4, Zenon DEF AckDue
    <2>. QED
      BY <1>7, <2>3, <2>5, <2>6, Zenon DEF InStep
  <1>12. CASE socket' = socket
    <2>1. Len(socket)' = Len(socket) /\ Len(Queued)' = Len(Queued) - 1
      BY <1>2, <1>4, <1>12
    <2>2. Owed' = Owed - 1
      BY <1>3, <2>1 DEF Owed
    <2>3. ASSUME NEW j \in 1 .. Owed'
          PROVE  /\ j < k => Due'[j] = Due[j] /\ j \in 1 .. Owed
                 /\ j >= k => Due'[j] = Due[j + 1] /\ j + 1 \in 1 .. Owed /\ j + 1 > k
      <3>0. j \in 1 .. Owed /\ j + 1 \in 1 .. Owed /\ j \in Nat
        BY <1>3, <2>2
      <3>1. CASE j < k
        <4>1. j <= Len(socket)
          BY <1>10, <3>0, <3>1
        <4>2. Due'[j] = Note(socket[j])
          BY <1>12, <4>1, Zenon DEF Due
        <4>3. ~(j >= k)
          BY <1>0, <3>0, <3>1
        <4>. QED
          BY <1>10, <3>0, <3>1, <4>2, <4>3, Zenon
      <3>2. CASE j >= k
        <4>1. ~(j <= Len(socket)) /\ j + 1 > k /\ (j + 1) - k = j - Len(socket) /\ ~(j < k)
          BY <1>0, <1>3, <3>0, <3>2
        <4>2. Due'[j] = Note(Tail(bufs)[j - Len(socket)])
          BY <1>2, <1>12, <4>1, Zenon DEF Due
        <4>3. Due[j + 1] = Note(Tail(bufs)[(j + 1) - k])
          BY <1>9, <3>0, <4>1, Zenon
        <4>4. Due'[j] = Due[j + 1]
          BY <4>1, <4>2, <4>3, Zenon
        <4>. QED
          BY <3>0, <4>1, <4>4
      <3>. QED
        BY <1>0, <3>0, <3>1, <3>2
    <2>4. \A j \in 1 .. Owed' : j < k \/ j >= k
      BY <1>0, <1>3, <2>2
    <2>5. CASE RefusalsDue
      <3>1. \A j \in 1 .. Owed' : Due'[j].nak
        BY <2>3, <2>4, <2>5, Zenon DEF RefusalsDue
      <3>2. ASSUME NEW i \in 1 .. Owed', NEW j \in 1 .. Owed', i <= j, Due'[i].seq = seq
            PROVE  Due'[j].seq = seq
        <4>1. PICK x \in 1 .. Owed : Due'[i] = Due[x] /\ x = IF i < k THEN i ELSE i + 1
          BY <2>3, <2>4, Zenon
        <4>2. PICK y \in 1 .. Owed : Due'[j] = Due[y] /\ y = IF j < k THEN j ELSE j + 1
          BY <2>3, <2>4, Zenon
        <4>3. x <= y
          BY <1>0, <1>3, <2>2, <3>2, <4>1, <4>2
        <4>. QED
          BY <2>5, <3>2, <4>1, <4>2, <4>3, Zenon DEF RefusalsDue
      <3>3. seq_cnt = seq => \A j \in 1 .. Owed' : Due'[j].seq = seq
        BY <2>3, <2>4, <2>5, Zenon DEF RefusalsDue
      <3>4. wire # NoRequest /\ wire.seq = seq => seq_cnt = seq /\ Current(wire)
        BY <2>5 DEF RefusalsDue
      <3>5. RefusalsDue'
        BY <1>1, <3>1, <3>2, <3>3, <3>4, Zenon DEF RefusalsDue, Current
      <3>. QED
        BY <1>7, <3>5 DEF InStep
    <2>6. ASSUME NEW i \in 1 .. Owed, AckDue(i) PROVE InStep'
      <3>1. /\ ~Due[i].nak /\ Due[i].seq = seq_cnt /\ seq = (seq_cnt + 1) % SEQ_MOD
            /\ \A j \in 1 .. Owed : j < i => Due[j].nak /\ Due[j].seq = seq_cnt
            /\ \A j \in 1 .. Owed : j > i => Due[j].nak /\ Due[j].seq = seq
            /\ wire # NoRequest => wire.seq = seq_cnt
            /\ Due[i].call <= calls
            /\ \/ Current(Due[i])
               \/ IF i <= Len(socket) THEN mistaken < late ELSE pc = "idle" \/ Due[i].call # calls
        BY <2>6 DEF AckDue
      <3>2. seq_cnt # seq
        BY <1>3, <3>1, NextDiffers
      <3>3. CASE i = k
        <4>1. \A j \in 1 .. Owed' : j < k => Due'[j].nak /\ Due'[j].seq = seq_cnt
          BY <2>3, <3>1, <3>3, Zenon
        <4>2. ASSUME NEW j \in 1 .. Owed', j >= k PROVE Due'[j].nak /\ Due'[j].seq = seq
          <5>1. Due'[j] = Due[j + 1] /\ j + 1 \in 1 .. Owed /\ j + 1 > i
            BY <2>3, <3>3, <4>2
          <5>2. Due[j + 1].nak /\ Due[j + 1].seq = seq
            BY <3>1, <5>1, Zenon
          <5>. QED
            BY <5>1, <5>2, Zenon
        <4>3. ASSUME NEW x \in 1 .. Owed', NEW y \in 1 .. Owed', x <= y, Due'[x].seq = seq
              PROVE  Due'[y].seq = seq
          <5>1. x >= k
            BY <2>4, <3>2, <4>1, <4>3, Zenon
          <5>2. y >= k
            BY <1>0, <1>3, <2>2, <4>3, <5>1
          <5>. QED
            BY <4>2, <5>2
        <4>4. RefusalsDue'
          BY <1>1, <2>4, <3>1, <3>2, <4>1, <4>2, <4>3, Zenon DEF RefusalsDue
        <4>. QED
          BY <1>7, <4>4 DEF InStep
      <3>4. CASE i # k
        <4>1. PICK x \in 1 .. Owed' : Due'[x] = Due[i] /\ x = IF i < k THEN i ELSE i - 1
          <5>1. CASE i < k
            <6>1. i \in 1 .. Owed'
              BY <1>0, <1>3, <1>4, <2>2, <5>1
            <6>. QED
              BY <2>3, <5>1, <6>1, Zenon
          <5>2. CASE i > k
            <6>1. i - 1 \in 1 .. Owed' /\ i - 1 >= k /\ (i - 1) + 1 = i /\ ~(i < k)
              BY <1>0, <1>3, <1>4, <2>2, <5>2
            <6>2. Due'[i - 1] = Due[(i - 1) + 1]
              BY <2>3, <6>1, Zenon
            <6>. QED
              BY <6>1, <6>2, Zenon
          <5>. QED
            BY <1>0, <3>4, <5>1, <5>2
        <4>2. ASSUME NEW j \in 1 .. Owed', j < x PROVE Due'[j].nak /\ Due'[j].seq = seq_cnt
          <5>1. CASE j < k
            <6>1. j < i
              BY <1>0, <1>3, <2>2, <4>1, <4>2, <5>1
            <6>. QED
              BY <2>3, <3>1, <5>1, <6>1, Zenon
          <5>2. CASE j >= k
            <6>1. j + 1 < i
              BY <1>0, <1>3, <2>2, <4>1, <4>2, <5>2
            <6>2. Due'[j] = Due[j + 1] /\ j + 1 \in 1 .. Owed
              BY <2>3, <5>2
            <6>3. Due[j + 1].nak /\ Due[j + 1].seq = seq_cnt
              BY <3>1, <6>1, <6>2, Zenon
            <6>. QED
              BY <6>2, <6>3, Zenon
          <5>. QED
            BY <2>4, <5>1, <5>2
        <4>3. ASSUME NEW j \in 1 .. Owed', j > x PROVE Due'[j].nak /\ Due'[j].seq = seq
          <5>1. CASE j < k
            <6>1. j > i
              BY <1>0, <1>3, <2>2, <4>1, <4>3, <5>1
            <6>. QED
              BY <2>3, <3>1, <5>1, <6>1, Zenon
          <5>2. CASE j >= k
            <6>1. j + 1 > i
              BY <1>0, <1>3, <2>2, <4>1, <4>3, <5>2
            <6>2. Due'[j] = Due[j + 1] /\ j + 1 \in 1 .. Owed
              BY <2>3, <5>2
            <6>3. Due[j + 1].nak /\ Due[j + 1].seq = seq
              BY <3>1, <6>1, <6>2, Zenon
            <6>. QED
              BY <6>2, <6>3, Zenon
          <5>. QED
            BY <2>4, <5>1, <5>2
        <4>4. x <= Len(socket) <=> i <= Len(socket)
          BY <1>0, <1>3, <2>2, <3>4, <4>1
        <4>5. mistaken < late => mistaken < late'
          BY <1>3, <1>7
        <4>6. (\/ Current(Due[x])
               \/ IF x <= Len(socket) THEN mistaken < late
                  ELSE pc = "idle" \/ Due[x].call # calls)'
          <5>1. Current(Due[x])' <=> Current(Due[i])
            BY <1>1, <4>1, Zenon DEF Current
          <5>2. CASE i <= Len(socket)
            BY <1>1, <1>12, <3>1, <4>4, <4>5, <5>1, <5>2, Zenon
          <5>3. CASE ~(i <= Len(socket))
            BY <1>1, <1>12, <3>1, <4>1, <4>4, <5>1, <5>3, Zenon
          <5>. QED
            BY <5>2, <5>3
        <4>7. AckDue(x)'
          BY <1>1, <3>1, <4>1, <4>2, <4>3, <4>6, Zenon DEF AckDue
        <4>. QED
          BY <1>7, <4>1, <4>7 DEF InStep
      <3>. QED
        BY <3>3, <3>4
    <2>. QED
      BY <2>5, <2>6 DEF InStep
  <1>. QED
    BY <1>1, <1>11, <1>12

(* Read: the ACK, which is the first thing due, moves the client on and into step; a refusal sets
   its number. *)
LEMMA ReadInStep ==
  ASSUME TInv, InStep, Read
  PROVE  InStep'
  <1>. DEFINE r == Head(socket)
  <1>1. /\ pc = "wait" /\ socket # <<>> /\ socket' = Tail(socket)
        /\ UNCHANGED <<op, wire, seq, bufs, started, calls, late>>
        /\ Ack(r) \/ Nak(r)
    BY DEF Read, server
  <1>2. Queued' = Queued
    BY <1>1 DEF Queued
  <1>3. /\ Len(socket) \in Nat /\ Len(Queued) \in Nat /\ Owed \in Nat
        /\ Owed = Len(socket) + Len(Queued)
        /\ seq_cnt \in SeqNo /\ seq \in SeqNo /\ calls \in Nat /\ late \in Nat /\ mistaken \in Nat
        /\ socket \in Seq(Replies)
    BY DueTyped DEF TInv, Typed, NetType
  <1>4. /\ Len(Tail(socket)) = Len(socket) - 1 /\ Len(socket) >= 1 /\ r = socket[1]
        /\ \A j \in 1 .. Len(socket) - 1 : Tail(socket)[j] = socket[j + 1]
    BY <1>1, <1>3, QueueHead
  <1>5. Len(socket)' = Len(socket) - 1 /\ Owed' = Owed - 1
    BY <1>1, <1>2, <1>3, <1>4 DEF Owed
  <1>6. 1 \in 1 .. Owed /\ Due[1] = Note(r)
    <2>1. 1 \in 1 .. Owed /\ 1 <= Len(socket)
      BY <1>3, <1>4
    <2>. QED
      BY <1>4, <2>1, Zenon DEF Due
  <1>7. ASSUME NEW j \in 1 .. Owed'
        PROVE  Due'[j] = Due[j + 1] /\ j + 1 \in 1 .. Owed /\ j + 1 > 1 /\ j \in Nat
    <2>1. j + 1 \in 1 .. Owed /\ j + 1 > 1 /\ j \in Nat
      BY <1>3, <1>5
    <2>2. CASE j <= Len(socket)'
      <3>1. Due'[j] = Note(socket'[j])
        BY <2>2, Zenon DEF Due
      <3>2. j \in 1 .. Len(socket) - 1 /\ j + 1 <= Len(socket)
        BY <1>3, <1>5, <2>1, <2>2
      <3>3. socket'[j] = socket[j + 1]
        BY <1>1, <1>4, <3>2
      <3>4. Due[j + 1] = Note(socket[j + 1])
        BY <2>1, <3>2, Zenon DEF Due
      <3>. QED
        BY <2>1, <3>1, <3>3, <3>4
    <2>3. CASE ~(j <= Len(socket)')
      <3>1. Due'[j] = Note(Queued[j - Len(socket)'])
        BY <1>2, <2>3, Zenon DEF Due
      <3>2. ~(j + 1 <= Len(socket)) /\ j - Len(socket)' = (j + 1) - Len(socket)
        BY <1>3, <1>5, <2>1, <2>3
      <3>3. Due[j + 1] = Note(Queued[(j + 1) - Len(socket)])
        BY <2>1, <3>2, Zenon DEF Due
      <3>. QED
        BY <2>1, <3>1, <3>2, <3>3
    <2>. QED
      BY <2>2, <2>3
  <1>8. Due[1].nak = r.nak /\ Due[1].call = r.call /\ Due[1].addr = r.addr /\ Due[1].seq = r.seq
    BY <1>6 DEF Note
  <1>9. CASE Ack(r)
    <2>1. /\ ~Due[1].nak /\ seq_cnt' = (seq_cnt + 1) % SEQ_MOD
          /\ mistaken' = IF r.call = calls /\ r.addr = op.addr + bytes THEN mistaken ELSE mistaken + 1
      BY <1>8, <1>9 DEF Ack
    <2>2. AckDue(1)
      <3>1. PICK i \in 1 .. Owed : AckDue(i)
        BY <1>6, <2>1 DEF InStep, RefusalsDue
      <3>2. ~(1 < i)
        BY <1>6, <2>1, <3>1 DEF AckDue
      <3>3. i = 1
        BY <1>3, <3>2
      <3>. QED
        BY <3>1, <3>3
    <2>3. /\ seq = (seq_cnt + 1) % SEQ_MOD
          /\ \A j \in 1 .. Owed : j > 1 => Due[j].nak /\ Due[j].seq = seq
          /\ wire # NoRequest => wire.seq = seq_cnt
          /\ Current(Due[1]) \/ mistaken < late
      BY <1>4, <2>2 DEF AckDue
    <2>4. seq_cnt' = seq /\ seq # seq_cnt
      BY <1>3, <2>1, <2>3, NextDiffers
    <2>5. mistaken' <= late'
      <3>1. CASE Current(Due[1])
        <4>1. mistaken' = mistaken
          BY <1>8, <2>1, <3>1 DEF Current
        <4>. QED
          BY <1>1, <4>1 DEF InStep
      <3>2. CASE mistaken < late
        BY <1>1, <1>3, <2>1, <3>2
      <3>. QED
        BY <2>3, <3>1, <3>2
    <2>6. \A j \in 1 .. Owed' : Due'[j].nak /\ Due'[j].seq = seq
      BY <1>7, <2>3, Zenon
    <2>7. RefusalsDue'
      BY <1>1, <2>3, <2>4, <2>6, Zenon DEF RefusalsDue
    <2>. QED
      BY <2>5, <2>7 DEF InStep
  <1>10. CASE Nak(r)
    <2>1. /\ Due[1].nak /\ seq_cnt' = Due[1].seq /\ pc' = "send" /\ bytes' = bytes
          /\ mistaken' = mistaken
      BY <1>8, <1>10 DEF Nak, ServersNumber
    <2>2. mistaken' <= late'
      BY <1>1, <2>1 DEF InStep
    <2>3. CASE RefusalsDue
      <3>1. \A j \in 1 .. Owed' : Due'[j].nak
        BY <1>7, <2>3, Zenon DEF RefusalsDue
      <3>2. ASSUME NEW i \in 1 .. Owed', NEW j \in 1 .. Owed', i <= j, Due'[i].seq = seq
            PROVE  Due'[j].seq = seq
        <4>1. i + 1 <= j + 1
          BY <1>7, <3>2
        <4>. QED
          BY <1>7, <2>3, <3>2, <4>1, Zenon DEF RefusalsDue
      <3>3. ASSUME Due[1].seq = seq, NEW j \in 1 .. Owed PROVE Due[j].seq = seq
        <4>1. 1 <= j
          BY <1>3
        <4>. QED
          BY <1>6, <2>3, <3>3, <4>1, Zenon DEF RefusalsDue
      <3>4. ASSUME seq_cnt' = seq, NEW j \in 1 .. Owed' PROVE Due'[j].seq = seq
        BY <1>7, <2>1, <3>3, <3>4, Zenon
      <3>5. wire # NoRequest /\ wire.seq = seq => seq_cnt' = seq /\ Current(wire)'
        <4>1. wire # NoRequest /\ wire.seq = seq => Current(wire) /\ Due[1].seq = seq
          BY <1>6, <2>3, Zenon DEF RefusalsDue
        <4>2. Current(wire) => Current(wire)'
          BY <1>1, <2>1 DEF Current
        <4>. QED
          BY <2>1, <4>1, <4>2, Zenon
      <3>6. RefusalsDue'
        BY <1>1, <3>1, <3>2, <3>4, <3>5, Zenon DEF RefusalsDue
      <3>. QED
        BY <2>2, <3>6 DEF InStep
    <2>4. ASSUME NEW i \in 1 .. Owed, AckDue(i) PROVE InStep'
      <3>1. /\ ~Due[i].nak /\ Due[i].seq = seq_cnt /\ seq = (seq_cnt + 1) % SEQ_MOD
            /\ \A j \in 1 .. Owed : j < i => Due[j].nak /\ Due[j].seq = seq_cnt
            /\ \A j \in 1 .. Owed : j > i => Due[j].nak /\ Due[j].seq = seq
            /\ wire # NoRequest => wire.seq = seq_cnt
            /\ Due[i].call <= calls
            /\ \/ Current(Due[i])
               \/ IF i <= Len(socket) THEN mistaken < late ELSE pc = "idle" \/ Due[i].call # calls
        BY <2>4 DEF AckDue
      <3>2. i # 1
        BY <2>1, <3>1
      <3>3. PICK x \in 1 .. Owed' : x + 1 = i
        <4>1. i - 1 \in 1 .. Owed' /\ (i - 1) + 1 = i
          BY <1>3, <1>5, <3>2
        <4>. QED
          BY <4>1
      <3>4. Due'[x] = Due[i]
        BY <1>7, <3>3, Zenon
      <3>5. seq_cnt' = seq_cnt
        <4>1. 1 < i
          BY <1>3, <3>2
        <4>. QED
          BY <1>6, <2>1, <3>1, <4>1, Zenon
      <3>6. ASSUME NEW j \in 1 .. Owed', j < x PROVE Due'[j].nak /\ Due'[j].seq = seq_cnt
        <4>1. j + 1 < i
          BY <1>3, <1>5, <3>3, <3>6
        <4>. QED
          BY <1>7, <3>1, <4>1, Zenon
      <3>7. ASSUME NEW j \in 1 .. Owed', j > x PROVE Due'[j].nak /\ Due'[j].seq = seq
        <4>1. j + 1 > i
          BY <1>3, <1>5, <3>3, <3>7
        <4>2. Due[j + 1].nak /\ Due[j + 1].seq = seq
          BY <1>7, <3>1, <4>1, Zenon
        <4>. QED
          BY <1>7, <4>2, Zenon
      <3>8. (\/ Current(Due[x])
             \/ IF x <= Len(socket) THEN mistaken < late
                ELSE pc = "idle" \/ Due[x].call # calls)'
        <4>1. Current(Due[x])' <=> Current(Due[i])
          BY <1>1, <2>1, <3>4 DEF Current
        <4>2. x <= Len(socket)' <=> i <= Len(socket)
          BY <1>3, <1>5, <3>3
        <4>3. pc # "idle"
          BY <1>1
        <4>. QED
          BY <1>1, <2>1, <3>1, <3>4, <4>1, <4>2, <4>3, Zenon
      <3>9. AckDue(x)'
        BY <1>1, <3>1, <3>4, <3>5, <3>6, <3>7, <3>8, Zenon DEF AckDue
      <3>. QED
        BY <2>2, <3>9 DEF InStep
    <2>. QED
      BY <2>3, <2>4 DEF InStep
  <1>. QED
    BY <1>1, <1>9, <1>10

(* Every step keeps the client and the server as far out of step as one ACK makes them. *)
LEMMA NextInStep == TInv /\ InStep /\ [Next]_vars => InStep'
  <1>. SUFFICES ASSUME TInv, InStep, [Next]_vars PROVE InStep'
    OBVIOUS
  <1>1. ASSUME NEW o \in Op, Begin(o) PROVE InStep'
    BY <1>1, BeginInStep
  <1>2. CASE Send
    <2>1. /\ wire' = Request /\ pc # "idle" /\ pc' # "idle"
          /\ UNCHANGED <<op, bytes, calls, seq_cnt, seq, bufs, started, socket, late, mistaken>>
      BY <1>2 DEF Send, server, ghosts
    <2>. QED
      BY <2>1, ClientInStep
  <1>3. CASE Read
    BY <1>3, ReadInStep
  <1>4. CASE Timeout
    <2>1. /\ wire' = NoRequest /\ socket = <<>> /\ pc' = "idle"
          /\ UNCHANGED <<op, bytes, calls, seq_cnt, seq, bufs, started, socket, late, mistaken>>
      BY <1>4 DEF Timeout, server, ghosts
    <2>. QED
      BY <2>1, ClientInStep
  <1>5. CASE Lose
    <2>1. /\ wire' = NoRequest /\ pc' = pc
          /\ UNCHANGED <<op, bytes, calls, seq_cnt, seq, bufs, started, socket, late, mistaken>>
      BY <1>5 DEF Lose, client, server, ghosts
    <2>. QED
      BY <2>1, ClientInStep
  <1>6. CASE Overtaken
    BY <1>6, OvertakenInStep
  <1>7. CASE Receive
    BY <1>7, ReceiveInStep
  <1>8. CASE Answer
    BY <1>8, AnswerInStep
  <1>9. CASE BusWrite
    BY <1>9, BusWriteInStep
  <1>10. CASE UNCHANGED vars
    <2>1. /\ wire' = wire /\ pc' = pc
          /\ UNCHANGED <<op, bytes, calls, seq_cnt, seq, bufs, started, socket, late, mistaken>>
      BY <1>10 DEF vars
    <2>. QED
      BY <2>1, ClientInStep
  <1>. QED
    BY <1>1, <1>2, <1>3, <1>4, <1>5, <1>6, <1>7, <1>8, <1>9, <1>10 DEF Next, Step

(* An ACK taken for another request's was late: the client is misled at most once by each, in
   whatever order calls, timeouts, losses and refusals come.  edcl.cpp looks at the NAK bit of a
   reply, and at its number only after a NAK. *)
THEOREM EdclMisledOncePerLate == Spec => []MisledOncePerLate
  <1>1. Init => TInv /\ InStep
    <2>. SUFFICES ASSUME Init PROVE TInv /\ InStep
      OBVIOUS
    <2>1. TInv
      BY TInit
    <2>2. socket = <<>> /\ bufs = <<>> /\ ~started /\ wire = NoRequest /\ mistaken = 0 /\ late = 0
      BY DEF Init
    <2>3. Owed = 0
      BY <2>2 DEF Owed, Queued
    <2>4. \A i : ~(i \in 1 .. Owed)
      BY <2>3
    <2>5. RefusalsDue
      BY <2>2, <2>4, Zenon DEF RefusalsDue
    <2>. QED
      BY <2>1, <2>2, <2>5 DEF InStep
  <1>2. TInv /\ InStep /\ [Next]_vars => TInv' /\ InStep'
    BY TNext, NextInStep
  <1>3. InStep => MisledOncePerLate
    BY DEF InStep, MisledOncePerLate
  <1>. QED
    BY <1>1, <1>2, <1>3, PTL DEF Spec
=============================================================================
