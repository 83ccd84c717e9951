------------------------------ MODULE EdclLink ------------------------------
(***************************************************************************)
(* The PC tool's access to the SoC's memory.  EdclService (edcl.cpp) cuts  *)
(* a call into requests of at most CHUNK words and waits for one datagram  *)
(* per request; the EDCL server in the Ethernet core (grethc64.vhd)        *)
(* accepts a request that carries its sequence number, answers any other   *)
(* with its own number, and serves what it accepted in order from a        *)
(* few buffers.  Requests and replies get lost; a request still in a       *)
(* buffer when the client gives up is answered late.                       *)
(*                                                                         *)
(* Memory is counted in words.  A call writes its own number into every    *)
(* word, which tells the calls apart.                                      *)
(***************************************************************************)
EXTENDS Integers, Sequences, FiniteSets

CONSTANTS SIZE,       \* words of memory
          CHUNK,      \* words in a request (EDCL_PAYLOAD_MAX_BYTES)
          SEQ_MOD,    \* sequence numbers (2^14)
          NBUF,       \* buffers of the server (wsz)
          Lengths,    \* words of a call
          MaxCalls    \* bound: calls the tool makes

ASSUME LinkAssumption == /\ SIZE \in Nat \ {0}
                         /\ CHUNK \in Nat \ {0}
                         /\ SEQ_MOD \in Nat \ {0, 1}
                         /\ NBUF \in Nat \ {0}
                         /\ Lengths \subseteq Nat
                         /\ MaxCalls \in Nat

VARIABLES pc,        \* the client: between calls, at the top of its loop, in readData
          op,        \* the arguments of the call
          bytes,     \* rd_bytes or wr_bytes
          obuf,      \* what a read has copied out
          result,    \* what the last call returned
          seq_cnt,   \* seq_cnt_, as the 14 bits a request carries
          wire,      \* the request on its way, if any
          seq,       \* the server's r.seq
          bufs,      \* the requests in the server's buffers, oldest first
          started,   \* the oldest one is answered and its write is on the bus
          written,   \* words of that write done
          mem,       \* the memory
          socket,    \* replies the client has not read
          calls,     \* ghost: calls made
          alone,     \* ghost: no reply was outstanding when this call began
          served,    \* ghost: times each word of this call was served
          late,      \* ghost: ACKs sent after their call had returned
          mistaken   \* ghost: ACKs taken for another request's

client == <<pc, op, bytes, obuf, result, seq_cnt>>
server == <<seq, bufs, started, written, mem>>
ghosts == <<calls, alone, served, late, mistaken>>
vars   == <<pc, op, bytes, obuf, result, seq_cnt, wire, seq, bufs, started, written, mem,
            socket, calls, alone, served, late, mistaken>>

Addr == 0 .. SIZE - 1
SeqNo == 0 .. SEQ_MOD - 1
NoRequest == [call |-> 0]
Words(r) == r.addr .. r.addr + r.len - 1
Op == {o \in [write : BOOLEAN, addr : Addr, len : 1 .. SIZE] : o.addr + o.len <= SIZE}

Init == /\ pc = "idle" /\ op = [write |-> FALSE, addr |-> 0, len |-> 1]
        /\ bytes = 0 /\ obuf = <<>> /\ result = 0 /\ seq_cnt = 1
        /\ wire = NoRequest /\ socket = <<>>
        /\ seq \in SeqNo          \* wherever an earlier run of the tool left it
        /\ bufs = <<>> /\ started = FALSE /\ written = 0 /\ mem = [a \in Addr |-> 0]
        /\ calls = 0 /\ alone = TRUE /\ served = [a \in Addr |-> 0]
        /\ late = 0 /\ mistaken = 0

-----------------------------------------------------------------------------
(* The client *)

Begin(o) == /\ pc = "idle" /\ calls < MaxCalls
            /\ pc' = "send" /\ op' = o /\ bytes' = 0 /\ obuf' = <<>>
            /\ calls' = calls + 1 /\ served' = [a \in Addr |-> 0]
            /\ alone' = (wire = NoRequest /\ bufs = <<>> /\ socket = <<>>)
            /\ UNCHANGED <<result, seq_cnt, wire, server, socket, late, mistaken>>

ChunkLen == IF op.len - bytes > CHUNK THEN CHUNK ELSE op.len - bytes
Request == [call |-> calls, seq |-> seq_cnt, write |-> op.write,
            addr |-> op.addr + bytes, len |-> ChunkLen]

(* The wire carries one frame at a time, in order. *)
Send == /\ pc = "send" /\ wire = NoRequest
        /\ wire' = Request
        /\ pc' = "wait"
        /\ UNCHANGED <<op, bytes, obuf, result, seq_cnt, server, socket, ghosts>>

Progress(r) == bytes + IF op.write THEN ChunkLen ELSE r.len

(* An ACK, whatever request it answers: the loop adds it up and goes on. *)
Ack(r) == /\ ~r.nak
          /\ seq_cnt' = (seq_cnt + 1) % SEQ_MOD
          /\ bytes' = Progress(r)
          /\ obuf' = IF op.write THEN obuf ELSE obuf \o r.data
          /\ IF Progress(r) < op.len THEN pc' = "send" /\ UNCHANGED result
                                     ELSE pc' = "idle" /\ result' = Progress(r)
          /\ mistaken' = IF r.call = calls /\ r.addr = op.addr + bytes THEN mistaken
                                                                      ELSE mistaken + 1

(* A mutant's: the piece is sent again with the number that was refused. *)
SameNumber(r) == seq_cnt

(* A NAK carries the server's number: the same piece is sent again with it. *)
ServersNumber(r) == r.seq

Nak(r) == /\ r.nak
          /\ seq_cnt' = ServersNumber(r)
          /\ pc' = "send"
          /\ UNCHANGED <<bytes, obuf, result, mistaken>>

Read == /\ pc = "wait" /\ socket # <<>>
        /\ socket' = Tail(socket)
        /\ Ack(Head(socket)) \/ Nak(Head(socket))
        /\ UNCHANGED <<op, wire, server, calls, alone, served, late>>

(* Nothing came within the socket's time: the request or its reply is lost, or a buffer of the
   server still holds it. *)
Timeout == /\ pc = "wait" /\ socket = <<>> /\ wire = NoRequest
           /\ pc' = "idle" /\ result' = -1
           /\ UNCHANGED <<op, bytes, obuf, seq_cnt, wire, server, socket, ghosts>>

-----------------------------------------------------------------------------
(* The network and the server *)

(* Lost on the way, refused by the socket, damaged, or found every buffer in use. *)
Lose == /\ wire # NoRequest
        /\ wire' = NoRequest
        /\ UNCHANGED <<client, server, socket, ghosts>>

(* A mutant's: a request is accepted whatever its number. *)
NeverRefused == FALSE

Refused == wire.seq # seq
Counted == IF Refused THEN seq ELSE (seq + 1) % SEQ_MOD

Buffered == [call |-> wire.call, nak |-> Refused, seq |-> seq, write |-> wire.write,
             addr |-> wire.addr, len |-> wire.len]

Receive == /\ wire # NoRequest /\ Len(bufs) < NBUF
           /\ bufs' = Append(bufs, Buffered)
           /\ seq' = Counted
           /\ wire' = NoRequest
           /\ UNCHANGED <<client, started, written, mem, socket, ghosts>>

(* Another frame starts as this one ends: its number is counted, its buffer is not kept. *)
Overtaken == /\ wire # NoRequest /\ Len(bufs) < NBUF
             /\ seq' = Counted
             /\ wire' = NoRequest
             /\ UNCHANGED <<client, bufs, started, written, mem, socket, ghosts>>

(* A mutant's: what a NAK answers is done all the same. *)
ServesRefused(b) == TRUE

Serves(b) == ~b.nak

Reply(b) == [call |-> b.call, addr |-> b.addr, nak |-> b.nak, seq |-> b.seq,
             len |-> IF b.write \/ ~Serves(b) THEN 0 ELSE b.len,
             data |-> IF b.write \/ ~Serves(b) THEN <<>>
                      ELSE [i \in 1 .. b.len |-> mem[b.addr + i - 1]]]

Free == /\ bufs' = Tail(bufs) /\ started' = FALSE /\ written' = 0

(* The reply to a write is on its way before the write reaches the bus. *)
Answer == /\ bufs # <<>> /\ ~started
          /\ \/ socket' = Append(socket, Reply(Head(bufs)))
             \/ socket' = socket                               \* lost
          /\ late' = IF ~Head(bufs).nak /\ (pc = "idle" \/ Head(bufs).call # calls)
                     THEN late + 1 ELSE late
          /\ served' = [a \in Addr |-> IF Serves(Head(bufs)) /\ Head(bufs).call = calls
                                             /\ a \in Words(Head(bufs))
                                          THEN served[a] + 1 ELSE served[a]]
          /\ IF Head(bufs).write /\ Serves(Head(bufs))
             THEN started' = TRUE /\ UNCHANGED <<bufs, written>>
             ELSE Free
          /\ UNCHANGED <<client, wire, seq, mem, calls, alone, mistaken>>

(* A mutant's: the burst stops a word early. *)
LastButOneWord == written + 1 >= Head(bufs).len - 1

LastWord == written + 1 = Head(bufs).len

BusWrite == /\ started
            /\ mem' = [mem EXCEPT ![Head(bufs).addr + written] = Head(bufs).call]
            /\ IF LastWord THEN Free ELSE written' = written + 1 /\ UNCHANGED <<bufs, started>>
            /\ UNCHANGED <<client, wire, seq, socket, ghosts>>

-----------------------------------------------------------------------------
Step == Send \/ Read \/ Timeout \/ Lose \/ Receive \/ Overtaken \/ Answer \/ BusWrite
Next == Step \/ \E o \in Op : o.len \in Lengths /\ Begin(o)
Spec == Init /\ [][Next]_vars

(* The tool runs, the wire delivers or loses, the server serves; nobody has to call. *)
FairSpec == Spec /\ WF_vars(Step)

-----------------------------------------------------------------------------
(* Properties *)

RequestType == [call : 1 .. MaxCalls, seq : SeqNo, write : BOOLEAN, addr : Addr, len : 1 .. CHUNK]
BufferType == [call : 1 .. MaxCalls, nak : BOOLEAN, seq : SeqNo, write : BOOLEAN, addr : Addr,
               len : 1 .. CHUNK]

(* The variables keep their types, and a request never leaves the memory it was called for. *)
TypeOK == /\ pc \in {"idle", "send", "wait"} /\ op \in Op
          /\ bytes \in Nat /\ obuf \in Seq(0 .. MaxCalls) /\ result \in Nat \cup {-1}
          /\ seq_cnt \in SeqNo /\ seq \in SeqNo
          /\ wire # NoRequest => wire \in RequestType /\ Words(wire) \subseteq Addr
          /\ Len(bufs) <= NBUF
          /\ \A i \in 1 .. Len(bufs) : bufs[i] \in BufferType /\ Words(bufs[i]) \subseteq Addr
          /\ started \in BOOLEAN /\ written \in 0 .. CHUNK - 1
          /\ mem \in [Addr -> 0 .. MaxCalls]
          /\ Len(socket) <= NBUF + 1
          /\ calls \in 0 .. MaxCalls /\ alone \in BOOLEAN
          /\ served \in [Addr -> Nat] /\ late \in Nat /\ mistaken \in Nat

(* Memory as a later request will find it: the write on the bus is done first. *)
Seen(a) == IF started /\ a \in Words(Head(bufs)) THEN Head(bufs).call ELSE mem[a]
Returned == pc = "idle" /\ calls > 0 /\ result # -1

(* edcl.cpp's read and write: a call that begins with no earlier reply outstanding and returns a
   length has done exactly what it was called for. *)
ReturnExact ==
  Returned /\ alone =>
    /\ result = op.len
    /\ \A i \in 0 .. op.len - 1 : IF op.write THEN Seen(op.addr + i) = calls
                                              ELSE obuf[i + 1] = Seen(op.addr + i)

(* The sequence number's purpose: such a call reaches the bus at most once per word, also when it
   returns an error and when it is sent again after a NAK; and once per word when it succeeds. *)
OncePerCall ==
  alone => /\ \A a \in Addr : served[a] <= 1
           /\ Returned => \A a \in Words(op) : served[a] = 1

(* A reply read as another request's answer was late: each late ACK misleads the client once, and
   the stream falls back in step by itself. *)
MisledOncePerLate == mistaken <= late

(* Every call returns: NAKs do not send the client round for ever. *)
CallReturns == pc # "idle" ~> pc = "idle"
=============================================================================
