------------------------------ MODULE UartProofs ------------------------------
(***************************************************************************)
(* That the serial port receives what is put on its line, for every        *)
(* divisor, every byte and every bit time within its tolerance.            *)
(*                                                                         *)
(* A frame in flight is at clock r of its n-th bit.  That place fixes the  *)
(* line, the five samples of the filter and its output, and where the      *)
(* receiver is: it runs five clocks behind the line, by its own divisor.   *)
(***************************************************************************)
EXTENDS Uart, Integers, FiniteSetTheorems, SequenceTheorems, TLAPS

\* What a sender may be off: the stop bit is sampled after it began, and the receiver
\* is idle again when it ends.
Tolerance ==
  /\ baud >= 3
  /\ \A t \in BitTimes : 9 * t <= 38 * baud /\ 38 * baud + 6 <= 10 * t

\* The port's own transmitter keeps to its divisor.
Times == BitTimes \cup {4 * baud}

-----------------------------------------------------------------------------
(* The inductive invariant *)

Types ==
  /\ loop \in BOOLEAN /\ line \in {0, 1} /\ rx_dly \in [1 .. 5 -> {0, 1}] /\ maj \in {0, 1}
  /\ rx_data \in [1 .. 8 -> {0, 1}] /\ tx_out \in [1 .. 9 -> {0, 1}]
  /\ u_tx_byte \in [1 .. 8 -> {0, 1}] /\ bits \in Seq({0, 1})

\* received is up for two clocks, the second of them with u_recv.
Handshake ==
  /\ received => recv_state \in {"RX_IDLE", "RX_CHECK_START"}
  /\ received /\ ~u_recv => recv_state = "RX_IDLE"
  /\ u_recv => ~erred
  /\ ~(received /\ u_recv) => (recv_error <=> erred)

\* Who may drive the line, and when the driver may write.
Driving ==
  /\ sw \in {"poll", "write"}
  /\ sw = "write" => loop /\ tx_state = "TX_IDLE" /\ ~u_trans
  /\ loop => bits = <<>>
  /\ u_trans => loop /\ tx_state = "TX_IDLE" /\ sw = "poll" /\ swWait # 0

\* The line is idle and was for the last five clocks.
Quiet ==
  /\ line = 1 /\ rx_dly = [i \in 1 .. 5 |-> 1] /\ maj = 1
  /\ recv_state = "RX_IDLE"

\* Nothing is on its way.
Silent ==
  /\ Quiet /\ due = <<>> /\ ~u_trans
  /\ loop => tx_state # "TX_SENDING" /\ tx_out[1] = 1
  /\ ~loop => \A i \in 1 .. Len(bits) : bits[i] = 1

\* The transmitter is told to send.
Pending == Quiet /\ due = <<u_tx_byte>> /\ u_trans /\ u_tx_byte \in Bytes

\* The n-th bit of a byte's frame, and the line before and after it.
Level(b, n) == IF n = 0 THEN 0 ELSE IF n \in 1 .. 8 THEN b[n] ELSE 1

\* The sender is at clock r of the n-th bit, t clocks long.
TxSends(b, t, n, r) ==
  /\ loop /\ t = 4 * baud /\ tx_state = "TX_SENDING" /\ tx_bits_remaining = 9 - n
  /\ tx_countdown \in 1 .. 4 /\ tx_clk_divider \in 1 .. baud
  /\ r = 5 * baud - tx_countdown * baud - tx_clk_divider
  /\ \A i \in 1 .. 9 : tx_out[i] = Level(b, n + i - 1)

RemoteSends(b, t, n, r) ==
  /\ ~loop /\ bitTime = t /\ left = t - r /\ Len(bits) >= 10 - n
  /\ \A i \in 1 .. Len(bits) : bits[i] = Level(b, n + i - 1)

\* The line, the samples and the output of the filter.
Wire(b, n, r) ==
  /\ line = Level(b, n)
  /\ \A i \in 1 .. 5 : rx_dly[i] = Level(b, IF i <= r THEN n ELSE n - 1)
  /\ maj = Level(b, IF 4 <= r THEN n ELSE n - 1)

\* The countdown started from c at clock base.
Counts(base, c, e) ==
  /\ rx_countdown \in 1 .. c /\ rx_clk_divider \in 1 .. baud
  /\ e = base + (c + 1) * baud - rx_countdown * baud - rx_clk_divider

\* The receiver e clocks into the frame.
Receives(b, e) ==
  \/ recv_state = "RX_IDLE" /\ e <= 4 /\ due = <<b>>
  \/ recv_state = "RX_CHECK_START" /\ Counts(5, 2, e) /\ due = <<b>>
  \/ /\ recv_state = "RX_READ_BITS" /\ due = <<b>>
     /\ \E k \in 0 .. 7 : /\ rx_bits_remaining = 8 - k
                          /\ Counts(2 * baud + 5 + 4 * baud * k, 4, e)
                          /\ \A i \in 1 .. k : rx_data[8 - k + i] = b[i]
  \/ recv_state = "RX_CHECK_STOP" /\ Counts(34 * baud + 5, 4, e) /\ rx_data = b /\ due = <<b>>
  \/ recv_state = "RX_RECEIVED" /\ e = 38 * baud + 5 /\ rx_data = b /\ due = <<b>>
  \/ recv_state = "RX_IDLE" /\ e >= 38 * baud + 6 /\ due = <<>>

Framing(b, t, n, r) ==
  /\ ~u_trans
  /\ TxSends(b, t, n, r) \/ RemoteSends(b, t, n, r)
  /\ Wire(b, n, r)
  /\ Receives(b, n * t + r)

\* A pulse of g clocks, x clocks after it began.
Pulse(g, x) == IF 0 <= x /\ x < g THEN 0 ELSE 1

\* The filter shows it if it is long enough.
Seen(g, x) == IF g > 2 THEN Pulse(g, x) ELSE 1

\* The receiver e clocks into a pulse: it finds no start bit in the middle of one.
Startles(g, e) ==
  \/ recv_state = "RX_IDLE" /\ (g <= 2 \/ e <= 4)
  \/ recv_state = "RX_CHECK_START" /\ g > 2 /\ Counts(5, 2, e)
  \/ recv_state = "RX_ERROR" /\ g > 2 /\ e = 2 * baud + 5 /\ rx_clk_divider = baud
  \/ recv_state = "RX_DELAY_RESTART" /\ g > 2 /\ Counts(2 * baud + 5, 8, e)

Noisy(g, e) ==
  /\ ~loop /\ due = <<>> /\ (g > 2 => glitched)
  /\ bitTime = 1 /\ left = (IF e < g THEN g - e ELSE 1)
  /\ Len(bits) = (IF e < g THEN 12 * baud + g + 1 ELSE 12 * baud + 2 * g - e)
  /\ \A i \in 1 .. Len(bits) : bits[i] = IF i = 1 THEN Pulse(g, e) ELSE 1
  /\ line = Pulse(g, e) /\ maj = Seen(g, e - 4)
  /\ \A i \in 1 .. 5 : rx_dly[i] = Pulse(g, e - i)
  /\ Startles(g, e)

Phase ==
  \/ Silent
  \/ Pending
  \/ \E b \in Bytes, t \in Times, n \in 0 .. 9, r \in Nat : r < t /\ Framing(b, t, n, r)
  \/ \E g \in Glitches, e \in 0 .. 10 * baud + 4 : Noisy(g, e)

IInv == Types /\ Handshake /\ Driving /\ GlitchFiltered /\ Phase

-----------------------------------------------------------------------------
(* Registers that shift *)

\* A function on 1 .. n is a sequence of length n, and the reverse.
LEMMA Enumerated ==
  ASSUME NEW S, NEW n \in Nat, NEW f \in [1 .. n -> S]
  PROVE  f \in Seq(S) /\ Len(f) = n
<1>1. f \in Seq(S)
  BY SeqDef, Zenon
<1>2. Len(f) \in Nat /\ DOMAIN f = 1 .. Len(f)
  BY <1>1
<1>3. DOMAIN f = 1 .. n
  OBVIOUS
<1> QED
  BY <1>1, <1>2, <1>3

LEMMA AsFunction ==
  ASSUME NEW S, NEW n \in Nat, NEW f \in Seq(S), Len(f) = n
  PROVE  f \in [1 .. n -> S]
OBVIOUS

\* A sequence and the next one, put together.
Joins(u, s, t) ==
  /\ u \in Seq({0, 1}) /\ Len(u) = Len(s) + Len(t)
  /\ \A i \in 1 .. Len(u) : u[i] = IF i <= Len(s) THEN s[i] ELSE t[i - Len(s)]

LEMMA Joined ==
  ASSUME NEW s \in Seq({0, 1}), NEW t \in Seq({0, 1}), NEW u, u = s \o t
  PROVE  Joins(u, s, t)
BY ConcatProperties DEF Joins

\* The samples move up by one, and the line comes in.
ShiftedIn(s, d, x) ==
  s \in [1 .. 5 -> {0, 1}] /\ s[1] = x /\ \A i \in 2 .. 5 : s[i] = d[i - 1]

LEMMA ShiftIn ==
  ASSUME NEW d \in [1 .. 5 -> {0, 1}], NEW x \in {0, 1}, NEW s, s = <<x>> \o SubSeq(d, 1, 4)
  PROVE  ShiftedIn(s, d, x)
<1>0. 5 \in Nat /\ 4 \in Nat
  OBVIOUS
<1>1. d \in Seq({0, 1}) /\ Len(d) = 5
  BY <1>0, Enumerated, ZenonT(60)
<1>2. PICK m : m = SubSeq(d, 1, 4)
  OBVIOUS
<1>3. m \in Seq({0, 1}) /\ Len(m) = 4 /\ \A i \in 1 .. 4 : m[i] = d[i]
  BY <1>1, <1>2
<1>4. <<x>> \in Seq({0, 1}) /\ Len(<<x>>) = 1 /\ <<x>>[1] = x
  OBVIOUS
<1>5. s = <<x>> \o m
  BY <1>2, Zenon
<1>6. s \in Seq({0, 1}) /\ Len(s) = 5
  BY <1>3, <1>4, <1>5
<1>7. s[1] = x /\ \A i \in 2 .. 5 : s[i] = m[i - 1]
  BY <1>3, <1>4, <1>5
<1>8. \A i \in 2 .. 5 : s[i] = d[i - 1]
  BY <1>3, <1>7
<1>9. s \in [1 .. 5 -> {0, 1}]
  BY <1>0, <1>6, AsFunction
<1> QED
  BY <1>7, <1>8, <1>9 DEF ShiftedIn

\* The elements move down by one, and another comes in at the end.
ShiftedDown(s, n, d, x) ==
  s \in [1 .. n -> {0, 1}] /\ s[n] = x /\ \A i \in 1 .. n - 1 : s[i] = d[i + 1]

LEMMA ShiftDown ==
  ASSUME NEW n \in Nat \ {0}, NEW d \in [1 .. n -> {0, 1}], NEW x \in {0, 1},
         NEW s, s = Append(Tail(d), x)
  PROVE  ShiftedDown(s, n, d, x)
<1>1. d \in Seq({0, 1}) /\ Len(d) = n
  BY Enumerated
<1>2. PICK m : m = Tail(d)
  OBVIOUS
<1>3. m \in Seq({0, 1}) /\ Len(m) = n - 1 /\ \A i \in 1 .. n - 1 : m[i] = d[i + 1]
  BY <1>1, <1>2
<1>4. s = Append(m, x)
  BY <1>2, Zenon
<1>5. s \in Seq({0, 1}) /\ Len(s) = n /\ s[n] = x /\ \A i \in 1 .. n - 1 : s[i] = m[i]
  BY <1>3, <1>4
<1>6. s \in [1 .. n -> {0, 1}]
  BY <1>5, AsFunction
<1> QED
  BY <1>3, <1>5, <1>6 DEF ShiftedDown

\* A start bit in front of a byte.
LEMMA Started ==
  ASSUME NEW u \in [1 .. 8 -> {0, 1}], NEW s, s = << 0 >> \o u
  PROVE  s \in [1 .. 9 -> {0, 1}] /\ s \in Seq({0, 1}) /\ Len(s) = 9
         /\ \A i \in 1 .. 9 : s[i] = Level(u, i - 1)
<1>0. 8 \in Nat /\ 9 \in Nat
  OBVIOUS
<1>1. u \in Seq({0, 1}) /\ Len(u) = 8
  BY <1>0, Enumerated
<1>2. << 0 >> \in Seq({0, 1}) /\ Len(<< 0 >>) = 1 /\ << 0 >>[1] = 0
  OBVIOUS
<1>3. PICK z : z = << 0 >>
  OBVIOUS
<1>4. z \in Seq({0, 1}) /\ Len(z) = 1 /\ z[1] = 0
  BY <1>2, <1>3
<1>5. s = z \o u
  BY <1>3, Zenon
<1>6. s \in Seq({0, 1}) /\ Len(s) = Len(z) + Len(u)
      /\ \A i \in 1 .. Len(s) : s[i] = IF i <= Len(z) THEN z[i] ELSE u[i - Len(z)]
  <2>1. Joins(s, z, u)
    BY <1>1, <1>4, <1>5, Joined, Zenon
  <2> QED
    BY <2>1, Zenon DEF Joins
<1>7. Len(s) = 9
  BY <1>1, <1>4, <1>6
<1>8. \A i \in 1 .. 9 : s[i] = IF i <= 1 THEN z[i] ELSE u[i - 1]
  BY <1>4, <1>6, <1>7, Zenon
<1>9. s[1] = 0 /\ \A i \in 2 .. 9 : s[i] = u[i - 1]
  BY <1>4, <1>8
<1>10. s \in [1 .. 9 -> {0, 1}]
  BY <1>0, <1>6, <1>7, AsFunction
<1>11. \A i \in 1 .. 9 : s[i] = Level(u, i - 1)
  BY <1>9 DEF Level
<1> QED
  BY <1>6, <1>7, <1>10, <1>11

\* Ones behind a sequence.
Pads(u, s, m) ==
  /\ u \in Seq({0, 1}) /\ Len(u) = Len(s) + m
  /\ \A i \in 1 .. Len(u) : u[i] = IF i <= Len(s) THEN s[i] ELSE 1

LEMMA Padded ==
  ASSUME NEW s \in Seq({0, 1}), NEW m \in Nat, NEW u, u = s \o Ones(m)
  PROVE  Pads(u, s, m)
<1>1. PICK o : o = Ones(m)
  OBVIOUS
<1>2. o \in [1 .. m -> {0, 1}] /\ \A i \in 1 .. m : o[i] = 1
  BY <1>1 DEF Ones
<1>3. o \in Seq({0, 1}) /\ Len(o) = m
  BY <1>2, Enumerated
<1>4. u = s \o o
  BY <1>1, Zenon
<1>5. u \in Seq({0, 1}) /\ Len(u) = Len(s) + Len(o)
      /\ \A i \in 1 .. Len(u) : u[i] = IF i <= Len(s) THEN s[i] ELSE o[i - Len(s)]
  <2>1. Joins(u, s, o)
    BY <1>3, <1>4, Joined, Zenon
  <2> QED
    BY <2>1, Zenon DEF Joins
<1>6. Len(u) = Len(s) + m
  BY <1>3, <1>5
<1>7. \A i \in 1 .. Len(u) : ~(i <= Len(s)) => i - Len(s) \in 1 .. m
  BY <1>6
<1> QED
  BY <1>2, <1>5, <1>6, <1>7 DEF Pads

\* The frame a remote sender puts on the line.
LEMMA RemoteFrame ==
  ASSUME NEW b \in [1 .. 8 -> {0, 1}], NEW m \in Nat \ {0}, NEW u, u = << 0 >> \o b \o Ones(m)
  PROVE  u \in Seq({0, 1}) /\ Len(u) >= 10 /\ \A i \in 1 .. Len(u) : u[i] = Level(b, i - 1)
<1>1. PICK s : s = << 0 >> \o b
  OBVIOUS
<1>2. s \in Seq({0, 1}) /\ Len(s) = 9 /\ \A i \in 1 .. 9 : s[i] = Level(b, i - 1)
  BY <1>1, Started, ZenonT(60)
<1>3. u = s \o Ones(m)
  BY <1>1, Zenon
<1>4. u \in Seq({0, 1}) /\ Len(u) = Len(s) + m
      /\ \A i \in 1 .. Len(u) : u[i] = IF i <= Len(s) THEN s[i] ELSE 1
  <2>1. Pads(u, s, m)
    BY <1>2, <1>3, Padded, Zenon
  <2> QED
    BY <2>1, Zenon DEF Pads
<1>5. \A i \in 1 .. Len(u) : u[i] = IF i <= 9 THEN s[i] ELSE 1
  BY <1>2, <1>4, Zenon
<1>6. Len(u) \in Nat /\ Len(u) >= 10
  BY <1>2, <1>4
<1>7. ASSUME NEW i \in 1 .. Len(u) PROVE u[i] = Level(b, i - 1)
  <2>1. CASE i <= 9
    <3>1. i \in 1 .. 9
      BY <1>6, <2>1
    <3> QED
      BY <1>2, <1>5, <2>1, <3>1
  <2>2. CASE ~(i <= 9)
    <3>1. i - 1 # 0 /\ i - 1 \notin 1 .. 8
      BY <1>6, <2>2
    <3> QED
      BY <1>5, <2>2, <3>1 DEF Level
  <2> QED
    BY <2>1, <2>2
<1> QED
  BY <1>4, <1>6, <1>7

\* A pulse of noise.
LEMMA PulseBits ==
  ASSUME NEW m \in Nat, NEW u, u = << 0 >> \o Ones(m)
  PROVE  u \in Seq({0, 1}) /\ Len(u) = m + 1
         /\ \A i \in 1 .. Len(u) : u[i] = IF i = 1 THEN 0 ELSE 1
<1>1. PICK s : s = << 0 >>
  OBVIOUS
<1>2. s \in Seq({0, 1}) /\ Len(s) = 1 /\ s[1] = 0
  BY <1>1
<1>3. u = s \o Ones(m)
  BY <1>1, Zenon
<1>4. u \in Seq({0, 1}) /\ Len(u) = 1 + m
      /\ \A i \in 1 .. Len(u) : u[i] = IF i <= 1 THEN s[i] ELSE 1
  <2>1. Pads(u, s, m)
    BY <1>2, <1>3, Padded, Zenon
  <2> QED
    BY <1>2, <2>1 DEF Pads
<1> QED
  BY <1>2, <1>4

\* Three samples of five decide.
LEMMA MajorityIs ==
  ASSUME NEW d \in [1 .. 5 -> {0, 1}], NEW v \in {0, 1},
         NEW i \in 1 .. 5, NEW j \in 1 .. 5, NEW k \in 1 .. 5, i # j, i # k, j # k,
         d[i] = v, d[j] = v, d[k] = v
  PROVE  Majority(d) = v
<1>1. PICK S : S = {p \in 1 .. 5 : d[p] = 1}
  OBVIOUS
<1>2. S \in SUBSET (1 .. 5) /\ \A p \in 1 .. 5 : p \in S <=> d[p] = 1
  BY <1>1
<1>3. IsFiniteSet(1 .. 5) /\ Cardinality(1 .. 5) = 5
  <2>1. 1 \in Int /\ 5 \in Int
    OBVIOUS
  <2>2. IsFiniteSet(1 .. 5) /\ Cardinality(1 .. 5) = IF 1 > 5 THEN 0 ELSE 5 - 1 + 1
    BY <2>1, FS_Interval, Zenon
  <2> QED
    BY <2>2
<1>4. IsFiniteSet({i, j, k}) /\ Cardinality({i, j, k}) = 3
  <2>0. IsFiniteSet({i}) /\ Cardinality({i}) = 1
    BY FS_Singleton
  <2>1. IsFiniteSet({i, j}) /\ Cardinality({i, j}) = 2
    <3>1. {i, j} = {i} \cup {j} /\ j \notin {i}
      OBVIOUS
    <3>2. PICK T : T = {i}
      OBVIOUS
    <3>3. IsFiniteSet(T \cup {j}) /\ Cardinality(T \cup {j}) = Cardinality(T) + 1
      BY <2>0, <3>1, <3>2, FS_AddElement, Zenon
    <3>4. Cardinality(T) + 1 = 2
      BY <2>0, <3>2
    <3> QED
      BY <3>1, <3>2, <3>3, <3>4, Zenon
  <2>2. {i, j, k} = {i, j} \cup {k} /\ k \notin {i, j}
    OBVIOUS
  <2>3. PICK T : T = {i, j}
    OBVIOUS
  <2>4. IsFiniteSet(T \cup {k}) /\ Cardinality(T \cup {k}) = Cardinality(T) + 1
    BY <2>1, <2>2, <2>3, FS_AddElement, Zenon
  <2>5. Cardinality(T) + 1 = 3
    BY <2>1, <2>3
  <2> QED
    BY <2>2, <2>3, <2>4, <2>5, Zenon
<1>5. IsFiniteSet(S) /\ Cardinality(S) \in Nat
  BY <1>2, <1>3, FS_Subset, FS_CardinalityType
<1>6. Majority(d) = IF Cardinality(S) > 2 THEN 1 ELSE 0
  BY <1>1, Zenon DEF Majority
<1>7. CASE v = 1
  <2>1. {i, j, k} \subseteq S
    BY <1>2, <1>7
  <2>2. Cardinality({i, j, k}) <= Cardinality(S)
    BY <1>5, <2>1, FS_Subset
  <2> QED
    BY <1>4, <1>5, <1>6, <1>7, <2>2
<1>8. CASE v = 0
  <2>1. PICK R : R = (1 .. 5) \ {i, j, k}
    OBVIOUS
  <2>2. IsFiniteSet(R) /\ Cardinality(R) = 5 - 3
    <3>1. (1 .. 5) \cap {i, j, k} = {i, j, k}
      OBVIOUS
    <3> QED
      BY <1>3, <1>4, <2>1, <3>1, FS_Difference
  <2>3. S \subseteq R
    BY <1>2, <1>8, <2>1
  <2>4. Cardinality(S) <= Cardinality(R)
    BY <2>2, <2>3, FS_Subset
  <2> QED
    BY <1>5, <1>6, <1>8, <2>2, <2>4
<1> QED
  BY <1>7, <1>8
-----------------------------------------------------------------------------
(* Numbers *)

LEMMA Baud == baud \in Nat /\ baud >= 1 /\ Bytes \subseteq [1 .. 8 -> {0, 1}]
BY UartAssumption

\* Every sender in use is within the tolerance, and so is the port's own.
LEMMA TimesFit ==
  ASSUME Tolerance, NEW t \in Times
  PROVE  /\ t \in Nat /\ baud \in Nat /\ baud >= 3 /\ t >= 12
         /\ 9 * t <= 38 * baud /\ 38 * baud + 6 <= 10 * t
<1>1. baud \in Nat /\ baud >= 3
  BY Baud DEF Tolerance
<1>2. CASE t = 4 * baud
  BY <1>1, <1>2
<1>3. CASE t \in BitTimes
  <2>1. t \in Nat
    BY <1>3, UartAssumption
  <2>2. 9 * t <= 38 * baud /\ 38 * baud + 6 <= 10 * t
    BY <1>3 DEF Tolerance
  <2> QED
    BY <1>1, <2>1, <2>2
<1> QED
  BY <1>2, <1>3 DEF Times

\* The bits of a frame follow one another.
LEMMA NextBit ==
  ASSUME NEW n \in Nat, NEW t \in Nat
  PROVE  n * t \in Nat /\ (n + 1) * t = n * t + t
OBVIOUS

LEMMA LaterBit ==
  ASSUME NEW n \in Nat, NEW m \in Nat, NEW t \in Nat, n < m
  PROVE  n * t + t <= m * t
<1>1. PICK d \in Nat : m = n + 1 + d
  <2>1. m - n - 1 \in Nat /\ m = n + 1 + (m - n - 1)
    OBVIOUS
  <2> QED
    BY <2>1
<1>2. m * t = n * t + t + d * t
  BY <1>1
<1>3. d * t \in Nat /\ n * t \in Nat
  OBVIOUS
<1> QED
  BY <1>2, <1>3

\* A clock is in one bit only.
LEMMA OneBit ==
  ASSUME NEW t \in Nat, NEW n \in Nat, NEW k \in Nat, NEW w \in Nat,
         n * t <= w, w < n * t + t, k * t <= w, w < k * t + t
  PROVE  n = k
<1>0. n * t \in Nat /\ k * t \in Nat
  OBVIOUS
<1>1. ~(n < k)
  <2> SUFFICES ASSUME n < k PROVE FALSE
    OBVIOUS
  <2>1. n * t + t <= k * t
    BY LaterBit
  <2> QED
    BY <1>0, <2>1
<1>2. ~(k < n)
  <2> SUFFICES ASSUME k < n PROVE FALSE
    OBVIOUS
  <2>1. k * t + t <= n * t
    BY LaterBit
  <2> QED
    BY <1>0, <2>1
<1> QED
  BY <1>1, <1>2

\* The receiver's samples, half a bit and whole bits of its own after the start, each
\* fall into their own bit of the sender's.
LEMMA SampleInBit ==
  ASSUME Tolerance, NEW t \in Times, NEW k \in 0 .. 9
  PROVE  /\ 4 * baud * k + 2 * baud \in Nat
         /\ k * t <= 4 * baud * k + 2 * baud /\ 4 * baud * k + 2 * baud < k * t + t
<1>1. /\ t \in Nat /\ baud \in Nat /\ baud >= 3
      /\ 9 * t <= 38 * baud /\ 38 * baud + 6 <= 10 * t
  BY TimesFit
<1>2. CASE k = 0
  BY <1>1, <1>2
<1>3. CASE k = 1
  BY <1>1, <1>3
<1>4. CASE k = 2
  BY <1>1, <1>4
<1>5. CASE k = 3
  BY <1>1, <1>5
<1>6. CASE k = 4
  BY <1>1, <1>6
<1>7. CASE k = 5
  BY <1>1, <1>7
<1>8. CASE k = 6
  BY <1>1, <1>8
<1>9. CASE k = 7
  BY <1>1, <1>9
<1>10. CASE k = 8
  BY <1>1, <1>10
<1>11. CASE k = 9
  BY <1>1, <1>11
<1>12. k \in {0, 1, 2, 3, 4, 5, 6, 7, 8, 9}
  OBVIOUS
<1> QED
  BY <1>2, <1>3, <1>4, <1>5, <1>6, <1>7, <1>8, <1>9, <1>10, <1>11, <1>12

\* So what the filter shows at a sample, four clocks behind the line, is that bit.
LEMMA Sampled ==
  ASSUME Tolerance, NEW t \in Times, NEW n \in 0 .. 9, NEW r \in Nat, r < t,
         NEW k \in 0 .. 9, n * t + r = 4 * baud * k + 2 * baud + 4
  PROVE  (IF 4 <= r THEN n ELSE n - 1) = k
<1>1. t \in Nat /\ t >= 12
  BY TimesFit
<1>2. PICK w \in Nat : w = 4 * baud * k + 2 * baud
  BY SampleInBit
<1>3. k * t <= w /\ w < k * t + t /\ k * t \in Nat
  BY <1>1, <1>2, SampleInBit, NextBit
<1>4. n * t + r = w + 4 /\ n * t \in Nat
  BY <1>1, <1>2, NextBit
<1>5. CASE 4 <= r
  <2>1. n * t <= w /\ w < n * t + t
    BY <1>1, <1>4, <1>5
  <2>2. n = k
    BY <1>1, <1>3, <2>1, OneBit
  <2> QED
    BY <1>5, <2>2
<1>6. CASE ~(4 <= r)
  <2>1. n # 0
    <3> SUFFICES ASSUME n = 0 PROVE FALSE
      OBVIOUS
    <3>1. n * t = 0
      BY <1>1
    <3> QED
      BY <1>4, <1>6, <3>1
  <2>2. PICK m \in Nat : n = m + 1
    <3>1. n - 1 \in Nat /\ n = (n - 1) + 1
      BY <2>1
    <3> QED
      BY <3>1
  <2>3. n * t = m * t + t /\ m * t \in Nat
    BY <1>1, <2>2, NextBit
  <2>4. m * t <= w /\ w < m * t + t
    BY <1>1, <1>4, <1>6, <2>3
  <2>5. m = k
    BY <1>1, <1>3, <2>4, OneBit
  <2>6. n - 1 = m
    BY <2>2
  <2> QED
    BY <1>6, <2>5, <2>6
<1> QED
  BY <1>5, <1>6

-----------------------------------------------------------------------------
(* The line and the filter *)

LEMMA LevelType ==
  ASSUME NEW b \in [1 .. 8 -> {0, 1}], NEW n \in Int
  PROVE  Level(b, n) \in {0, 1} /\ (n = 0 => Level(b, n) = 0)
         /\ (n = -1 \/ n >= 9 => Level(b, n) = 1)
         /\ (n \in 1 .. 8 => Level(b, n) = b[n])
BY DEF Level

\* The samples and the output after a clock.
LEMMA Filtered ==
  ASSUME Types, Filter
  PROVE  /\ rx_dly' \in [1 .. 5 -> {0, 1}] /\ rx_dly'[1] = line
         /\ \A i \in 2 .. 5 : rx_dly'[i] = rx_dly[i - 1]
         /\ maj' = Majority(rx_dly)
<1>1. rx_dly \in [1 .. 5 -> {0, 1}] /\ line \in {0, 1}
  BY DEF Types
<1>2. rx_dly' = <<line>> \o SubSeq(rx_dly, 1, 4) /\ maj' = Majority(rx_dly)
  BY DEF Filter
<1>3. PICK s : s = rx_dly'
  OBVIOUS
<1>4. s \in [1 .. 5 -> {0, 1}] /\ s[1] = line /\ \A i \in 2 .. 5 : s[i] = rx_dly[i - 1]
  <2>1. s = <<line>> \o SubSeq(rx_dly, 1, 4)
    BY <1>2, <1>3, Zenon
  <2>2. ShiftedIn(s, rx_dly, line)
    BY <1>1, <2>1, ShiftIn, Zenon
  <2> QED
    BY <2>2, Zenon DEF ShiftedIn
<1> QED
  BY <1>2, <1>3, <1>4, Zenon

\* The filter follows the line as long as it stays at a level for five clocks.
LEMMA WireStep ==
  ASSUME Types, Filter, NEW b \in [1 .. 8 -> {0, 1}], NEW t \in Nat, t >= 12,
         NEW n \in 0 .. 9, NEW r \in Nat, r < t, Wire(b, n, r),
         NEW m \in {n, n + 1}, NEW q \in Nat, m = n => q = r + 1, m = n + 1 => q = 0 /\ r + 1 = t,
         line' = Level(b, m)
  PROVE  Wire(b, m, q)'
<1>1. /\ rx_dly'[1] = line /\ \A i \in 2 .. 5 : rx_dly'[i] = rx_dly[i - 1]
      /\ maj' = Majority(rx_dly)
  BY Filtered
<1>2. rx_dly \in [1 .. 5 -> {0, 1}]
  BY DEF Types
<1>3. /\ line = Level(b, n)
      /\ \A i \in 1 .. 5 : rx_dly[i] = Level(b, IF i <= r THEN n ELSE n - 1)
  BY DEF Wire
<1>4. Level(b, n) \in {0, 1} /\ Level(b, n - 1) \in {0, 1}
  BY LevelType
<1>5. Majority(rx_dly) = Level(b, IF 3 <= r THEN n ELSE n - 1)
  <2>1. CASE 3 <= r
    <3>1. rx_dly[1] = Level(b, n) /\ rx_dly[2] = Level(b, n) /\ rx_dly[3] = Level(b, n)
      BY <1>3, <2>1
    <3>2. Majority(rx_dly) = Level(b, n)
      BY <1>2, <1>4, <3>1, MajorityIs
    <3> QED
      BY <2>1, <3>2
  <2>2. CASE ~(3 <= r)
    <3>1. rx_dly[3] = Level(b, n - 1) /\ rx_dly[4] = Level(b, n - 1) /\ rx_dly[5] = Level(b, n - 1)
      BY <1>3, <2>2
    <3>2. Majority(rx_dly) = Level(b, n - 1)
      BY <1>2, <1>4, <3>1, MajorityIs
    <3> QED
      BY <2>2, <3>2
  <2> QED
    BY <2>1, <2>2
<1>6. CASE m = n
  <2>1. q = r + 1
    BY <1>6
  <2>2. maj' = Level(b, IF 4 <= q THEN m ELSE m - 1)
    <3>1. 3 <= r <=> 4 <= q
      BY <2>1
    <3> QED
      BY <1>1, <1>5, <1>6, <3>1, Zenon
  <2>3. ASSUME NEW i \in 1 .. 5 PROVE rx_dly'[i] = Level(b, IF i <= q THEN m ELSE m - 1)
    <3>1. CASE i = 1
      BY <1>1, <1>3, <1>6, <2>1, <3>1
    <3>2. CASE i # 1
      <4>1. i \in 2 .. 5 /\ i - 1 \in 1 .. 5 /\ (i - 1 <= r <=> i <= q)
        BY <2>1, <3>2
      <4>2. rx_dly'[i] = rx_dly[i - 1]
        BY <1>1, <4>1, Zenon
      <4>3. rx_dly[i - 1] = Level(b, IF i - 1 <= r THEN n ELSE n - 1)
        BY <1>3, <4>1, Zenon
      <4> QED
        BY <1>6, <4>1, <4>2, <4>3, Zenon
    <3> QED
      BY <3>1, <3>2
  <2> QED
    BY <2>2, <2>3 DEF Wire
<1>7. CASE m = n + 1
  <2>1. q = 0 /\ r + 1 = t /\ m - 1 = n
    BY <1>7
  <2>2. maj' = Level(b, IF 4 <= q THEN m ELSE m - 1)
    <3>1. 3 <= r /\ ~(4 <= q)
      BY <2>1
    <3> QED
      BY <1>1, <1>5, <2>1, <3>1, Zenon
  <2>3. ASSUME NEW i \in 1 .. 5 PROVE rx_dly'[i] = Level(b, IF i <= q THEN m ELSE m - 1)
    <3>0. ~(i <= q)
      BY <2>1
    <3>1. CASE i = 1
      BY <1>1, <1>3, <2>1, <3>0, <3>1
    <3>2. CASE i # 1
      <4>1. i \in 2 .. 5 /\ i - 1 \in 1 .. 5 /\ i - 1 <= r
        BY <2>1, <3>2
      <4>2. rx_dly'[i] = rx_dly[i - 1]
        BY <1>1, <4>1, Zenon
      <4>3. rx_dly[i - 1] = Level(b, n)
        BY <1>3, <4>1, Zenon
      <4> QED
        BY <2>1, <3>0, <4>2, <4>3, Zenon
    <3> QED
      BY <3>1, <3>2
  <2> QED
    BY <2>2, <2>3 DEF Wire
<1> QED
  BY <1>6, <1>7

\* An idle line stays one in the filter.
LEMMA QuietStep ==
  ASSUME Types, Filter, line = 1, rx_dly = [i \in 1 .. 5 |-> 1]
  PROVE  rx_dly' = [i \in 1 .. 5 |-> 1] /\ maj' = 1
<1>1. /\ rx_dly' \in [1 .. 5 -> {0, 1}] /\ rx_dly'[1] = line
      /\ \A i \in 2 .. 5 : rx_dly'[i] = rx_dly[i - 1]
      /\ maj' = Majority(rx_dly)
  BY Filtered
<1>2. rx_dly \in [1 .. 5 -> {0, 1}]
  BY DEF Types
<1>3. \A i \in 1 .. 5 : rx_dly[i] = 1
  OBVIOUS
<1>4. rx_dly[1] = 1 /\ rx_dly[2] = 1 /\ rx_dly[3] = 1
  BY <1>3
<1>5. Majority(rx_dly) = 1
  BY <1>2, <1>4, MajorityIs
<1>6. \A i \in 1 .. 5 : rx_dly'[i] = 1
  BY <1>1, <1>3
<1>7. PICK d : d = rx_dly'
  OBVIOUS
<1>8. d = [i \in 1 .. 5 |-> 1]
  BY <1>1, <1>6, <1>7
<1> QED
  BY <1>1, <1>5, <1>7, <1>8, Zenon
-----------------------------------------------------------------------------
(* The receiver *)

\* A word is written exactly when a byte was received.
LEMMA Written ==
  ASSUME Handshake, RxFlags, u_recv' = received
  PROVE  wr_en' <=> recv_state = "RX_RECEIVED"
<1>1. received' = ((received /\ ~u_recv) \/ recv_state = "RX_RECEIVED")
  BY DEF RxFlags, Acked
<1>2. received => recv_state # "RX_RECEIVED"
  BY DEF Handshake
<1> QED
  BY <1>1, <1>2 DEF wr_en

\* The countdown runs by one clock, or is over.
LEMMA CountsStep ==
  ASSUME NEW c \in Nat, NEW base \in Nat, NEW e \in Nat, baud \in Nat, baud >= 1,
         Counts(base, c, e)
  PROVE  /\ rxCount # 0 /\ RxRuns(rxCount) => Counts(base, c, e + 1)'
         /\ rxCount = 0 => rxTick /\ e + 1 = base + c * baud
<1>1. /\ rx_countdown \in 1 .. c /\ rx_clk_divider \in 1 .. baud
      /\ e = base + (c + 1) * baud - rx_countdown * baud - rx_clk_divider
  BY DEF Counts
<1>2. PICK m \in Nat, d \in Nat : m = rx_countdown /\ d = rx_clk_divider
  BY <1>1
<1>3. /\ 1 <= m /\ m <= c /\ 1 <= d /\ d <= baud
      /\ e = base + (c + 1) * baud - m * baud - d
  BY <1>1, <1>2
<1>4. (c + 1) * baud = c * baud + baud /\ c * baud \in Nat /\ m * baud \in Nat
  OBVIOUS
<1>5. CASE d # 1
  <2>1. ~rxTick /\ rxCount = m
    BY <1>2, <1>5 DEF rxTick, rxCount
  <2>2. RxRuns(rxCount) => rx_clk_divider' = d - 1 /\ rx_countdown' = m
    BY <1>2, <2>1 DEF RxRuns
  <2>3. d - 1 \in 1 .. baud /\ m \in 1 .. c /\ e + 1 = base + (c + 1) * baud - m * baud - (d - 1)
    BY <1>3, <1>4, <1>5
  <2> QED
    BY <1>3, <2>1, <2>2, <2>3 DEF Counts
<1>6. CASE d = 1 /\ m # 1
  <2>1. rxTick /\ rxCount = m - 1
    BY <1>2, <1>6 DEF rxTick, rxCount
  <2>2. RxRuns(rxCount) => rx_clk_divider' = baud /\ rx_countdown' = m - 1
    BY <2>1 DEF RxRuns
  <2>3. (m - 1) * baud = m * baud - baud
    OBVIOUS
  <2>4. /\ baud \in 1 .. baud /\ m - 1 \in 1 .. c
        /\ e + 1 = base + (c + 1) * baud - (m - 1) * baud - baud
    BY <1>3, <1>4, <1>6, <2>3
  <2> QED
    BY <1>3, <1>6, <2>1, <2>2, <2>4 DEF Counts
<1>7. CASE d = 1 /\ m = 1
  <2>1. rxTick /\ rxCount = 0
    BY <1>2, <1>7 DEF rxTick, rxCount
  <2>2. e + 1 = base + c * baud
    BY <1>3, <1>4, <1>7
  <2> QED
    BY <2>1, <2>2
<1> QED
  BY <1>5, <1>6, <1>7

\* A countdown that starts.
LEMMA CountsStart ==
  ASSUME NEW c \in Nat \ {0}, NEW base \in Nat, baud \in Nat, baud >= 1,
         rx_countdown' = c, rx_clk_divider' = baud
  PROVE  Counts(base, c, base)'
<1>1. c \in 1 .. c /\ baud \in 1 .. baud /\ base = base + (c + 1) * baud - c * baud - baud
  OBVIOUS
<1> QED
  BY <1>1 DEF Counts

\* A countdown is over when its time is.
LEMMA CountsEnd ==
  ASSUME NEW c \in Nat, NEW base \in Nat, NEW e \in Nat, baud \in Nat, baud >= 1,
         base + c * baud <= e
  PROVE  ~Counts(base, c, e) /\ ~Counts(base, c, e)'
<1>1. ASSUME NEW m \in 1 .. c, NEW d \in 1 .. baud
      PROVE  e # base + (c + 1) * baud - m * baud - d
  <2>1. m * baud >= baud /\ m * baud \in Nat
    <3>1. PICK p \in Nat : m = p + 1
      <4>1. m - 1 \in Nat /\ m = (m - 1) + 1
        OBVIOUS
      <4> QED
        BY <4>1
    <3>2. m * baud = p * baud + baud /\ p * baud \in Nat
      BY <3>1, NextBit
    <3> QED
      BY <3>2
  <2>2. (c + 1) * baud = c * baud + baud /\ c * baud \in Nat
    BY NextBit
  <2> QED
    BY <2>1, <2>2
<1>2. ~Counts(base, c, e)
  BY <1>1, Zenon DEF Counts
<1>3. ~Counts(base, c, e)'
  BY <1>1, Zenon DEF Counts
<1> QED
  BY <1>2, <1>3

\* What one clock does to the receiver in a frame.
LEMMA ReceiveStep ==
  ASSUME Tolerance, Types, Handshake, Receive, u_recv' = received, Books(<<>>),
         NEW b \in Bytes, NEW t \in Times, NEW n \in 0 .. 9, NEW r \in Nat, r < t,
         Wire(b, n, r), NEW e \in Nat, e = n * t + r, Receives(b, e)
  PROVE  Receives(b, e + 1)'
<1>1. /\ t \in Nat /\ baud \in Nat /\ baud >= 3 /\ t >= 12
      /\ 9 * t <= 38 * baud /\ 38 * baud + 6 <= 10 * t
  BY TimesFit
<1>2. b \in [1 .. 8 -> {0, 1}] /\ rx_data \in [1 .. 8 -> {0, 1}]
  BY Baud DEF Types
<1>3. maj = Level(b, IF 4 <= r THEN n ELSE n - 1)
  BY DEF Wire
<1>4. RxFlags /\ (wr_en' <=> recv_state = "RX_RECEIVED")
  BY Written DEF Receive
<1>5. recv_state # "RX_RECEIVED" => due' = due
  <2>1. due' = (IF wr_en' THEN (IF due = <<>> THEN <<>> ELSE Tail(due)) ELSE due) \o <<>>
    BY DEF Books
  <2>2. due \in {<<>>, <<b>>}
    BY DEF Receives
  <2>3. <<>> \o <<>> = <<>> /\ <<b>> \o <<>> = <<b>>
    OBVIOUS
  <2>4. recv_state # "RX_RECEIVED" => due' = due \o <<>>
    BY <1>4, <2>1
  <2> QED
    BY <2>2, <2>3, <2>4
<1>6. ASSUME NEW k \in 0 .. 9, e = 4 * baud * k + 2 * baud + 4
      PROVE  maj = Level(b, k)
  <2>1. (IF 4 <= r THEN n ELSE n - 1) = k
    BY <1>6, Sampled
  <2> QED
    BY <1>3, <2>1, Zenon
<1>10. CASE recv_state = "RX_IDLE" /\ e <= 4 /\ due = <<b>>
  <2>1. RxIdle
    BY <1>10 DEF Receive, RxIdle, RxCheckStart, RxReadBits, RxCheckStop, RxDelayRestart, RxError, RxReceived
  <2>2. n = 0 /\ r = e
    <3>1. n # 0 => 1 * t <= n * t
      <4>1. n # 0 => 0 * t + t <= n * t
        BY <1>1, LaterBit
      <4> QED
        BY <1>1, <4>1
    <3>2. n # 0 => FALSE
      BY <1>1, <1>10, <3>1, NextBit
    <3>3. 0 * t = 0
      BY <1>1
    <3> QED
      BY <3>2, <3>3
  <2>3. CASE e = 4
    <3>1. maj = 0
      BY <1>2, <1>3, <2>2, <2>3, LevelType
    <3>2. recv_state' = "RX_CHECK_START" /\ rx_clk_divider' = baud /\ rx_countdown' = 2
      BY <2>1, <3>1 DEF RxIdle, HalfBit
    <3>3. Counts(5, 2, 5)'
      BY <1>1, <3>2, CountsStart
    <3>4. e + 1 = 5
      BY <2>3
    <3> QED
      BY <1>5, <1>10, <3>2, <3>3, <3>4, Zenon DEF Receives
  <2>4. CASE e # 4
    <3>1. maj = 1
      <4>1. ~(4 <= r) /\ n - 1 = -1
        BY <1>10, <2>2, <2>4
      <4> QED
        BY <1>2, <1>3, <4>1, LevelType
    <3>2. recv_state' = "RX_IDLE"
      BY <1>10, <2>1, <3>1 DEF RxIdle
    <3>3. e + 1 <= 4
      BY <1>10, <2>4
    <3> QED
      BY <1>5, <1>10, <3>2, <3>3 DEF Receives
  <2> QED
    BY <2>3, <2>4
<1>11. CASE recv_state = "RX_CHECK_START" /\ Counts(5, 2, e) /\ due = <<b>>
  <2>1. RxCheckStart
    BY <1>11 DEF Receive, RxIdle, RxCheckStart, RxReadBits, RxCheckStop, RxDelayRestart, RxError, RxReceived
  <2>2. CASE rxCount # 0
    <3>1. recv_state' = "RX_CHECK_START" /\ RxRuns(rxCount)
      BY <2>1, <2>2 DEF RxCheckStart
    <3>2. Counts(5, 2, e + 1)'
      BY <1>1, <1>11, <2>2, <3>1, CountsStep
    <3> QED
      BY <1>5, <1>11, <3>1, <3>2, Zenon DEF Receives
  <2>3. CASE rxCount = 0
    <3>1. rxTick /\ e + 1 = 5 + 2 * baud
      BY <1>1, <1>11, <2>3, CountsStep
    <3>2. maj = 0
      <4>1. 0 \in 0 .. 9 /\ e = 4 * baud * 0 + 2 * baud + 4
        BY <1>1, <3>1
      <4> QED
        BY <1>2, <1>6, <4>1, LevelType
    <3>3. /\ recv_state' = "RX_READ_BITS" /\ rx_bits_remaining' = 8
          /\ rx_clk_divider' = baud /\ rx_countdown' = 4
      BY <2>1, <2>3, <3>1, <3>2 DEF RxCheckStart, RxRuns
    <3>4. Counts(2 * baud + 5 + 4 * baud * 0, 4, e + 1)'
      <4>1. e + 1 = 2 * baud + 5 + 4 * baud * 0 /\ e + 1 \in Nat
        BY <1>1, <3>1
      <4>2. Counts(e + 1, 4, e + 1)'
        BY <1>1, <3>3, <4>1, CountsStart
      <4> QED
        BY <4>1, <4>2, Zenon
    <3>5. rx_bits_remaining' = 8 - 0 /\ 0 \in 0 .. 7 /\ \A i \in 1 .. 0 : rx_data'[8 - 0 + i] = b[i]
      BY <3>3
    <3> QED
      BY <1>5, <1>11, <3>3, <3>4, <3>5 DEF Receives
  <2> QED
    BY <2>2, <2>3
<1>12. CASE /\ recv_state = "RX_READ_BITS" /\ due = <<b>>
            /\ \E k \in 0 .. 7 : /\ rx_bits_remaining = 8 - k
                                 /\ Counts(2 * baud + 5 + 4 * baud * k, 4, e)
                                 /\ \A i \in 1 .. k : rx_data[8 - k + i] = b[i]
  <2>0. PICK k \in 0 .. 7 : /\ rx_bits_remaining = 8 - k
                            /\ Counts(2 * baud + 5 + 4 * baud * k, 4, e)
                            /\ \A i \in 1 .. k : rx_data[8 - k + i] = b[i]
    BY <1>12
  <2>1. RxReadBits
    BY <1>12 DEF Receive, RxIdle, RxCheckStart, RxReadBits, RxCheckStop, RxDelayRestart, RxError, RxReceived
  <2>2. PICK base \in Nat : base = 2 * baud + 5 + 4 * baud * k
    BY <1>1
  <2>3. Counts(base, 4, e)
    BY <2>0, <2>2, Zenon
  <2>4. CASE rxCount # 0
    <3>1. recv_state' = recv_state /\ RxRuns(rxCount) /\ rx_bits_remaining' = rx_bits_remaining /\ rx_data' = rx_data
      BY <2>1, <2>4 DEF RxReadBits
    <3>2. Counts(base, 4, e + 1)'
      BY <1>1, <2>3, <2>4, <3>1, CountsStep
    <3>3. Counts(2 * baud + 5 + 4 * baud * k, 4, e + 1)'
      BY <2>2, <3>2, Zenon
    <3> QED
      BY <1>5, <1>12, <2>0, <3>1, <3>3, Zenon DEF Receives
  <2>5. CASE rxCount = 0
    <3>1. rxTick /\ e + 1 = base + 4 * baud
      BY <1>1, <2>3, <2>5, CountsStep
    <3>2. maj = b[k + 1]
      <4>1. k + 1 \in 0 .. 9 /\ k + 1 \in 1 .. 8 /\ 4 * baud * (k + 1) = 4 * baud * k + 4 * baud
        BY <1>1
      <4>2. e = 4 * baud * (k + 1) + 2 * baud + 4
        BY <1>1, <2>2, <3>1, <4>1
      <4>3. maj = Level(b, k + 1)
        BY <1>6, <4>1, <4>2
      <4> QED
        BY <1>2, <4>1, <4>3, LevelType
    <3>3. /\ rx_data' = Append(Tail(rx_data), maj) /\ rx_bits_remaining' = rx_bits_remaining - 1
          /\ rx_clk_divider' = baud /\ rx_countdown' = 4
          /\ recv_state' = IF rx_bits_remaining' = 0 THEN "RX_CHECK_STOP" ELSE "RX_READ_BITS"
      BY <2>1, <2>5, <3>1 DEF RxReadBits, RxRuns
    <3>4. /\ rx_data' \in [1 .. 8 -> {0, 1}] /\ rx_data'[8] = b[k + 1]
          /\ \A i \in 1 .. 7 : rx_data'[i] = rx_data[i + 1]
      <4>1. maj \in {0, 1}
        BY <1>2, <3>2
      <4>2. 8 \in Nat \ {0} /\ 8 - 1 = 7
        OBVIOUS
      <4>3. PICK s : s = rx_data'
        OBVIOUS
      <4>4. s = Append(Tail(rx_data), maj)
        BY <3>3, <4>3, Zenon
      <4>5. ShiftedDown(s, 8, rx_data, maj)
        BY <1>2, <4>1, <4>2, <4>4, ShiftDown, Zenon
      <4>6. s \in [1 .. 8 -> {0, 1}] /\ s[8] = maj /\ \A i \in 1 .. 7 : s[i] = rx_data[i + 1]
        BY <4>5 DEF ShiftedDown
      <4> QED
        BY <3>2, <4>3, <4>6, Zenon
    <3>5. ASSUME NEW i \in 1 .. k + 1 PROVE rx_data'[7 - k + i] = b[i]
      <4>1. CASE i = k + 1
        <5>1. 7 - k + i = 8
          BY <4>1
        <5> QED
          BY <3>4, <4>1, <5>1
      <4>2. CASE i # k + 1
        <5>1. 7 - k + i \in 1 .. 7 /\ (7 - k + i) + 1 = 8 - k + i /\ i \in 1 .. k
          BY <4>2
        <5> QED
          BY <2>0, <3>4, <5>1
      <4> QED
        BY <4>1, <4>2
    <3>6. Counts(e + 1, 4, e + 1)'
      BY <1>1, <3>3, CountsStart
    <3>7. CASE k = 7
      <4>1. rx_bits_remaining' = 0 /\ recv_state' = "RX_CHECK_STOP"
        BY <2>0, <3>3, <3>7
      <4>2. \A i \in 1 .. 8 : rx_data'[i] = b[i]
        BY <3>5, <3>7
      <4>3. rx_data' = b
        BY <1>2, <3>4, <4>2
      <4>4. e + 1 = 34 * baud + 5
        BY <1>1, <2>2, <3>1, <3>7
      <4>5. Counts(34 * baud + 5, 4, e + 1)'
        BY <3>6, <4>4, Zenon
      <4> QED
        BY <1>5, <1>12, <4>1, <4>3, <4>5, Zenon DEF Receives
    <3>8. CASE k # 7
      <4>1. /\ k + 1 \in 0 .. 7 /\ rx_bits_remaining' = 8 - (k + 1) /\ rx_bits_remaining' # 0
        BY <2>0, <3>3, <3>8
      <4>2. recv_state' = "RX_READ_BITS"
        BY <3>3, <4>1
      <4>3. e + 1 = 2 * baud + 5 + 4 * baud * (k + 1)
        BY <1>1, <2>2, <3>1
      <4>4. Counts(2 * baud + 5 + 4 * baud * (k + 1), 4, e + 1)'
        BY <3>6, <4>3, Zenon
      <4>5. \A i \in 1 .. k + 1 : rx_data'[8 - (k + 1) + i] = b[i]
        <5>1. \A i \in 1 .. k + 1 : 8 - (k + 1) + i = 7 - k + i
          OBVIOUS
        <5> QED
          BY <3>5, <5>1
      <4> QED
        BY <1>5, <1>12, <4>1, <4>2, <4>4, <4>5, Zenon DEF Receives
    <3> QED
      BY <3>7, <3>8
  <2> QED
    BY <2>4, <2>5
<1>13. CASE recv_state = "RX_CHECK_STOP" /\ Counts(34 * baud + 5, 4, e) /\ rx_data = b /\ due = <<b>>
  <2>1. RxCheckStop
    BY <1>13 DEF Receive, RxIdle, RxCheckStart, RxReadBits, RxCheckStop, RxDelayRestart, RxError, RxReceived
  <2>2. PICK base \in Nat : base = 34 * baud + 5
    BY <1>1
  <2>3. Counts(base, 4, e) /\ RxRuns(rxCount) /\ rx_data' = rx_data
    BY <1>13, <2>1, <2>2 DEF RxCheckStop
  <2>4. CASE rxCount # 0
    <3>1. recv_state' = "RX_CHECK_STOP"
      BY <2>1, <2>4 DEF RxCheckStop
    <3>2. Counts(base, 4, e + 1)'
      BY <1>1, <2>3, <2>4, CountsStep
    <3>3. Counts(34 * baud + 5, 4, e + 1)'
      BY <2>2, <3>2, Zenon
    <3> QED
      BY <1>5, <1>13, <2>3, <3>1, <3>3, Zenon DEF Receives
  <2>5. CASE rxCount = 0
    <3>1. e + 1 = base + 4 * baud
      BY <1>1, <2>3, <2>5, CountsStep
    <3>2. maj = 1
      <4>1. 9 \in 0 .. 9 /\ e = 4 * baud * 9 + 2 * baud + 4
        BY <1>1, <2>2, <3>1
      <4> QED
        BY <1>2, <1>6, <4>1, LevelType
    <3>3. recv_state' = "RX_RECEIVED"
      BY <2>1, <2>5, <3>2 DEF RxCheckStop
    <3>4. e + 1 = 38 * baud + 5
      BY <1>1, <2>2, <3>1
    <3> QED
      BY <1>5, <1>13, <2>3, <3>3, <3>4 DEF Receives
  <2> QED
    BY <2>4, <2>5
<1>14. CASE recv_state = "RX_RECEIVED" /\ e = 38 * baud + 5 /\ rx_data = b /\ due = <<b>>
  <2>1. recv_state' = "RX_IDLE"
    BY <1>14 DEF Receive, RxIdle, RxCheckStart, RxReadBits, RxCheckStop, RxDelayRestart, RxError, RxReceived
  <2>2. due' = <<>>
    <3>1. due' = Tail(<<b>>) \o <<>>
      BY <1>4, <1>14 DEF Books
    <3> QED
      BY <3>1
  <2>3. e + 1 >= 38 * baud + 6
    BY <1>1, <1>14
  <2> QED
    BY <2>1, <2>2, <2>3 DEF Receives
<1>15. CASE recv_state = "RX_IDLE" /\ e >= 38 * baud + 6 /\ due = <<>>
  <2>1. RxIdle
    BY <1>15 DEF Receive, RxIdle, RxCheckStart, RxReadBits, RxCheckStop, RxDelayRestart, RxError, RxReceived
  <2>2. n = 9
    <3>1. n # 9 => n * t + t <= 9 * t
      BY <1>1, LaterBit
    <3> QED
      BY <1>1, <1>15, <3>1, NextBit
  <2>3. 4 <= r
    BY <1>1, <1>15, <2>2
  <2>4. maj = 1
    BY <1>2, <1>3, <2>2, <2>3, LevelType
  <2>5. recv_state' = "RX_IDLE"
    BY <1>15, <2>1, <2>4 DEF RxIdle
  <2>6. e + 1 >= 38 * baud + 6
    BY <1>1, <1>15
  <2> QED
    BY <1>5, <1>15, <2>5, <2>6 DEF Receives
<1> QED
  BY <1>10, <1>11, <1>12, <1>13, <1>14, <1>15 DEF Receives
-----------------------------------------------------------------------------
(* The senders *)

\* A clock of the transmitter in a frame: it stays in a bit, goes on to the next, or
\* the stop bit is over and the line stays idle.
LEMMA TxStep ==
  ASSUME Types, NEW b \in [1 .. 8 -> {0, 1}], NEW t, NEW n \in 0 .. 9, NEW r \in Nat,
         TxSends(b, t, n, r), Transmit, loop' = loop
  PROVE  \/ r + 1 < t /\ TxSends(b, t, n, r + 1)' /\ tx_out'[1] = Level(b, n)
         \/ r + 1 = t /\ n < 9 /\ TxSends(b, t, n + 1, 0)' /\ tx_out'[1] = Level(b, n + 1)
         \/ r + 1 = t /\ n = 9 /\ tx_state' # "TX_SENDING" /\ tx_out'[1] = 1
<1>1. /\ loop /\ t = 4 * baud /\ tx_state = "TX_SENDING" /\ tx_bits_remaining = 9 - n
      /\ tx_countdown \in 1 .. 4 /\ tx_clk_divider \in 1 .. baud
      /\ r = 5 * baud - tx_countdown * baud - tx_clk_divider
      /\ \A i \in 1 .. 9 : tx_out[i] = Level(b, n + i - 1)
  BY DEF TxSends
<1>2. TxSending
  BY <1>1 DEF Transmit, TxIdle, TxSending, TxDelayRestart
<1>3. baud \in Nat /\ baud >= 1
  BY Baud
<1>4. PICK m \in 1 .. 4, d \in 1 .. baud : m = tx_countdown /\ d = tx_clk_divider
  BY <1>1
<1>5. r = 5 * baud - m * baud - d
  BY <1>1, <1>4
<1>6. tx_out[1] = Level(b, n)
  <2>1. n + 1 - 1 = n
    OBVIOUS
  <2> QED
    BY <1>1, <2>1
<1>7. CASE ~(d = 1 /\ m = 1)
  <2>1. txCount # 0
    BY <1>4, <1>7 DEF txCount, txTick
  <2>2. TxRuns(txCount) /\ UNCHANGED <<tx_state, tx_bits_remaining, tx_out>>
    BY <1>2, <2>1 DEF TxSending
  <2>3. /\ tx_countdown' \in 1 .. 4 /\ tx_clk_divider' \in 1 .. baud
        /\ r + 1 = 5 * baud - tx_countdown' * baud - tx_clk_divider'
    <3>1. CASE d # 1
      <4>1. tx_clk_divider' = d - 1 /\ tx_countdown' = m
        BY <1>4, <2>2, <3>1 DEF TxRuns, txCount, txTick
      <4>2. d - 1 \in 1 .. baud /\ r + 1 = 5 * baud - m * baud - (d - 1)
        BY <1>3, <1>5, <3>1
      <4> QED
        BY <4>1, <4>2
    <3>2. CASE d = 1
      <4>1. tx_clk_divider' = baud /\ tx_countdown' = m - 1
        BY <1>4, <2>2, <3>2 DEF TxRuns, txCount, txTick
      <4>2. m - 1 \in 1 .. 4 /\ baud \in 1 .. baud
        BY <1>3, <1>7, <3>2
      <4>3. (m - 1) * baud = m * baud - baud
        BY <1>3
      <4>4. r + 1 = 5 * baud - (m - 1) * baud - baud
        BY <1>3, <1>5, <3>2, <4>3
      <4> QED
        BY <4>1, <4>2, <4>4
    <3> QED
      BY <3>1, <3>2
  <2>4. r + 1 < t
    <3>1. m * baud + d >= baud + 2
      <4>1. CASE m = 1
        BY <1>3, <1>7, <4>1
      <4>2. CASE m = 2
        BY <1>3, <4>2
      <4>3. CASE m = 3
        BY <1>3, <4>3
      <4>4. CASE m = 4
        BY <1>3, <4>4
      <4> QED
        BY <4>1, <4>2, <4>3, <4>4
    <3> QED
      BY <1>1, <1>3, <1>5, <3>1
  <2>5. TxSends(b, t, n, r + 1)'
    BY <1>1, <2>2, <2>3 DEF TxSends
  <2> QED
    BY <1>6, <2>2, <2>4, <2>5
<1>8. CASE d = 1 /\ m = 1
  <2>1. txCount = 0 /\ txTick
    BY <1>4, <1>8 DEF txCount, txTick
  <2>2. r + 1 = t
    BY <1>1, <1>3, <1>5, <1>8
  <2>3. CASE n = 9
    <3>1. tx_state' = "TX_DELAY_RESTART" /\ tx_out' = tx_out
      BY <1>1, <1>2, <2>1, <2>3 DEF TxSending
    <3>2. tx_out[1] = 1
      BY <1>6, <2>3, LevelType
    <3> QED
      BY <2>2, <2>3, <3>1, <3>2
  <2>4. CASE n # 9
    <3>1. /\ tx_bits_remaining' = tx_bits_remaining - 1 /\ tx_out' = Append(Tail(tx_out), 1)
          /\ tx_clk_divider' = baud /\ tx_countdown' = 4 /\ tx_state' = tx_state
      <4>1. tx_bits_remaining # 0
        BY <1>1, <2>4
      <4>2. /\ tx_bits_remaining' = tx_bits_remaining - 1 /\ tx_out' = Append(Tail(tx_out), 1)
            /\ TxRuns(4) /\ tx_state' = tx_state
        BY <1>2, <2>1, <4>1, Zenon DEF TxSending
      <4> QED
        BY <2>1, <4>2 DEF TxRuns
    <3>2. tx_out'[9] = 1 /\ \A i \in 1 .. 8 : tx_out'[i] = tx_out[i + 1]
      <4>1. 9 \in Nat \ {0} /\ 9 - 1 = 8 /\ tx_out \in [1 .. 9 -> {0, 1}] /\ 1 \in {0, 1}
        BY DEF Types
      <4>2. PICK s : s = tx_out'
        OBVIOUS
      <4>3. s = Append(Tail(tx_out), 1)
        BY <3>1, <4>2, Zenon
      <4>4. ShiftedDown(s, 9, tx_out, 1)
        BY <4>1, <4>3, ShiftDown, Zenon
      <4>5. s[9] = 1 /\ \A i \in 1 .. 8 : s[i] = tx_out[i + 1]
        BY <4>4 DEF ShiftedDown
      <4> QED
        BY <4>2, <4>5, Zenon
    <3>3. \A i \in 1 .. 9 : tx_out'[i] = Level(b, (n + 1) + i - 1)
      <4> SUFFICES ASSUME NEW i \in 1 .. 9 PROVE tx_out'[i] = Level(b, (n + 1) + i - 1)
        OBVIOUS
      <4>1. CASE i = 9
        <5>1. (n + 1) + i - 1 >= 9
          BY <4>1
        <5> QED
          BY <3>2, <4>1, <5>1, LevelType
      <4>2. CASE i # 9
        <5>1. i \in 1 .. 8 /\ i + 1 \in 1 .. 9 /\ n + (i + 1) - 1 = (n + 1) + i - 1
          BY <4>2
        <5>2. tx_out'[i] = Level(b, n + (i + 1) - 1)
          BY <1>1, <3>2, <5>1
        <5> QED
          BY <5>1, <5>2, Zenon
      <4> QED
        BY <4>1, <4>2
    <3>4. /\ tx_bits_remaining' = 9 - (n + 1) /\ 4 \in 1 .. 4 /\ baud \in 1 .. baud
          /\ 0 = 5 * baud - 4 * baud - baud
      BY <1>1, <1>3, <3>1
    <3>5. TxSends(b, t, n + 1, 0)'
      BY <1>1, <3>1, <3>3, <3>4 DEF TxSends
    <3>6. tx_out'[1] = Level(b, n + 1)
      <4>1. 1 \in 1 .. 9 /\ (n + 1) + 1 - 1 = n + 1
        OBVIOUS
      <4> QED
        BY <3>3, <4>1
    <3> QED
      BY <2>2, <2>4, <3>5, <3>6
  <2> QED
    BY <2>3, <2>4
<1> QED
  BY <1>7, <1>8

\* The remote sender's bits stay a sequence.
LEMMA BitsStep ==
  ASSUME Types, RemoteIdle \/ RemoteRuns
  PROVE  bits' \in Seq({0, 1})
<1>1. bits \in Seq({0, 1})
  BY DEF Types
<1>2. CASE bits' = bits
  BY <1>1, <1>2
<1>3. CASE bits # <<>> /\ bits' = Tail(bits)
  <2>1. Tail(bits) \in Seq({0, 1})
    BY <1>1, <1>3
  <2> QED
    BY <1>3, <2>1
<1> QED
  BY <1>2, <1>3 DEF RemoteIdle, RemoteRuns, remoteVars

\* A clock of the remote sender in a frame, likewise.
LEMMA RemoteStep ==
  ASSUME Types, NEW b \in [1 .. 8 -> {0, 1}], NEW t \in Nat, NEW n \in 0 .. 9, NEW r \in Nat,
         r < t, RemoteSends(b, t, n, r), RemoteIdle \/ RemoteRuns, loop' = loop
  PROVE  \/ r + 1 < t /\ RemoteSends(b, t, n, r + 1)' /\ bits' # <<>> /\ bits'[1] = Level(b, n)
         \/ /\ r + 1 = t /\ n < 9 /\ RemoteSends(b, t, n + 1, 0)'
            /\ bits' # <<>> /\ bits'[1] = Level(b, n + 1)
         \/ r + 1 = t /\ n = 9 /\ \A i \in 1 .. Len(bits') : bits'[i] = 1
<1>1. /\ ~loop /\ bitTime = t /\ left = t - r /\ Len(bits) >= 10 - n
      /\ \A i \in 1 .. Len(bits) : bits[i] = Level(b, n + i - 1)
  BY DEF RemoteSends
<1>2. bits \in Seq({0, 1}) /\ Len(bits) \in Nat /\ Len(bits) >= 1 /\ bits # <<>>
  BY <1>1 DEF Types
<1>3. RemoteRuns
  BY <1>2 DEF RemoteIdle
<1>4. CASE left > 1
  <2>1. left' = left - 1 /\ bits' = bits /\ bitTime' = bitTime
    BY <1>3, <1>4 DEF RemoteRuns
  <2>2. r + 1 < t /\ left' = t - (r + 1)
    BY <1>1, <1>4, <2>1
  <2>3. RemoteSends(b, t, n, r + 1)'
    BY <1>1, <2>1, <2>2 DEF RemoteSends
  <2>4. bits[1] = Level(b, n)
    <3>1. n + 1 - 1 = n /\ 1 \in 1 .. Len(bits)
      BY <1>2
    <3> QED
      BY <1>1, <3>1
  <2> QED
    BY <1>2, <2>1, <2>2, <2>3, <2>4
<1>5. CASE ~(left > 1)
  <2>1. bits' = Tail(bits) /\ left' = bitTime /\ bitTime' = bitTime
    BY <1>3, <1>5 DEF RemoteRuns
  <2>2. r + 1 = t
    BY <1>1, <1>5
  <2>3. PICK s : s = bits'
    OBVIOUS
  <2>4. s \in Seq({0, 1}) /\ Len(s) = Len(bits) - 1 /\ \A i \in 1 .. Len(s) : s[i] = bits[i + 1]
    <3>1. s = Tail(bits)
      BY <2>1, <2>3, Zenon
    <3> QED
      BY <1>2, <3>1
  <2>5. \A i \in 1 .. Len(s) : s[i] = Level(b, (n + 1) + i - 1)
    <3> SUFFICES ASSUME NEW i \in 1 .. Len(s) PROVE s[i] = Level(b, (n + 1) + i - 1)
      OBVIOUS
    <3>1. i + 1 \in 1 .. Len(bits) /\ n + (i + 1) - 1 = (n + 1) + i - 1
      BY <1>2, <2>4
    <3>2. s[i] = Level(b, n + (i + 1) - 1)
      BY <1>1, <2>4, <3>1
    <3> QED
      BY <3>1, <3>2, Zenon
  <2>6. CASE n = 9
    <3>1. ASSUME NEW i \in 1 .. Len(s) PROVE s[i] = 1
      <4>1. (n + 1) + i - 1 >= 9 /\ (n + 1) + i - 1 \in Int
        BY <2>4, <2>6
      <4> QED
        BY <2>5, <4>1, LevelType, SMTT(40)
    <3>2. \A i \in 1 .. Len(bits') : bits'[i] = 1
      BY <2>3, <3>1, Zenon
    <3> QED
      BY <2>2, <2>6, <3>2
  <2>7. CASE n # 9
    <3>1. n < 9 /\ Len(s) >= 10 - (n + 1) /\ Len(s) >= 1
      BY <1>1, <1>2, <2>4, <2>7
    <3>2. s # <<>> /\ s[1] = Level(b, n + 1)
      <4>1. 1 \in 1 .. Len(s) /\ (n + 1) + 1 - 1 = n + 1
        BY <2>4, <3>1
      <4>2. s[1] = Level(b, n + 1)
        BY <2>5, <4>1
      <4> QED
        BY <3>1, <4>2
    <3>3. bitTime' = t /\ left' = t - 0 /\ ~loop'
      BY <1>1, <2>1
    <3>4. Len(bits') >= 10 - (n + 1) /\ \A i \in 1 .. Len(bits') : bits'[i] = Level(b, (n + 1) + i - 1)
      BY <2>3, <2>5, <3>1, Zenon
    <3>5. RemoteSends(b, t, n + 1, 0)'
      BY <3>3, <3>4, Zenon DEF RemoteSends
    <3>6. bits' # <<>> /\ bits'[1] = Level(b, n + 1)
      BY <2>3, <3>2, Zenon
    <3> QED
      BY <2>2, <3>1, <3>5, <3>6
  <2> QED
    BY <2>6, <2>7
<1> QED
  BY <1>4, <1>5
-----------------------------------------------------------------------------
(* The steps *)

\* What every clock does, whoever drives the line.
LEMMA ClockParts ==
  ASSUME Clock
  PROVE  /\ Receive /\ RxFlags /\ Transmit /\ Filter /\ u_recv' = received /\ Pin /\ loop' = loop
         /\ erred' = (recv_state = "RX_ERROR" \/ (erred /\ ~wr_en))
         /\ glitched => glitched'
<1>1. Edge /\ Pin
  BY DEF Clock
<1>2. erred' = (recv_state = "RX_ERROR" \/ (erred /\ ~wr_en))
  BY DEF Clock, Books
<1>3. glitched => glitched'
  BY DEF Clock
<1> QED
  BY <1>1, <1>2, <1>3 DEF Edge, Receive, Pin

\* A clock on which no frame and no pulse begins.
Runs ==
  /\ DriverElsewhere /\ (RemoteIdle \/ RemoteRuns)
  /\ Books(<<>>) /\ UNCHANGED glitched

\* Nothing begins while something is sent.
LEMMA OnlyRuns ==
  ASSUME Clock, Driving, (loop /\ (tx_state = "TX_SENDING" \/ u_trans)) \/ (~loop /\ bits # <<>>)
  PROVE  Runs
<1>1. ~Poll
  BY DEF Poll, is_transmitting, Driving
<1>2. \A b \in Bytes : ~WriteByte(b)
  BY DEF WriteByte, Driving
<1>3. ~loop => bits # <<>>
  OBVIOUS
<1> QED
  BY <1>1, <1>2, <1>3, Zenon DEF Clock, Runs, RemoteStart, Noise

\* A frame goes on, and ends with the line idle and its byte in the FIFO.
LEMMA FrameStep ==
  ASSUME Tolerance, Types, Handshake, Driving, Clock,
         NEW b \in Bytes, NEW t \in Times, NEW n \in 0 .. 9, NEW r \in Nat, r < t,
         Framing(b, t, n, r)
  PROVE  Phase'
<1>0. /\ t \in Nat /\ baud \in Nat /\ baud >= 3 /\ t >= 12
      /\ 9 * t <= 38 * baud /\ 38 * baud + 6 <= 10 * t
  BY TimesFit
<1>1. b \in [1 .. 8 -> {0, 1}]
  BY Baud
<1>2. /\ Receive /\ Transmit /\ Filter /\ u_recv' = received /\ Pin /\ loop' = loop
  BY ClockParts
<1>3. (TxSends(b, t, n, r) \/ RemoteSends(b, t, n, r)) /\ Wire(b, n, r) /\ Receives(b, n * t + r)
  BY DEF Framing
<1>4. Runs
  <2>1. TxSends(b, t, n, r) => loop /\ tx_state = "TX_SENDING"
    BY DEF TxSends
  <2>2. RemoteSends(b, t, n, r) => ~loop /\ bits # <<>>
    <3>1. Len(<<>>) = 0
      OBVIOUS
    <3>2. RemoteSends(b, t, n, r) => Len(bits) # 0 /\ ~loop
      BY DEF RemoteSends, Types
    <3> QED
      BY <3>1, <3>2, Zenon
  <2> QED
    BY <1>3, <2>1, <2>2, OnlyRuns
<1>5. ~u_trans' /\ Books(<<>>) /\ (RemoteIdle \/ RemoteRuns)
  BY <1>4 DEF Runs, DriverElsewhere
<1>6. PICK e \in Nat : e = n * t + r
  BY <1>0, NextBit
<1>7. Receives(b, e + 1)'
  <2>1. Receives(b, e)
    BY <1>3, <1>6, Zenon
  <2> QED
    BY <1>2, <1>3, <1>5, <1>6, <2>1, ReceiveStep
<1>8. ASSUME r + 1 < t, TxSends(b, t, n, r + 1)' \/ RemoteSends(b, t, n, r + 1)', line' = Level(b, n)
      PROVE  Phase'
  <2>1. Wire(b, n, r + 1)'
    BY <1>0, <1>1, <1>2, <1>3, <1>8, WireStep
  <2>2. n * t + (r + 1) = e + 1
    BY <1>0, <1>6, NextBit
  <2>3. Receives(b, n * t + (r + 1))'
    BY <1>7, <2>2, Zenon
  <2>4. Framing(b, t, n, r + 1)'
    BY <1>5, <1>8, <2>1, <2>3, Zenon DEF Framing
  <2>5. r + 1 \in Nat
    OBVIOUS
  <2> QED
    BY <1>8, <2>4, <2>5, Zenon DEF Phase
<1>9. ASSUME r + 1 = t, n < 9, TxSends(b, t, n + 1, 0)' \/ RemoteSends(b, t, n + 1, 0)',
             line' = Level(b, n + 1)
      PROVE  Phase'
  <2>1. Wire(b, n + 1, 0)'
    <3>1. n + 1 # n /\ 0 \in Nat
      OBVIOUS
    <3> QED
      BY <1>0, <1>1, <1>2, <1>3, <1>9, <3>1, WireStep
  <2>2. (n + 1) * t + 0 = e + 1
    BY <1>0, <1>6, <1>9, NextBit
  <2>3. Receives(b, (n + 1) * t + 0)'
    BY <1>7, <2>2, Zenon
  <2>4. Framing(b, t, n + 1, 0)'
    BY <1>5, <1>9, <2>1, <2>3, Zenon DEF Framing
  <2>5. n + 1 \in 0 .. 9 /\ 0 \in Nat /\ 0 < t
    BY <1>0, <1>9
  <2> QED
    BY <2>4, <2>5, Zenon DEF Phase
<1>10. ASSUME r + 1 = t, n = 9, line' = 1,
              (loop /\ tx_state' # "TX_SENDING" /\ tx_out'[1] = 1)
              \/ (~loop /\ \A i \in 1 .. Len(bits') : bits'[i] = 1)
       PROVE  Phase'
  <2>1. e + 1 >= 38 * baud + 6
    BY <1>0, <1>6, <1>10
  <2>2. recv_state' = "RX_IDLE" /\ due' = <<>>
    <3>1. \A base, c : base \in Nat /\ c \in Nat /\ base + c * baud <= e + 1 => ~Counts(base, c, e + 1)'
      BY <1>0, CountsEnd
    <3>2. ~Counts(5, 2, e + 1)' /\ ~Counts(34 * baud + 5, 4, e + 1)'
      <4>1. 5 \in Nat /\ 2 \in Nat /\ 5 + 2 * baud <= e + 1
        BY <1>0, <2>1
      <4>2. 34 * baud + 5 \in Nat /\ 4 \in Nat /\ 34 * baud + 5 + 4 * baud <= e + 1
        BY <1>0, <2>1
      <4> QED
        BY <3>1, <4>1, <4>2, Zenon
    <3>3. \A k \in 0 .. 7 : ~Counts(2 * baud + 5 + 4 * baud * k, 4, e + 1)'
      <4> SUFFICES ASSUME NEW k \in 0 .. 7 PROVE ~Counts(2 * baud + 5 + 4 * baud * k, 4, e + 1)'
        OBVIOUS
      <4>1. 4 * baud * k \in Nat /\ 4 * baud * k <= 28 * baud
        <5>1. k \in {0, 1, 2, 3, 4, 5, 6, 7}
          OBVIOUS
        <5> QED
          BY <1>0, <5>1
      <4>2. 2 * baud + 5 + 4 * baud * k \in Nat /\ 4 \in Nat
            /\ 2 * baud + 5 + 4 * baud * k + 4 * baud <= e + 1
        BY <1>0, <2>1, <4>1
      <4> QED
        BY <3>1, <4>2, Zenon
    <3>4. ~(e + 1 <= 4) /\ e + 1 # 38 * baud + 5
      BY <1>0, <2>1
    <3> QED
      BY <1>7, <3>2, <3>3, <3>4, Zenon DEF Receives
  <2>3. rx_dly' = [i \in 1 .. 5 |-> 1] /\ maj' = 1
    <3>1. Level(b, 9) = 1
      BY <1>1, LevelType
    <3>2. line = 1 /\ \A i \in 1 .. 4 : rx_dly[i] = 1
      <4>1. \A i \in 1 .. 4 : i <= r /\ i \in 1 .. 5
        BY <1>0, <1>10
      <4> QED
        BY <1>3, <1>10, <3>1, <4>1, Zenon DEF Wire
    <3>3. /\ rx_dly' \in [1 .. 5 -> {0, 1}] /\ rx_dly'[1] = line
          /\ \A i \in 2 .. 5 : rx_dly'[i] = rx_dly[i - 1]
          /\ maj' = Majority(rx_dly)
      BY <1>2, Filtered
    <3>4. Majority(rx_dly) = 1
      <4>1. rx_dly \in [1 .. 5 -> {0, 1}] /\ rx_dly[1] = 1 /\ rx_dly[2] = 1 /\ rx_dly[3] = 1
        BY <3>2 DEF Types
      <4> QED
        BY <4>1, MajorityIs
    <3>5. \A i \in 1 .. 5 : rx_dly'[i] = 1
      BY <3>2, <3>3
    <3>6. PICK d : d = rx_dly'
      OBVIOUS
    <3>7. d = [i \in 1 .. 5 |-> 1]
      BY <3>3, <3>5, <3>6
    <3> QED
      BY <3>3, <3>4, <3>6, <3>7, Zenon
  <2>4. Quiet'
    BY <1>10, <2>2, <2>3 DEF Quiet
  <2>5. Silent'
    BY <1>2, <1>5, <1>10, <2>2, <2>4 DEF Silent
  <2> QED
    BY <2>5, Zenon DEF Phase
<1>11. CASE TxSends(b, t, n, r)
  <2>1. loop
    BY <1>11 DEF TxSends
  <2>2. line' = tx_out'[1]
    BY <1>2, <2>1 DEF Pin
  <2>3. \/ r + 1 < t /\ TxSends(b, t, n, r + 1)' /\ tx_out'[1] = Level(b, n)
        \/ r + 1 = t /\ n < 9 /\ TxSends(b, t, n + 1, 0)' /\ tx_out'[1] = Level(b, n + 1)
        \/ r + 1 = t /\ n = 9 /\ tx_state' # "TX_SENDING" /\ tx_out'[1] = 1
    BY <1>1, <1>2, <1>11, TxStep
  <2> QED
    BY <1>8, <1>9, <1>10, <2>1, <2>2, <2>3, Zenon
<1>12. CASE RemoteSends(b, t, n, r)
  <2>1. ~loop
    BY <1>12 DEF RemoteSends
  <2>2. line' = IF bits' = <<>> THEN 1 ELSE bits'[1]
    BY <1>2, <2>1 DEF Pin
  <2>3. \/ r + 1 < t /\ RemoteSends(b, t, n, r + 1)' /\ bits' # <<>> /\ bits'[1] = Level(b, n)
        \/ /\ r + 1 = t /\ n < 9 /\ RemoteSends(b, t, n + 1, 0)'
           /\ bits' # <<>> /\ bits'[1] = Level(b, n + 1)
        \/ r + 1 = t /\ n = 9 /\ \A i \in 1 .. Len(bits') : bits'[i] = 1
    BY <1>0, <1>1, <1>2, <1>5, <1>12, RemoteStep
  <2>4. (\A i \in 1 .. Len(bits') : bits'[i] = 1) => line' = 1
    <3>1. bits' # <<>> => 1 \in 1 .. Len(bits')
      <4>1. bits' \in Seq({0, 1})
        BY <1>5, BitsStep
      <4> QED
        BY <4>1
    <3> QED
      BY <2>2, <3>1
  <2> QED
    BY <1>8, <1>9, <1>10, <2>1, <2>2, <2>3, <2>4, Zenon
<1> QED
  BY <1>3, <1>11, <1>12

\* A clock on an idle line, whatever begins on it.
LEMMA QuietClock ==
  ASSUME Types, Handshake, Clock, Quiet
  PROVE  rx_dly' = [i \in 1 .. 5 |-> 1] /\ maj' = 1 /\ recv_state' = "RX_IDLE" /\ ~wr_en'
<1>1. Receive /\ RxFlags /\ Filter /\ u_recv' = received
  BY ClockParts
<1>2. line = 1 /\ rx_dly = [i \in 1 .. 5 |-> 1] /\ maj = 1 /\ recv_state = "RX_IDLE"
  BY DEF Quiet
<1>3. rx_dly' = [i \in 1 .. 5 |-> 1] /\ maj' = 1
  BY <1>1, <1>2, QuietStep
<1>4. RxIdle
  BY <1>1, <1>2 DEF Receive, RxIdle, RxCheckStart, RxReadBits, RxCheckStop, RxDelayRestart, RxError, RxReceived
<1>5. recv_state' = "RX_IDLE"
  BY <1>2, <1>4 DEF RxIdle
<1>6. ~wr_en'
  BY <1>1, <1>2, Written
<1> QED
  BY <1>3, <1>5, <1>6

\* A remote sender with nothing but ones to send leaves the line idle.
LEMMA OnesStep ==
  ASSUME Types, ~loop, RemoteIdle \/ RemoteRuns, Pin, \A i \in 1 .. Len(bits) : bits[i] = 1
  PROVE  line' = 1 /\ \A i \in 1 .. Len(bits') : bits'[i] = 1
<1>1. bits \in Seq({0, 1})
  BY DEF Types
<1>2. PICK s : s = bits'
  OBVIOUS
<1>3. s \in Seq({0, 1}) /\ \A i \in 1 .. Len(s) : s[i] = 1
  <2>1. CASE s = bits
    BY <1>1, <2>1
  <2>2. CASE bits # <<>> /\ s = Tail(bits)
    <3>1. s \in Seq({0, 1}) /\ Len(s) = Len(bits) - 1 /\ \A i \in 1 .. Len(s) : s[i] = bits[i + 1]
      BY <1>1, <2>2
    <3> QED
      BY <1>1, <3>1
  <2> QED
    BY <1>2, <2>1, <2>2 DEF RemoteIdle, RemoteRuns, remoteVars
<1>4. line' = IF s = <<>> THEN 1 ELSE s[1]
  BY <1>2 DEF Pin
<1>5. s # <<>> => 1 \in 1 .. Len(s)
  BY <1>3
<1>6. line' = 1
  BY <1>3, <1>4, <1>5
<1> QED
  BY <1>2, <1>3, <1>6, Zenon

\* From the idle line a frame, a byte for the transmitter or a pulse may begin.
LEMMA SilentStep ==
  ASSUME Tolerance, Types, Handshake, Driving, Clock, Silent
  PROVE  Phase'
<1>0. baud \in Nat /\ baud >= 3 /\ Bytes \subseteq [1 .. 8 -> {0, 1}]
  BY Baud DEF Tolerance
<1>1. /\ Receive /\ Transmit /\ Filter /\ u_recv' = received /\ Pin /\ loop' = loop
  BY ClockParts
<1>2. /\ Quiet /\ due = <<>> /\ ~u_trans
      /\ loop => tx_state # "TX_SENDING" /\ tx_out[1] = 1
      /\ ~loop => \A i \in 1 .. Len(bits) : bits[i] = 1
  BY DEF Silent
<1>3. rx_dly' = [i \in 1 .. 5 |-> 1] /\ maj' = 1 /\ recv_state' = "RX_IDLE" /\ ~wr_en'
  BY <1>2, QuietClock
<1>4. ASSUME NEW begun, Books(begun) PROVE due' = <<>> \o begun
  BY <1>2, <1>3, <1>4 DEF Books
<1>5. loop => tx_state' # "TX_SENDING" /\ tx_out'[1] = 1 /\ line' = 1
  <2> SUFFICES ASSUME loop PROVE tx_state' # "TX_SENDING" /\ tx_out'[1] = 1 /\ line' = 1
    OBVIOUS
  <2>1. tx_state' # "TX_SENDING" /\ tx_out' = tx_out
    <3>1. CASE TxIdle
      BY <1>2, <3>1 DEF TxIdle, txVars
    <3>2. CASE TxDelayRestart
      BY <3>2 DEF TxDelayRestart
    <3>3. ~TxSending
      BY <1>2 DEF TxSending
    <3> QED
      BY <1>1, <3>1, <3>2, <3>3 DEF Transmit
  <2>2. line' = tx_out'[1]
    BY <1>1 DEF Pin
  <2> QED
    BY <1>2, <2>1, <2>2, Zenon
<1>6. ASSUME DriverElsewhere \/ Poll, RemoteIdle \/ RemoteRuns, Books(<<>>)
      PROVE  Phase'
  <2>1. due' = <<>>
    <3>1. <<>> \o <<>> = <<>>
      OBVIOUS
    <3> QED
      BY <1>4, <1>6, <3>1, Zenon
  <2>2. ~u_trans'
    BY <1>6 DEF DriverElsewhere, Poll
  <2>3. ~loop => line' = 1 /\ \A i \in 1 .. Len(bits') : bits'[i] = 1
    BY <1>1, <1>2, <1>6, OnesStep
  <2>4. Quiet'
    BY <1>3, <1>5, <2>3 DEF Quiet
  <2>5. Silent'
    BY <1>1, <1>5, <2>1, <2>2, <2>3, <2>4 DEF Silent
  <2> QED
    BY <2>5, Zenon DEF Phase
<1>7. ASSUME NEW b \in Bytes, WriteByte(b), Books(<<b>>) PROVE Phase'
  <2>1. loop
    BY <1>7 DEF WriteByte, Driving
  <2>2. due' = <<b>>
    <3>1. <<>> \o <<b>> = <<b>>
      OBVIOUS
    <3> QED
      BY <1>4, <1>7, <3>1, Zenon
  <2>3. Quiet'
    BY <1>3, <1>5, <2>1 DEF Quiet
  <2>4. u_trans' /\ u_tx_byte' = b
    BY <1>7 DEF WriteByte
  <2>5. Pending'
    BY <2>2, <2>3, <2>4 DEF Pending
  <2> QED
    BY <2>5, Zenon DEF Phase
<1>8. ASSUME NEW b \in Bytes, ~loop, DriverElsewhere, RemoteStart(b), Books(<<b>>) PROVE Phase'
  <2>1. b \in [1 .. 8 -> {0, 1}]
    BY <1>0
  <2>2. PICK t \in BitTimes, s \in StopBits : bitTime' = t /\ left' = t /\ bits' = << 0 >> \o b \o Ones(s)
    BY <1>8 DEF RemoteStart
  <2>3. t \in Times /\ t \in Nat /\ t >= 12 /\ s \in Nat \ {0}
    <3>1. t \in Times
      BY DEF Times
    <3>2. s \in Nat \ {0}
      BY UartAssumption
    <3> QED
      BY <3>1, <3>2, TimesFit
  <2>4. PICK u : u = bits'
    OBVIOUS
  <2>5. u \in Seq({0, 1}) /\ Len(u) >= 10 /\ \A i \in 1 .. Len(u) : u[i] = Level(b, i - 1)
    <3>1. u = << 0 >> \o b \o Ones(s)
      BY <2>2, <2>4, Zenon
    <3> QED
      BY <2>1, <2>3, <3>1, RemoteFrame
  <2>6. \A i \in 1 .. Len(u) : u[i] = Level(b, 0 + i - 1)
    <3>1. \A i \in 1 .. Len(u) : 0 + i - 1 = i - 1
      OBVIOUS
    <3> QED
      BY <2>5, <3>1
  <2>7. RemoteSends(b, t, 0, 0)'
    <3>1. t = t - 0 /\ Len(u) >= 10 - 0
      BY <2>3, <2>5
    <3>2. ~loop' /\ bitTime' = t /\ left' = t - 0
      BY <1>1, <1>8, <2>2, <3>1
    <3>3. Len(bits') >= 10 - 0 /\ \A i \in 1 .. Len(bits') : bits'[i] = Level(b, 0 + i - 1)
      BY <2>4, <2>6, <3>1, Zenon
    <3> QED
      BY <3>2, <3>3, Zenon DEF RemoteSends
  <2>8. line' = 0
    <3>1. u # <<>> /\ u[1] = 0
      <4>1. u # <<>> /\ 1 \in 1 .. Len(u) /\ 1 - 1 = 0
        BY <2>5
      <4> QED
        BY <2>1, <2>5, <4>1, LevelType
    <3> QED
      BY <1>1, <1>8, <2>4, <3>1 DEF Pin
  <2>9. Wire(b, 0, 0)'
    <3>1. Level(b, 0) = 0 /\ Level(b, 0 - 1) = 1
      BY <2>1, LevelType
    <3>2. \A i \in 1 .. 5 : rx_dly'[i] = 1 /\ ~(i <= 0)
      BY <1>3
    <3>3. ~(4 <= 0)
      OBVIOUS
    <3>4. \A i \in 1 .. 5 : rx_dly'[i] = Level(b, IF i <= 0 THEN 0 ELSE 0 - 1)
      BY <3>1, <3>2, Zenon
    <3>5. maj' = Level(b, IF 4 <= 0 THEN 0 ELSE 0 - 1)
      BY <1>3, <3>1, <3>3, Zenon
    <3> QED
      BY <2>8, <3>1, <3>4, <3>5, Zenon DEF Wire
  <2>10. Receives(b, 0 * t + 0)'
    <3>1. due' = <<b>>
      <4>1. <<>> \o <<b>> = <<b>>
        OBVIOUS
      <4> QED
        BY <1>4, <1>8, <4>1, Zenon
    <3>2. 0 * t + 0 <= 4
      BY <2>3
    <3> QED
      BY <1>3, <3>1, <3>2, Zenon DEF Receives
  <2>11. ~u_trans'
    BY <1>8 DEF DriverElsewhere
  <2>12. Framing(b, t, 0, 0)'
    BY <2>7, <2>9, <2>10, <2>11, Zenon DEF Framing
  <2>13. 0 \in 0 .. 9 /\ 0 \in Nat /\ 0 < t
    BY <2>3
  <2> QED
    BY <2>3, <2>12, <2>13, Zenon DEF Phase
<1>9. ASSUME NEW g \in Glitches, ~loop, Noise(g), Books(<<>>), glitched' = (glitched \/ g > 2)
      PROVE  Phase'
  <2>1. g \in Nat /\ g >= 1 /\ g <= 2 * baud - 1
    BY <1>0, UartAssumption
  <2>2. bits' = << 0 >> \o Ones(12 * baud + g) /\ bitTime' = 1 /\ left' = g
    BY <1>9 DEF Noise
  <2>3. PICK u : u = bits'
    OBVIOUS
  <2>4. Len(u) = 12 * baud + g + 1 /\ u \in Seq({0, 1})
        /\ \A i \in 1 .. Len(u) : u[i] = IF i = 1 THEN 0 ELSE 1
    <3>1. u = << 0 >> \o Ones(12 * baud + g) /\ 12 * baud + g \in Nat
      BY <1>0, <2>1, <2>2, <2>3
    <3> QED
      BY <3>1, PulseBits
  <2>5. Pulse(g, 0) = 0 /\ Seen(g, 0 - 4) = 1 /\ \A i \in 1 .. 5 : Pulse(g, 0 - i) = 1
    BY <2>1 DEF Pulse, Seen
  <2>6. line' = 0
    <3>1. u # <<>> /\ u[1] = 0
      <4>1. u # <<>> /\ 1 \in 1 .. Len(u)
        BY <1>0, <2>1, <2>4
      <4> QED
        BY <2>4, <4>1
    <3> QED
      BY <1>1, <1>9, <2>3, <3>1 DEF Pin
  <2>7. due' = <<>>
    <3>1. <<>> \o <<>> = <<>>
      OBVIOUS
    <3> QED
      BY <1>4, <1>9, <3>1, Zenon
  <2>8. \A i \in 1 .. Len(bits') : bits'[i] = IF i = 1 THEN Pulse(g, 0) ELSE 1
    BY <2>3, <2>4, <2>5, Zenon
  <2>9. \A i \in 1 .. 5 : rx_dly'[i] = Pulse(g, 0 - i)
    <3>1. \A i \in 1 .. 5 : rx_dly'[i] = 1
      BY <1>3
    <3> QED
      BY <2>5, <3>1, Zenon
  <2>10. left' = (IF 0 < g THEN g - 0 ELSE 1)
         /\ Len(bits') = (IF 0 < g THEN 12 * baud + g + 1 ELSE 12 * baud + 2 * g - 0)
    <3>1. 0 < g /\ g - 0 = g
      BY <2>1
    <3> QED
      BY <2>2, <2>3, <2>4, <3>1, Zenon
  <2>11. Startles(g, 0)'
    BY <1>3 DEF Startles
  <2>12. Noisy(g, 0)'
    <3>1. ~loop' /\ (g > 2 => glitched') /\ bitTime' = 1
      BY <1>1, <1>9, <2>2
    <3>2. line' = Pulse(g, 0) /\ maj' = Seen(g, 0 - 4)
      BY <1>3, <2>5, <2>6
    <3> QED
      BY <2>7, <2>8, <2>9, <2>10, <2>11, <3>1, <3>2, Zenon DEF Noisy
  <2>13. 0 \in 0 .. 10 * baud + 4
    BY <1>0
  <2> QED
    BY <2>12, <2>13, Zenon DEF Phase
<1> QED
  BY <1>6, <1>7, <1>8, <1>9, Zenon DEF Clock, Edge

\* The byte the driver wrote begins on the line.
LEMMA PendingStep ==
  ASSUME Tolerance, Types, Handshake, Driving, Clock, Pending
  PROVE  Phase'
<1>0. baud \in Nat /\ baud >= 3 /\ Bytes \subseteq [1 .. 8 -> {0, 1}]
  BY Baud DEF Tolerance
<1>1. /\ Receive /\ Transmit /\ Filter /\ u_recv' = received /\ Pin /\ loop' = loop
  BY ClockParts
<1>2. PICK b \in Bytes : b = u_tx_byte /\ b \in [1 .. 8 -> {0, 1}]
  BY <1>0 DEF Pending
<1>3. Quiet /\ due = <<b>> /\ u_trans
  BY <1>2 DEF Pending
<1>4. loop /\ tx_state = "TX_IDLE"
  BY <1>3 DEF Driving
<1>5. rx_dly' = [i \in 1 .. 5 |-> 1] /\ maj' = 1 /\ recv_state' = "RX_IDLE" /\ ~wr_en'
  BY <1>3, QuietClock
<1>6. Runs
  BY <1>3, <1>4, OnlyRuns
<1>7. due' = <<b>> /\ ~u_trans'
  <2>1. <<b>> \o <<>> = <<b>>
    OBVIOUS
  <2> QED
    BY <1>3, <1>5, <1>6, <2>1 DEF Runs, Books, DriverElsewhere
<1>8. /\ tx_out' = << 0 >> \o b /\ tx_clk_divider' = baud /\ tx_countdown' = 4
      /\ tx_bits_remaining' = 9 /\ tx_state' = "TX_SENDING"
  <2>1. TxIdle
    BY <1>1, <1>4 DEF Transmit, TxIdle, TxSending, TxDelayRestart
  <2> QED
    BY <1>2, <1>3, <2>1 DEF TxIdle
<1>9. PICK s : s = tx_out'
  OBVIOUS
<1>10. \A i \in 1 .. 9 : s[i] = Level(b, i - 1)
  <2>1. s = << 0 >> \o b
    BY <1>8, <1>9, Zenon
  <2> QED
    BY <1>2, <2>1, Started
<1>11. PICK t \in Times : t = 4 * baud
  BY DEF Times
<1>12. TxSends(b, t, 0, 0)'
  <2>1. \A i \in 1 .. 9 : 0 + i - 1 = i - 1
    OBVIOUS
  <2>2. \A i \in 1 .. 9 : tx_out'[i] = Level(b, 0 + i - 1)
    BY <1>9, <1>10, <2>1, Zenon
  <2>3. /\ tx_bits_remaining' = 9 - 0 /\ tx_countdown' \in 1 .. 4 /\ tx_clk_divider' \in 1 .. baud
        /\ 0 = 5 * baud - tx_countdown' * baud - tx_clk_divider'
    BY <1>0, <1>8
  <2> QED
    BY <1>1, <1>4, <1>8, <1>11, <2>2, <2>3 DEF TxSends
<1>13. line' = 0
  <2>1. s[1] = 0
    <3>1. 1 \in 1 .. 9 /\ 1 - 1 = 0
      OBVIOUS
    <3> QED
      BY <1>2, <1>10, <3>1, LevelType
  <2> QED
    BY <1>1, <1>4, <1>9, <2>1 DEF Pin
<1>14. Wire(b, 0, 0)'
  <2>1. Level(b, 0) = 0 /\ Level(b, 0 - 1) = 1
    BY <1>2, LevelType
  <2>2. \A i \in 1 .. 5 : rx_dly'[i] = 1 /\ ~(i <= 0)
    BY <1>5
  <2>3. ~(4 <= 0)
    OBVIOUS
  <2>4. \A i \in 1 .. 5 : rx_dly'[i] = Level(b, IF i <= 0 THEN 0 ELSE 0 - 1)
    BY <2>1, <2>2, Zenon
  <2>5. maj' = Level(b, IF 4 <= 0 THEN 0 ELSE 0 - 1)
    BY <1>5, <2>1, <2>3, Zenon
  <2> QED
    BY <1>13, <2>1, <2>4, <2>5, Zenon DEF Wire
<1>15. Receives(b, 0 * t + 0)'
  <2>1. 0 * t + 0 <= 4
    BY <1>0, <1>11
  <2> QED
    BY <1>5, <1>7, <2>1, Zenon DEF Receives
<1>16. Framing(b, t, 0, 0)'
  BY <1>7, <1>12, <1>14, <1>15, Zenon DEF Framing
<1>17. 0 \in 0 .. 9 /\ 0 \in Nat /\ 0 < t
  BY <1>0, <1>11
<1> QED
  BY <1>16, <1>17, Zenon DEF Phase

\* The filter in a pulse: three samples low show it, two do not.
LEMMA PulseSeen ==
  ASSUME Types, Filter, NEW g \in Nat, g >= 1, NEW e \in Nat,
         line = Pulse(g, e), \A i \in 1 .. 5 : rx_dly[i] = Pulse(g, e - i)
  PROVE  maj' = Seen(g, e - 3) /\ \A i \in 1 .. 5 : rx_dly'[i] = Pulse(g, (e + 1) - i)
<1>1. /\ rx_dly'[1] = line /\ \A i \in 2 .. 5 : rx_dly'[i] = rx_dly[i - 1]
      /\ maj' = Majority(rx_dly)
  BY Filtered
<1>2. rx_dly \in [1 .. 5 -> {0, 1}]
  BY DEF Types
<1>3. ASSUME NEW i \in 1 .. 5 PROVE rx_dly'[i] = Pulse(g, (e + 1) - i)
  <2>1. CASE i = 1
    <3>1. (e + 1) - i = e
      BY <2>1
    <3> QED
      BY <1>1, <2>1, <3>1, Zenon
  <2>2. CASE i # 1
    <3>1. i \in 2 .. 5 /\ i - 1 \in 1 .. 5 /\ e - (i - 1) = (e + 1) - i
      BY <2>2
    <3>2. rx_dly[i - 1] = Pulse(g, e - (i - 1))
      BY <3>1, Zenon
    <3> QED
      BY <1>1, <3>1, <3>2, Zenon
  <2> QED
    BY <2>1, <2>2
<1>4. /\ rx_dly[1] = Pulse(g, e - 1) /\ rx_dly[2] = Pulse(g, e - 2) /\ rx_dly[3] = Pulse(g, e - 3)
      /\ rx_dly[4] = Pulse(g, e - 4) /\ rx_dly[5] = Pulse(g, e - 5)
  OBVIOUS
<1>5. Majority(rx_dly) = Seen(g, e - 3)
  <2>1. CASE e <= 2
    <3>1. rx_dly[3] = 1 /\ rx_dly[4] = 1 /\ rx_dly[5] = 1 /\ Seen(g, e - 3) = 1
      BY <1>4, <2>1 DEF Pulse, Seen
    <3> QED
      BY <1>2, <3>1, MajorityIs
  <2>2. CASE e >= g + 3
    <3>1. rx_dly[1] = 1 /\ rx_dly[2] = 1 /\ rx_dly[3] = 1 /\ Seen(g, e - 3) = 1
      BY <1>4, <2>2 DEF Pulse, Seen
    <3> QED
      BY <1>2, <3>1, MajorityIs
  <2>3. CASE g > 2 /\ e = 3
    <3>1. rx_dly[1] = 0 /\ rx_dly[2] = 0 /\ rx_dly[3] = 0 /\ Seen(g, e - 3) = 0
      BY <1>4, <2>3 DEF Pulse, Seen
    <3> QED
      BY <1>2, <3>1, MajorityIs
  <2>4. CASE g > 2 /\ e = 4
    <3>1. rx_dly[2] = 0 /\ rx_dly[3] = 0 /\ rx_dly[4] = 0 /\ Seen(g, e - 3) = 0
      BY <1>4, <2>4 DEF Pulse, Seen
    <3> QED
      BY <1>2, <3>1, MajorityIs
  <2>5. CASE g > 2 /\ e >= 5 /\ e <= g + 2
    <3>1. rx_dly[3] = 0 /\ rx_dly[4] = 0 /\ rx_dly[5] = 0 /\ Seen(g, e - 3) = 0
      BY <1>4, <2>5 DEF Pulse, Seen
    <3> QED
      BY <1>2, <3>1, MajorityIs
  <2>6. CASE g <= 2 /\ e = 3
    <3>1. rx_dly[1] = 1 /\ rx_dly[4] = 1 /\ rx_dly[5] = 1 /\ Seen(g, e - 3) = 1
      BY <1>4, <2>6 DEF Pulse, Seen
    <3> QED
      BY <1>2, <3>1, MajorityIs
  <2>7. CASE g <= 2 /\ e = 4
    <3>1. rx_dly[1] = 1 /\ rx_dly[2] = 1 /\ rx_dly[5] = 1 /\ Seen(g, e - 3) = 1
      BY <1>4, <2>7 DEF Pulse, Seen
    <3> QED
      BY <1>2, <3>1, MajorityIs
  <2> QED
    BY <2>1, <2>2, <2>3, <2>4, <2>5, <2>6, <2>7
<1> QED
  BY <1>1, <1>3, <1>5

\* The pulse's bits, and the line.
LEMMA PulseRuns ==
  ASSUME Types, baud \in Nat, baud >= 3, NEW g \in Nat, g >= 1, NEW e \in Nat, e <= 10 * baud + 4,
         ~loop, bitTime = 1, left = (IF e < g THEN g - e ELSE 1),
         Len(bits) = (IF e < g THEN 12 * baud + g + 1 ELSE 12 * baud + 2 * g - e),
         \A i \in 1 .. Len(bits) : bits[i] = IF i = 1 THEN Pulse(g, e) ELSE 1,
         RemoteRuns, Pin
  PROVE  /\ bitTime' = 1 /\ left' = (IF e + 1 < g THEN g - (e + 1) ELSE 1)
         /\ Len(bits') = (IF e + 1 < g THEN 12 * baud + g + 1 ELSE 12 * baud + 2 * g - (e + 1))
         /\ \A i \in 1 .. Len(bits') : bits'[i] = IF i = 1 THEN Pulse(g, e + 1) ELSE 1
         /\ line' = Pulse(g, e + 1)
<1>1. bits \in Seq({0, 1}) /\ Len(bits) \in Nat /\ Len(bits) >= 2
  <2>1. bits \in Seq({0, 1}) /\ Len(bits) \in Nat
    BY DEF Types
  <2> QED
    BY <2>1
<1>2. PICK s : s = bits'
  OBVIOUS
<1>3. line' = IF s = <<>> THEN 1 ELSE s[1]
  BY <1>2 DEF Pin
<1>4. CASE left > 1
  <2>1. left' = left - 1 /\ bits' = bits /\ bitTime' = bitTime
    BY <1>4 DEF RemoteRuns
  <2>2. e < g /\ e + 1 < g /\ left' = g - (e + 1)
    BY <1>4, <2>1
  <2>3. Pulse(g, e) = Pulse(g, e + 1)
    BY <2>2 DEF Pulse
  <2>4. s = bits
    BY <1>2, <2>1, Zenon
  <2>5. s # <<>> /\ s[1] = Pulse(g, e + 1)
    BY <1>1, <2>3, <2>4
  <2> QED
    BY <1>2, <1>3, <2>1, <2>2, <2>3, <2>5, Zenon
<1>5. CASE ~(left > 1)
  <2>1. bits' = Tail(bits) /\ left' = 1 /\ bitTime' = 1
    BY <1>5 DEF RemoteRuns
  <2>2. ~(e + 1 < g) /\ Pulse(g, e + 1) = 1
    BY <1>5 DEF Pulse
  <2>3. s \in Seq({0, 1}) /\ Len(s) = Len(bits) - 1 /\ \A i \in 1 .. Len(s) : s[i] = bits[i + 1]
    <3>1. s = Tail(bits)
      BY <1>2, <2>1, Zenon
    <3> QED
      BY <1>1, <3>1
  <2>4. Len(s) = 12 * baud + 2 * g - (e + 1)
    BY <1>5, <2>3
  <2>5. \A i \in 1 .. Len(s) : s[i] = 1
    BY <1>1, <2>3, SMTT(40)
  <2>6. s # <<>> /\ s[1] = 1
    BY <1>1, <2>3, <2>5
  <2>7. \A i \in 1 .. Len(s) : s[i] = IF i = 1 THEN Pulse(g, e + 1) ELSE 1
    BY <2>2, <2>5, Zenon
  <2>8. line' = Pulse(g, e + 1)
    BY <1>3, <2>2, <2>6, Zenon
  <2> QED
    BY <1>2, <2>1, <2>2, <2>4, <2>7, <2>8, Zenon
<1> QED
  BY <1>4, <1>5

\* The receiver in a pulse: it fails to find the start bit and waits for two bits.
LEMMA StartleStep ==
  ASSUME baud \in Nat, baud >= 3, NEW g \in Nat, g >= 1, g <= 2 * baud - 1,
         NEW e \in Nat, e <= 10 * baud + 4, maj = Seen(g, e - 4), Startles(g, e), Receive
  PROVE  /\ e < 10 * baud + 4 => Startles(g, e + 1)'
         /\ e = 10 * baud + 4 => recv_state' = "RX_IDLE"
         /\ recv_state # "RX_RECEIVED"
<1>1. CASE recv_state = "RX_IDLE" /\ (g <= 2 \/ e <= 4)
  <2>1. RxIdle
    BY <1>1 DEF Receive, RxIdle, RxCheckStart, RxReadBits, RxCheckStop, RxDelayRestart, RxError, RxReceived
  <2>2. CASE g > 2 /\ e = 4
    <3>1. maj = 0
      BY <2>2 DEF Seen, Pulse
    <3>2. recv_state' = "RX_CHECK_START" /\ rx_clk_divider' = baud /\ rx_countdown' = 2
      BY <2>1, <3>1 DEF RxIdle, HalfBit
    <3>3. Counts(5, 2, 5)'
      BY <3>2, CountsStart
    <3>4. e + 1 = 5
      BY <2>2
    <3>5. Startles(g, e + 1)'
      BY <2>2, <3>2, <3>3, <3>4, Zenon DEF Startles
    <3> QED
      BY <1>1, <2>2, <3>5
  <2>3. CASE ~(g > 2 /\ e = 4)
    <3>1. maj = 1
      BY <1>1, <2>3 DEF Seen, Pulse
    <3>2. recv_state' = "RX_IDLE"
      BY <1>1, <2>1, <3>1 DEF RxIdle
    <3>3. g <= 2 \/ e + 1 <= 4
      BY <1>1, <2>3
    <3> QED
      BY <1>1, <3>2, <3>3 DEF Startles
  <2> QED
    BY <2>2, <2>3
<1>2. CASE recv_state = "RX_CHECK_START" /\ g > 2 /\ Counts(5, 2, e)
  <2>1. RxCheckStart
    BY <1>2 DEF Receive, RxIdle, RxCheckStart, RxReadBits, RxCheckStop, RxDelayRestart, RxError, RxReceived
  <2>2. e < 10 * baud + 4
    <3>1. 5 + 2 * baud <= e => ~Counts(5, 2, e)
      BY CountsEnd
    <3> QED
      BY <1>2, <3>1
  <2>3. CASE rxCount # 0
    <3>1. recv_state' = "RX_CHECK_START" /\ RxRuns(rxCount)
      BY <2>1, <2>3 DEF RxCheckStart
    <3>2. Counts(5, 2, e + 1)'
      BY <1>2, <2>3, <3>1, CountsStep
    <3> QED
      BY <1>2, <2>2, <3>1, <3>2 DEF Startles
  <2>4. CASE rxCount = 0
    <3>1. rxTick /\ e + 1 = 5 + 2 * baud
      BY <1>2, <2>4, CountsStep
    <3>2. maj = 1
      BY <3>1 DEF Seen, Pulse
    <3>3. recv_state' = "RX_ERROR" /\ rx_clk_divider' = baud
      BY <2>1, <2>4, <3>1, <3>2 DEF RxCheckStart, RxRuns
    <3>4. e + 1 = 2 * baud + 5
      BY <3>1
    <3> QED
      BY <1>2, <2>2, <3>3, <3>4 DEF Startles
  <2> QED
    BY <2>3, <2>4
<1>3. CASE recv_state = "RX_ERROR" /\ g > 2 /\ e = 2 * baud + 5 /\ rx_clk_divider = baud
  <2>1. RxError
    BY <1>3 DEF Receive, RxIdle, RxCheckStart, RxReadBits, RxCheckStop, RxDelayRestart, RxError, RxReceived
  <2>2. recv_state' = "RX_DELAY_RESTART" /\ rx_countdown' = 8 /\ rx_clk_divider' = baud - 1
    BY <1>3, <2>1 DEF RxError, RxRuns, rxTick
  <2>3. /\ 8 \in 1 .. 8 /\ baud - 1 \in 1 .. baud
        /\ e + 1 = 2 * baud + 5 + (8 + 1) * baud - 8 * baud - (baud - 1)
    BY <1>3
  <2>4. Counts(2 * baud + 5, 8, e + 1)'
    BY <2>2, <2>3 DEF Counts
  <2>5. e < 10 * baud + 4
    BY <1>3
  <2> QED
    BY <1>3, <2>2, <2>4, <2>5 DEF Startles
<1>4. CASE recv_state = "RX_DELAY_RESTART" /\ g > 2 /\ Counts(2 * baud + 5, 8, e)
  <2>1. RxDelayRestart
    BY <1>4 DEF Receive, RxIdle, RxCheckStart, RxReadBits, RxCheckStop, RxDelayRestart, RxError, RxReceived
  <2>2. PICK base \in Nat : base = 2 * baud + 5
    OBVIOUS
  <2>3. Counts(base, 8, e)
    BY <1>4, <2>2, Zenon
  <2>4. CASE rxCount # 0
    <3>1. recv_state' = "RX_DELAY_RESTART" /\ RxRuns(rxCount)
      BY <2>1, <2>4 DEF RxDelayRestart
    <3>2. Counts(base, 8, e + 1)'
      BY <2>3, <2>4, <3>1, CountsStep
    <3>3. Counts(2 * baud + 5, 8, e + 1)'
      BY <2>2, <3>2, Zenon
    <3>4. e # 10 * baud + 4
      <4>1. base + 8 * baud <= e + 1 => ~Counts(base, 8, e + 1)'
        BY CountsEnd
      <4> QED
        BY <2>2, <3>2, <4>1
    <3> QED
      BY <1>4, <3>1, <3>3, <3>4 DEF Startles
  <2>5. CASE rxCount = 0
    <3>1. e + 1 = base + 8 * baud
      BY <2>3, <2>5, CountsStep
    <3>2. recv_state' = "RX_IDLE" /\ e = 10 * baud + 4
      BY <2>1, <2>2, <2>5, <3>1 DEF RxDelayRestart
    <3> QED
      BY <1>4, <3>2
  <2> QED
    BY <2>4, <2>5
<1> QED
  BY <1>1, <1>2, <1>3, <1>4 DEF Startles

\* A pulse passes: short ones unseen, longer ones as one failed start.
LEMMA NoiseStep ==
  ASSUME Tolerance, Types, Handshake, Driving, Clock,
         NEW g \in Glitches, NEW e \in 0 .. 10 * baud + 4, Noisy(g, e)
  PROVE  Phase'
<1>0. /\ baud \in Nat /\ baud >= 3 /\ g \in Nat /\ g >= 1 /\ g <= 2 * baud - 1
      /\ e \in Nat /\ e <= 10 * baud + 4
  <2>1. baud \in Nat /\ baud >= 3
    BY Baud DEF Tolerance
  <2> QED
    BY <2>1, UartAssumption
<1>1. /\ Receive /\ RxFlags /\ Filter /\ u_recv' = received /\ Pin /\ loop' = loop
      /\ (glitched => glitched')
  BY ClockParts
<1>2. /\ ~loop /\ due = <<>> /\ (g > 2 => glitched)
      /\ bitTime = 1 /\ left = (IF e < g THEN g - e ELSE 1)
      /\ Len(bits) = (IF e < g THEN 12 * baud + g + 1 ELSE 12 * baud + 2 * g - e)
      /\ \A i \in 1 .. Len(bits) : bits[i] = IF i = 1 THEN Pulse(g, e) ELSE 1
      /\ line = Pulse(g, e) /\ maj = Seen(g, e - 4)
      /\ \A i \in 1 .. 5 : rx_dly[i] = Pulse(g, e - i)
      /\ Startles(g, e)
  BY DEF Noisy
<1>3. bits # <<>>
  <2>1. Len(bits) # 0
    BY <1>0, <1>2
  <2>2. Len(<<>>) = 0
    OBVIOUS
  <2> QED
    BY <2>1, <2>2, Zenon
<1>4. Runs
  BY <1>2, <1>3, OnlyRuns
<1>5. RemoteRuns
  BY <1>3, <1>4 DEF Runs, RemoteIdle
<1>6. /\ bitTime' = 1 /\ left' = (IF e + 1 < g THEN g - (e + 1) ELSE 1)
      /\ Len(bits') = (IF e + 1 < g THEN 12 * baud + g + 1 ELSE 12 * baud + 2 * g - (e + 1))
      /\ \A i \in 1 .. Len(bits') : bits'[i] = IF i = 1 THEN Pulse(g, e + 1) ELSE 1
      /\ line' = Pulse(g, e + 1)
  BY <1>0, <1>1, <1>2, <1>5, PulseRuns
<1>7. maj' = Seen(g, e - 3) /\ \A i \in 1 .. 5 : rx_dly'[i] = Pulse(g, (e + 1) - i)
  BY <1>0, <1>1, <1>2, PulseSeen
<1>8. /\ e < 10 * baud + 4 => Startles(g, e + 1)'
      /\ e = 10 * baud + 4 => recv_state' = "RX_IDLE"
      /\ recv_state # "RX_RECEIVED"
  BY <1>0, <1>1, <1>2, StartleStep
<1>9. due' = <<>> /\ ~u_trans'
  <2>1. ~wr_en'
    BY <1>1, <1>8, Written
  <2>2. <<>> \o <<>> = <<>>
    OBVIOUS
  <2> QED
    BY <1>2, <1>4, <2>1, <2>2 DEF Runs, Books, DriverElsewhere
<1>10. CASE e < 10 * baud + 4
  <2>1. e + 1 \in 0 .. 10 * baud + 4 /\ (e + 1) - 4 = e - 3
    BY <1>0, <1>10
  <2>2. maj' = Seen(g, (e + 1) - 4)
    BY <1>7, <2>1, Zenon
  <2>3. Noisy(g, e + 1)'
    <3>1. ~loop' /\ (g > 2 => glitched')
      BY <1>1, <1>2
    <3>2. Startles(g, e + 1)'
      BY <1>8, <1>10
    <3> QED
      BY <1>6, <1>7, <1>9, <2>2, <3>1, <3>2, Zenon DEF Noisy
  <2> QED
    BY <2>1, <2>3, Zenon DEF Phase
<1>11. CASE e = 10 * baud + 4
  <2>1. line' = 1 /\ maj' = 1
    BY <1>0, <1>6, <1>7, <1>11 DEF Pulse, Seen
  <2>2. \A i \in 1 .. 5 : Pulse(g, (e + 1) - i) = 1
    BY <1>0, <1>11 DEF Pulse
  <2>3. PICK d : d = rx_dly'
    OBVIOUS
  <2>4. d = [i \in 1 .. 5 |-> 1]
    <3>1. rx_dly' \in [1 .. 5 -> {0, 1}]
      BY <1>1, Filtered
    <3>2. d \in [1 .. 5 -> {0, 1}] /\ \A i \in 1 .. 5 : d[i] = 1
      BY <1>7, <2>2, <2>3, <3>1, Zenon
    <3> QED
      BY <3>2
  <2>5. Quiet'
    BY <1>8, <1>11, <2>1, <2>3, <2>4, Zenon DEF Quiet
  <2>6. \A i \in 1 .. Len(bits') : bits'[i] = 1
    <3>1. Pulse(g, e + 1) = 1
      BY <1>0, <1>11 DEF Pulse
    <3> QED
      BY <1>6, <3>1, Zenon
  <2>7. Silent'
    BY <1>1, <1>2, <1>9, <2>5, <2>6, Zenon DEF Silent
  <2> QED
    BY <2>7, Zenon DEF Phase
<1> QED
  BY <1>0, <1>10, <1>11

-----------------------------------------------------------------------------
(* The invariant *)

LEMMA HandshakeStep ==
  ASSUME Handshake, Clock
  PROVE  Handshake'
<1>1. /\ Receive /\ u_recv' = received
      /\ erred' = (recv_state = "RX_ERROR" \/ (erred /\ ~(received /\ ~u_recv)))
  BY ClockParts DEF wr_en
<1>2. /\ received' = ((received /\ ~u_recv) \/ recv_state = "RX_RECEIVED")
      /\ recv_error' = ((recv_error /\ ~u_recv) \/ recv_state = "RX_ERROR")
  BY <1>1 DEF Receive, RxFlags, Acked, ErrorAcked
<1>3. /\ recv_state = "RX_IDLE" => recv_state' \in {"RX_IDLE", "RX_CHECK_START"}
      /\ recv_state = "RX_RECEIVED" => recv_state' = "RX_IDLE"
  BY <1>1 DEF Receive, RxIdle, RxCheckStart, RxReadBits, RxCheckStop, RxDelayRestart, RxError, RxReceived
<1>4. (received => recv_state \in {"RX_IDLE", "RX_CHECK_START"})'
  BY <1>2, <1>3 DEF Handshake
<1>5. (received /\ ~u_recv => recv_state = "RX_IDLE")'
  BY <1>1, <1>2, <1>3
<1>6. (u_recv => ~erred)'
  BY <1>1 DEF Handshake
<1>7. (~(received /\ u_recv) => (recv_error <=> erred))'
  BY <1>1, <1>2 DEF Handshake
<1> QED
  BY <1>4, <1>5, <1>6, <1>7 DEF Handshake

LEMMA DrivingStep ==
  ASSUME Driving, Clock
  PROVE  Driving'
<1>1. Transmit /\ loop' = loop
  BY ClockParts
<1>2. tx_state = "TX_IDLE" /\ ~u_trans => tx_state' = "TX_IDLE"
  BY <1>1 DEF Transmit, TxIdle, TxSending, TxDelayRestart, txVars
<1>3. bits = <<>> /\ (RemoteIdle \/ RemoteRuns) => bits' = <<>>
  BY DEF RemoteIdle, RemoteRuns, remoteVars
<1>4. CASE DriverElsewhere /\ (RemoteIdle \/ RemoteRuns)
  BY <1>1, <1>2, <1>3, <1>4 DEF DriverElsewhere, Driving
<1>5. CASE Poll /\ RemoteIdle
  BY <1>1, <1>2, <1>3, <1>5 DEF Poll, is_transmitting, Driving
<1>6. ASSUME NEW b \in Bytes, WriteByte(b), RemoteIdle PROVE Driving'
  <2>1. swWait' # 0
    BY <1>6, UartAssumption DEF WriteByte
  <2> QED
    BY <1>1, <1>2, <1>3, <1>6, <2>1 DEF WriteByte, Driving
<1>7. CASE ~loop /\ DriverElsewhere
  BY <1>1, <1>7 DEF DriverElsewhere, Driving
<1> QED
  BY <1>4, <1>5, <1>6, <1>7, Zenon DEF Clock

\* The receiver fails only in a pulse that passes the filter.
LEMMA GlitchStep ==
  ASSUME GlitchFiltered, Phase, Clock
  PROVE  GlitchFiltered'
<1>1. /\ glitched => glitched'
      /\ recv_error' => recv_error \/ recv_state = "RX_ERROR"
  BY ClockParts DEF RxFlags, ErrorAcked
<1>2. recv_state = "RX_ERROR" => glitched
  <2>1. Silent \/ Pending => recv_state # "RX_ERROR"
    BY DEF Silent, Pending, Quiet
  <2>2. ASSUME NEW b, NEW t, NEW n, NEW r, Framing(b, t, n, r) PROVE recv_state # "RX_ERROR"
    BY <2>2 DEF Framing, Receives
  <2>3. ASSUME NEW g, NEW e, Noisy(g, e) PROVE recv_state = "RX_ERROR" => glitched
    BY <2>3 DEF Noisy, Startles
  <2> QED
    BY <2>1, <2>2, <2>3, Zenon DEF Phase
<1> QED
  BY <1>1, <1>2 DEF GlitchFiltered

LEMMA TypesStep ==
  ASSUME Types, Clock
  PROVE  Types'
<1>0. Bytes \subseteq [1 .. 8 -> {0, 1}]
  BY Baud
<1>1. /\ Receive /\ Transmit /\ Filter /\ Pin /\ loop' = loop
  BY ClockParts
<1>2. rx_dly' \in [1 .. 5 -> {0, 1}] /\ maj' \in {0, 1}
  BY <1>1, Filtered DEF Majority
<1>3. rx_data' \in [1 .. 8 -> {0, 1}]
  <2>1. rx_data' = rx_data \/ rx_data' = Append(Tail(rx_data), maj)
    BY <1>1 DEF Receive, RxIdle, RxCheckStart, RxReadBits, RxCheckStop, RxDelayRestart, RxError, RxReceived
  <2>2. 8 \in Nat \ {0} /\ rx_data \in [1 .. 8 -> {0, 1}] /\ maj \in {0, 1}
    BY DEF Types
  <2>3. PICK s : s = rx_data'
    OBVIOUS
  <2>4. s = Append(Tail(rx_data), maj) => ShiftedDown(s, 8, rx_data, maj)
    BY <2>2, ShiftDown, Zenon
  <2> QED
    BY <2>1, <2>2, <2>3, <2>4, Zenon DEF ShiftedDown
<1>4. tx_out' \in [1 .. 9 -> {0, 1}]
  <2>1. tx_out' = tx_out \/ tx_out' = Append(Tail(tx_out), 1) \/ tx_out' = << 0 >> \o u_tx_byte
    BY <1>1 DEF Transmit, TxIdle, TxSending, TxDelayRestart, txVars
  <2>2. /\ 9 \in Nat \ {0} /\ tx_out \in [1 .. 9 -> {0, 1}] /\ 1 \in {0, 1}
        /\ u_tx_byte \in [1 .. 8 -> {0, 1}]
    BY DEF Types
  <2>3. PICK s : s = tx_out'
    OBVIOUS
  <2>4. s = Append(Tail(tx_out), 1) => ShiftedDown(s, 9, tx_out, 1)
    BY <2>2, ShiftDown, Zenon
  <2>5. s = << 0 >> \o u_tx_byte => s \in [1 .. 9 -> {0, 1}]
    BY <2>2, Started, Zenon
  <2> QED
    BY <2>1, <2>2, <2>3, <2>4, <2>5, Zenon DEF ShiftedDown
<1>5. u_tx_byte' \in [1 .. 8 -> {0, 1}]
  <2>1. u_tx_byte \in [1 .. 8 -> {0, 1}]
    BY DEF Types
  <2>2. DriverElsewhere \/ Poll => u_tx_byte' = u_tx_byte
    BY DEF DriverElsewhere, Poll
  <2>3. \A b \in Bytes : WriteByte(b) => u_tx_byte' = b
    BY DEF WriteByte
  <2> QED
    BY <1>0, <2>1, <2>2, <2>3 DEF Clock
<1>6. bits' \in Seq({0, 1})
  <2>1. RemoteIdle \/ RemoteRuns => bits' \in Seq({0, 1})
    BY BitsStep
  <2>2. PICK u : u = bits'
    OBVIOUS
  <2>3. ASSUME NEW b \in Bytes, RemoteStart(b) PROVE u \in Seq({0, 1})
    <3>1. PICK s \in StopBits : u = << 0 >> \o b \o Ones(s)
      BY <2>2, <2>3 DEF RemoteStart
    <3>2. b \in [1 .. 8 -> {0, 1}] /\ s \in Nat \ {0}
      BY <1>0, UartAssumption
    <3> QED
      BY <3>1, <3>2, RemoteFrame
  <2>4. ASSUME NEW g \in Glitches, Noise(g) PROVE u \in Seq({0, 1})
    <3>1. u = << 0 >> \o Ones(12 * baud + g)
      BY <2>2, <2>4 DEF Noise
    <3>2. 12 * baud + g \in Nat
      BY UartAssumption
    <3> QED
      BY <3>1, <3>2, PulseBits
  <2> QED
    BY <2>1, <2>2, <2>3, <2>4, Zenon DEF Clock
<1>7. line' \in {0, 1}
  <2>1. tx_out'[1] \in {0, 1}
    BY <1>4
  <2>2. bits' # <<>> => bits'[1] \in {0, 1}
    BY <1>6
  <2> QED
    BY <1>1, <2>1, <2>2 DEF Pin
<1>8. loop' \in BOOLEAN
  BY <1>1 DEF Types
<1> QED
  BY <1>2, <1>3, <1>4, <1>5, <1>6, <1>7, <1>8 DEF Types

LEMMA InitIInv == Init => IInv
<1> SUFFICES ASSUME Init PROVE IInv
  OBVIOUS
<1>1. PICK u, w : u = Ones(5) /\ w = Ones(9)
  OBVIOUS
<1>2. /\ u \in [1 .. 5 -> {0, 1}] /\ u = [i \in 1 .. 5 |-> 1]
      /\ w \in [1 .. 9 -> {0, 1}] /\ w[1] = 1
  BY <1>1 DEF Ones
<1>3. rx_dly = u /\ tx_out = w
  BY <1>1, Zenon DEF Init
<1>4. Types
  <2>1. [i \in 1 .. 8 |-> 0] \in [1 .. 8 -> {0, 1}] /\ <<>> \in Seq({0, 1})
    OBVIOUS
  <2>2. loop \in BOOLEAN /\ line \in {0, 1} /\ maj \in {0, 1}
    BY DEF Init
  <2>3. /\ rx_data = [i \in 1 .. 8 |-> 0] /\ u_tx_byte = [i \in 1 .. 8 |-> 0] /\ bits = <<>>
    BY Zenon DEF Init
  <2> QED
    BY <1>2, <1>3, <2>1, <2>2, <2>3, Zenon DEF Types
<1>5. Handshake
  BY DEF Init, Handshake
<1>6. Driving
  BY DEF Init, Driving
<1>7. GlitchFiltered
  BY DEF Init, GlitchFiltered
<1>8. Silent
  <2>1. Quiet
    <3>1. line = 1 /\ maj = 1 /\ recv_state = "RX_IDLE"
      BY DEF Init
    <3> QED
      BY <1>2, <1>3, <3>1, Zenon DEF Quiet
  <2>2. /\ due = <<>> /\ ~u_trans /\ tx_state # "TX_SENDING" /\ bits = <<>>
    BY DEF Init
  <2>3. \A i \in 1 .. Len(<<>>) : bits[i] = 1
    OBVIOUS
  <2> QED
    BY <1>2, <1>3, <2>1, <2>2, <2>3, Zenon DEF Silent
<1> QED
  BY <1>4, <1>5, <1>6, <1>7, <1>8, Zenon DEF IInv, Phase

LEMMA NextIInv ==
  ASSUME Tolerance, IInv, [Clock]_vars
  PROVE  IInv'
<1>1. Types /\ Handshake /\ Driving /\ GlitchFiltered /\ Phase
  BY DEF IInv
<1>2. CASE Clock
  <2>1. Types' /\ Handshake' /\ Driving' /\ GlitchFiltered'
    BY <1>1, <1>2, TypesStep, HandshakeStep, DrivingStep, GlitchStep
  <2>2. Silent => Phase'
    BY <1>1, <1>2, SilentStep
  <2>3. Pending => Phase'
    BY <1>1, <1>2, PendingStep
  <2>4. ASSUME NEW b \in Bytes, NEW t \in Times, NEW n \in 0 .. 9, NEW r \in Nat,
               r < t /\ Framing(b, t, n, r)
        PROVE  Phase'
    BY <1>1, <1>2, <2>4, FrameStep
  <2>5. ASSUME NEW g \in Glitches, NEW e \in 0 .. 10 * baud + 4, Noisy(g, e) PROVE Phase'
    BY <1>1, <1>2, <2>5, NoiseStep
  <2>6. Phase'
    BY <1>1, <2>2, <2>3, <2>4, <2>5, Zenon DEF Phase
  <2> QED
    BY <2>1, <2>6, Zenon DEF IInv
<1>3. CASE UNCHANGED vars
  <2>1. /\ UNCHANGED <<loop, line, rx_dly, maj>>
        /\ UNCHANGED <<recv_state, rx_clk_divider, rx_countdown, rx_bits_remaining, rx_data>>
        /\ UNCHANGED <<received, rx_byte, recv_error>>
        /\ UNCHANGED <<tx_state, tx_clk_divider, tx_countdown, tx_bits_remaining, tx_out>>
        /\ UNCHANGED <<u_recv, u_trans, u_tx_byte>> /\ UNCHANGED <<sw, swWait>>
        /\ UNCHANGED <<bits, bitTime, left>> /\ UNCHANGED <<due, erred, glitched>>
    BY <1>3, Zenon DEF vars, lineVars, rxVars, rxOut, txVars, socVars, driverVars, remoteVars, ghosts
  <2>2. Types'
    BY <1>1, <2>1, Zenon DEF Types
  <2>3. Handshake' /\ Driving' /\ GlitchFiltered'
    BY <1>1, <2>1 DEF Handshake, Driving, GlitchFiltered
  <2>4. /\ Silent => Silent'
        /\ Pending => Pending'
    BY <2>1 DEF Silent, Pending, Quiet
  <2>5. ASSUME NEW b, NEW t, NEW n, NEW r, Framing(b, t, n, r) PROVE Framing(b, t, n, r)'
    BY <2>1, <2>5 DEF Framing, TxSends, RemoteSends, Wire, Receives, Counts
  <2>6. ASSUME NEW g, NEW e, Noisy(g, e) PROVE Noisy(g, e)'
    BY <2>1, <2>6 DEF Noisy, Startles, Counts
  <2>7. Phase'
    BY <1>1, <2>4, <2>5, <2>6, Zenon DEF Phase
  <2> QED
    BY <2>2, <2>3, <2>7, Zenon DEF IInv
<1> QED
  BY <1>2, <1>3

\* Within the tolerance, what the port is doing is always a place in a frame, in a
\* pulse, or none (uart.v, rx_delay.v, minion_soc.sv).
THEOREM PortInvariant == Tolerance => (Spec => []IInv)
<1> SUFFICES ASSUME Tolerance PROVE Spec => []IInv
  OBVIOUS
<1>1. IInv /\ [Clock]_vars => IInv'
  BY NextIInv
<1> QED
  BY InitIInv, <1>1, PTL DEF Spec

\* A byte that begins finds the one before it in the FIFO: due holds the byte on the
\* line and no other (the handshake of received with u_recv in minion_soc.sv, the
\* driver's poll of is_transmitting).
THEOREM NoByteIsLost == Tolerance => (Spec => []NoByteLost)
<1> SUFFICES ASSUME Tolerance PROVE Spec => []NoByteLost
  OBVIOUS
<1>1. IInv => NoByteLost
  <2> SUFFICES ASSUME IInv PROVE Len(due) <= 1
    BY DEF NoByteLost
  <2>1. ASSUME NEW b, due = <<b>> PROVE Len(due) <= 1
    BY <2>1
  <2>2. CASE due = <<>>
    BY <2>2
  <2>3. Silent => due = <<>>
    BY DEF Silent
  <2>4. Pending => due = <<u_tx_byte>>
    BY DEF Pending
  <2>5. ASSUME NEW b, NEW t, NEW n, NEW r, Framing(b, t, n, r) PROVE due = <<>> \/ due = <<b>>
    BY <2>5 DEF Framing, Receives
  <2>6. ASSUME NEW g, NEW e, Noisy(g, e) PROVE due = <<>>
    BY <2>6 DEF Noisy
  <2> QED
    BY <2>1, <2>2, <2>3, <2>4, <2>5, <2>6, Zenon DEF IInv, Phase
<1> QED
  BY PortInvariant, <1>1, PTL

\* Pulses of one or two clocks on the idle line raise no error (rx_delay.v takes three
\* samples of five), and no byte does: only a longer pulse starts the receiver for nothing.
THEOREM GlitchesAreFiltered == Tolerance => (Spec => []GlitchFiltered)
<1> SUFFICES ASSUME Tolerance PROVE Spec => []GlitchFiltered
  OBVIOUS
<1>1. IInv => GlitchFiltered
  BY DEF IInv
<1> QED
  BY PortInvariant, <1>1, PTL

\* The word that enters the FIFO is the byte that was put on the line: uart.v samples
\* the start bit, the eight bits and the stop bit each in its own period of the sender,
\* although the two divisors drift apart over the frame.
THEOREM BytesAreExact == Tolerance => (Spec => BytesExact)
<1> SUFFICES ASSUME Tolerance PROVE Spec => BytesExact
  OBVIOUS
<1>1. IInv /\ [Clock]_vars => [wr_en' => due # <<>> /\ rx_byte' = Head(due)]_vars
  <2> SUFFICES ASSUME IInv, Clock, wr_en' PROVE due # <<>> /\ rx_byte' = Head(due)
    OBVIOUS
  <2>1. recv_state = "RX_RECEIVED"
    BY ClockParts, Written DEF IInv
  <2>2. \E b : rx_data = b /\ due = <<b>>
    <3>1. ~Silent /\ ~Pending
      BY <2>1 DEF Silent, Pending, Quiet
    <3>2. ASSUME NEW g, NEW e PROVE ~Noisy(g, e)
      BY <2>1 DEF Noisy, Startles
    <3>3. ASSUME NEW b, NEW t, NEW n, NEW r, Framing(b, t, n, r) PROVE rx_data = b /\ due = <<b>>
      BY <2>1, <3>3 DEF Framing, Receives
    <3> QED
      BY <3>1, <3>2, <3>3, Zenon DEF IInv, Phase
  <2>3. rx_byte' = rx_data
    BY <2>1, ClockParts DEF RxFlags
  <2> QED
    BY <2>2, <2>3
<1> QED
  BY PortInvariant, <1>1, PTL DEF Spec, BytesExact

\* The error bit of a FIFO word tells of every failed reception since the word before,
\* once: recv_error and the books of errors agree whenever wr_en is up, whatever is
\* on the line (recv_ack in uart.v, u_recv in minion_soc.sv).
THEOREM ErrorsAreCounted == Spec => []ErrorsCounted
<1>1. Init => Handshake
  BY InitIInv DEF IInv
<1>2. Handshake /\ [Clock]_vars => Handshake'
  <2> SUFFICES ASSUME Handshake, [Clock]_vars PROVE Handshake'
    OBVIOUS
  <2>1. CASE UNCHANGED vars
    <3>1. UNCHANGED <<recv_state, received, recv_error, u_recv, erred>>
      BY <2>1 DEF vars, rxVars, rxOut, socVars, ghosts
    <3> QED
      BY <3>1 DEF Handshake
  <2> QED
    BY <2>1, HandshakeStep
<1>3. Handshake => ErrorsCounted
  BY DEF Handshake, ErrorsCounted, wr_en
<1> QED
  BY <1>1, <1>2, <1>3, PTL DEF Spec
=============================================================================
