--------------------------- MODULE SbiDeviceProofs ---------------------------
(***************************************************************************)
(* For any number of harts and messages: no response and no interrupt of a *)
(* hart is left without the software interrupt that announces it; every    *)
(* message the supervisor gives away is on one list of one hart, once; and *)
(* the lists linked through the messages are the queues of DeviceQueues.   *)
(*                                                                         *)
(* The last two rest on one invariant: there are sequences, one for each   *)
(* list, that share no message, and head, tail, size and links are theirs. *)
(* What Chain reads off the links is then the sequence, by induction on    *)
(* how many messages it follows; the induction is that of the library's    *)
(* well-founded relations, on sets of numbers.                             *)
(***************************************************************************)
EXTENDS SbiDevice, FiniteSetTheorems, WellFoundedInduction, TLAPS

(* What is announced *)

Fields == {"req_head", "req_size", "resp_head", "resp_tail", "ipi_pending"}

\* Every hart has its queues, its interrupts and its place in the code.
Shape ==
    /\ DOMAIN hls = Harts
    /\ \A h \in Harts : DOMAIN hls[h] = Fields
    /\ \A h \in Harts : hls[h].ipi_pending \in BOOLEAN
    /\ mip \in [Harts -> [ssip : BOOLEAN, msip : BOOLEAN]]
    /\ DOMAIN pc = Harts
    /\ torn \in [Harts -> BOOLEAN]

\* A hart that will not raise the interrupt of h has seen it pending, and it
\* is, unless a clear of h cut its swap.
Cut(h) == torn[h] /\ Harts # {h}
Marked(h) ==
    \A g \in Harts : pc[g] = <<"again", h>> => hls[h].ipi_pending \/ Cut(h)

SInv == Shape /\ EventSignalled /\ \A h \in Harts : Marked(h)

\* Both parts in the form the steps need.
Up(h) == hls[h].resp_head # Null => mip[h].ssip
Coming(h) ==
    hls[h].ipi_pending /\ pc[h] \notin {<<"recheck", h>>, <<"swap", h>>} =>
        \/ mip[h].ssip \/ mip[h].msip
        \/ \E g \in Harts : pc[g] = <<"send", h>>
        \/ Cut(h)

\* Signals, hart by hart.
LEMMA Split == EventSignalled <=> \A h \in Harts : Up(h) /\ Coming(h)
BY DEF EventSignalled, Up, Coming, Cut

\* At first there is nothing to announce.
LEMMA InitSInv == Init => SInv
<1> SUFFICES ASSUME Init PROVE SInv
  OBVIOUS
<1>1. Shape
  BY DEF Init, NoQueues, Shape, Fields
<1>2. EventSignalled
  BY DEF Init, NoQueues, EventSignalled
<1>3. \A h \in Harts : Marked(h)
  BY DEF Init, Marked
<1> QED
  BY <1>1, <1>2, <1>3 DEF SInv

\* A step that leaves the shape and, for every hart, its response queue, its
\* interrupt and its pending mark.
LEMMA FromParts ==
    ASSUME Shape', \A g \in Harts : Up(g)', \A g \in Harts : Coming(g)',
           \A g \in Harts : Marked(g)'
    PROVE  SInv'
BY DEF SInv, EventSignalled, Up, Coming, Cut

\* No hart comes to a late store, and no mark is taken back.
LEMMA MarkedKept ==
    ASSUME SInv, torn' = torn,
           NEW h \in Harts, \A f \in Harts : f # h => pc'[f] = pc[f],
           \A x \in Harts : pc'[h] = <<"again", x>> => pc[h] = <<"again", x>>,
           \A x \in Harts : hls[x].ipi_pending => hls'[x].ipi_pending
    PROVE  \A g \in Harts : Marked(g)'
<1> SUFFICES ASSUME NEW g \in Harts, NEW f \in Harts, pc'[f] = <<"again", g>>
             PROVE  hls'[g].ipi_pending \/ Cut(g)'
  BY DEF Marked
<1>1. pc[f] = <<"again", g>>
  OBVIOUS
<1>2. hls[g].ipi_pending \/ Cut(g)
  BY <1>1 DEF SInv, Marked
<1> QED
  BY <1>2 DEF Cut

\* A response that is queued leaves the rest of the hart as it was.
LEMMA RespondKeeps ==
    ASSUME SInv, NEW h \in Harts, NEW H, NEW msgs, NEW m, NEW data,
           DOMAIN H = Fields, H.ipi_pending = hls[h].ipi_pending,
           Respond(h, H, msgs, m, data), UNCHANGED <<pc, torn>>
    PROVE  SInv'
<1>a. /\ DOMAIN hls' = Harts
      /\ \A g \in Harts : g # h => hls'[g] = hls[g]
      /\ DOMAIN hls'[h] = Fields
      /\ hls'[h].ipi_pending = hls[h].ipi_pending
  BY DEF SInv, Shape, Respond, Fields
<1>b. /\ mip' \in [Harts -> [ssip : BOOLEAN, msip : BOOLEAN]]
      /\ \A g \in Harts : mip[g].ssip => mip'[g].ssip
      /\ \A g \in Harts : mip'[g].msip = mip[g].msip
      /\ \A g \in Harts : g # h => mip'[g] = mip[g]
      /\ mip'[h].ssip
  BY DEF SInv, Shape, Respond, Signal
<1>1. Shape'
  BY <1>a, <1>b DEF SInv, Shape
<1>2. ASSUME NEW g \in Harts PROVE Up(g)'
  <2>1. CASE g = h
    BY <2>1, <1>b DEF Up
  <2>2. CASE g # h
    BY <2>2, <1>a, <1>b DEF SInv, EventSignalled, Up
  <2> QED
    BY <2>1, <2>2
<1>3. ASSUME NEW g \in Harts PROVE Coming(g)'
  <2>1. Coming(g)
    BY Split DEF SInv
  <2>2. hls'[g].ipi_pending = hls[g].ipi_pending /\ pc' = pc
    BY <1>a
  <2> QED
    BY <2>1, <2>2, <1>b DEF Coming, Cut
<1>4. \A g \in Harts : Marked(g)'
  <2>1. \A x \in Harts : hls[x].ipi_pending => hls'[x].ipi_pending
    BY <1>a
  <2> QED
    BY <2>1, MarkedKept
<1> QED
  BY <1>1, <1>2, <1>3, <1>4, FromParts

\* Steps that leave queues, interrupts and places alone.
LEMMA Untouched == SInv /\ UNCHANGED <<hls, mip, pc, torn>> => SInv'
<1> SUFFICES ASSUME SInv, UNCHANGED <<hls, mip, pc, torn>> PROVE SInv'
  OBVIOUS
<1> hls' = hls /\ mip' = mip /\ pc' = pc /\ torn' = torn
  OBVIOUS
<1> QED
  BY DEF SInv, Shape, EventSignalled, Marked, Cut

\* A request is answered, waits or stops the machine.
LEMMA RequestSInv ==
    ASSUME SInv, NEW h \in Harts, NEW m \in Msgs, mcall_dev_req(h, m)
    PROVE  SInv'
<1>1. CASE mcall_respond(h, m) /\ UNCHANGED <<pc, torn>>
  <2>1. DOMAIN hls[h] = Fields
    BY DEF SInv, Shape
  <2>2. Respond(h, hls[h], msg, m, Done) /\ UNCHANGED <<pc, torn>>
    BY <1>1 DEF mcall_respond
  <2> QED
    BY <2>1, <2>2, RespondKeeps
<1>2. CASE ConsoleRead(h, m)
  <2>a. /\ DOMAIN hls' = Harts
        /\ \A g \in Harts : DOMAIN hls'[g] = Fields
        /\ \A g \in Harts : hls'[g].ipi_pending = hls[g].ipi_pending
        /\ \A g \in Harts : hls'[g].resp_head = hls[g].resp_head
    BY <1>2 DEF ConsoleRead, SInv, Shape, Fields
  <2>b. mip' = mip /\ pc' = pc /\ torn' = torn
    BY <1>2 DEF ConsoleRead
  <2>1. Shape'
    BY <2>a, <2>b DEF SInv, Shape
  <2>2. EventSignalled'
    BY <2>a, <2>b DEF SInv, EventSignalled
  <2>3. \A g \in Harts : Marked(g)'
    BY <2>a, <2>b DEF SInv, Marked, Cut
  <2> QED
    BY <2>1, <2>2, <2>3 DEF SInv
<1>3. CASE Impossible(h, m)
  BY <1>3, Untouched DEF Impossible, Panic
<1> QED
  BY <1>1, <1>2, <1>3 DEF mcall_dev_req, AnswerAtOnce, DiskIdentify, DiskTransfer

\* A character is an answer to the read that waits for it.
LEMMA IrqSInv ==
    ASSUME SInv, NEW h \in Harts, io_irq_service(h)
    PROVE  SInv'
<1> DEFINE m == hls[h].req_head
           H == Unlink(hls[h], msg[m].priv)
<1>1. CASE Respond(h, H, msg, m, Char(uart.read + 1)) /\ UNCHANGED <<pc, torn>>
  <2>1. DOMAIN H = Fields /\ H.ipi_pending = hls[h].ipi_pending
    BY DEF SInv, Shape, Fields, Unlink
  <2> HIDE DEF H, m
  <2> QED
    BY <1>1, <2>1, RespondKeeps
<1>2. CASE Panic("io_irq_service(): no record")
  BY <1>2, Untouched DEF Panic
<1> QED
  BY <1>1, <1>2 DEF io_irq_service

\* The last response takes the interrupt down and goes to the recheck.
LEMMA RespSInv ==
    ASSUME SInv, NEW h \in Harts, mcall_dev_resp(h)
    PROVE  SInv'
<1> DEFINE next == msg[hls[h].resp_head].priv
<1>a. /\ hls[h].resp_head # Null
      /\ hls' = [hls EXCEPT ![h] = Dequeue(@, next)]
      /\ mip' = [mip EXCEPT ![h].ssip = @ /\ next # Null]
      /\ IF next = Null THEN Goto(h, <<"recheck", h>>) ELSE UNCHANGED pc
      /\ torn' = torn
  BY DEF mcall_dev_resp
<1>p. pc[h] = <<"supervisor", h>>
  BY DEF mcall_dev_resp, Runs
<1> HIDE DEF next
<1>b. /\ DOMAIN hls' = Harts
      /\ \A g \in Harts : DOMAIN hls'[g] = Fields
      /\ \A g \in Harts : hls'[g].ipi_pending = hls[g].ipi_pending
      /\ \A g \in Harts : g # h => hls'[g] = hls[g]
      /\ hls'[h].resp_head = next
  BY <1>a DEF SInv, Shape, Fields, Dequeue
<1>c. mip[h].ssip
  BY <1>a DEF SInv, EventSignalled
<1>d. /\ mip' \in [Harts -> [ssip : BOOLEAN, msip : BOOLEAN]]
      /\ \A g \in Harts : g # h => mip'[g] = mip[g]
      /\ mip'[h].msip = mip[h].msip
      /\ next # Null => mip'[h].ssip
  BY <1>a, <1>c DEF SInv, Shape
<1>e. DOMAIN pc' = Harts /\ \A g \in Harts : g # h => pc'[g] = pc[g]
  BY <1>a DEF SInv, Shape, Goto
<1>1. Shape'
  BY <1>a, <1>b, <1>d, <1>e DEF SInv, Shape
<1>2. ASSUME NEW g \in Harts PROVE Up(g)'
  <2>1. CASE g = h
    BY <2>1, <1>b, <1>d DEF Up
  <2>2. CASE g # h
    BY <2>2, <1>b, <1>d DEF SInv, EventSignalled, Up
  <2> QED
    BY <2>1, <2>2
<1>3. ASSUME NEW g \in Harts PROVE Coming(g)'
  <2>0. Coming(g)
    BY Split DEF SInv
  <2>1. CASE g = h
    <3>1. CASE next = Null
      <4>1. pc'[h] = <<"recheck", h>>
        BY <3>1, <1>a DEF Goto, SInv, Shape
      <4> QED
        BY <4>1, <2>1 DEF Coming
    <3>2. CASE next # Null
      BY <3>2, <2>1, <1>d DEF Coming
    <3> QED
      BY <3>1, <3>2
  <2>2. CASE g # h
    <3>1. hls'[g].ipi_pending = hls[g].ipi_pending /\ mip'[g] = mip[g] /\ pc'[g] = pc[g]
      BY <2>2, <1>b, <1>d, <1>e
    <3>2. \A f \in Harts : pc[f] = <<"send", g>> => f # h
      BY <1>p
    <3>3. \A f \in Harts : pc[f] = <<"send", g>> => pc'[f] = <<"send", g>>
      BY <3>2, <1>e
    <3> QED
      BY <2>0, <3>1, <3>3, <1>a DEF Coming, Cut
  <2> QED
    BY <2>1, <2>2
<1>4. \A g \in Harts : Marked(g)'
  <2>1. \A x \in Harts : pc'[h] # <<"again", x>>
    <3>1. pc'[h] = <<"recheck", h>> \/ pc'[h] = <<"supervisor", h>>
      BY <1>a, <1>p DEF Goto, SInv, Shape
    <3> QED
      BY <3>1
  <2> QED
    BY <2>1, <1>a, <1>b, <1>e, MarkedKept
<1> QED
  BY <1>1, <1>2, <1>3, <1>4, FromParts

\* A hart whose own queue, interrupt and place do not change still has its
\* interrupt coming when the hart h that steps was not about to send it.
LEMMA OthersComing ==
    ASSUME SInv, torn' = torn, NEW h \in Harts, NEW g \in Harts,
           \A f \in Harts : f # h => pc'[f] = pc[f],
           pc[h] # <<"send", g>>, pc'[g] = pc[g],
           hls'[g].ipi_pending = hls[g].ipi_pending,
           mip[g].ssip => mip'[g].ssip, mip[g].msip => mip'[g].msip
    PROVE  Coming(g)'
<1>1. Coming(g)
  BY Split DEF SInv
<1>2. \A f \in Harts : pc[f] = <<"send", g>> => pc'[f] = <<"send", g>>
  OBVIOUS
<1> QED
  BY <1>1, <1>2 DEF Coming, Cut

\* The interrupt of h alone changes, and its place.
LEMMA OneMip ==
    ASSUME SInv, NEW h \in Harts, NEW r, r \in [ssip : BOOLEAN, msip : BOOLEAN],
           mip' = [mip EXCEPT ![h] = r]
    PROVE  /\ mip' \in [Harts -> [ssip : BOOLEAN, msip : BOOLEAN]]
           /\ \A g \in Harts : g # h => mip'[g] = mip[g]
           /\ mip'[h] = r
BY DEF SInv, Shape

\* Only the place of h changes.
LEMMA OnePc ==
    ASSUME SInv, NEW h \in Harts, NEW where, Goto(h, where)
    PROVE  /\ DOMAIN pc' = Harts
           /\ \A g \in Harts : g # h => pc'[g] = pc[g]
           /\ pc'[h] = where
BY DEF SInv, Shape, Goto

\* The recheck raises the interrupt again for one of another hart.
LEMMA RecheckSInv ==
    ASSUME SInv, NEW h \in Harts, Recheck(h)
    PROVE  SInv'
<1>p. pc[h] = <<"recheck", h>> /\ hls' = hls /\ torn' = torn
  BY DEF Recheck
<1> DEFINE r == [mip[h] EXCEPT !.ssip = @ \/ hls[h].ipi_pending]
<1>r. /\ r \in [ssip : BOOLEAN, msip : BOOLEAN]
      /\ mip[h].ssip => r.ssip
      /\ hls[h].ipi_pending => r.ssip
  BY DEF SInv, Shape
<1>s. mip' = [mip EXCEPT ![h] = r]
  BY DEF Recheck
<1> HIDE DEF r
<1>b. /\ mip' \in [Harts -> [ssip : BOOLEAN, msip : BOOLEAN]]
      /\ \A g \in Harts : g # h => mip'[g] = mip[g]
      /\ mip'[h] = r
  BY <1>r, <1>s, OneMip
<1>c. /\ DOMAIN pc' = Harts
      /\ \A g \in Harts : g # h => pc'[g] = pc[g]
      /\ pc'[h] = <<"supervisor", h>>
  <2>1. Goto(h, <<"supervisor", h>>)
    BY DEF Recheck, Return
  <2> QED
    BY <2>1, OnePc
<1>1. Shape'
  BY <1>p, <1>b, <1>c DEF SInv, Shape
<1>2. ASSUME NEW g \in Harts PROVE Up(g)'
  BY <1>p, <1>b, <1>r DEF SInv, EventSignalled, Up
<1>3. ASSUME NEW g \in Harts PROVE Coming(g)'
  <2>1. CASE g = h
    BY <2>1, <1>p, <1>b, <1>r DEF Coming
  <2>2. CASE g # h
    <3>1. pc[h] # <<"send", g>>
      BY <1>p
    <3> QED
      BY <3>1, <2>2, <1>p, <1>b, <1>c, OthersComing
  <2> QED
    BY <2>1, <2>2
<1>4. \A g \in Harts : Marked(g)'
  <2>1. \A x \in Harts : pc'[h] # <<"again", x>>
    BY <1>c
  <2> QED
    BY <2>1, <1>p, <1>c, MarkedKept
<1> QED
  BY <1>1, <1>2, <1>3, <1>4, FromParts

\* The trap raises the software interrupt for the machine's.
LEMMA TakeSInv ==
    ASSUME SInv, NEW h \in Harts, TakeIpi(h)
    PROVE  SInv'
<1>p. hls' = hls /\ pc' = pc /\ torn' = torn
  BY DEF TakeIpi
<1>b. /\ mip' \in [Harts -> [ssip : BOOLEAN, msip : BOOLEAN]]
      /\ \A g \in Harts : g # h => mip'[g] = mip[g]
      /\ mip'[h].ssip
  BY DEF SInv, Shape, TakeIpi
<1>1. Shape'
  BY <1>p, <1>b DEF SInv, Shape
<1>2. ASSUME NEW g \in Harts PROVE Up(g)'
  BY <1>p, <1>b DEF SInv, EventSignalled, Up
<1>3. ASSUME NEW g \in Harts PROVE Coming(g)'
  <2>0. Coming(g)
    BY Split DEF SInv
  <2>1. CASE g = h
    BY <2>1, <1>b DEF Coming
  <2>2. CASE g # h
    BY <2>0, <2>2, <1>p, <1>b DEF Coming, Cut
  <2> QED
    BY <2>1, <2>2
<1>4. \A g \in Harts : Marked(g)'
  BY <1>p, MarkedKept
<1> QED
  BY <1>1, <1>2, <1>3, <1>4, FromParts

\* Clearing leaves the interrupt up while a response waits.
LEMMA ClearSInv ==
    ASSUME SInv, NEW h \in Harts, mcall_clear_ipi(h)
    PROVE  SInv'
<1>p. pc[h] = <<"supervisor", h>> /\ hls' = hls /\ torn' = torn
  BY DEF mcall_clear_ipi, Runs
<1> DEFINE r == [mip[h] EXCEPT !.ssip = @ /\ hls[h].resp_head # Null]
<1>u. Up(h) /\ mip[h] \in [ssip : BOOLEAN, msip : BOOLEAN]
  BY Split DEF SInv, Shape
<1>r. r \in [ssip : BOOLEAN, msip : BOOLEAN] /\ (hls[h].resp_head # Null => r.ssip)
  BY <1>u DEF Up
<1>s. mip' = [mip EXCEPT ![h] = r]
  BY DEF mcall_clear_ipi
<1> HIDE DEF r
<1>b. /\ mip' \in [Harts -> [ssip : BOOLEAN, msip : BOOLEAN]]
      /\ \A g \in Harts : g # h => mip'[g] = mip[g]
      /\ mip'[h] = r
  BY <1>r, <1>s, OneMip
<1>c. /\ DOMAIN pc' = Harts
      /\ \A g \in Harts : g # h => pc'[g] = pc[g]
      /\ pc'[h] = <<"swap", h>>
  <2>1. Goto(h, <<"swap", h>>)
    BY DEF mcall_clear_ipi
  <2> QED
    BY <2>1, OnePc
<1>1. Shape'
  BY <1>p, <1>b, <1>c DEF SInv, Shape
<1>2. ASSUME NEW g \in Harts PROVE Up(g)'
  BY <1>p, <1>b, <1>r DEF SInv, EventSignalled, Up
<1>3. ASSUME NEW g \in Harts PROVE Coming(g)'
  <2>1. CASE g = h
    BY <2>1, <1>c DEF Coming
  <2>2. CASE g # h
    <3>1. pc[h] # <<"send", g>>
      BY <1>p
    <3> QED
      BY <3>1, <2>2, <1>p, <1>b, <1>c, OthersComing
  <2> QED
    BY <2>1, <2>2
<1>4. \A g \in Harts : Marked(g)'
  <2>1. \A x \in Harts : pc'[h] # <<"again", x>>
    BY <1>c
  <2> QED
    BY <2>1, <1>p, <1>c, MarkedKept
<1> QED
  BY <1>1, <1>2, <1>3, <1>4, FromParts

\* Only ipi_pending of one hart changes.
LEMMA OnePending ==
    ASSUME SInv, NEW x \in Harts, NEW v \in BOOLEAN,
           hls' = [hls EXCEPT ![x].ipi_pending = v]
    PROVE  /\ DOMAIN hls' = Harts
           /\ \A g \in Harts : DOMAIN hls'[g] = Fields
           /\ \A g \in Harts : hls'[g].ipi_pending \in BOOLEAN
           /\ \A g \in Harts : hls'[g].resp_head = hls[g].resp_head
           /\ \A g \in Harts : g # x => hls'[g] = hls[g]
           /\ hls'[x].ipi_pending = v
BY DEF SInv, Shape, Fields

\* After the clear nothing is pending, and a store that is late is known.
LEMMA SwapSInv ==
    ASSUME SInv, NEW h \in Harts, Swap(h)
    PROVE  SInv'
<1>p. pc[h] = <<"swap", h>> /\ mip' = mip
  BY DEF Swap
<1>b. /\ DOMAIN hls' = Harts
      /\ \A g \in Harts : DOMAIN hls'[g] = Fields
      /\ \A g \in Harts : hls'[g].ipi_pending \in BOOLEAN
      /\ \A g \in Harts : hls'[g].resp_head = hls[g].resp_head
      /\ \A g \in Harts : g # h => hls'[g] = hls[g]
      /\ hls'[h].ipi_pending = FALSE
  BY OnePending DEF Swap
<1>c. /\ DOMAIN pc' = Harts
      /\ \A g \in Harts : g # h => pc'[g] = pc[g]
      /\ pc'[h] = <<"supervisor", h>>
  <2>1. Goto(h, <<"supervisor", h>>)
    BY DEF Swap, Return
  <2> QED
    BY <2>1, OnePc
<1>d. /\ torn' \in [Harts -> BOOLEAN]
      /\ \A g \in Harts : g # h => torn'[g] = torn[g]
      /\ \A g \in Harts : pc[g] = <<"again", h>> => torn'[h]
  BY DEF SInv, Shape, Swap
<1>1. Shape'
  BY <1>p, <1>b, <1>c, <1>d DEF SInv, Shape
<1>2. ASSUME NEW g \in Harts PROVE Up(g)'
  BY <1>p, <1>b DEF SInv, EventSignalled, Up
<1>3. ASSUME NEW g \in Harts PROVE Coming(g)'
  <2>1. CASE g = h
    BY <2>1, <1>b DEF Coming
  <2>2. CASE g # h
    <3>1. Coming(g)
      BY Split DEF SInv
    <3>2. \A f \in Harts : pc[f] = <<"send", g>> => pc'[f] = <<"send", g>>
      BY <1>p, <1>c
    <3>3. hls'[g].ipi_pending = hls[g].ipi_pending /\ pc'[g] = pc[g] /\ torn'[g] = torn[g]
      BY <2>2, <1>b, <1>c, <1>d
    <3> QED
      BY <3>1, <3>2, <3>3, <1>p DEF Coming, Cut
  <2> QED
    BY <2>1, <2>2
<1>4. ASSUME NEW g \in Harts PROVE Marked(g)'
  <2> SUFFICES ASSUME NEW f \in Harts, pc'[f] = <<"again", g>>
               PROVE  hls'[g].ipi_pending \/ Cut(g)'
    BY DEF Marked
  <2>1. f # h /\ pc[f] = <<"again", g>>
    BY <1>c
  <2>2. CASE g = h
    BY <2>1, <2>2, <1>d DEF Cut
  <2>3. CASE g # h
    <3>1. hls[g].ipi_pending \/ Cut(g)
      BY <2>1 DEF SInv, Marked
    <3> QED
      BY <3>1, <2>3, <1>b, <1>d DEF Cut
  <2> QED
    BY <2>2, <2>3
<1> QED
  BY <1>1, <1>2, <1>3, <1>4, FromParts

\* A sender loads ipi_pending of the other hart.
LEMMA SendIpiSInv ==
    ASSUME SInv, NEW h \in Harts, NEW x \in Harts, mcall_send_ipi(h, x)
    PROVE  SInv'
<1>p. pc[h] = <<"supervisor", h>> /\ mip' = mip /\ hls' = hls /\ torn' = torn
  BY DEF mcall_send_ipi, Runs
<1>c. /\ DOMAIN pc' = Harts
      /\ \A g \in Harts : g # h => pc'[g] = pc[g]
      /\ \/ pc'[h] = <<"first", x>>
         \/ pc'[h] = <<"again", x>> /\ hls[x].ipi_pending
  BY OnePc DEF mcall_send_ipi, SInv, Shape
<1>1. Shape'
  BY <1>p, <1>c DEF SInv, Shape
<1>2. ASSUME NEW g \in Harts PROVE Up(g)'
  BY <1>p DEF SInv, EventSignalled, Up
<1>3. ASSUME NEW g \in Harts PROVE Coming(g)'
  <2>1. Coming(g)
    BY Split DEF SInv
  <2>2. \A f \in Harts : pc[f] = <<"send", g>> => pc'[f] = <<"send", g>>
    BY <1>p, <1>c
  <2>3. pc'[g] \notin {<<"recheck", g>>, <<"swap", g>>} =>
            pc[g] \notin {<<"recheck", g>>, <<"swap", g>>}
    <3>1. pc[h] \notin {<<"recheck", h>>, <<"swap", h>>}
      BY <1>p
    <3> QED
      BY <3>1, <1>c
  <2> QED
    BY <2>1, <2>2, <2>3, <1>p DEF Coming, Cut
<1>4. ASSUME NEW g \in Harts PROVE Marked(g)'
  <2> SUFFICES ASSUME NEW f \in Harts, pc'[f] = <<"again", g>>
               PROVE  hls[g].ipi_pending \/ Cut(g)
    BY <1>p DEF Marked, Cut
  <2>1. CASE f = h
    BY <2>1, <1>c
  <2>2. CASE f # h
    <3>1. pc[f] = <<"again", g>>
      BY <2>2, <1>c
    <3> QED
      BY <3>1 DEF SInv, Marked
  <2> QED
    BY <2>1, <2>2
<1> QED
  BY <1>1, <1>2, <1>3, <1>4, FromParts

\* The first to mark another hart's interrupt is about to send it; a later
\* one finds it coming already.
LEMMA StoreSInv ==
    ASSUME SInv, NEW h \in Harts, NEW x \in Harts, Store(h, x)
    PROVE  SInv'
<1>p. /\ mip' = mip /\ torn' = torn
      /\ \/ pc[h] = <<"first", x>> /\ Goto(h, <<"send", x>>)
         \/ pc[h] = <<"again", x>> /\ Goto(h, <<"supervisor", h>>)
  BY DEF Store, Return
<1>b. /\ DOMAIN hls' = Harts
      /\ \A g \in Harts : DOMAIN hls'[g] = Fields
      /\ \A g \in Harts : hls'[g].ipi_pending \in BOOLEAN
      /\ \A g \in Harts : hls'[g].resp_head = hls[g].resp_head
      /\ \A g \in Harts : g # x => hls'[g] = hls[g]
      /\ hls'[x].ipi_pending = TRUE
  BY OnePending DEF Store
<1>c. /\ DOMAIN pc' = Harts
      /\ \A g \in Harts : g # h => pc'[g] = pc[g]
      /\ \/ pc[h] = <<"first", x>> /\ pc'[h] = <<"send", x>>
         \/ pc[h] = <<"again", x>> /\ pc'[h] = <<"supervisor", h>>
  BY <1>p, OnePc
<1>1. Shape'
  BY <1>p, <1>b, <1>c DEF SInv, Shape
<1>2. ASSUME NEW g \in Harts PROVE Up(g)'
  BY <1>p, <1>b DEF SInv, EventSignalled, Up
<1>3. ASSUME NEW g \in Harts PROVE Coming(g)'
  <2>0. Coming(g)
    BY Split DEF SInv
  <2>s. \A f \in Harts : pc[f] = <<"send", g>> => pc'[f] = <<"send", g>>
    BY <1>c
  <2>k. pc'[g] \notin {<<"recheck", g>>, <<"swap", g>>} =>
            pc[g] \notin {<<"recheck", g>>, <<"swap", g>>}
    <3>1. pc[h] \notin {<<"recheck", h>>, <<"swap", h>>}
      BY <1>c
    <3> QED
      BY <3>1, <1>c
  <2>1. CASE hls[g].ipi_pending
    BY <2>1, <2>0, <2>s, <2>k, <1>p DEF Coming, Cut
  <2>2. CASE ~hls[g].ipi_pending /\ g # x
    BY <2>2, <1>b DEF Coming
  <2>3. CASE ~hls[g].ipi_pending /\ g = x
    <3>1. CASE pc'[h] = <<"send", x>>
      BY <3>1, <2>3 DEF Coming
    <3>2. CASE pc[h] = <<"again", x>>
      <4>1. Cut(g)
        BY <3>2, <2>3 DEF SInv, Marked
      <4> QED
        BY <4>1, <1>p DEF Coming, Cut
    <3> QED
      BY <3>1, <3>2, <1>c
  <2> QED
    BY <2>1, <2>2, <2>3
<1>4. \A g \in Harts : Marked(g)'
  <2>1. \A g \in Harts : pc'[h] # <<"again", g>>
    BY <1>c
  <2>2. \A g \in Harts : hls[g].ipi_pending => hls'[g].ipi_pending
    BY <1>b
  <2> QED
    BY <2>1, <2>2, <1>p, <1>c, MarkedKept
<1> QED
  BY <1>1, <1>2, <1>3, <1>4, FromParts

\* What was about to be sent is at the other hart.
LEMMA SendSInv ==
    ASSUME SInv, NEW h \in Harts, NEW x \in Harts, Send(h, x)
    PROVE  SInv'
<1>p. pc[h] = <<"send", x>> /\ hls' = hls /\ torn' = torn
  BY DEF Send
<1>b. /\ mip' \in [Harts -> [ssip : BOOLEAN, msip : BOOLEAN]]
      /\ \A g \in Harts : mip'[g].ssip = mip[g].ssip
      /\ \A g \in Harts : mip[g].msip => mip'[g].msip
      /\ mip'[x].msip
  BY DEF SInv, Shape, Send
<1>c. /\ DOMAIN pc' = Harts
      /\ \A g \in Harts : g # h => pc'[g] = pc[g]
      /\ pc'[h] = <<"supervisor", h>>
  <2>1. Goto(h, <<"supervisor", h>>)
    BY DEF Send, Return
  <2> QED
    BY <2>1, OnePc
<1>1. Shape'
  BY <1>p, <1>b, <1>c DEF SInv, Shape
<1>2. ASSUME NEW g \in Harts PROVE Up(g)'
  BY <1>p, <1>b DEF SInv, EventSignalled, Up
<1>3. ASSUME NEW g \in Harts PROVE Coming(g)'
  <2>0. Coming(g)
    BY Split DEF SInv
  <2>1. CASE g = x
    BY <2>1, <1>b DEF Coming
  <2>2. CASE g # x
    <3>1. \A f \in Harts : pc[f] = <<"send", g>> => pc'[f] = <<"send", g>>
      BY <2>2, <1>p, <1>c
    <3>2. pc[h] \notin {<<"recheck", h>>, <<"swap", h>>}
      BY <1>p
    <3>3. pc'[g] \notin {<<"recheck", g>>, <<"swap", g>>} =>
              pc[g] \notin {<<"recheck", g>>, <<"swap", g>>}
      BY <3>2, <1>c
    <3> QED
      BY <2>0, <3>1, <3>3, <1>p, <1>b DEF Coming, Cut
  <2> QED
    BY <2>1, <2>2
<1>4. \A g \in Harts : Marked(g)'
  <2>1. \A x_ \in Harts : pc'[h] # <<"again", x_>>
    BY <1>c
  <2> QED
    BY <2>1, <1>p, <1>c, MarkedKept
<1> QED
  BY <1>1, <1>2, <1>3, <1>4, FromParts

\* Every step keeps what must be announced announced.
LEMMA NextSInv == SInv /\ [Next]_vars => SInv'
<1> SUFFICES ASSUME SInv, [Next]_vars PROVE SInv'
  OBVIOUS
<1>1. CASE Type
  BY <1>1, Untouched DEF Type
<1>2. CASE UNCHANGED vars
  BY <1>2, Untouched DEF vars
<1>3. ASSUME NEW h \in Harts, Call(h) PROVE SInv'
  BY <1>3, RequestSInv, RespSInv, ClearSInv, SendIpiSInv DEF Call
<1>4. ASSUME NEW h \in Harts, InCall(h) PROVE SInv'
  BY <1>4, RecheckSInv, SwapSInv, StoreSInv, SendSInv DEF InCall
<1>5. ASSUME NEW h \in Harts, Trap(h) PROVE SInv'
  BY <1>5, IrqSInv, TakeSInv DEF Trap
<1> QED
  BY <1>1, <1>2, <1>3, <1>4, <1>5 DEF Next

\* No response waits unannounced, and no interrupt of another hart does
\* unless a clear cut the swap of ipi_pending that marked it, which takes a
\* second hart (mtrap.c:165, :299, :314, :325, atomic.h:21), for every
\* number of harts and messages.
THEOREM Signalled == Spec => []EventSignalled
<1>1. SInv => EventSignalled
  BY DEF SInv
<1> QED
  BY InitSInv, NextSInv, <1>1, PTL DEF Spec

-----------------------------------------------------------------------------
(* Sequences without repetitions *)

\* The messages of a sequence; each once; the first, the last and the next.
Rng(q) == {q[i] : i \in 1 .. Len(q)}
Distinct(q) == \A i, j \in 1 .. Len(q) : q[i] = q[j] => i = j
First(q) == IF q = <<>> THEN Null ELSE q[1]
Tip(q) == IF q = <<>> THEN Null ELSE q[Len(q)]
Rest(q, i) == IF i < Len(q) THEN q[i + 1] ELSE Null

\* The list of q starts at head, and each message names the next one.
ListIn(M, head, q) ==
    /\ head = First(q)
    /\ \A i \in 1 .. Len(q) : M[q[i]].priv = Rest(q, i)

-----------------------------------------------------------------------------
\* A message at the end of a sequence: its length, places and messages.
LEMMA AppendRng ==
    ASSUME NEW S, NEW q \in Seq(S), NEW m \in S
    PROVE  /\ Append(q, m) \in Seq(S)
           /\ Len(Append(q, m)) = Len(q) + 1
           /\ \A i \in 1 .. Len(q) : Append(q, m)[i] = q[i]
           /\ Append(q, m)[Len(q) + 1] = m
           /\ Rng(Append(q, m)) = Rng(q) \cup {m}
<1>1. /\ Append(q, m) \in Seq(S)
      /\ Len(Append(q, m)) = Len(q) + 1
      /\ \A i \in 1 .. Len(q) : Append(q, m)[i] = q[i]
      /\ Append(q, m)[Len(q) + 1] = m
  OBVIOUS
<1>2. Rng(Append(q, m)) = Rng(q) \cup {m}
  <2> PICK a : a = Append(q, m)
    OBVIOUS
  <2> Len(q) \in Nat /\ Len(a) = Len(q) + 1 /\ a[Len(q) + 1] = m
      /\ \A i \in 1 .. Len(q) : a[i] = q[i]
    BY <1>1
  <2>1. ASSUME NEW x \in Rng(a) PROVE x \in Rng(q) \cup {m}
    <3> PICK i \in 1 .. Len(a) : x = a[i]
      BY <2>1 DEF Rng
    <3> CASE i = Len(q) + 1
      OBVIOUS
    <3> CASE i # Len(q) + 1
      <4> i \in 1 .. Len(q)
        OBVIOUS
      <4> QED
        BY DEF Rng
    <3> QED
      OBVIOUS
  <2>2. Rng(q) \subseteq Rng(a)
    <3> SUFFICES ASSUME NEW i \in 1 .. Len(q) PROVE q[i] \in Rng(a)
      BY DEF Rng
    <3> i \in 1 .. Len(a) /\ q[i] = a[i]
      OBVIOUS
    <3> QED
      BY DEF Rng
  <2>3. m \in Rng(a)
    <3> Len(q) + 1 \in 1 .. Len(a)
      OBVIOUS
    <3> QED
      BY DEF Rng
  <2> QED
    BY <2>1, <2>2, <2>3
<1> QED
  BY <1>1, <1>2

\* A message in front of a sequence: its length, places and messages.
LEMMA ConsRng ==
    ASSUME NEW S, NEW q \in Seq(S), NEW m \in S
    PROVE  /\ <<m>> \o q \in Seq(S)
           /\ Len(<<m>> \o q) = Len(q) + 1
           /\ (<<m>> \o q)[1] = m
           /\ \A i \in 1 .. Len(q) : (<<m>> \o q)[i + 1] = q[i]
           /\ Rng(<<m>> \o q) = Rng(q) \cup {m}
<1>1. /\ <<m>> \o q \in Seq(S)
      /\ Len(<<m>> \o q) = Len(q) + 1
      /\ (<<m>> \o q)[1] = m
      /\ \A i \in 1 .. Len(q) : (<<m>> \o q)[i + 1] = q[i]
  OBVIOUS
<1>2. Rng(<<m>> \o q) = Rng(q) \cup {m}
  <2> PICK a : a = <<m>> \o q
    OBVIOUS
  <2> Len(q) \in Nat /\ Len(a) = Len(q) + 1 /\ a[1] = m
      /\ \A i \in 1 .. Len(q) : a[i + 1] = q[i]
    BY <1>1
  <2>1. ASSUME NEW x \in Rng(a) PROVE x \in Rng(q) \cup {m}
    <3> PICK i \in 1 .. Len(a) : x = a[i]
      BY <2>1 DEF Rng
    <3> CASE i = 1
      OBVIOUS
    <3> CASE i # 1
      <4> i - 1 \in 1 .. Len(q) /\ i = (i - 1) + 1
        OBVIOUS
      <4> x = q[i - 1]
        OBVIOUS
      <4> QED
        BY DEF Rng
    <3> QED
      OBVIOUS
  <2>2. Rng(q) \subseteq Rng(a)
    <3> SUFFICES ASSUME NEW i \in 1 .. Len(q) PROVE q[i] \in Rng(a)
      BY DEF Rng
    <3> i + 1 \in 1 .. Len(a) /\ q[i] = a[i + 1]
      OBVIOUS
    <3> QED
      BY DEF Rng
  <2>3. m \in Rng(a)
    <3> 1 \in 1 .. Len(a)
      OBVIOUS
    <3> QED
      BY DEF Rng
  <2> QED
    BY <2>1, <2>2, <2>3
<1> QED
  BY <1>1, <1>2

\* A sequence without its first message.
LEMMA TailRng ==
    ASSUME NEW S, NEW q \in Seq(S), q # <<>>
    PROVE  /\ Tail(q) \in Seq(S)
           /\ Len(Tail(q)) = Len(q) - 1 /\ Len(q) \in Nat /\ Len(q) > 0
           /\ \A i \in 1 .. Len(Tail(q)) : Tail(q)[i] = q[i + 1]
           /\ Rng(q) = Rng(Tail(q)) \cup {q[1]}
           /\ Distinct(q) => Distinct(Tail(q)) /\ q[1] \notin Rng(Tail(q))
<1>1. /\ Tail(q) \in Seq(S)
      /\ Len(Tail(q)) = Len(q) - 1 /\ Len(q) \in Nat /\ Len(q) > 0
      /\ \A i \in 1 .. Len(Tail(q)) : Tail(q)[i] = q[i + 1]
  OBVIOUS
<1> PICK a : a = Tail(q)
  OBVIOUS
<1> Len(q) \in Nat /\ Len(q) > 0 /\ Len(a) = Len(q) - 1
    /\ \A i \in 1 .. Len(a) : a[i] = q[i + 1]
  BY <1>1
<1>2. Rng(q) = Rng(a) \cup {q[1]}
  <2>1. ASSUME NEW x \in Rng(q) PROVE x \in Rng(a) \cup {q[1]}
    <3> PICK i \in 1 .. Len(q) : x = q[i]
      BY <2>1 DEF Rng
    <3> CASE i = 1
      OBVIOUS
    <3> CASE i # 1
      <4> i - 1 \in 1 .. Len(a) /\ i = (i - 1) + 1
        OBVIOUS
      <4> x = a[i - 1]
        OBVIOUS
      <4> QED
        BY DEF Rng
    <3> QED
      OBVIOUS
  <2>2. Rng(a) \subseteq Rng(q)
    <3> SUFFICES ASSUME NEW i \in 1 .. Len(a) PROVE a[i] \in Rng(q)
      BY DEF Rng
    <3> i + 1 \in 1 .. Len(q) /\ a[i] = q[i + 1]
      OBVIOUS
    <3> QED
      BY DEF Rng
  <2>3. q[1] \in Rng(q)
    <3> 1 \in 1 .. Len(q)
      OBVIOUS
    <3> QED
      BY DEF Rng
  <2> QED
    BY <2>1, <2>2, <2>3
<1>3. ASSUME Distinct(q) PROVE Distinct(a) /\ q[1] \notin Rng(a)
  <2>1. \A i \in 1 .. Len(a) : i + 1 \in 1 .. Len(q)
    OBVIOUS
  <2>2. Distinct(a)
    <3> SUFFICES ASSUME NEW i \in 1 .. Len(a), NEW j \in 1 .. Len(a), a[i] = a[j]
                 PROVE  i = j
      BY DEF Distinct
    <3> i + 1 \in 1 .. Len(q) /\ j + 1 \in 1 .. Len(q) /\ q[i + 1] = q[j + 1]
      BY <2>1
    <3> i + 1 = j + 1
      BY <1>3 DEF Distinct
    <3> QED
      OBVIOUS
  <2>3. ASSUME q[1] \in Rng(a) PROVE FALSE
    <3> PICK i \in 1 .. Len(a) : q[1] = a[i]
      BY <2>3 DEF Rng
    <3> i + 1 \in 1 .. Len(q) /\ 1 \in 1 .. Len(q) /\ q[i + 1] = q[1]
      BY <2>1
    <3> i + 1 = 1
      BY <1>3 DEF Distinct
    <3> QED
      OBVIOUS
  <2> QED
    BY <2>2, <2>3
<1> QED
  BY <1>1, <1>2, <1>3

\* A new message at the end repeats nothing.
LEMMA AppendDistinct ==
    ASSUME NEW S, NEW q \in Seq(S), NEW m \in S, Distinct(q), m \notin Rng(q)
    PROVE  Distinct(Append(q, m))
<1> PICK a : a = Append(q, m)
  OBVIOUS
<1> Len(q) \in Nat /\ Len(a) = Len(q) + 1 /\ a[Len(q) + 1] = m
    /\ \A i \in 1 .. Len(q) : a[i] = q[i]
  BY AppendRng
<1> \A i \in 1 .. Len(q) : q[i] # m
  BY DEF Rng
<1> SUFFICES ASSUME NEW i \in 1 .. Len(a), NEW j \in 1 .. Len(a), a[i] = a[j]
             PROVE  i = j
  BY DEF Distinct
<1>1. CASE i = Len(q) + 1 /\ j = Len(q) + 1
  BY <1>1
<1>2. CASE i = Len(q) + 1 /\ j # Len(q) + 1
  BY <1>2
<1>3. CASE i # Len(q) + 1 /\ j = Len(q) + 1
  BY <1>3
<1>4. CASE i # Len(q) + 1 /\ j # Len(q) + 1
  <2> i \in 1 .. Len(q) /\ j \in 1 .. Len(q)
    BY <1>4
  <2> q[i] = q[j]
    OBVIOUS
  <2> QED
    BY DEF Distinct
<1> QED
  BY <1>1, <1>2, <1>3, <1>4

\* A new message in front repeats nothing.
LEMMA ConsDistinct ==
    ASSUME NEW S, NEW q \in Seq(S), NEW m \in S, Distinct(q), m \notin Rng(q)
    PROVE  Distinct(<<m>> \o q)
<1> PICK a : a = <<m>> \o q
  OBVIOUS
<1> Len(q) \in Nat /\ Len(a) = Len(q) + 1 /\ a[1] = m
    /\ \A i \in 1 .. Len(q) : a[i + 1] = q[i]
  BY ConsRng
<1> \A i \in 1 .. Len(q) : q[i] # m
  BY DEF Rng
<1>a. ASSUME NEW i \in 1 .. Len(a), i # 1
      PROVE  i - 1 \in 1 .. Len(q) /\ a[i] = q[i - 1]
  <2>1. i - 1 \in 1 .. Len(q) /\ i = (i - 1) + 1
    BY <1>a
  <2> QED
    BY <2>1
<1> SUFFICES ASSUME NEW i \in 1 .. Len(a), NEW j \in 1 .. Len(a), a[i] = a[j]
             PROVE  i = j
  BY DEF Distinct
<1>1. CASE i = 1 /\ j = 1
  BY <1>1
<1>2. CASE i = 1 /\ j # 1
  BY <1>2, <1>a
<1>3. CASE i # 1 /\ j = 1
  BY <1>3, <1>a
<1>4. CASE i # 1 /\ j # 1
  <2>1. i - 1 \in 1 .. Len(q) /\ j - 1 \in 1 .. Len(q) /\ q[i - 1] = q[j - 1]
    BY <1>4, <1>a
  <2>2. i - 1 = j - 1
    BY <2>1, Zenon DEF Distinct
  <2> QED
    BY <2>2
<1> QED
  BY <1>1, <1>2, <1>3, <1>4

\* A sequence without repetitions is no longer than the set is large.
LEMMA DistinctShort ==
    ASSUME NEW S, IsFiniteSet(S), NEW q \in Seq(S), Distinct(q)
    PROVE  Len(q) <= Cardinality(S) /\ Cardinality(S) \in Nat
<1>1. q \in Injection(1 .. Len(q), S)
  <2>1. q \in [1 .. Len(q) -> S]
    OBVIOUS
  <2>2. DOMAIN q = 1 .. Len(q)
    OBVIOUS
  <2>3. IsInjective(q)
    BY <2>2, Zenon DEF Distinct, IsInjective
  <2> QED
    BY <2>1, <2>3, Zenon DEF Injection
<1>2. Len(q) \in Nat /\ Cardinality(1 .. Len(q)) = Len(q)
  <2>1. Len(q) \in Int /\ 1 \in Int /\ Len(q) \in Nat
    OBVIOUS
  <2>2. Cardinality(1 .. Len(q)) = IF 1 > Len(q) THEN 0 ELSE Len(q) - 1 + 1
    BY <2>1, FS_Interval, Zenon
  <2> QED
    BY <2>1, <2>2
<1> QED
  BY <1>1, <1>2, FS_Injection, FS_CardinalityType

-----------------------------------------------------------------------------
(* Induction *)

\* Every set of numbers that is not empty has a least one.
LEMMA Least ==
    ASSUME NEW T, T \subseteq Nat, T # {}
    PROVE  \E x \in T : \A y \in T : x <= y
<1>1. PICK R : R = OpToRel(<, Nat)
  OBVIOUS
<1>2. IsWellFoundedOn(R, Nat)
  BY <1>1, NatLessThanWellFounded, Zenon
<1>3. \A x \in Nat, y \in Nat : y < x => <<y, x>> \in R
  BY <1>1, Zenon DEF OpToRel
<1>4. PICK x \in T : \A y \in T : ~(<<y, x>> \in R)
  BY <1>2, WFMin, Zenon
<1>5. ASSUME NEW y \in T PROVE x <= y
  <2>1. ~(y < x)
    BY <1>3, <1>4, Zenon
  <2>2. x \in Nat /\ y \in Nat
    OBVIOUS
  <2> QED
    BY <2>1, <2>2
<1> QED
  BY <1>5

\* A set of numbers up to c that has 0, and each number after one it has.
LEMMA Upwards ==
    ASSUME NEW c \in Nat, NEW T, 0 \in T,
           \A n \in 1 .. c : n - 1 \in T => n \in T
    PROVE  \A n \in 0 .. c : n \in T
<1> SUFFICES ASSUME NEW n \in 0 .. c, n \notin T PROVE FALSE
  OBVIOUS
<1> DEFINE Bad == {k \in 0 .. c : k \notin T}
<1>1. n \in Bad /\ Bad \subseteq Nat
  OBVIOUS
<1> HIDE DEF Bad
<1>2. Bad # {}
  BY <1>1
<1>3. PICK k \in Bad : \A j \in Bad : k <= j
  BY <1>1, <1>2, Least, Zenon
<1>4. k \in 0 .. c /\ k \notin T
  BY DEF Bad
<1>5. k - 1 \in 0 .. c /\ k \in 1 .. c
  BY <1>4
<1>6. k - 1 \notin Bad
  <2>1. k - 1 \in Bad => k <= k - 1
    BY <1>3, Zenon
  <2> QED
    BY <2>1, <1>4
<1>7. k - 1 \in T
  BY <1>5, <1>6 DEF Bad
<1> QED
  BY <1>4, <1>5, <1>7

-----------------------------------------------------------------------------
(* Chain *)

\* Where a chain may be, and what is n messages far from each place.
Places == Msgs \cup {Null}
Row(M, n, before) ==
    [m \in Places |-> IF m = Null \/ n = 0 THEN <<>> ELSE <<m>> \o before[M[m].priv]]

\* What follows no message does not depend on what comes before.
LEMMA RowZero == \A M, a, b : Row(M, 0, a) = Row(M, 0, b)
  BY DEF Row

\* There is a function that the recursion of Chain describes.
LEMMA RowsExist ==
    ASSUME NEW M, NEW c \in Nat
    PROVE  \E f : f = [n \in 0 .. c |-> Row(M, n, f[n - 1])]
<1> DEFINE T == {n \in 0 .. c : \E f : f = [k \in 0 .. n |-> Row(M, k, f[k - 1])]}
<1>1. 0 \in T
  <2> PICK f : f = [k \in 0 .. 0 |-> Row(M, 0, 0)]
    OBVIOUS
  <2>1. \A k \in 0 .. 0 : Row(M, k, f[k - 1]) = Row(M, 0, 0)
    <3>1. \A k \in 0 .. 0 : k = 0
      OBVIOUS
    <3>2. Row(M, 0, f[0 - 1]) = Row(M, 0, 0)
      BY RowZero, Zenon
    <3> QED
      BY <3>1, <3>2
  <2>2. f = [k \in 0 .. 0 |-> Row(M, k, f[k - 1])]
    BY <2>1
  <2> QED
    BY <2>2
<1>2. ASSUME NEW n \in 1 .. c, n - 1 \in T PROVE n \in T
  <2>1. PICK f : f = [k \in 0 .. (n - 1) |-> Row(M, k, f[k - 1])]
    BY <1>2
  <2>2. PICK g : g = [k \in 0 .. n |-> IF k = n THEN Row(M, n, f[n - 1]) ELSE f[k]]
    OBVIOUS
  <2>3. ASSUME NEW k \in 0 .. n PROVE g[k] = Row(M, k, g[k - 1])
    <3>1. CASE k = 0
      <4>1. g[0] = f[0] /\ f[0] = Row(M, 0, f[0 - 1])
        BY <2>1, <2>2
      <4>2. Row(M, 0, f[0 - 1]) = Row(M, 0, g[0 - 1])
        BY RowZero, Zenon
      <4> QED
        BY <3>1, <4>1, <4>2
    <3>2. CASE k = n
      <4>1. g[k] = Row(M, k, f[k - 1]) /\ g[k - 1] = f[k - 1]
        BY <3>2, <2>2
      <4> QED
        BY <4>1, Zenon
    <3>3. CASE k # 0 /\ k # n
      <4>1. g[k] = f[k] /\ g[k - 1] = f[k - 1] /\ f[k] = Row(M, k, f[k - 1])
        BY <3>3, <2>1, <2>2
      <4> QED
        BY <4>1, Zenon
    <3> QED
      BY <3>1, <3>2, <3>3
  <2>4. g = [k \in 0 .. n |-> Row(M, k, g[k - 1])]
    BY <2>2, <2>3
  <2>5. n \in 0 .. c
    OBVIOUS
  <2> QED
    BY <2>4, <2>5
<1> HIDE DEF T
<1>3. c \in T
  BY <1>1, <1>2, Upwards
<1> QED
  BY <1>3 DEF T

\* Chain is that function: what it follows n messages far, from what it
\* follows n - 1 far.
LEMMA ChainDef ==
    ASSUME Cardinality(Msgs) \in Nat
    PROVE  \A n \in 0 .. Cardinality(Msgs) : Chain[n] = Row(msg, n, Chain[n - 1])
<1> DEFINE c == Cardinality(Msgs)
<1>1. \E f : f = [n \in 0 .. c |-> Row(msg, n, f[n - 1])]
  BY RowsExist
<1>2. Chain = CHOOSE f : f = [n \in 0 .. c |-> Row(msg, n, f[n - 1])]
  BY Zenon DEF Chain, Row, Places
<1> HIDE DEF c
<1>3. Chain = [n \in 0 .. c |-> Row(msg, n, Chain[n - 1])]
  BY <1>1, <1>2, Zenon
<1>4. \A n \in 0 .. c : Chain[n] = Row(msg, n, Chain[n - 1])
  BY <1>3, Zenon
<1> QED
  BY <1>4 DEF c

\* The first message of a list names the list of the others.
LEMMA ListTail ==
    ASSUME NEW S, NEW q \in Seq(S), q # <<>>, NEW M, NEW head, ListIn(M, head, q)
    PROVE  head = q[1] /\ head \in S /\ ListIn(M, M[head].priv, Tail(q))
<1> PICK a : a = Tail(q)
  OBVIOUS
<1>1. /\ Len(q) \in Nat /\ Len(q) > 0 /\ Len(a) = Len(q) - 1 /\ a \in Seq(S)
      /\ \A i \in 1 .. Len(a) : a[i] = q[i + 1]
  BY TailRng
<1>2. head = q[1] /\ q[1] \in S
  BY DEF ListIn, First
<1>3. M[head].priv = First(a)
  <2>1. M[q[1]].priv = Rest(q, 1)
    BY <1>1 DEF ListIn
  <2>2. CASE Len(q) = 1
    BY <2>1, <2>2, <1>1, <1>2 DEF Rest, First
  <2>3. CASE Len(q) # 1
    <3>1. 1 < Len(q) /\ a # <<>> /\ a[1] = q[1 + 1]
      BY <2>3, <1>1
    <3> QED
      BY <3>1, <2>1, <1>2 DEF Rest, First
  <2> QED
    BY <2>2, <2>3
<1>4. ASSUME NEW i \in 1 .. Len(a) PROVE M[a[i]].priv = Rest(a, i)
  <2>1. i + 1 \in 1 .. Len(q) /\ a[i] = q[i + 1]
    BY <1>1
  <2>2. M[q[i + 1]].priv = Rest(q, i + 1)
    BY <2>1 DEF ListIn
  <2>3. Rest(q, i + 1) = Rest(a, i)
    <3>1. CASE i = Len(a)
      BY <3>1, <1>1 DEF Rest
    <3>2. CASE i # Len(a)
      <4>1. i + 1 \in 1 .. Len(a) /\ i < Len(a) /\ i + 1 < Len(q)
        <5> PICK la, lq : la = Len(a) /\ lq = Len(q)
          OBVIOUS
        <5>1. lq \in Nat /\ la = lq - 1 /\ i \in 1 .. la /\ i # la
          BY <3>2, <1>1
        <5> QED
          BY <5>1
      <4>2. a[i + 1] = q[(i + 1) + 1]
        BY <4>1, <1>1, Zenon
      <4> QED
        BY <4>1, <4>2 DEF Rest
    <3> QED
      BY <3>1, <3>2
  <2> QED
    BY <2>1, <2>2, <2>3
<1> QED
  BY <1>2, <1>3, <1>4 DEF ListIn

\* What Chain gives, for a list that is no longer than asked.
LEMMA ChainIs ==
    ASSUME IsFiniteSet(Msgs), NEW q \in Seq(Msgs), NEW head, ListIn(msg, head, q),
           NEW n \in 0 .. Cardinality(Msgs), Len(q) <= n
    PROVE  Chain[n][head] = q
<1>c. Cardinality(Msgs) \in Nat
  BY FS_CardinalityType
<1> PICK c : c = Cardinality(Msgs)
  OBVIOUS
<1> c \in Nat
  BY <1>c
<1>d. \A k \in 0 .. c : Chain[k] = Row(msg, k, Chain[k - 1])
  BY <1>c, ChainDef
<1> PICK C : C = Chain
  OBVIOUS
<1>n. Null \notin Msgs
  BY SbiAssumption
<1> DEFINE Good(k) == \A h : \A r \in Seq(Msgs) :
                          ListIn(msg, h, r) /\ Len(r) <= k => C[k][h] = r
           T == {k \in 0 .. c : Good(k)}
<1>e. ASSUME NEW k \in 0 .. c, NEW r \in Seq(Msgs), ListIn(msg, Null, r)
      PROVE  C[k][Null] = r
  <2>1. r = <<>>
    <3>1. Len(r) \in Nat
      OBVIOUS
    <3> SUFFICES ASSUME r # <<>> PROVE FALSE
      OBVIOUS
    <3>2. Null \in Msgs
      BY <1>e, ListTail
    <3> QED
      BY <3>2, <1>n
  <2>2. Null \in Places
    BY DEF Places
  <2>3. C[k][Null] = <<>>
    BY <1>d, <2>2 DEF Row
  <2> QED
    BY <2>1, <2>3
<1>1. 0 \in T
  <2> SUFFICES ASSUME NEW h, NEW r \in Seq(Msgs), ListIn(msg, h, r), Len(r) <= 0
               PROVE  C[0][h] = r
    BY DEF Good
  <2>1. r = <<>>
    OBVIOUS
  <2>2. h = Null
    BY <2>1 DEF ListIn, First
  <2>3. 0 \in 0 .. c
    OBVIOUS
  <2> QED
    BY <2>2, <2>3, <1>e
<1>2. ASSUME NEW k \in 1 .. c, k - 1 \in T PROVE k \in T
  <2>k. k \in 0 .. c
    OBVIOUS
  <2> SUFFICES ASSUME NEW h, NEW r \in Seq(Msgs), ListIn(msg, h, r), Len(r) <= k
               PROVE  C[k][h] = r
    BY <2>k DEF Good
  <2>1. CASE r = <<>>
    <3>1. h = Null
      BY <2>1 DEF ListIn, First
    <3> QED
      BY <3>1, <2>k, <1>e
  <2>2. CASE r # <<>>
    <3>1. h = r[1] /\ h \in Msgs /\ ListIn(msg, msg[h].priv, Tail(r))
      BY <2>2, ListTail
    <3>2. Tail(r) \in Seq(Msgs) /\ Len(Tail(r)) <= k - 1 /\ r = <<r[1]>> \o Tail(r)
      BY <2>2
    <3>3. C[k - 1][msg[h].priv] = Tail(r)
      BY <3>1, <3>2, <1>2 DEF Good
    <3>4. C[k][h] = <<h>> \o C[k - 1][msg[h].priv]
      <4>1. h \in Places /\ h # Null /\ k # 0
        BY <3>1, <1>n DEF Places
      <4>2. C[k] = Row(msg, k, C[k - 1])
        BY <1>d, <2>k
      <4> QED
        BY <4>1, <4>2, Zenon DEF Row
    <3> QED
      BY <3>1, <3>2, <3>3, <3>4
  <2> QED
    BY <2>1, <2>2
<1> HIDE DEF T
<1>3. n \in T
  BY <1>1, <1>2, Upwards
<1>4. Good(n)
  BY <1>3 DEF T
<1> HIDE DEF Good
<1>5. C[n][head] = q
  BY <1>4, Zenon DEF Good
<1> QED
  BY <1>5

-----------------------------------------------------------------------------
(* Harts and their lists *)

\* The two lists of every hart.
Kinds == {"request", "response"}
Slots == Harts \X Kinds
Req(h) == <<h, "request">>
Resp(h) == <<h, "response">>

\* The lists L, one at each slot, have no message twice.
Once(L) ==
    /\ L \in [Slots -> Seq(Msgs)]
    /\ \A p \in Slots : Distinct(L[p])
    /\ \A p, r \in Slots : p # r => Rng(L[p]) \cap Rng(L[r]) = {}

\* The message is on no list.
Off(L, m) == \A p \in Slots : m \notin Rng(L[p])

\* The queues of the hart are the requests q and the responses r.
HartList(H, M, q, r) ==
    /\ ListIn(M, H.req_head, q)
    /\ H.req_size = Len(q)
    /\ ListIn(M, H.resp_head, r)
    /\ H.resp_tail = Tip(r)

\* The queues Q and messages M of all harts are the lists L.
Linked(Q, M, L) ==
    /\ Once(L)
    /\ \A h \in Harts : HartList(Q[h], M, L[Req(h)], L[Resp(h)])

\* What was given is on a list; only reads of the console are requests.
Owned(L, g) ==
    /\ \A m \in Msgs : g[m] # "nothing" <=> \E p \in Slots : m \in Rng(L[p])
    /\ \A h \in Harts : \A m \in Rng(L[Req(h)]) : g[m] = "char"

\* Two records of a hart with the same queues.
SameReq(A, B) == A.req_head = B.req_head /\ A.req_size = B.req_size
SameResp(A, B) == A.resp_head = B.resp_head /\ A.resp_tail = B.resp_tail

\* The lists L with a at p.
With(L, p, a) == [L EXCEPT ![p] = a]

\* r has the messages of q and m.
Grown(r, q, m) == Rng(r) = Rng(q) \cup {m}

\* K is L with a at p.
Onto(K, L, p, a) == K[p] = a /\ \A r \in Slots : r # p => K[r] = L[r]

\* The links of the messages of a list are the same, those but the last's.
Kept(N, M, q) == \A x \in Rng(q) : N[x].priv = M[x].priv
KeptButTip(N, M, q) == \A x \in Rng(q) : x # Tip(q) => N[x].priv = M[x].priv

-----------------------------------------------------------------------------
\* The slots are the requests and the responses of every hart, all apart.
LEMMA SlotFacts ==
    /\ \A h \in Harts : Req(h) \in Slots /\ Resp(h) \in Slots
    /\ \A h, g \in Harts : Req(h) # Resp(g)
    /\ \A h, g \in Harts : h # g => Req(h) # Req(g) /\ Resp(h) # Resp(g)
    /\ \A p \in Slots : \E h \in Harts : p = Req(h) \/ p = Resp(h)
BY DEF Slots, Kinds, Req, Resp

\* The messages of a sequence are in the set it is over.
LEMMA RngIn ==
    ASSUME NEW S, NEW q \in Seq(S)
    PROVE  /\ Rng(q) \subseteq S
           /\ \A i \in 1 .. Len(q) : q[i] \in Rng(q)
BY DEF Rng

\* The last message of a sequence that is not empty.
LEMMA TipIn ==
    ASSUME NEW S, NEW q \in Seq(S), q # <<>>
    PROVE  Len(q) \in 1 .. Len(q) /\ Tip(q) = q[Len(q)] /\ Tip(q) \in Rng(q)
<1>1. Len(q) \in 1 .. Len(q) /\ Tip(q) = q[Len(q)]
  BY DEF Tip
<1> QED
  BY <1>1, RngIn

\* A message that is on no list may be added to one.
LEMMA OnceAdd ==
    ASSUME NEW L, Once(L), NEW p \in Slots, NEW m, Off(L, m),
           NEW a \in Seq(Msgs), Distinct(a), Grown(a, L[p], m),
           NEW K, K = With(L, p, a)
    PROVE  Once(K) /\ Onto(K, L, p, a)
<1>1. K \in [Slots -> Seq(Msgs)] /\ K[p] = a /\ \A r \in Slots : r # p => K[r] = L[r]
  BY DEF Once, With
<1>2. \A r \in Slots : Distinct(K[r])
  BY <1>1 DEF Once
<1>3. ASSUME NEW r \in Slots, r # p PROVE Rng(K[r]) \cap Rng(K[p]) = {}
  <2>1. Rng(L[r]) \cap Rng(L[p]) = {} /\ m \notin Rng(L[r])
    BY <1>3 DEF Once, Off
  <2>2. K[r] = L[r]
    BY <1>1, <1>3
  <2> QED
    BY <2>1, <2>2, <1>1 DEF Grown
<1>4. ASSUME NEW r \in Slots, NEW s \in Slots, r # s PROVE Rng(K[r]) \cap Rng(K[s]) = {}
  <2>1. CASE r = p
    BY <2>1, <1>3, <1>4
  <2>2. CASE s = p
    BY <2>2, <1>3, <1>4
  <2>3. CASE r # p /\ s # p
    BY <2>3, <1>4, <1>1 DEF Once
  <2> QED
    BY <2>1, <2>2, <2>3
<1> QED
  BY <1>1, <1>2, <1>4 DEF Once, Onto

\* The first message of a list may be taken off: it is then on none.
LEMMA OnceTail ==
    ASSUME NEW L, Once(L), NEW p \in Slots, L[p] # <<>>,
           NEW K, K = With(L, p, Tail(L[p])), NEW m, m = L[p][1]
    PROVE  /\ Once(K) /\ Onto(K, L, p, Tail(L[p]))
           /\ Off(K, m) /\ m \in Msgs
           /\ Grown(L[p], K[p], m)
<1>0. L[p] \in Seq(Msgs) /\ Distinct(L[p])
  BY DEF Once
<1>1. /\ Tail(L[p]) \in Seq(Msgs) /\ Distinct(Tail(L[p]))
      /\ Rng(L[p]) = Rng(Tail(L[p])) \cup {m}
      /\ m \notin Rng(Tail(L[p]))
  BY <1>0, TailRng
<1>2. K \in [Slots -> Seq(Msgs)] /\ K[p] = Tail(L[p]) /\ \A r \in Slots : r # p => K[r] = L[r]
  BY <1>1 DEF Once, With
<1>3. \A r \in Slots : Distinct(K[r])
  BY <1>1, <1>2 DEF Once
<1>4. \A r \in Slots : Rng(K[r]) \subseteq Rng(L[r])
  BY <1>1, <1>2
<1>5. \A r, s \in Slots : r # s => Rng(K[r]) \cap Rng(K[s]) = {}
  <2> SUFFICES ASSUME NEW r \in Slots, NEW s \in Slots, r # s
               PROVE  Rng(K[r]) \cap Rng(K[s]) = {}
    OBVIOUS
  <2>1. Rng(L[r]) \cap Rng(L[s]) = {}
    BY DEF Once
  <2>2. Rng(K[r]) \subseteq Rng(L[r]) /\ Rng(K[s]) \subseteq Rng(L[s])
    BY <1>4
  <2> QED
    BY <2>1, <2>2
<1>6. m \in Rng(L[p]) /\ m \in Msgs
  BY <1>0, <1>1, RngIn
<1>7. Off(K, m)
  <2> SUFFICES ASSUME NEW r \in Slots PROVE m \notin Rng(K[r])
    BY DEF Off
  <2>1. CASE r = p
    BY <2>1, <1>1, <1>2
  <2>2. CASE r # p
    <3>1. Rng(L[r]) \cap Rng(L[p]) = {} /\ K[r] = L[r]
      BY <2>2, <1>2 DEF Once
    <3> QED
      BY <3>1, <1>6
  <2> QED
    BY <2>1, <2>2
<1> QED
  BY <1>1, <1>2, <1>3, <1>5, <1>6, <1>7 DEF Once, Onto, Grown

-----------------------------------------------------------------------------
\* A list depends on the links of its own messages alone.
LEMMA ListKept ==
    ASSUME NEW S, NEW q \in Seq(S), NEW M, NEW N, NEW head, ListIn(M, head, q),
           Kept(N, M, q)
    PROVE  ListIn(N, head, q)
<1>1. \A i \in 1 .. Len(q) : N[q[i]].priv = M[q[i]].priv
  BY RngIn, Zenon DEF Kept
<1> QED
  BY <1>1, Zenon DEF ListIn

\* A message at the end: only the link of the last one changes.
LEMMA ListAppend ==
    ASSUME NEW S, NEW q \in Seq(S), NEW m \in S, NEW M, NEW N, NEW head,
           ListIn(M, head, q), Distinct(q), N[m].priv = Null,
           q # <<>> => N[Tip(q)].priv = m,
           KeptButTip(N, M, q)
    PROVE  ListIn(N, IF q = <<>> THEN m ELSE head, Append(q, m))
<1> PICK a : a = Append(q, m)
  OBVIOUS
<1>1. /\ Len(q) \in Nat /\ a \in Seq(S) /\ Len(a) = Len(q) + 1 /\ a[Len(q) + 1] = m
      /\ \A i \in 1 .. Len(q) : a[i] = q[i]
  BY AppendRng
<1>2. First(a) = IF q = <<>> THEN m ELSE head
  <2>0. a # <<>> /\ 1 \in 1 .. Len(a)
    BY <1>1
  <2>1. CASE q = <<>>
    BY <2>0, <2>1, <1>1 DEF First
  <2>2. CASE q # <<>>
    <3>1. 1 \in 1 .. Len(q) /\ head = q[1]
      BY <2>2, <1>1 DEF ListIn, First
    <3> QED
      BY <3>1, <2>0, <2>2, <1>1 DEF First
  <2> QED
    BY <2>1, <2>2
<1>3. ASSUME NEW i \in 1 .. Len(a) PROVE N[a[i]].priv = Rest(a, i)
  <2>1. CASE i = Len(q) + 1
    BY <2>1, <1>1 DEF Rest
  <2>2. CASE i = Len(q)
    <3>1. i \in 1 .. Len(q) /\ q # <<>> /\ i < Len(a)
      BY <2>2, <1>1
    <3>2. Tip(q) = q[i] /\ a[i] = q[i]
      BY <3>1, <2>2, <1>1 DEF Tip
    <3>3. Rest(a, i) = m
      BY <3>1, <2>2, <1>1 DEF Rest
    <3> QED
      BY <3>1, <3>2, <3>3
  <2>3. CASE i # Len(q) + 1 /\ i # Len(q)
    <3>1. i \in 1 .. Len(q) /\ i + 1 \in 1 .. Len(q) /\ i < Len(q) /\ i < Len(a) /\ q # <<>>
      BY <2>3, <1>1
    <3>2. a[i] = q[i] /\ a[i + 1] = q[i + 1]
      BY <3>1, <1>1
    <3>3. Tip(q) = q[Len(q)] /\ Len(q) \in 1 .. Len(q)
      BY <3>1, TipIn
    <3>4. q[i] # Tip(q)
      BY <3>1, <3>3 DEF Distinct
    <3>5. q[i] \in Rng(q)
      BY <3>1, RngIn
    <3>6. N[q[i]].priv = M[q[i]].priv
      BY <3>4, <3>5 DEF KeptButTip
    <3>7. M[q[i]].priv = q[i + 1]
      BY <3>1 DEF ListIn, Rest
    <3>8. Rest(a, i) = a[i + 1]
      BY <3>1 DEF Rest
    <3> QED
      BY <3>2, <3>6, <3>7, <3>8
  <2> QED
    BY <2>1, <2>2, <2>3
<1> QED
  BY <1>2, <1>3 DEF ListIn

\* A message in front, linked to what was the head.
LEMMA ListCons ==
    ASSUME NEW S, NEW q \in Seq(S), NEW m \in S, NEW M, NEW N, NEW head,
           ListIn(M, head, q), N[m].priv = head,
           Kept(N, M, q)
    PROVE  ListIn(N, m, <<m>> \o q)
<1> PICK a : a = <<m>> \o q
  OBVIOUS
<1>1. /\ Len(q) \in Nat /\ a \in Seq(S) /\ Len(a) = Len(q) + 1 /\ a[1] = m
      /\ \A i \in 1 .. Len(q) : a[i + 1] = q[i]
  BY ConsRng
<1>2. First(a) = m
  BY <1>1 DEF First
<1>3. ASSUME NEW i \in 1 .. Len(a) PROVE N[a[i]].priv = Rest(a, i)
  <2>1. CASE i = 1
    <3>1. CASE q = <<>>
      <4>1. Rest(a, 1) = Null /\ head = Null
        BY <3>1, <1>1 DEF Rest, ListIn, First
      <4> QED
        BY <4>1, <2>1, <1>1
    <3>2. CASE q # <<>>
      <4>1. 1 \in 1 .. Len(q) /\ 1 < Len(a)
        BY <3>2, <1>1
      <4>2. a[1 + 1] = q[1]
        BY <4>1, <1>1
      <4>3. Rest(a, 1) = q[1] /\ head = q[1]
        BY <3>2, <4>1, <4>2 DEF Rest, ListIn, First
      <4> QED
        BY <4>3, <2>1, <1>1
    <3> QED
      BY <3>1, <3>2
  <2>2. CASE i # 1
    <3> PICK j \in 1 .. Len(q) : i = j + 1
      <4>1. i - 1 \in 1 .. Len(q) /\ i = (i - 1) + 1
        BY <2>2, <1>1
      <4> QED
        BY <4>1
    <3>1. a[i] = q[j] /\ q[j] \in Rng(q)
      BY <1>1, RngIn
    <3>2. N[q[j]].priv = Rest(q, j)
      BY <3>1 DEF ListIn, Kept
    <3>3. Rest(q, j) = Rest(a, i)
      <4>1. CASE j = Len(q)
        BY <4>1, <1>1 DEF Rest
      <4>2. CASE j # Len(q)
        <5>1. j + 1 \in 1 .. Len(q) /\ j < Len(q) /\ i < Len(a) /\ i + 1 = (j + 1) + 1
          BY <4>2, <1>1
        <5>2. a[(j + 1) + 1] = q[j + 1]
          BY <5>1, <1>1, Zenon
        <5> QED
          BY <5>1, <5>2 DEF Rest
      <4> QED
        BY <4>1, <4>2
    <3> QED
      BY <3>1, <3>2, <3>3
  <2> QED
    BY <2>1, <2>2
<1> QED
  BY <1>2, <1>3 DEF ListIn

\* A hart whose queues stay, and the links of its messages too.
Elsewhere(A, B, M, N, q, r) ==
    /\ HartList(A, M, q, r)
    /\ SameReq(B, A) /\ SameResp(B, A)
    /\ Kept(N, M, q) /\ Kept(N, M, r)

\* A change of one hart's queues and of the messages' links.
LEMMA Relink ==
    ASSUME NEW K, Once(K), NEW h \in Harts, NEW Q, NEW R, NEW M, NEW N,
           HartList(R[h], N, K[Req(h)], K[Resp(h)]),
           \A g \in Harts : g # h => Elsewhere(Q[g], R[g], M, N, K[Req(g)], K[Resp(g)])
    PROVE  Linked(R, N, K)
<1> SUFFICES ASSUME NEW g \in Harts PROVE HartList(R[g], N, K[Req(g)], K[Resp(g)])
  BY DEF Linked
<1>1. CASE g = h
  BY <1>1
<1>2. CASE g # h
  <2>1. K[Req(g)] \in Seq(Msgs) /\ K[Resp(g)] \in Seq(Msgs)
    BY SlotFacts DEF Once
  <2>0. Elsewhere(Q[g], R[g], M, N, K[Req(g)], K[Resp(g)])
    BY <1>2
  <2>2. /\ ListIn(M, Q[g].req_head, K[Req(g)]) /\ Kept(N, M, K[Req(g)])
        /\ ListIn(M, Q[g].resp_head, K[Resp(g)]) /\ Kept(N, M, K[Resp(g)])
    BY <2>0 DEF HartList, Elsewhere
  <2>3. ListIn(N, Q[g].req_head, K[Req(g)])
    BY <2>1, <2>2, ListKept
  <2>4. ListIn(N, Q[g].resp_head, K[Resp(g)])
    BY <2>1, <2>2, ListKept
  <2> QED
    BY <2>0, <2>3, <2>4 DEF HartList, SameReq, SameResp, Elsewhere
<1> QED
  BY <1>1, <1>2

\* Respond puts a message that is on no list at the end of the responses:
\* resp_tail names no message of another list, so their links stay.
LEMMA LinkRespond ==
    ASSUME NEW Q, NEW M, NEW L, Linked(Q, M, L), NEW h \in Harts, NEW m \in Msgs, Off(L, m),
           NEW N, NEW R,
           N[m].priv = Null,
           \A x \in Msgs : x # m /\ x = Q[h].resp_tail => N[x].priv = m,
           \A x \in Msgs : x # m /\ x # Q[h].resp_tail => N[x].priv = M[x].priv,
           \A g \in Harts : g # h => SameReq(R[g], Q[g]) /\ SameResp(R[g], Q[g]),
           SameReq(R[h], Q[h]),
           R[h].resp_head = IF Q[h].resp_tail = Null THEN m ELSE Q[h].resp_head,
           R[h].resp_tail = m,
           NEW K, K = With(L, Resp(h), Append(L[Resp(h)], m))
    PROVE  /\ Linked(R, N, K)
           /\ Onto(K, L, Resp(h), Append(L[Resp(h)], m))
           /\ Grown(K[Resp(h)], L[Resp(h)], m)
<1> PICK q : q = L[Resp(h)]
  OBVIOUS
<1> PICK a : a = Append(q, m)
  OBVIOUS
<1>p. Resp(h) \in Slots /\ Once(L)
  BY SlotFacts DEF Linked
<1>q. q \in Seq(Msgs) /\ Distinct(q) /\ m \notin Rng(q) /\ ListIn(M, Q[h].resp_head, q)
      /\ Q[h].resp_tail = Tip(q)
  BY <1>p DEF Once, Off, Linked, HartList
<1>a. a \in Seq(Msgs) /\ Distinct(a) /\ Rng(a) = Rng(q) \cup {m} /\ Len(q) \in Nat
      /\ Len(a) = Len(q) + 1 /\ a[Len(q) + 1] = m
  BY <1>q, AppendRng, AppendDistinct
<1>k. a \in Seq(Msgs) /\ Distinct(a) /\ K = With(L, Resp(h), a) /\ Grown(a, L[Resp(h)], m)
  BY <1>a DEF Grown
<1>1. /\ Once(K) /\ K[Resp(h)] = a
      /\ \A p \in Slots : p # Resp(h) => K[p] = L[p]
  <2>1. Once(K) /\ Onto(K, L, Resp(h), a)
    BY <1>p, <1>k, OnceAdd, Zenon
  <2> QED
    BY <2>1 DEF Onto
<1>n. Null \notin Msgs
  BY SbiAssumption
<1>2. ASSUME NEW p \in Slots, p # Resp(h)
      PROVE  Kept(N, M, L[p])
  <2> SUFFICES ASSUME NEW x \in Rng(L[p]) PROVE N[x].priv = M[x].priv
    BY DEF Kept
  <2>1. x # m /\ Rng(L[p]) \cap Rng(q) = {} /\ L[p] \in Seq(Msgs)
    BY <1>2, <1>p DEF Once, Off
  <2>2. x \in Msgs
    BY <2>1, RngIn
  <2>3. x # Tip(q)
    <3>1. CASE q = <<>>
      BY <3>1, <2>2, <1>n DEF Tip
    <3>2. CASE q # <<>>
      BY <3>2, <2>1, <1>q, TipIn
    <3> QED
      BY <3>1, <3>2
  <2> QED
    BY <2>1, <2>2, <2>3, <1>q
<1>3. HartList(R[h], N, K[Req(h)], K[Resp(h)])
  <2>1. ListIn(N, R[h].req_head, K[Req(h)]) /\ R[h].req_size = Len(K[Req(h)])
    <3>1. Req(h) \in Slots /\ Req(h) # Resp(h)
      BY SlotFacts
    <3>2. L[Req(h)] \in Seq(Msgs) /\ ListIn(M, Q[h].req_head, L[Req(h)])
          /\ Q[h].req_size = Len(L[Req(h)])
      BY <3>1, <1>p DEF Once, Linked, HartList
    <3>3. ListIn(N, Q[h].req_head, L[Req(h)])
      BY <3>1, <3>2, <1>2, ListKept
    <3> QED
      BY <3>1, <3>2, <3>3, <1>1 DEF SameReq
  <2>2. ListIn(N, R[h].resp_head, a)
    <3>1. q # <<>> => N[Tip(q)].priv = m
      <4> SUFFICES ASSUME q # <<>> PROVE N[Tip(q)].priv = m
        OBVIOUS
      <4>1. Tip(q) \in Rng(q) /\ Tip(q) \in Msgs
        BY <1>q, TipIn, RngIn
      <4> QED
        BY <4>1, <1>q
    <3>2. KeptButTip(N, M, q)
      BY <1>q, RngIn DEF KeptButTip
    <3>3. ListIn(N, IF q = <<>> THEN m ELSE Q[h].resp_head, a)
      BY <3>1, <3>2, <1>q, ListAppend, Zenon
    <3>4. Q[h].resp_tail = Null <=> q = <<>>
      <4>1. CASE q = <<>>
        BY <4>1, <1>q DEF Tip
      <4>2. CASE q # <<>>
        BY <4>2, <1>q, <1>n, TipIn, RngIn
      <4> QED
        BY <4>1, <4>2
    <3>5. R[h].resp_head = IF q = <<>> THEN m ELSE Q[h].resp_head
      BY <3>4
    <3> QED
      BY <3>3, <3>5, Zenon
  <2>3. R[h].resp_tail = Tip(a)
    <3>1. a # <<>>
      BY <1>a
    <3> QED
      BY <3>1, <1>a DEF Tip
  <2> QED
    BY <2>1, <2>2, <2>3, <1>1 DEF HartList
<1>4. ASSUME NEW g \in Harts, g # h
      PROVE  /\ HartList(Q[g], M, K[Req(g)], K[Resp(g)])
             /\ Kept(N, M, K[Req(g)]) /\ Kept(N, M, K[Resp(g)])
  <2>1. Req(g) \in Slots /\ Resp(g) \in Slots /\ Req(g) # Resp(h) /\ Resp(g) # Resp(h)
    BY <1>4, SlotFacts
  <2>2. K[Req(g)] = L[Req(g)] /\ K[Resp(g)] = L[Resp(g)]
    BY <2>1, <1>1
  <2>3. Kept(N, M, L[Req(g)]) /\ Kept(N, M, L[Resp(g)])
    BY <2>1, <1>2
  <2> QED
    BY <2>2, <2>3 DEF Linked
<1>5. Linked(R, N, K)
  <2>1. ASSUME NEW g \in Harts, g # h
        PROVE  Elsewhere(Q[g], R[g], M, N, K[Req(g)], K[Resp(g)])
    BY <2>1, <1>4 DEF Elsewhere
  <2> QED
    BY <2>1, <1>1, <1>3, Relink, Zenon
<1> QED
  BY <1>1, <1>a, <1>5 DEF Onto, Grown

\* io_irq_service takes the first read off.
LEMMA LinkUnlink ==
    ASSUME NEW Q, NEW M, NEW L, Linked(Q, M, L), NEW h \in Harts, Q[h].req_size > 0,
           NEW R, NEW m, m = Q[h].req_head,
           \A g \in Harts : g # h => SameReq(R[g], Q[g]),
           \A g \in Harts : SameResp(R[g], Q[g]),
           R[h].req_head = M[m].priv, R[h].req_size = Q[h].req_size - 1,
           NEW K, K = With(L, Req(h), Tail(L[Req(h)]))
    PROVE  /\ Linked(R, M, K) /\ m \in Msgs /\ Off(K, m)
           /\ L[Req(h)] # <<>> /\ m = L[Req(h)][1]
           /\ Onto(K, L, Req(h), Tail(L[Req(h)]))
           /\ Grown(L[Req(h)], K[Req(h)], m)
<1> PICK q : q = L[Req(h)]
  OBVIOUS
<1>p. Req(h) \in Slots /\ Resp(h) \in Slots /\ Req(h) # Resp(h) /\ Once(L)
  BY SlotFacts DEF Linked
<1>q. q \in Seq(Msgs) /\ ListIn(M, m, q) /\ Q[h].req_size = Len(q)
  BY <1>p DEF Once, Linked, HartList
<1>e. q # <<>> /\ m = q[1] /\ ListIn(M, M[m].priv, Tail(q)) /\ Len(Tail(q)) = Len(q) - 1
  <2>1. q # <<>>
    BY <1>q
  <2> QED
    BY <2>1, <1>q, ListTail, TailRng
<1>1. /\ Once(K) /\ K[Req(h)] = Tail(q) /\ Off(K, m) /\ m \in Msgs
      /\ \A p \in Slots : p # Req(h) => K[p] = L[p]
      /\ Rng(q) = Rng(K[Req(h)]) \cup {m}
  <2>1. L[Req(h)] # <<>> /\ m = L[Req(h)][1]
    BY <1>e
  <2>2. /\ Once(K) /\ Onto(K, L, Req(h), Tail(L[Req(h)])) /\ Off(K, m) /\ m \in Msgs
        /\ Grown(L[Req(h)], K[Req(h)], m)
    BY <2>1, <1>p, OnceTail, Zenon
  <2> QED
    BY <2>2 DEF Onto, Grown
<1>2. HartList(R[h], M, K[Req(h)], K[Resp(h)])
  <2>1. HartList(Q[h], M, q, L[Resp(h)])
    BY DEF Linked
  <2>2. SameResp(R[h], Q[h])
    OBVIOUS
  <2> QED
    BY <2>1, <2>2, <1>p, <1>q, <1>e, <1>1 DEF HartList, SameResp
<1>3. ASSUME NEW g \in Harts, g # h
      PROVE  HartList(Q[g], M, K[Req(g)], K[Resp(g)])
  <2>1. K[Req(g)] = L[Req(g)] /\ K[Resp(g)] = L[Resp(g)]
    BY <1>3, <1>1, SlotFacts
  <2> QED
    BY <2>1 DEF Linked
<1>4. Linked(R, M, K)
  <2>1. ASSUME NEW g \in Harts, g # h
        PROVE  Elsewhere(Q[g], R[g], M, M, K[Req(g)], K[Resp(g)])
    BY <2>1, <1>3 DEF Elsewhere, Kept
  <2> QED
    BY <2>1, <1>1, <1>2, Relink, Zenon
<1> QED
  BY <1>1, <1>e, <1>4 DEF Onto, Grown

\* mcall_dev_resp takes the first response.
LEMMA LinkDequeue ==
    ASSUME NEW Q, NEW M, NEW L, Linked(Q, M, L), NEW h \in Harts, Q[h].resp_head # Null,
           NEW R, NEW N, NEW m, m = Q[h].resp_head,
           \A x \in Msgs : x # m => N[x].priv = M[x].priv,
           \A g \in Harts : g # h => SameResp(R[g], Q[g]),
           \A g \in Harts : SameReq(R[g], Q[g]),
           R[h].resp_head = M[m].priv,
           R[h].resp_tail = IF M[m].priv = Null THEN Null ELSE Q[h].resp_tail,
           NEW K, K = With(L, Resp(h), Tail(L[Resp(h)]))
    PROVE  /\ Linked(R, N, K) /\ m \in Msgs /\ Off(K, m)
           /\ L[Resp(h)] # <<>> /\ m = L[Resp(h)][1]
           /\ Onto(K, L, Resp(h), Tail(L[Resp(h)]))
           /\ Grown(L[Resp(h)], K[Resp(h)], m)
<1> PICK q : q = L[Resp(h)]
  OBVIOUS
<1> PICK a : a = Tail(q)
  OBVIOUS
<1>p. Req(h) \in Slots /\ Resp(h) \in Slots /\ Req(h) # Resp(h) /\ Once(L)
  BY SlotFacts DEF Linked
<1>q. q \in Seq(Msgs) /\ ListIn(M, m, q) /\ Q[h].resp_tail = Tip(q)
  BY <1>p DEF Once, Linked, HartList
<1>n. Null \notin Msgs
  BY SbiAssumption
<1>e. q # <<>> /\ m = q[1] /\ ListIn(M, M[m].priv, a)
  <2>1. q # <<>>
    BY <1>q DEF ListIn, First
  <2> QED
    BY <2>1, <1>q, ListTail
<1>1. /\ Once(K) /\ K[Resp(h)] = a /\ Off(K, m) /\ m \in Msgs
      /\ \A p \in Slots : p # Resp(h) => K[p] = L[p]
      /\ Rng(q) = Rng(K[Resp(h)]) \cup {m}
  <2>1. L[Resp(h)] # <<>> /\ m = L[Resp(h)][1]
    BY <1>e
  <2>2. /\ Once(K) /\ Onto(K, L, Resp(h), Tail(L[Resp(h)])) /\ Off(K, m) /\ m \in Msgs
        /\ Grown(L[Resp(h)], K[Resp(h)], m)
    BY <2>1, <1>p, OnceTail, Zenon
  <2> QED
    BY <2>2 DEF Onto, Grown
<1>s. ASSUME NEW p \in Slots PROVE Kept(N, M, K[p])
  <2>1. K[p] \in Seq(Msgs) /\ m \notin Rng(K[p])
    BY <1>1 DEF Once, Off
  <2> QED
    BY <2>1, RngIn DEF Kept
<1>2. HartList(R[h], N, K[Req(h)], K[Resp(h)])
  <2>1. HartList(Q[h], M, K[Req(h)], q)
    BY <1>p, <1>1 DEF Linked
  <2>2. K[Req(h)] \in Seq(Msgs) /\ a \in Seq(Msgs)
    <3>1. K \in [Slots -> Seq(Msgs)] /\ K[Resp(h)] = a
      BY <1>1 DEF Once
    <3> QED
      BY <3>1, <1>p
  <2>3. ListIn(N, Q[h].req_head, K[Req(h)])
    <3>1. ListIn(M, Q[h].req_head, K[Req(h)])
      BY <2>1 DEF HartList
    <3> QED
      BY <3>1, <2>2, <1>p, <1>s, ListKept
  <2>4. ListIn(N, R[h].resp_head, a)
    <3>1. R[h].resp_head = M[m].priv /\ ListIn(M, R[h].resp_head, a)
      BY <1>e, Zenon
    <3>2. Kept(N, M, a)
      BY <1>1, <1>p, <1>s, Zenon
    <3> QED
      BY <3>1, <3>2, <2>2, ListKept, Zenon
  <2>5. R[h].resp_tail = Tip(a)
    <3>0. /\ Len(q) \in Nat /\ Len(q) > 0 /\ Len(a) = Len(q) - 1
          /\ \A i \in 1 .. Len(a) : a[i] = q[i + 1]
      BY <1>q, <1>e, TailRng
    <3>1. CASE a = <<>>
      <4>1. M[m].priv = Null
        BY <3>1, <1>e DEF ListIn, First
      <4> QED
        BY <4>1, <3>1 DEF Tip
    <3>2. CASE a # <<>>
      <4>1. 1 \in 1 .. Len(a) /\ Len(a) \in 1 .. Len(a)
        BY <3>2, <2>2
      <4>2. M[m].priv # Null
        <5>1. M[m].priv = a[1] /\ a[1] \in Msgs
          BY <3>2, <4>1, <2>2, <1>e DEF ListIn, First
        <5> QED
          BY <5>1, <1>n
      <4>3. Tip(a) = a[Len(a)] /\ Tip(q) = q[Len(q)]
        BY <3>2, <1>e DEF Tip
      <4>4. a[Len(a)] = q[Len(a) + 1] /\ Len(a) + 1 = Len(q)
        BY <4>1, <3>0
      <4> QED
        BY <4>2, <4>3, <4>4, <1>q
    <3> QED
      BY <3>1, <3>2
  <2>6. SameReq(R[h], Q[h])
    OBVIOUS
  <2> QED
    BY <2>1, <2>3, <2>4, <2>5, <2>6, <1>1 DEF HartList, SameReq
<1>3. ASSUME NEW g \in Harts, g # h
      PROVE  /\ HartList(Q[g], M, K[Req(g)], K[Resp(g)])
             /\ Kept(N, M, K[Req(g)]) /\ Kept(N, M, K[Resp(g)])
  <2>1. K[Req(g)] = L[Req(g)] /\ K[Resp(g)] = L[Resp(g)]
    BY <1>3, <1>1, SlotFacts
  <2>2. Kept(N, M, K[Req(g)]) /\ Kept(N, M, K[Resp(g)])
    BY <1>s, SlotFacts
  <2> QED
    BY <2>1, <2>2 DEF Linked
<1>4. Linked(R, N, K)
  <2>1. ASSUME NEW g \in Harts, g # h
        PROVE  Elsewhere(Q[g], R[g], M, N, K[Req(g)], K[Resp(g)])
    BY <2>1, <1>3 DEF Elsewhere
  <2> QED
    BY <2>1, <1>1, <1>2, Relink, Zenon
<1> QED
  BY <1>1, <1>e, <1>4 DEF Onto, Grown

\* ConsoleRead puts a read in front.
LEMMA LinkRead ==
    ASSUME NEW Q, NEW M, NEW L, Linked(Q, M, L), NEW h \in Harts, NEW m \in Msgs, Off(L, m),
           NEW R, NEW N, N[m].priv = Q[h].req_head,
           \A x \in Msgs : x # m => N[x].priv = M[x].priv,
           \A g \in Harts : g # h => SameReq(R[g], Q[g]),
           \A g \in Harts : SameResp(R[g], Q[g]),
           R[h].req_head = m, R[h].req_size = Q[h].req_size + 1,
           NEW K, K = With(L, Req(h), <<m>> \o L[Req(h)])
    PROVE  /\ Linked(R, N, K)
           /\ Onto(K, L, Req(h), <<m>> \o L[Req(h)])
           /\ Grown(K[Req(h)], L[Req(h)], m)
<1> PICK q : q = L[Req(h)]
  OBVIOUS
<1> PICK a : a = <<m>> \o q
  OBVIOUS
<1>p. Req(h) \in Slots /\ Resp(h) \in Slots /\ Req(h) # Resp(h) /\ Once(L)
  BY SlotFacts DEF Linked
<1>q. q \in Seq(Msgs) /\ Distinct(q) /\ m \notin Rng(q) /\ HartList(Q[h], M, q, L[Resp(h)])
  BY <1>p DEF Once, Off, Linked
<1>a. a \in Seq(Msgs) /\ Distinct(a) /\ Rng(a) = Rng(q) \cup {m} /\ Len(a) = Len(q) + 1
  BY <1>q, ConsRng, ConsDistinct
<1>k. K = With(L, Req(h), a) /\ Grown(a, L[Req(h)], m)
  BY <1>a DEF Grown
<1>1. /\ Once(K) /\ K[Req(h)] = a
      /\ \A p \in Slots : p # Req(h) => K[p] = L[p]
  <2>1. Once(K) /\ Onto(K, L, Req(h), a)
    BY <1>p, <1>q, <1>a, <1>k, OnceAdd, Zenon
  <2> QED
    BY <2>1 DEF Onto
<1>s. ASSUME NEW p \in Slots PROVE Kept(N, M, L[p])
  <2>1. L[p] \in Seq(Msgs) /\ m \notin Rng(L[p])
    BY <1>p DEF Once, Off
  <2> QED
    BY <2>1, RngIn DEF Kept
<1>2. HartList(R[h], N, K[Req(h)], K[Resp(h)])
  <2>1. ListIn(N, m, a)
    <3>1. ListIn(M, Q[h].req_head, q)
      BY <1>q DEF HartList
    <3> QED
      BY <3>1, <1>p, <1>q, <1>s, ListCons
  <2>2. ListIn(N, Q[h].resp_head, L[Resp(h)])
    <3>1. ListIn(M, Q[h].resp_head, L[Resp(h)]) /\ L[Resp(h)] \in Seq(Msgs)
      BY <1>p, <1>q DEF HartList, Once
    <3> QED
      BY <3>1, <1>p, <1>s, ListKept
  <2>3. SameResp(R[h], Q[h])
    OBVIOUS
  <2> QED
    BY <2>1, <2>2, <2>3, <1>p, <1>q, <1>a, <1>1 DEF HartList, SameResp
<1>3. ASSUME NEW g \in Harts, g # h
      PROVE  /\ HartList(Q[g], M, K[Req(g)], K[Resp(g)])
             /\ Kept(N, M, K[Req(g)]) /\ Kept(N, M, K[Resp(g)])
  <2>1. K[Req(g)] = L[Req(g)] /\ K[Resp(g)] = L[Resp(g)]
    BY <1>3, <1>1, SlotFacts
  <2>2. Kept(N, M, L[Req(g)]) /\ Kept(N, M, L[Resp(g)])
    BY <1>s, SlotFacts
  <2> QED
    BY <2>1, <2>2 DEF Linked
<1>4. Linked(R, N, K)
  <2>1. ASSUME NEW g \in Harts, g # h
        PROVE  Elsewhere(Q[g], R[g], M, N, K[Req(g)], K[Resp(g)])
    BY <2>1, <1>3 DEF Elsewhere
  <2> QED
    BY <2>1, <1>1, <1>2, Relink, Zenon
<1> QED
  BY <1>1, <1>a, <1>4 DEF Onto, Grown

-----------------------------------------------------------------------------
(* The steps *)

\* Every message has its link and its data, and is given or not.
Typed ==
    /\ DOMAIN msg = Msgs
    /\ \A m \in Msgs : DOMAIN msg[m] = {"priv", "data"}
    /\ DOMAIN given = Msgs

\* L are the lists of every hart, and given names what is on them.
Lists(L) == Linked(hls, msg, L) /\ Owned(L, given)

\* The invariant of the lists.
LInv == Typed /\ \E L : Lists(L)

-----------------------------------------------------------------------------
\* A message the supervisor has is on no list.
LEMMA OwnedOff ==
    ASSUME NEW L, NEW g, Owned(L, g), NEW m \in Msgs, g[m] = "nothing"
    PROVE  Off(L, m)
BY DEF Owned, Off

\* Only m is given or taken back.
OneGiven(f, g, m) == \A x \in Msgs : x # m => f[x] = g[x]

\* A message given to the machine is on the list it is added to.
LEMMA OwnedAdd ==
    ASSUME NEW L, NEW g, Owned(L, g), NEW p \in Slots, NEW m \in Msgs, Off(L, m),
           NEW K, NEW a, Onto(K, L, p, a), Grown(K[p], L[p], m), Once(K),
           NEW f, f[m] # "nothing", OneGiven(f, g, m),
           (\E h \in Harts : p = Req(h)) => f[m] = "char"
    PROVE  Owned(K, f)
<1>a. ASSUME NEW r \in Slots
      PROVE  \A x \in Msgs : x # m => (x \in Rng(K[r]) <=> x \in Rng(L[r]))
  BY DEF Onto, Grown
<1>b. m \in Rng(K[p])
  BY DEF Grown
<1>1. ASSUME NEW x \in Msgs
      PROVE  f[x] # "nothing" <=> \E r \in Slots : x \in Rng(K[r])
  <2>1. CASE x = m
    BY <2>1, <1>b
  <2>2. CASE x # m
    BY <2>2, <1>a DEF Owned, OneGiven
  <2> QED
    BY <2>1, <2>2
<1>2. ASSUME NEW h \in Harts, NEW x \in Rng(K[Req(h)]) PROVE f[x] = "char"
  <2>r. Req(h) \in Slots
    BY SlotFacts
  <2>0. x \in Msgs
    BY <2>r, RngIn DEF Once
  <2>1. CASE x = m
    <3>1. p = Req(h)
      <4> SUFFICES ASSUME p # Req(h) PROVE FALSE
        OBVIOUS
      <4>1. K[Req(h)] = L[Req(h)]
        BY <2>r DEF Onto
      <4> QED
        BY <4>1, <2>1, <2>r DEF Off
    <3> QED
      BY <3>1, <2>1
  <2>2. CASE x # m
    <3>1. x \in Rng(L[Req(h)])
      BY <2>0, <2>2, <2>r, <1>a
    <3> QED
      BY <3>1, <2>0, <2>2 DEF Owned, OneGiven
  <2> QED
    BY <2>1, <2>2
<1> QED
  BY <1>1, <1>2 DEF Owned

\* A message taken from its list is the supervisor's.
LEMMA OwnedTake ==
    ASSUME NEW L, NEW g, Owned(L, g), NEW p \in Slots, NEW m \in Msgs,
           NEW K, NEW a, Onto(K, L, p, a), Grown(L[p], K[p], m), Off(K, m), Once(K),
           NEW f, f[m] = "nothing", OneGiven(f, g, m)
    PROVE  Owned(K, f)
<1>a. ASSUME NEW r \in Slots
      PROVE  \A x \in Msgs : x # m => (x \in Rng(K[r]) <=> x \in Rng(L[r]))
  BY DEF Onto, Grown
<1>1. ASSUME NEW x \in Msgs
      PROVE  f[x] # "nothing" <=> \E r \in Slots : x \in Rng(K[r])
  <2>1. CASE x = m
    BY <2>1 DEF Off
  <2>2. CASE x # m
    BY <2>2, <1>a DEF Owned, OneGiven
  <2> QED
    BY <2>1, <2>2
<1>2. ASSUME NEW h \in Harts, NEW x \in Rng(K[Req(h)]) PROVE f[x] = "char"
  <2>r. Req(h) \in Slots
    BY SlotFacts
  <2>0. x \in Msgs /\ x # m
    BY <2>r, RngIn DEF Once, Off
  <2>1. x \in Rng(L[Req(h)])
    BY <2>0, <2>r, <1>a
  <2> QED
    BY <2>1, <2>0 DEF Owned, OneGiven
<1> QED
  BY <1>1, <1>2 DEF Owned

\* A read that is answered moves from a list to another.
LEMMA OwnedMove ==
    ASSUME NEW L, NEW g, Owned(L, g), NEW h \in Harts, NEW m \in Msgs,
           NEW K, NEW a, Onto(K, L, Req(h), a), Grown(L[Req(h)], K[Req(h)], m),
           NEW J, NEW b, Onto(J, K, Resp(h), b), Grown(J[Resp(h)], K[Resp(h)], m)
    PROVE  Owned(J, g)
<1>r. Req(h) \in Slots /\ Resp(h) \in Slots /\ Req(h) # Resp(h)
  BY SlotFacts
<1>a. /\ K[Resp(h)] = L[Resp(h)] /\ J[Req(h)] = K[Req(h)]
      /\ \A r \in Slots : r # Req(h) /\ r # Resp(h) => J[r] = L[r]
  BY <1>r DEF Onto
<1>b. /\ Rng(J[Resp(h)]) = Rng(L[Resp(h)]) \cup {m}
      /\ Rng(L[Req(h)]) = Rng(J[Req(h)]) \cup {m}
  BY <1>a DEF Grown
<1>1. ASSUME NEW x \in Msgs
      PROVE  (\E r \in Slots : x \in Rng(L[r])) <=> \E r \in Slots : x \in Rng(J[r])
  <2>1. CASE x = m
    BY <2>1, <1>b, <1>r
  <2>2. CASE x # m
    <3>1. \A r \in Slots : x \in Rng(L[r]) <=> x \in Rng(J[r])
      BY <2>2, <1>a, <1>b
    <3> QED
      BY <3>1
  <2> QED
    BY <2>1, <2>2
<1>2. ASSUME NEW i \in Harts, NEW x \in Rng(J[Req(i)]) PROVE g[x] = "char"
  <2>1. x \in Rng(L[Req(i)])
    <3>1. CASE i = h
      BY <3>1, <1>b
    <3>2. CASE i # h
      <4>1. Req(i) \in Slots /\ Req(i) # Req(h) /\ Req(i) # Resp(h)
        BY <3>2, SlotFacts
      <4> QED
        BY <4>1, <1>a
    <3> QED
      BY <3>1, <3>2
  <2> QED
    BY <2>1 DEF Owned
<1> QED
  BY <1>1, <1>2 DEF Owned

-----------------------------------------------------------------------------
\* Only the links of the queues matter.
LEMMA SameLists ==
    ASSUME NEW L, Lists(L), Typed, msg' = msg, given' = given,
           \A h \in Harts : SameReq(hls'[h], hls[h]) /\ SameResp(hls'[h], hls[h])
    PROVE  Lists(L)' /\ Typed'
<1>1. \A h \in Harts : HartList(hls'[h], msg, L[Req(h)], L[Resp(h)])
  BY DEF Lists, Linked, HartList, SameReq, SameResp
<1>2. Linked(hls', msg', L)
  BY <1>1 DEF Lists, Linked
<1> QED
  BY <1>2 DEF Lists, Typed

\* What Respond changes, field by field.
LEMMA RespondFacts ==
    ASSUME Shape, Typed, NEW h \in Harts, NEW H, DOMAIN H = Fields, NEW m \in Msgs, NEW data,
           Respond(h, H, msg, m, data)
    PROVE  /\ DOMAIN msg' = Msgs /\ \A x \in Msgs : DOMAIN msg'[x] = {"priv", "data"}
           /\ msg'[m].priv = Null /\ msg'[m].data = data
           /\ \A x \in Msgs : x # m /\ x = H.resp_tail => msg'[x].priv = m
           /\ \A x \in Msgs : x # m /\ x # H.resp_tail => msg'[x].priv = msg[x].priv
           /\ \A x \in Msgs : x # m => msg'[x].data = msg[x].data
           /\ \A g \in Harts : g # h => hls'[g] = hls[g]
           /\ hls'[h].req_head = H.req_head /\ hls'[h].req_size = H.req_size
           /\ hls'[h].resp_head = IF H.resp_tail = Null THEN m ELSE H.resp_head
           /\ hls'[h].resp_tail = m
<1>1. msg' = [x \in Msgs |->
                  CASE x = m -> [priv |-> Null, data |-> data]
                    [] x # m /\ x = H.resp_tail -> [msg[x] EXCEPT !.priv = m]
                    [] OTHER -> msg[x]]
  BY DEF Respond
<1>2. \A x \in Msgs :
          /\ x = m => msg'[x] = [priv |-> Null, data |-> data]
          /\ x # m /\ x = H.resp_tail => msg'[x] = [msg[x] EXCEPT !.priv = m]
          /\ x # m /\ x # H.resp_tail => msg'[x] = msg[x]
  BY <1>1
<1>3. \A x \in Msgs : x # m /\ x = H.resp_tail =>
          DOMAIN msg'[x] = {"priv", "data"} /\ msg'[x].priv = m /\ msg'[x].data = msg[x].data
  BY <1>2 DEF Typed
<1>4. hls' = [hls EXCEPT ![h] = [H EXCEPT !.resp_head = IF H.resp_tail = Null THEN m ELSE @,
                                          !.resp_tail = m]]
  BY DEF Respond
<1>5. /\ \A g \in Harts : g # h => hls'[g] = hls[g]
      /\ hls'[h].req_head = H.req_head /\ hls'[h].req_size = H.req_size
      /\ hls'[h].resp_head = IF H.resp_tail = Null THEN m ELSE H.resp_head
      /\ hls'[h].resp_tail = m
  BY <1>4 DEF Shape, Fields
<1>6. DOMAIN msg' = Msgs /\ \A x \in Msgs : DOMAIN msg'[x] = {"priv", "data"}
  BY <1>1, <1>2, <1>3 DEF Typed
<1> QED
  BY <1>2, <1>3, <1>5, <1>6

\* A request that is answered at once.
LEMMA AnswerLists ==
    ASSUME Shape, Typed, NEW L, Lists(L), NEW h \in Harts, NEW m \in Msgs,
           Gives(h, m, "answer"), mcall_respond(h, m)
    PROVE  Typed' /\ Off(L, m)
           /\ \E K : Lists(K)' /\ Onto(K, L, Resp(h), Append(L[Resp(h)], m))
<1> PICK K : K = With(L, Resp(h), Append(L[Resp(h)], m))
  OBVIOUS
<1>f. DOMAIN hls[h] = Fields /\ Respond(h, hls[h], msg, m, Done)
  BY DEF Shape, mcall_respond
<1>r. /\ DOMAIN msg' = Msgs /\ \A x \in Msgs : DOMAIN msg'[x] = {"priv", "data"}
      /\ msg'[m].priv = Null
      /\ \A x \in Msgs : x # m /\ x = hls[h].resp_tail => msg'[x].priv = m
      /\ \A x \in Msgs : x # m /\ x # hls[h].resp_tail => msg'[x].priv = msg[x].priv
      /\ \A g \in Harts : g # h => hls'[g] = hls[g]
      /\ hls'[h].req_head = hls[h].req_head /\ hls'[h].req_size = hls[h].req_size
      /\ hls'[h].resp_head = IF hls[h].resp_tail = Null THEN m ELSE hls[h].resp_head
      /\ hls'[h].resp_tail = m
  BY <1>f, RespondFacts
<1>g. /\ given[m] = "nothing" /\ DOMAIN given' = Msgs /\ given'[m] = "answer"
      /\ OneGiven(given', given, m)
  BY DEF Gives, Asks, Typed, OneGiven
<1>o. Off(L, m) /\ Linked(hls, msg, L)
  BY <1>g, OwnedOff DEF Lists
<1>s. /\ \A g \in Harts : g # h => SameReq(hls'[g], hls[g]) /\ SameResp(hls'[g], hls[g])
      /\ SameReq(hls'[h], hls[h])
  BY <1>r DEF SameReq, SameResp
<1>1. Linked(hls', msg', K) /\ Onto(K, L, Resp(h), Append(L[Resp(h)], m))
      /\ Grown(K[Resp(h)], L[Resp(h)], m)
  <2> PICK Q, M, R, N : Q = hls /\ M = msg /\ R = hls' /\ N = msg'
    OBVIOUS
  <2>1. Linked(R, N, K) /\ Onto(K, L, Resp(h), Append(L[Resp(h)], m))
        /\ Grown(K[Resp(h)], L[Resp(h)], m)
    BY <1>r, <1>o, <1>s, LinkRespond
  <2> QED
    BY <2>1
<1>2. Owned(K, given')
  <2>1. Resp(h) \in Slots /\ ~(\E g \in Harts : Resp(h) = Req(g))
    BY SlotFacts
  <2>2. Once(K)
    BY <1>1 DEF Linked
  <2>3. given'[m] # "nothing"
    BY <1>g
  <2> QED
    BY <2>1, <2>2, <2>3, <1>1, <1>g, <1>o, OwnedAdd, Zenon DEF Lists
<1>3. Lists(K)'
  BY <1>1, <1>2 DEF Lists
<1>4. Typed'
  BY <1>r, <1>g DEF Typed
<1> QED
  BY <1>1, <1>3, <1>4, <1>o

\* A read of the console.
LEMMA ReadLists ==
    ASSUME Shape, Typed, NEW L, Lists(L), NEW h \in Harts, NEW m \in Msgs, ConsoleRead(h, m)
    PROVE  Typed' /\ Off(L, m)
           /\ \E K : Lists(K)' /\ Onto(K, L, Req(h), <<m>> \o L[Req(h)])
<1> PICK K : K = With(L, Req(h), <<m>> \o L[Req(h)])
  OBVIOUS
<1>r. /\ DOMAIN msg' = Msgs /\ \A x \in Msgs : DOMAIN msg'[x] = {"priv", "data"}
      /\ msg'[m].priv = hls[h].req_head
      /\ \A x \in Msgs : x # m => msg'[x].priv = msg[x].priv
  BY DEF ConsoleRead, Typed
<1>h. /\ \A g \in Harts : g # h => SameReq(hls'[g], hls[g])
      /\ \A g \in Harts : SameResp(hls'[g], hls[g])
      /\ hls'[h].req_head = m /\ hls'[h].req_size = hls[h].req_size + 1
  <2>1. hls' = [hls EXCEPT ![h].req_head = m, ![h].req_size = @ + 1]
    BY DEF ConsoleRead
  <2> QED
    BY <2>1 DEF Shape, Fields, SameReq, SameResp
<1>g. /\ given[m] = "nothing" /\ DOMAIN given' = Msgs /\ given'[m] = "char"
      /\ OneGiven(given', given, m)
  BY DEF ConsoleRead, Gives, Asks, Typed, OneGiven
<1>o. Off(L, m) /\ Linked(hls, msg, L)
  BY <1>g, OwnedOff DEF Lists
<1>1. Linked(hls', msg', K) /\ Onto(K, L, Req(h), <<m>> \o L[Req(h)])
      /\ Grown(K[Req(h)], L[Req(h)], m)
  <2> PICK Q, M, R, N : Q = hls /\ M = msg /\ R = hls' /\ N = msg'
    OBVIOUS
  <2>1. Linked(R, N, K) /\ Onto(K, L, Req(h), <<m>> \o L[Req(h)])
        /\ Grown(K[Req(h)], L[Req(h)], m)
    BY <1>r, <1>h, <1>o, LinkRead
  <2> QED
    BY <2>1
<1>2. Owned(K, given')
  <2>1. Req(h) \in Slots
    BY SlotFacts
  <2>2. Once(K)
    BY <1>1 DEF Linked
  <2>3. given'[m] # "nothing"
    BY <1>g
  <2> QED
    BY <2>1, <2>2, <2>3, <1>1, <1>g, <1>o, OwnedAdd, Zenon DEF Lists
<1>3. Lists(K)'
  BY <1>1, <1>2 DEF Lists
<1>4. Typed'
  BY <1>r, <1>g DEF Typed
<1> QED
  BY <1>1, <1>3, <1>4, <1>o

\* A character goes to the first read.
Served(h) ==
    /\ hls[h].req_size > 0
    /\ LET m == hls[h].req_head
       IN  Respond(h, Unlink(hls[h], msg[m].priv), msg, m, Char(uart.read + 1))
    /\ UNCHANGED given

\* The character.
LEMMA ServeLists ==
    ASSUME Shape, Typed, NEW L, Lists(L), NEW h \in Harts, Served(h)
    PROVE  /\ Typed'
           /\ L[Req(h)] # <<>> /\ hls[h].req_head = L[Req(h)][1] /\ L[Req(h)][1] \in Msgs
           /\ \E J, K : /\ Lists(K)' /\ Once(J) /\ Off(J, L[Req(h)][1])
                        /\ Onto(J, L, Req(h), Tail(L[Req(h)]))
                        /\ Onto(K, J, Resp(h), Append(J[Resp(h)], L[Req(h)][1]))
<1>vm. PICK m : m = hls[h].req_head
  OBVIOUS
<1>vh. PICK H : H = Unlink(hls[h], msg[m].priv)
  OBVIOUS
<1>vj. PICK J : J = With(L, Req(h), Tail(L[Req(h)]))
  OBVIOUS
<1>vk. PICK K : K = With(J, Resp(h), Append(J[Resp(h)], m))
  OBVIOUS
<1>f. /\ DOMAIN H = Fields /\ Respond(h, H, msg, m, Char(uart.read + 1))
      /\ H.req_head = msg[m].priv /\ H.req_size = hls[h].req_size - 1
      /\ H.resp_head = hls[h].resp_head /\ H.resp_tail = hls[h].resp_tail
  BY <1>vm, <1>vh DEF Shape, Fields, Served, Unlink
<1>vq. PICK Q : Q = [hls EXCEPT ![h] = H]
  OBVIOUS
<1>q. Q[h] = H /\ \A g \in Harts : g # h => Q[g] = hls[g]
  BY <1>vq DEF Shape
<1>1. /\ Linked(Q, msg, J) /\ m \in Msgs /\ Off(J, m)
      /\ L[Req(h)] # <<>> /\ m = L[Req(h)][1]
      /\ Onto(J, L, Req(h), Tail(L[Req(h)]))
      /\ Grown(L[Req(h)], J[Req(h)], m)
  <2> PICK A, M : A = hls /\ M = msg
    OBVIOUS
  <2>1. Linked(A, M, L) /\ A[h].req_size > 0
    BY DEF Lists, Served
  <2>2. \A g \in Harts : g # h => SameReq(Q[g], A[g])
    BY <1>q DEF SameReq
  <2>3. \A g \in Harts : SameResp(Q[g], A[g])
    BY <1>q, <1>f DEF SameResp
  <2>4. Q[h].req_head = M[m].priv /\ Q[h].req_size = A[h].req_size - 1
    BY <1>q, <1>f
  <2>5. /\ Linked(Q, M, J) /\ m \in Msgs /\ Off(J, m)
        /\ L[Req(h)] # <<>> /\ m = L[Req(h)][1]
        /\ Onto(J, L, Req(h), Tail(L[Req(h)]))
        /\ Grown(L[Req(h)], J[Req(h)], m)
    <3>1. m = A[h].req_head
      BY <1>vm
    <3> QED
      BY <1>vj, <3>1, <2>1, <2>2, <2>3, <2>4, LinkUnlink
  <2> QED
    BY <2>5
<1>r. /\ DOMAIN msg' = Msgs /\ \A x \in Msgs : DOMAIN msg'[x] = {"priv", "data"}
      /\ msg'[m].priv = Null
      /\ \A x \in Msgs : x # m /\ x = H.resp_tail => msg'[x].priv = m
      /\ \A x \in Msgs : x # m /\ x # H.resp_tail => msg'[x].priv = msg[x].priv
      /\ \A g \in Harts : g # h => hls'[g] = hls[g]
      /\ hls'[h].req_head = H.req_head /\ hls'[h].req_size = H.req_size
      /\ hls'[h].resp_head = IF H.resp_tail = Null THEN m ELSE H.resp_head
      /\ hls'[h].resp_tail = m
  <2>1. m \in Msgs
    BY <1>1
  <2>2. DOMAIN H = Fields /\ Respond(h, H, msg, m, Char(uart.read + 1))
    BY <1>f
  <2> QED
    BY <2>1, <2>2, RespondFacts
<1>2. Linked(hls', msg', K) /\ Onto(K, J, Resp(h), Append(J[Resp(h)], m))
      /\ Grown(K[Resp(h)], J[Resp(h)], m)
  <2> PICK M, R, N : M = msg /\ R = hls' /\ N = msg'
    OBVIOUS
  <2>1. /\ \A g \in Harts : g # h => SameReq(R[g], Q[g]) /\ SameResp(R[g], Q[g])
        /\ SameReq(R[h], Q[h])
    BY <1>r, <1>q DEF SameReq, SameResp
  <2>2. Linked(R, N, K) /\ Onto(K, J, Resp(h), Append(J[Resp(h)], m))
        /\ Grown(K[Resp(h)], J[Resp(h)], m)
    <3>1. Linked(Q, M, J) /\ m \in Msgs /\ Off(J, m)
      BY <1>1
    <3>2. /\ N[m].priv = Null
          /\ \A x \in Msgs : x # m /\ x = Q[h].resp_tail => N[x].priv = m
          /\ \A x \in Msgs : x # m /\ x # Q[h].resp_tail => N[x].priv = M[x].priv
          /\ R[h].resp_head = IF Q[h].resp_tail = Null THEN m ELSE Q[h].resp_head
          /\ R[h].resp_tail = m
      BY <1>r, <1>q
    <3> QED
      BY <1>vk, <3>1, <3>2, <2>1, LinkRespond
  <2> QED
    BY <2>2
<1>3. Owned(K, given')
  <2>1. Owned(L, given) /\ given' = given
    BY DEF Lists, Served
  <2>2. Owned(K, given)
    BY <2>1, <1>1, <1>2, OwnedMove, Zenon
  <2> QED
    BY <2>1, <2>2
<1>4. Lists(K)'
  BY <1>2, <1>3 DEF Lists
<1>5. Typed'
  BY <1>r DEF Typed, Served
<1>6. /\ Onto(K, J, Resp(h), Append(J[Resp(h)], L[Req(h)][1]))
      /\ Once(J) /\ Off(J, L[Req(h)][1])
  BY <1>1, <1>2 DEF Linked
<1> QED
  BY <1>vm, <1>1, <1>4, <1>5, <1>6

\* The supervisor takes a response.
LEMMA TakeLists ==
    ASSUME Shape, Typed, NEW L, Lists(L), NEW h \in Harts, mcall_dev_resp(h)
    PROVE  /\ Typed'
           /\ L[Resp(h)] # <<>> /\ hls[h].resp_head = L[Resp(h)][1] /\ L[Resp(h)][1] \in Msgs
           /\ \E K : /\ Lists(K)' /\ Off(K, L[Resp(h)][1])
                     /\ Onto(K, L, Resp(h), Tail(L[Resp(h)]))
<1> PICK m : m = hls[h].resp_head
  OBVIOUS
<1> PICK next : next = msg[m].priv
  OBVIOUS
<1> PICK K : K = With(L, Resp(h), Tail(L[Resp(h)]))
  OBVIOUS
<1>a. /\ m # Null
      /\ hls' = [hls EXCEPT ![h] = Dequeue(@, next)]
      /\ given' = [given EXCEPT ![m] = "nothing"]
      /\ msg' = [msg EXCEPT ![m] = [priv |-> Null, data |-> Done]]
  BY DEF mcall_dev_resp
<1>h. /\ \A g \in Harts : g # h => SameResp(hls'[g], hls[g])
      /\ \A g \in Harts : SameReq(hls'[g], hls[g])
      /\ hls'[h].resp_head = next
      /\ hls'[h].resp_tail = IF next = Null THEN Null ELSE hls[h].resp_tail
  BY <1>a DEF Shape, Fields, SameReq, SameResp, Dequeue
<1>m. \A x \in Msgs : x # m => msg'[x].priv = msg[x].priv
  BY <1>a DEF Typed
<1>1. /\ Linked(hls', msg', K) /\ m \in Msgs /\ Off(K, m)
      /\ L[Resp(h)] # <<>> /\ m = L[Resp(h)][1]
      /\ Onto(K, L, Resp(h), Tail(L[Resp(h)]))
      /\ Grown(L[Resp(h)], K[Resp(h)], m)
  <2> PICK Q, M, R, N : Q = hls /\ M = msg /\ R = hls' /\ N = msg'
    OBVIOUS
  <2>0. Linked(Q, M, L)
    BY DEF Lists
  <2>1. /\ Linked(R, N, K) /\ m \in Msgs /\ Off(K, m)
        /\ L[Resp(h)] # <<>> /\ m = L[Resp(h)][1]
        /\ Onto(K, L, Resp(h), Tail(L[Resp(h)]))
        /\ Grown(L[Resp(h)], K[Resp(h)], m)
    <3>1. /\ Q[h].resp_head # Null /\ m = Q[h].resp_head
          /\ R[h].resp_head = M[m].priv
          /\ R[h].resp_tail = IF M[m].priv = Null THEN Null ELSE Q[h].resp_tail
      BY <1>a, <1>h
    <3>2. /\ \A x \in Msgs : x # m => N[x].priv = M[x].priv
          /\ \A g \in Harts : g # h => SameResp(R[g], Q[g])
          /\ \A g \in Harts : SameReq(R[g], Q[g])
      BY <1>h, <1>m
    <3> QED
      BY <3>1, <3>2, <2>0, LinkDequeue
  <2> QED
    BY <2>1
<1>2. Typed'
  BY <1>a, <1>1 DEF Typed
<1>g. given'[m] = "nothing" /\ OneGiven(given', given, m)
  BY <1>a, <1>1 DEF Typed, OneGiven
<1>3. Owned(K, given')
  <2>1. Resp(h) \in Slots
    BY SlotFacts
  <2>2. Once(K)
    BY <1>1 DEF Linked
  <2> QED
    BY <2>1, <2>2, <1>1, <1>g, OwnedTake, Zenon DEF Lists
<1>4. Lists(K)'
  BY <1>1, <1>3 DEF Lists
<1> QED
  BY <1>1, <1>2, <1>4

\* The other steps leave the messages and the queues alone.
Quiet ==
    /\ msg' = msg /\ given' = given
    /\ \A h \in Harts : SameReq(hls'[h], hls[h]) /\ SameResp(hls'[h], hls[h])

\* Every step is one of these.
Respondent(h, m) == Gives(h, m, "answer") /\ mcall_respond(h, m)
Serving(h) == Served(h) /\ uart'.read = uart.read + 1 /\ DOMAIN uart' = DOMAIN uart
Unserved == uart'.read = uart.read /\ DOMAIN uart' = DOMAIN uart

\* Every step is quiet, gives, serves or takes.
LEMMA Steps ==
    ASSUME Shape, DOMAIN uart = {"irq0", "read", "came"}, [Next]_vars
    PROVE  \/ Quiet /\ Unserved
           \/ \E h \in Harts : \E m \in Msgs : Respondent(h, m) /\ Unserved
           \/ \E h \in Harts : \E m \in Msgs : ConsoleRead(h, m) /\ Unserved
           \/ \E h \in Harts : Serving(h)
           \/ \E h \in Harts : mcall_dev_resp(h) /\ Unserved
<1>s. hls' = hls => \A h \in Harts : SameReq(hls'[h], hls[h]) /\ SameResp(hls'[h], hls[h])
  BY DEF SameReq, SameResp
<1>p. ASSUME NEW x \in Harts, NEW v, hls' = [hls EXCEPT ![x].ipi_pending = v]
      PROVE  \A h \in Harts : SameReq(hls'[h], hls[h]) /\ SameResp(hls'[h], hls[h])
  BY <1>p DEF Shape, Fields, SameReq, SameResp
<1>n. ASSUME NEW label, Panic(label) PROVE Quiet /\ Unserved
  BY <1>n, <1>s DEF Panic, Quiet, Unserved
<1>1. CASE UNCHANGED vars
  BY <1>1, <1>s DEF vars, Quiet, Unserved
<1>2. CASE Type
  <2>1. uart'.read = uart.read /\ DOMAIN uart' = DOMAIN uart
    BY <1>2 DEF Type
  <2> QED
    BY <1>2, <2>1, <1>s DEF Type, Quiet, Unserved
<1>3. ASSUME NEW h \in Harts, NEW m \in Msgs, mcall_dev_req(h, m)
      PROVE  \/ Quiet /\ Unserved
             \/ Respondent(h, m) /\ Unserved
             \/ ConsoleRead(h, m) /\ Unserved
  <2>1. CASE AnswerAtOnce(h, m)
    BY <2>1 DEF AnswerAtOnce, Respondent, Unserved
  <2>2. CASE ConsoleRead(h, m)
    <3>1. uart'.read = uart.read /\ DOMAIN uart' = DOMAIN uart
      BY <2>2 DEF ConsoleRead
    <3> QED
      BY <2>2, <3>1 DEF Unserved
  <2>3. CASE DiskIdentify(h, m)
    BY <2>3 DEF DiskIdentify, Respondent, Unserved
  <2>4. CASE DiskTransfer(h, m)
    BY <2>4 DEF DiskTransfer, Respondent, Unserved
  <2>5. CASE Impossible(h, m)
    BY <2>5, <1>n DEF Impossible
  <2> QED
    BY <1>3, <2>1, <2>2, <2>3, <2>4, <2>5 DEF mcall_dev_req
<1>4. ASSUME NEW h \in Harts, mcall_dev_resp(h) PROVE mcall_dev_resp(h) /\ Unserved
  BY <1>4 DEF mcall_dev_resp, Unserved
<1>5. ASSUME NEW h \in Harts, mcall_clear_ipi(h) PROVE Quiet /\ Unserved
  BY <1>5, <1>s DEF mcall_clear_ipi, NotDevice, Quiet, Unserved
<1>6. ASSUME NEW h \in Harts, NEW r \in Harts, mcall_send_ipi(h, r) PROVE Quiet /\ Unserved
  BY <1>6, <1>s DEF mcall_send_ipi, NotDevice, Quiet, Unserved
<1>7. ASSUME NEW h \in Harts, InCall(h) PROVE Quiet /\ Unserved
  <2>1. CASE Recheck(h)
    BY <2>1, <1>s DEF Recheck, NotDevice, Quiet, Unserved
  <2>2. CASE Swap(h)
    BY <2>2, <1>p DEF Swap, NotDevice, Quiet, Unserved
  <2>3. ASSUME NEW r \in Harts, Store(h, r) PROVE Quiet /\ Unserved
    BY <2>3, <1>p DEF Store, NotDevice, Quiet, Unserved
  <2>4. ASSUME NEW r \in Harts, Send(h, r) PROVE Quiet /\ Unserved
    BY <2>4, <1>s DEF Send, NotDevice, Quiet, Unserved
  <2> QED
    BY <1>7, <2>1, <2>2, <2>3, <2>4 DEF InCall
<1>8. ASSUME NEW h \in Harts, io_irq_service(h)
      PROVE  (Quiet /\ Unserved) \/ Serving(h)
  <2>1. CASE Panic("io_irq_service(): no record")
    BY <2>1, <1>n
  <2>2. CASE ~Panic("io_irq_service(): no record")
    <3>1. Served(h) /\ uart' = [uart EXCEPT !.read = @ + 1]
      BY <2>2, <1>8 DEF io_irq_service, Served
    <3>2. uart'.read = uart.read + 1 /\ DOMAIN uart' = DOMAIN uart
      BY <3>1
    <3> QED
      BY <3>1, <3>2 DEF Serving
  <2> QED
    BY <2>1, <2>2
<1>9. ASSUME NEW h \in Harts, TakeIpi(h) PROVE Quiet /\ Unserved
  BY <1>9, <1>s DEF TakeIpi, NotDevice, Quiet, Unserved
<1> QED
  <2>1. CASE Next
    <3>1. ASSUME NEW h \in Harts, Call(h)
          PROVE  \/ Quiet /\ Unserved
                 \/ \E m \in Msgs : Respondent(h, m) /\ Unserved
                 \/ \E m \in Msgs : ConsoleRead(h, m) /\ Unserved
                 \/ mcall_dev_resp(h) /\ Unserved
      BY <3>1, <1>3, <1>4, <1>5, <1>6, Zenon DEF Call
    <3>2. ASSUME NEW h \in Harts, Trap(h)
          PROVE  (Quiet /\ Unserved) \/ Serving(h)
      BY <3>2, <1>8, <1>9, Zenon DEF Trap
    <3> QED
      BY <2>1, <3>1, <3>2, <1>2, <1>7, Zenon DEF Next
  <2> QED
    BY <2>1, <1>1, Zenon

-----------------------------------------------------------------------------
(* No message is lost *)

\* The fields of the console.
Keyed == DOMAIN uart = {"irq0", "read", "came"}

\* The whole invariant.
QInv == SInv /\ Keyed /\ LInv

\* At first every list is empty.
LEMMA InitQInv == Init => QInv
<1> SUFFICES ASSUME Init PROVE QInv
  OBVIOUS
<1>1. Keyed /\ Typed
  BY DEF Init, Keyed, Typed
<1> PICK L : L = [p \in Slots |-> <<>>]
  OBVIOUS
<1>2. \A p \in Slots : L[p] = <<>>
  OBVIOUS
<1>3. Rng(<<>>) = {} /\ Distinct(<<>>) /\ ListIn(msg, Null, <<>>) /\ Tip(<<>>) = Null
  BY DEF Rng, Distinct, ListIn, First, Tip
<1>4. Once(L)
  <2>1. L \in [Slots -> Seq(Msgs)]
    OBVIOUS
  <2> QED
    BY <1>2, <1>3, <2>1 DEF Once
<1>5. ASSUME NEW h \in Harts PROVE HartList(hls[h], msg, L[Req(h)], L[Resp(h)])
  <2>1. L[Req(h)] = <<>> /\ L[Resp(h)] = <<>>
    BY <1>2, SlotFacts
  <2>2. hls[h] = NoQueues
    BY DEF Init
  <2>3. Len(<<>>) = 0
    OBVIOUS
  <2> QED
    BY <2>1, <2>2, <2>3, <1>3 DEF HartList, NoQueues
<1>6. Owned(L, given)
  BY <1>2, <1>3, SlotFacts DEF Owned, Init
<1> QED
  BY <1>1, <1>4, <1>5, <1>6, InitSInv DEF QInv, LInv, Lists, Linked

\* Every step leaves lists that share nothing.
LEMMA NextQInv == QInv /\ [Next]_vars => QInv'
<1> SUFFICES ASSUME QInv, [Next]_vars PROVE QInv'
  OBVIOUS
<1>1. SInv'
  BY NextSInv DEF QInv
<1>2. Shape /\ Typed /\ DOMAIN uart = {"irq0", "read", "came"}
  BY DEF QInv, SInv, LInv, Keyed
<1> PICK L : Lists(L)
  BY DEF QInv, LInv
<1>s. \/ Quiet /\ Unserved
      \/ \E h \in Harts : \E m \in Msgs : Respondent(h, m) /\ Unserved
      \/ \E h \in Harts : \E m \in Msgs : ConsoleRead(h, m) /\ Unserved
      \/ \E h \in Harts : Serving(h)
      \/ \E h \in Harts : mcall_dev_resp(h) /\ Unserved
  BY <1>2, Steps, Zenon
<1>3. Keyed'
  <2>1. DOMAIN uart' = DOMAIN uart
    BY <1>s DEF Unserved, Serving
  <2> QED
    BY <2>1, <1>2 DEF Keyed
<1>4. ASSUME Quiet PROVE LInv'
  <2>1. Lists(L)' /\ Typed'
    BY <1>4, <1>2, SameLists, Zenon DEF Quiet
  <2> QED
    BY <2>1, Zenon DEF LInv
<1>5. ASSUME NEW h \in Harts, NEW m \in Msgs, Respondent(h, m) PROVE LInv'
  BY <1>5, <1>2, AnswerLists, Zenon DEF Respondent, LInv
<1>6. ASSUME NEW h \in Harts, NEW m \in Msgs, ConsoleRead(h, m) PROVE LInv'
  BY <1>6, <1>2, ReadLists, Zenon DEF LInv
<1>7. ASSUME NEW h \in Harts, Serving(h) PROVE LInv'
  BY <1>7, <1>2, ServeLists, Zenon DEF Serving, LInv
<1>8. ASSUME NEW h \in Harts, mcall_dev_resp(h) PROVE LInv'
  BY <1>8, <1>2, TakeLists, Zenon DEF LInv
<1>9. LInv'
  BY <1>s, <1>4, <1>5, <1>6, <1>7, <1>8
<1> QED
  BY <1>1, <1>3, <1>9 DEF QInv

-----------------------------------------------------------------------------
\* What Chain reads off the links.
ChainsAre ==
    \A L : Linked(hls, msg, L) =>
        \A h \in Harts : Requests(h) = L[Req(h)] /\ Responses(h) = L[Resp(h)]

\* What Chain reads off the links is the sequence.
LEMMA ChainsFollow == ChainsAre
<1> SUFFICES ASSUME NEW L, Linked(hls, msg, L), NEW h \in Harts
             PROVE  Requests(h) = L[Req(h)] /\ Responses(h) = L[Resp(h)]
  BY DEF ChainsAre
<1> PICK q, r : q = L[Req(h)] /\ r = L[Resp(h)]
  OBVIOUS
<1>f. IsFiniteSet(Msgs)
  BY SbiAssumption
<1>1. /\ q \in Seq(Msgs) /\ Distinct(q) /\ r \in Seq(Msgs) /\ Distinct(r)
      /\ HartList(hls[h], msg, q, r)
  BY SlotFacts DEF Linked, Once
<1>2. Len(q) <= Cardinality(Msgs) /\ Len(r) <= Cardinality(Msgs) /\ Cardinality(Msgs) \in Nat
      /\ Len(q) \in Nat
  BY <1>1, <1>f, DistinctShort
<1>3. /\ hls[h].req_size = Len(q)
      /\ ListIn(msg, hls[h].req_head, q) /\ ListIn(msg, hls[h].resp_head, r)
  BY <1>1 DEF HartList
<1>4. Chain[Len(q)][hls[h].req_head] = q
  <2>1. Len(q) \in 0 .. Cardinality(Msgs) /\ Len(q) <= Len(q)
    BY <1>2
  <2> QED
    BY <2>1, <1>1, <1>3, <1>f, ChainIs
<1>5. Chain[Cardinality(Msgs)][hls[h].resp_head] = r
  <2>1. Cardinality(Msgs) \in 0 .. Cardinality(Msgs)
    BY <1>2
  <2> QED
    BY <2>1, <1>1, <1>2, <1>3, <1>f, ChainIs
<1> QED
  BY <1>3, <1>4, <1>5, Zenon DEF Requests, Responses

\* A message has one place when it was given, and none otherwise.
LEMMA ListsNothingLost == LInv => NothingLost
<1> SUFFICES ASSUME LInv, NEW m \in Msgs
             PROVE  LET places == {p \in Harts \X {"request", "response"} \X (1 .. Cardinality(Msgs)) :
                          LET q == IF p[2] = "request" THEN Requests(p[1]) ELSE Responses(p[1])
                          IN  p[3] <= Len(q) /\ q[p[3]] = m}
                    IN  /\ Cardinality(places) = IF given[m] = "nothing" THEN 0 ELSE 1
                        /\ given[m] = "answer" => \E p \in places : p[2] = "response"
  BY DEF NothingLost
<1> PICK L : Linked(hls, msg, L) /\ Owned(L, given)
  BY DEF LInv, Lists
<1>r. \A h \in Harts : Requests(h) = L[Req(h)] /\ Responses(h) = L[Resp(h)]
  BY ChainsFollow DEF ChainsAre
<1>o. Once(L)
  BY DEF Linked
<1> PICK c : c = Cardinality(Msgs)
  OBVIOUS
<1>l. ASSUME NEW p \in Slots
      PROVE  L[p] \in Seq(Msgs) /\ Len(L[p]) \in Nat /\ Len(L[p]) <= c /\ Distinct(L[p])
  <2>1. L[p] \in Seq(Msgs) /\ Distinct(L[p]) /\ IsFiniteSet(Msgs)
    BY <1>o, SbiAssumption DEF Once
  <2> QED
    BY <2>1, DistinctShort
<1> DEFINE places == {p \in Harts \X {"request", "response"} \X (1 .. Cardinality(Msgs)) :
                          LET q == IF p[2] = "request" THEN Requests(p[1]) ELSE Responses(p[1])
                          IN  p[3] <= Len(q) /\ q[p[3]] = m}
           At(h, k, i) == /\ h \in Harts /\ k \in Kinds /\ i \in 1 .. Len(L[<<h, k>>])
                          /\ L[<<h, k>>][i] = m
<1>1. \A p : p \in places <=>
          \E h \in Harts, k \in Kinds, i \in 1 .. c : p = <<h, k, i>> /\ At(h, k, i)
  <2>1. ASSUME NEW h \in Harts, NEW k \in Kinds, NEW i \in 1 .. c
        PROVE  <<h, k, i>> \in places <=> At(h, k, i)
    <3>1. <<h, k>> \in Slots /\ Len(L[<<h, k>>]) \in Nat
      BY <1>l DEF Slots
    <3>2. (IF k = "request" THEN Requests(h) ELSE Responses(h)) = L[<<h, k>>]
      BY <1>r DEF Kinds, Req, Resp
    <3>3. <<h, k, i>> \in places <=> i <= Len(L[<<h, k>>]) /\ L[<<h, k>>][i] = m
      BY <3>2 DEF Kinds
    <3> QED
      BY <3>1, <3>3
  <2>2. \A p \in places : \E h \in Harts, k \in Kinds, i \in 1 .. c : p = <<h, k, i>>
    BY DEF Kinds
  <2> HIDE DEF places, At
  <2> QED
    BY <2>1, <2>2
<1>2. ASSUME NEW h, NEW k, NEW i, At(h, k, i)
      PROVE  <<h, k, i>> \in places
  <2>1. <<h, k>> \in Slots
    BY <1>2 DEF Slots
  <2>2. i \in 1 .. c
    <3> PICK n : n = Len(L[<<h, k>>])
      OBVIOUS
    <3>1. n \in Nat /\ n <= c
      BY <2>1, <1>l
    <3>2. i \in 1 .. n
      BY <1>2
    <3>3. c \in Nat
      BY FS_CardinalityType, SbiAssumption
    <3> QED
      BY <3>1, <3>2, <3>3
  <2> HIDE DEF places
  <2> QED
    BY <2>2, <1>1, <1>2
<1>3. ASSUME NEW h, NEW k, NEW i, At(h, k, i), NEW g, NEW e, NEW j, At(g, e, j)
      PROVE  <<h, k, i>> = <<g, e, j>>
  <2>1. <<h, k>> \in Slots /\ <<g, e>> \in Slots
    BY <1>3 DEF Slots
  <2>2. m \in Rng(L[<<h, k>>]) /\ m \in Rng(L[<<g, e>>])
    BY <1>3 DEF Rng
  <2>3. <<h, k>> = <<g, e>>
    <3> SUFFICES ASSUME <<h, k>> # <<g, e>> PROVE FALSE
      OBVIOUS
    <3>1. Rng(L[<<h, k>>]) \cap Rng(L[<<g, e>>]) = {}
      BY <2>1, <1>o DEF Once
    <3> QED
      BY <3>1, <2>2
  <2>4. i = j
    BY <2>1, <2>3, <1>l, <1>3 DEF Distinct
  <2> QED
    BY <2>3, <2>4
<1>4. given[m] # "nothing" <=> \E h, k, i : At(h, k, i)
  <2>1. given[m] # "nothing" <=> \E p \in Slots : m \in Rng(L[p])
    BY DEF Owned
  <2>2. (\E p \in Slots : m \in Rng(L[p])) <=> \E h, k, i : At(h, k, i)
    <3>1. ASSUME NEW p \in Slots, m \in Rng(L[p]) PROVE \E h, k, i : At(h, k, i)
      <4> PICK h \in Harts, k \in Kinds : p = <<h, k>>
        BY DEF Slots
      <4> PICK i \in 1 .. Len(L[p]) : L[p][i] = m
        BY <3>1 DEF Rng
      <4>1. At(h, k, i)
        OBVIOUS
      <4> HIDE DEF At
      <4> QED
        BY <4>1
    <3>2. ASSUME NEW h, NEW k, NEW i, At(h, k, i) PROVE \E p \in Slots : m \in Rng(L[p])
      <4>1. <<h, k>> \in Slots /\ m \in Rng(L[<<h, k>>])
        BY <3>2 DEF Rng, Slots
      <4> QED
        BY <4>1
    <3> HIDE DEF At
    <3> QED
      BY <3>1, <3>2
  <2> HIDE DEF At
  <2> QED
    BY <2>1, <2>2
<1>5. given[m] = "answer" => \A h, i : ~At(h, "request", i)
  <2> SUFFICES ASSUME given[m] = "answer", NEW h, NEW i, At(h, "request", i) PROVE FALSE
    OBVIOUS
  <2>1. h \in Harts /\ m \in Rng(L[Req(h)])
    BY DEF Rng, Req
  <2> QED
    BY <2>1 DEF Owned
<1>6. CASE given[m] = "nothing"
  <2> HIDE DEF places, At
  <2>1. \A p : p \notin places
    BY <1>6, <1>4, <1>1
  <2>2. Cardinality(places) = 0
    <3>1. places = {}
      BY <2>1
    <3> QED
      BY <3>1, FS_EmptySet
  <2> QED
    BY <2>2, <1>6 DEF places
<1>7. CASE given[m] # "nothing"
  <2> PICK h, k, i : At(h, k, i)
    BY <1>7, <1>4
  <2>1. <<h, k, i>> \in places
    BY <1>2
  <2>2. \A p \in places : p = <<h, k, i>>
    <3> HIDE DEF places, At
    <3> QED
      BY <1>1, <1>3
  <2>3. places = {<<h, k, i>>}
    BY <2>1, <2>2
  <2>4. Cardinality(places) = 1
    <3> HIDE DEF places
    <3> QED
      BY <2>3, FS_Singleton
  <2>5. given[m] = "answer" => k = "response"
    BY <1>5 DEF Kinds
  <2>6. given[m] = "answer" => \E p \in places : p[2] = "response"
    BY <2>1, <2>5
  <2> QED
    BY <2>4, <2>6, <1>7
<1> QED
  BY <1>6, <1>7

\* A message given to the machine is on one list of one hart, once, until the
\* supervisor takes it back (mtrap.c:91, :154, :203, :293), for every number
\* of harts and messages.
THEOREM EveryMessageKept == Spec => []NothingLost
<1>1. QInv => NothingLost
  BY ListsNothingLost DEF QInv
<1> QED
  BY InitQInv, NextQInv, <1>1, PTL DEF Spec

-----------------------------------------------------------------------------
(* The queues *)

\* The responses of a list with their answers.
Ans(M, q) == [i \in 1 .. Len(q) |-> <<q[i], M[q[i]].data>>]

\* The data of the messages of a list is the same.
SameData(N, M, q) == \A x \in Rng(q) : N[x].data = M[x].data

\* Answers are a sequence as long as the list.
LEMMA AnsSeq ==
    ASSUME NEW S, NEW q \in Seq(S), NEW M
    PROVE  /\ Len(Ans(M, q)) = Len(q) /\ Len(q) \in Nat
           /\ DOMAIN Ans(M, q) = 1 .. Len(q)
           /\ Ans(M, q) \in Seq(Rng(Ans(M, q)))
           /\ \A i \in 1 .. Len(q) : Ans(M, q)[i] = <<q[i], M[q[i]].data>>
<1>1. Len(q) \in Nat
  OBVIOUS
<1> PICK a : a = Ans(M, q)
  OBVIOUS
<1>2. a = [i \in 1 .. Len(q) |-> <<q[i], M[q[i]].data>>]
  BY DEF Ans
<1>3. Len(a) = Len(q) /\ DOMAIN a = 1 .. Len(q)
  BY <1>1, <1>2
<1>4. \A i \in 1 .. Len(q) : a[i] \in Rng(a)
  BY <1>3 DEF Rng
<1>5. a \in [1 .. Len(q) -> Rng(a)]
  BY <1>2, <1>4
<1>6. a \in Seq(Rng(a))
  BY <1>1, <1>5
<1> QED
  BY <1>1, <1>2, <1>3, <1>6

\* Answers depend on the data of the list's own messages alone.
LEMMA AnsKept ==
    ASSUME NEW S, NEW q \in Seq(S), NEW M, NEW N, SameData(N, M, q)
    PROVE  Ans(N, q) = Ans(M, q)
<1>1. \A i \in 1 .. Len(q) : N[q[i]].data = M[q[i]].data
  BY RngIn, Zenon DEF SameData
<1> QED
  BY <1>1 DEF Ans

\* The answers with one more message at the end.
LEMMA AnsAppend ==
    ASSUME NEW S, NEW q \in Seq(S), NEW m \in S, NEW M, NEW N, SameData(N, M, q)
    PROVE  Ans(N, Append(q, m)) = Append(Ans(M, q), <<m, N[m].data>>)
<1> PICK a, b, p : a = Ans(M, q) /\ b = Append(a, p) /\ p = <<m, N[m].data>>
  OBVIOUS
<1> PICK r, c : r = Append(q, m) /\ c = Ans(N, r)
  OBVIOUS
<1>1. /\ r \in Seq(S) /\ Len(q) \in Nat /\ Len(r) = Len(q) + 1 /\ r[Len(q) + 1] = m
      /\ \A i \in 1 .. Len(q) : r[i] = q[i]
  BY AppendRng
<1>2. /\ Len(c) = Len(r) /\ DOMAIN c = 1 .. Len(r)
      /\ \A i \in 1 .. Len(r) : c[i] = <<r[i], N[r[i]].data>>
      /\ c \in Seq(Rng(c))
  BY <1>1, AnsSeq
<1>3. /\ Len(a) = Len(q) /\ DOMAIN a = 1 .. Len(q)
      /\ \A i \in 1 .. Len(q) : a[i] = <<q[i], M[q[i]].data>>
      /\ a \in Seq(Rng(a))
  BY AnsSeq
<1>4. a \in Seq(Rng(a) \cup {p})
  BY <1>3
<1>5. /\ b \in Seq(Rng(a) \cup {p}) /\ Len(b) = Len(a) + 1 /\ b[Len(a) + 1] = p
      /\ \A i \in 1 .. Len(a) : b[i] = a[i]
  BY <1>4, AppendRng
<1>6. \A i \in 1 .. Len(q) : N[q[i]].data = M[q[i]].data
  BY RngIn, Zenon DEF SameData
<1>7. ASSUME NEW i \in 1 .. Len(r) PROVE c[i] = b[i]
  <2>1. CASE i = Len(q) + 1
    BY <2>1, <1>1, <1>2, <1>3, <1>5
  <2>2. CASE i # Len(q) + 1
    <3>1. i \in 1 .. Len(q)
      BY <2>2, <1>1
    <3>2. c[i] = <<q[i], N[q[i]].data>>
      BY <3>1, <1>1, <1>2
    <3>3. b[i] = <<q[i], M[q[i]].data>>
      BY <3>1, <1>3, <1>5
    <3> QED
      BY <3>1, <3>2, <3>3, <1>6
  <2> QED
    BY <2>1, <2>2
<1>8. c = [i \in 1 .. Len(r) |-> c[i]] /\ b = [i \in 1 .. Len(r) |-> b[i]]
  BY <1>1, <1>2, <1>3, <1>5
<1>9. c = b
  BY <1>7, <1>8
<1> QED
  BY <1>9

\* A sequence is the function of its places.
LEMMA AsFunction ==
    ASSUME NEW S, NEW q \in Seq(S)
    PROVE  q = [i \in 1 .. Len(q) |-> q[i]]
OBVIOUS

\* The answers without the first.
LEMMA AnsTail ==
    ASSUME NEW S, NEW q \in Seq(S), q # <<>>, NEW M, NEW N, SameData(N, M, Tail(q))
    PROVE  Ans(N, Tail(q)) = Tail(Ans(M, q)) /\ Ans(M, q) # <<>>
<1> PICK a, b : a = Ans(M, q) /\ b = Tail(a)
  OBVIOUS
<1> PICK r, c : r = Tail(q) /\ c = Ans(N, r)
  OBVIOUS
<1>1. /\ r \in Seq(S) /\ Len(q) \in Nat /\ Len(q) > 0 /\ Len(r) = Len(q) - 1
      /\ \A i \in 1 .. Len(r) : r[i] = q[i + 1]
  BY TailRng
<1>2. /\ Len(c) = Len(r) /\ DOMAIN c = 1 .. Len(r)
      /\ \A i \in 1 .. Len(r) : c[i] = <<r[i], N[r[i]].data>>
      /\ c \in Seq(Rng(c))
  BY <1>1, AnsSeq, ZenonT(60)
<1>3. /\ Len(a) = Len(q) /\ DOMAIN a = 1 .. Len(q)
      /\ \A i \in 1 .. Len(q) : a[i] = <<q[i], M[q[i]].data>>
      /\ a \in Seq(Rng(a))
  BY AnsSeq
<1>4. a # <<>>
  BY <1>1, <1>3
<1>5. /\ b \in Seq(Rng(a)) /\ Len(b) = Len(a) - 1
      /\ \A i \in 1 .. Len(b) : b[i] = a[i + 1]
  BY <1>3, <1>4, TailRng
<1>6. \A i \in 1 .. Len(r) : N[r[i]].data = M[r[i]].data
  BY <1>1, RngIn, Zenon DEF SameData
<1>7. ASSUME NEW i \in 1 .. Len(r) PROVE c[i] = b[i]
  <2>1. i + 1 \in 1 .. Len(q) /\ i \in 1 .. Len(b)
    BY <1>1, <1>3, <1>5
  <2>2. r[i] = q[i + 1]
    BY <1>1
  <2>3. b[i] = <<q[i + 1], M[q[i + 1]].data>>
    BY <2>1, <1>3, <1>5
  <2>4. c[i] = <<r[i], N[r[i]].data>> /\ N[r[i]].data = M[r[i]].data
    BY <1>2, <1>6
  <2> QED
    BY <2>2, <2>3, <2>4
<1>8. c = [i \in 1 .. Len(r) |-> c[i]] /\ b = [i \in 1 .. Len(r) |-> b[i]]
  <2>1. Len(b) = Len(r)
    BY <1>1, <1>3, <1>5
  <2>2. b = [i \in 1 .. Len(b) |-> b[i]]
    BY <1>5, AsFunction, Zenon
  <2>3. c = [i \in 1 .. Len(c) |-> c[i]]
    BY <1>2
  <2> QED
    BY <2>1, <2>2, <2>3, <1>2
<1>9. c = b
  BY <1>7, <1>8
<1> QED
  BY <1>9, <1>4

-----------------------------------------------------------------------------
(* What the lists are to DeviceQueues. *)

\* The queues the lists stand for.
AbsW(L) == [h \in Harts |-> L[Req(h)]]
AbsA(M, L) == [h \in Harts |-> Ans(M, L[Resp(h)])]

\* The data of all messages but m is the same.
DataBut(N, M, m) == \A x \in Msgs : x # m => N[x].data = M[x].data

\* The data of a message on no list may change.
LEMMA DataKept ==
    ASSUME NEW L, Once(L), NEW m, Off(L, m), NEW M, NEW N, DataBut(N, M, m),
           NEW p \in Slots
    PROVE  L[p] \in Seq(Msgs) /\ SameData(N, M, L[p])
<1>1. L[p] \in Seq(Msgs) /\ m \notin Rng(L[p])
  BY DEF Once, Off
<1>2. \A x \in Rng(L[p]) : x \in Msgs /\ x # m
  BY <1>1, RngIn
<1> QED
  BY <1>1, <1>2 DEF SameData, DataBut

\* A message on no list is in no queue.
LEMMA AbsOff ==
    ASSUME NEW L, Once(L), NEW m, Off(L, m), NEW M, NEW h \in Harts
    PROVE  /\ \A i \in 1 .. Len(AbsW(L)[h]) : AbsW(L)[h][i] # m
           /\ \A i \in 1 .. Len(AbsA(M, L)[h]) : AbsA(M, L)[h][i][1] # m
<1> PICK q, r : q = L[Req(h)] /\ r = L[Resp(h)]
  OBVIOUS
<1>1. q \in Seq(Msgs) /\ r \in Seq(Msgs) /\ m \notin Rng(q) /\ m \notin Rng(r)
  BY SlotFacts DEF Once, Off
<1>2. AbsW(L)[h] = q /\ AbsA(M, L)[h] = Ans(M, r)
  BY DEF AbsW, AbsA
<1>3. \A i \in 1 .. Len(q) : q[i] # m
  BY <1>1 DEF Rng
<1>4. \A i \in 1 .. Len(r) : r[i] # m
  BY <1>1 DEF Rng
<1>5. Len(Ans(M, r)) = Len(r) /\ \A i \in 1 .. Len(r) : Ans(M, r)[i] = <<r[i], M[r[i]].data>>
  BY <1>1, AnsSeq
<1>6. \A i \in 1 .. Len(r) : <<r[i], M[r[i]].data>>[1] = r[i]
  OBVIOUS
<1> QED
  BY <1>2, <1>3, <1>4, <1>5, <1>6

\* An answer at the end is an answer at the end of the queue.
LEMMA AbsAnswer ==
    ASSUME NEW L, Once(L), NEW m \in Msgs, Off(L, m), NEW h \in Harts,
           NEW K, Onto(K, L, Resp(h), Append(L[Resp(h)], m)),
           NEW M, NEW N, DataBut(N, M, m)
    PROVE  /\ AbsW(K) = AbsW(L)
           /\ AbsA(N, K) = [AbsA(M, L) EXCEPT ![h] = Append(@, <<m, N[m].data>>)]
<1>1. \A g \in Harts : K[Req(g)] = L[Req(g)]
  BY SlotFacts DEF Onto
<1>2. ASSUME NEW g \in Harts, g # h PROVE Ans(N, K[Resp(g)]) = Ans(M, L[Resp(g)])
  <2>1. K[Resp(g)] = L[Resp(g)] /\ Resp(g) \in Slots
    BY <1>2, SlotFacts DEF Onto
  <2>2. L[Resp(g)] \in Seq(Msgs) /\ SameData(N, M, L[Resp(g)])
    BY <2>1, DataKept
  <2>3. Ans(N, L[Resp(g)]) = Ans(M, L[Resp(g)])
    BY <2>2, AnsKept
  <2> QED
    BY <2>1, <2>3
<1>3. Ans(N, K[Resp(h)]) = Append(Ans(M, L[Resp(h)]), <<m, N[m].data>>)
  <2>1. K[Resp(h)] = Append(L[Resp(h)], m) /\ Resp(h) \in Slots
    BY SlotFacts DEF Onto
  <2>2. L[Resp(h)] \in Seq(Msgs) /\ SameData(N, M, L[Resp(h)])
    BY <2>1, DataKept
  <2>3. Ans(N, Append(L[Resp(h)], m)) = Append(Ans(M, L[Resp(h)]), <<m, N[m].data>>)
    BY <2>2, AnsAppend
  <2> QED
    BY <2>1, <2>3
<1>4. AbsW(K) = AbsW(L)
  BY <1>1 DEF AbsW
<1> PICK A, B : A = AbsA(M, L) /\ B = AbsA(N, K)
  OBVIOUS
<1>5. /\ A = [g \in Harts |-> A[g]] /\ B = [g \in Harts |-> B[g]]
      /\ \A g \in Harts : g # h => B[g] = A[g]
      /\ B[h] = Append(A[h], <<m, N[m].data>>)
  BY <1>2, <1>3 DEF AbsA
<1>6. B = [A EXCEPT ![h] = Append(@, <<m, N[m].data>>)]
  BY <1>5
<1> QED
  BY <1>4, <1>6

\* A read in front is a read in front of the queue.
LEMMA AbsRead ==
    ASSUME NEW L, Once(L), NEW m \in Msgs, Off(L, m), NEW h \in Harts,
           NEW K, Onto(K, L, Req(h), <<m>> \o L[Req(h)]),
           NEW M, NEW N, DataBut(N, M, m)
    PROVE  /\ AbsW(K) = [AbsW(L) EXCEPT ![h] = <<m>> \o @]
           /\ AbsA(N, K) = AbsA(M, L)
<1>1. \A g \in Harts : g # h => K[Req(g)] = L[Req(g)]
  BY SlotFacts DEF Onto
<1>2. ASSUME NEW g \in Harts PROVE Ans(N, K[Resp(g)]) = Ans(M, L[Resp(g)])
  <2>1. K[Resp(g)] = L[Resp(g)] /\ Resp(g) \in Slots
    BY SlotFacts DEF Onto
  <2>2. L[Resp(g)] \in Seq(Msgs) /\ SameData(N, M, L[Resp(g)])
    BY <2>1, DataKept
  <2>3. Ans(N, L[Resp(g)]) = Ans(M, L[Resp(g)])
    BY <2>2, AnsKept
  <2> QED
    BY <2>1, <2>3
<1>3. K[Req(h)] = <<m>> \o L[Req(h)]
  BY DEF Onto
<1>4. AbsA(N, K) = AbsA(M, L)
  BY <1>2 DEF AbsA
<1> PICK A, B : A = AbsW(L) /\ B = AbsW(K)
  OBVIOUS
<1>5. /\ A = [g \in Harts |-> A[g]] /\ B = [g \in Harts |-> B[g]]
      /\ \A g \in Harts : g # h => B[g] = A[g]
      /\ B[h] = <<m>> \o A[h]
  BY <1>1, <1>3 DEF AbsW
<1>6. B = [A EXCEPT ![h] = <<m>> \o @]
  BY <1>5
<1> QED
  BY <1>4, <1>6

\* A character goes from the first read to the end of the answers.
ServesAs(L, K, M, N, h, m) ==
    /\ AbsW(L)[h] # <<>> /\ Head(AbsW(L)[h]) = m
    /\ AbsW(K) = [AbsW(L) EXCEPT ![h] = Tail(@)]
    /\ AbsA(N, K) = [AbsA(M, L) EXCEPT ![h] = Append(@, <<m, N[m].data>>)]

\* The first read gets the character.
LEMMA AbsServe ==
    ASSUME NEW L, Once(L), NEW h \in Harts, L[Req(h)] # <<>>,
           NEW m \in Msgs, m = L[Req(h)][1],
           NEW J, Once(J), Off(J, m), Onto(J, L, Req(h), Tail(L[Req(h)])),
           NEW K, Onto(K, J, Resp(h), Append(J[Resp(h)], m)),
           NEW M, NEW N, DataBut(N, M, m)
    PROVE  ServesAs(L, K, M, N, h, m)
<1>0. Req(h) \in Slots
  BY SlotFacts
<1>2. /\ AbsW(K) = AbsW(J)
      /\ AbsA(N, K) = [AbsA(M, J) EXCEPT ![h] = Append(@, <<m, N[m].data>>)]
  BY AbsAnswer, SMTT(40)
<1>3. \A g \in Harts : J[Resp(g)] = L[Resp(g)]
  BY SlotFacts DEF Onto
<1>4. AbsA(M, J) = AbsA(M, L)
  BY <1>3 DEF AbsA
<1>5. /\ \A g \in Harts : g # h => J[Req(g)] = L[Req(g)]
      /\ J[Req(h)] = Tail(L[Req(h)])
  BY SlotFacts DEF Onto
<1>6. AbsW(J) = [AbsW(L) EXCEPT ![h] = Tail(@)]
  <2> PICK A, B : A = AbsW(L) /\ B = AbsW(J)
    OBVIOUS
  <2>1. /\ A = [g \in Harts |-> A[g]] /\ B = [g \in Harts |-> B[g]]
        /\ \A g \in Harts : g # h => B[g] = A[g]
        /\ B[h] = Tail(A[h])
    BY <1>5 DEF AbsW
  <2>2. B = [A EXCEPT ![h] = Tail(@)]
    BY <2>1
  <2> QED
    BY <2>2
<1>7. AbsW(L)[h] = L[Req(h)] /\ L[Req(h)] \in Seq(Msgs)
  BY <1>0 DEF AbsW, Once
<1>8. AbsW(L)[h] # <<>> /\ Head(AbsW(L)[h]) = m
  BY <1>7
<1> QED
  BY <1>2, <1>4, <1>6, <1>8 DEF ServesAs

\* The first response is the first answer of the queue.
LEMMA AbsTake ==
    ASSUME NEW L, Once(L), NEW h \in Harts, L[Resp(h)] # <<>>,
           NEW m \in Msgs, m = L[Resp(h)][1],
           NEW K, Once(K), Off(K, m), Onto(K, L, Resp(h), Tail(L[Resp(h)])),
           NEW M, NEW N, DataBut(N, M, m)
    PROVE  /\ AbsA(M, L)[h] # <<>>
           /\ AbsW(K) = AbsW(L)
           /\ AbsA(N, K) = [AbsA(M, L) EXCEPT ![h] = Tail(@)]
<1>1. \A g \in Harts : K[Req(g)] = L[Req(g)]
  BY SlotFacts DEF Onto
<1>s. ASSUME NEW g \in Harts PROVE K[Resp(g)] \in Seq(Msgs) /\ SameData(N, M, K[Resp(g)])
  <2>1. Resp(g) \in Slots
    BY SlotFacts
  <2> QED
    BY <2>1, DataKept
<1>2. ASSUME NEW g \in Harts, g # h PROVE Ans(N, K[Resp(g)]) = Ans(M, L[Resp(g)])
  <2>1. K[Resp(g)] = L[Resp(g)]
    BY <1>2, SlotFacts DEF Onto
  <2>2. Ans(N, K[Resp(g)]) = Ans(M, K[Resp(g)])
    BY <1>s, AnsKept
  <2> QED
    BY <2>1, <2>2
<1>3. Ans(N, K[Resp(h)]) = Tail(Ans(M, L[Resp(h)])) /\ Ans(M, L[Resp(h)]) # <<>>
  <2>1. K[Resp(h)] = Tail(L[Resp(h)]) /\ Resp(h) \in Slots
    BY SlotFacts DEF Onto
  <2>2. L[Resp(h)] \in Seq(Msgs) /\ SameData(N, M, Tail(L[Resp(h)]))
    BY <2>1, <1>s DEF Once
  <2>3. Ans(N, Tail(L[Resp(h)])) = Tail(Ans(M, L[Resp(h)])) /\ Ans(M, L[Resp(h)]) # <<>>
    BY <2>2, AnsTail
  <2> QED
    BY <2>1, <2>3
<1>4. AbsW(K) = AbsW(L)
  BY <1>1 DEF AbsW
<1> PICK A, B : A = AbsA(M, L) /\ B = AbsA(N, K)
  OBVIOUS
<1>5. /\ A = [g \in Harts |-> A[g]] /\ B = [g \in Harts |-> B[g]]
      /\ \A g \in Harts : g # h => B[g] = A[g]
      /\ B[h] = Tail(A[h]) /\ A[h] # <<>>
  BY <1>2, <1>3 DEF AbsA
<1>6. B = [A EXCEPT ![h] = Tail(@)]
  BY <1>5
<1> QED
  BY <1>4, <1>5, <1>6

\* The queues DeviceQueues is given.
WBar == [h \in Harts |-> Requests(h)]
ABar == [h \in Harts |->
            LET r == Responses(h) IN [i \in 1 .. Len(r) |-> <<r[i], msg[r[i]].data>>]]

\* They are those the lists stand for.
BarsAre == \A L : Linked(hls, msg, L) => WBar = AbsW(L) /\ ABar = AbsA(msg, L)

\* The queues of DeviceQueues are the sequences.
LEMMA BarsFollow == BarsAre
<1> SUFFICES ASSUME NEW L, Linked(hls, msg, L)
             PROVE  WBar = AbsW(L) /\ ABar = AbsA(msg, L)
  BY DEF BarsAre
<1>1. \A h \in Harts : Requests(h) = L[Req(h)] /\ Responses(h) = L[Resp(h)]
  BY ChainsFollow DEF ChainsAre
<1>2. WBar = AbsW(L)
  BY <1>1 DEF WBar, AbsW
<1>3. ABar = AbsA(msg, L)
  BY <1>1 DEF ABar, AbsA, Ans
<1> QED
  BY <1>2, <1>3

\* The message m is the supervisor's.
LEMMA AbsOwned ==
    ASSUME NEW L, Linked(hls, msg, L), NEW m, Off(L, m)
    PROVE  Queues!Owned(m)
<1>1. WBar = AbsW(L) /\ ABar = AbsA(msg, L)
  BY BarsFollow DEF BarsAre
<1>2. ASSUME NEW h \in Harts
      PROVE  /\ \A i \in 1 .. Len(WBar[h]) : WBar[h][i] # m
             /\ \A i \in 1 .. Len(ABar[h]) : ABar[h][i][1] # m
  BY <1>1, AbsOff DEF Linked
<1> QED
  BY <1>2 DEF Queues!Owned, Queues!In, WBar, ABar

\* A quiet step changes no queue.
LEMMA QuietRefines ==
    ASSUME QInv, Quiet, Unserved, BarsAre'
    PROVE  UNCHANGED Queues!vars
<1> PICK L : Lists(L)
  BY DEF QInv, LInv
<1>1. Lists(L)'
  BY SameLists, Zenon DEF Quiet, QInv, LInv
<1>2. WBar = AbsW(L) /\ ABar = AbsA(msg, L)
  BY BarsFollow DEF BarsAre, Lists
<1>3. WBar' = AbsW(L) /\ ABar' = AbsA(msg', L)
  BY <1>1 DEF BarsAre, Lists
<1>4. WBar' = WBar /\ ABar' = ABar
  BY <1>2, <1>3 DEF Quiet
<1> QED
  BY <1>4 DEF Queues!vars, WBar, ABar, Unserved

\* A request that is answered at once is AnswerNow.
LEMMA RespondRefines ==
    ASSUME QInv, NEW h \in Harts, NEW m \in Msgs, Respondent(h, m), Unserved, BarsAre'
    PROVE  Queues!AnswerNow(h, m)
<1> PICK L : Lists(L)
  BY DEF QInv, LInv
<1>0. Shape /\ Typed
  BY DEF QInv, LInv, SInv
<1>1. PICK K : Lists(K)' /\ Off(L, m) /\ Onto(K, L, Resp(h), Append(L[Resp(h)], m))
  BY <1>0, AnswerLists, Zenon DEF Respondent
<1>2. Linked(hls, msg, L) /\ Once(L)
  BY DEF Lists, Linked
<1>3. DataBut(msg', msg, m) /\ msg'[m].data = Done
  <2>1. DOMAIN hls[h] = Fields /\ Respond(h, hls[h], msg, m, Done)
    BY <1>0 DEF Shape, Respondent, mcall_respond
  <2> QED
    BY <2>1, <1>0, RespondFacts DEF DataBut
<1>4. /\ AbsW(K) = AbsW(L)
      /\ AbsA(msg', K) = [AbsA(msg, L) EXCEPT ![h] = Append(@, <<m, msg'[m].data>>)]
  <2> PICK M, N : M = msg /\ N = msg'
    OBVIOUS
  <2>1. /\ AbsW(K) = AbsW(L)
        /\ AbsA(N, K) = [AbsA(M, L) EXCEPT ![h] = Append(@, <<m, N[m].data>>)]
    BY <1>1, <1>2, <1>3, AbsAnswer
  <2> QED
    BY <2>1
<1>5. WBar = AbsW(L) /\ ABar = AbsA(msg, L)
  BY <1>2, BarsFollow DEF BarsAre
<1>6. WBar' = AbsW(K) /\ ABar' = AbsA(msg', K)
  BY <1>1 DEF BarsAre, Lists
<1>7. WBar' = WBar /\ ABar' = [ABar EXCEPT ![h] = Append(@, <<m, Done>>)]
  BY <1>3, <1>4, <1>5, <1>6
<1>8. Queues!Owned(m)
  BY <1>1, <1>2, AbsOwned
<1> QED
  BY <1>7, <1>8 DEF Queues!AnswerNow, Queues!Answer, Queues!Done, Done, WBar, ABar, Unserved

\* A read of the console is Read.
LEMMA ReadRefines ==
    ASSUME QInv, NEW h \in Harts, NEW m \in Msgs, ConsoleRead(h, m), Unserved, BarsAre'
    PROVE  Queues!Read(h, m)
<1> PICK L : Lists(L)
  BY DEF QInv, LInv
<1>0. Shape /\ Typed
  BY DEF QInv, LInv, SInv
<1>1. PICK K : Lists(K)' /\ Off(L, m) /\ Onto(K, L, Req(h), <<m>> \o L[Req(h)])
  BY <1>0, ReadLists, Zenon
<1>2. Linked(hls, msg, L) /\ Once(L)
  BY DEF Lists, Linked
<1>3. DataBut(msg', msg, m)
  BY <1>0 DEF ConsoleRead, Typed, DataBut
<1>4. AbsW(K) = [AbsW(L) EXCEPT ![h] = <<m>> \o @] /\ AbsA(msg', K) = AbsA(msg, L)
  <2> PICK M, N : M = msg /\ N = msg'
    OBVIOUS
  <2>1. AbsW(K) = [AbsW(L) EXCEPT ![h] = <<m>> \o @] /\ AbsA(N, K) = AbsA(M, L)
    BY <1>1, <1>2, <1>3, AbsRead
  <2> QED
    BY <2>1
<1>5. WBar = AbsW(L) /\ ABar = AbsA(msg, L)
  BY <1>2, BarsFollow DEF BarsAre
<1>6. WBar' = AbsW(K) /\ ABar' = AbsA(msg', K)
  BY <1>1 DEF BarsAre, Lists
<1>7. WBar' = [WBar EXCEPT ![h] = <<m>> \o @] /\ ABar' = ABar
  BY <1>4, <1>5, <1>6
<1>8. Queues!Owned(m)
  BY <1>1, <1>2, AbsOwned
<1> QED
  BY <1>7, <1>8 DEF Queues!Read, WBar, ABar, Unserved

\* A character is Serve.
LEMMA ServeRefines ==
    ASSUME QInv, NEW h \in Harts, Serving(h), BarsAre'
    PROVE  Queues!Serve(h)
<1> PICK L : Lists(L)
  BY DEF QInv, LInv
<1>0. Shape /\ Typed
  BY DEF QInv, LInv, SInv
<1> PICK m : m = L[Req(h)][1]
  OBVIOUS
<1>1. /\ L[Req(h)] # <<>> /\ hls[h].req_head = m /\ m \in Msgs
      /\ \E J, K : /\ Lists(K)' /\ Once(J) /\ Off(J, m)
                   /\ Onto(J, L, Req(h), Tail(L[Req(h)]))
                   /\ Onto(K, J, Resp(h), Append(J[Resp(h)], m))
  BY <1>0, ServeLists, Zenon DEF Serving
<1>2. PICK J, K : /\ Lists(K)' /\ Once(J) /\ Off(J, m)
                  /\ Onto(J, L, Req(h), Tail(L[Req(h)]))
                  /\ Onto(K, J, Resp(h), Append(J[Resp(h)], m))
  BY <1>1
<1>3. Linked(hls, msg, L) /\ Once(L)
  BY DEF Lists, Linked
<1>4. DataBut(msg', msg, m) /\ msg'[m].data = Char(uart.read + 1)
  <2> PICK H : H = Unlink(hls[h], msg[m].priv)
    OBVIOUS
  <2>1. DOMAIN H = Fields
    BY <1>0 DEF Shape, Fields, Unlink
  <2>2. Respond(h, H, msg, m, Char(uart.read + 1))
    BY <1>1 DEF Serving, Served
  <2> QED
    BY <2>1, <2>2, <1>0, <1>1, RespondFacts DEF DataBut
<1>5. /\ AbsW(L)[h] # <<>> /\ Head(AbsW(L)[h]) = m
      /\ AbsW(K) = [AbsW(L) EXCEPT ![h] = Tail(@)]
      /\ AbsA(msg', K) = [AbsA(msg, L) EXCEPT ![h] = Append(@, <<m, msg'[m].data>>)]
  <2> PICK M, N : M = msg /\ N = msg'
    OBVIOUS
  <2>1. DataBut(N, M, m) /\ L[Req(h)] # <<>> /\ m \in Msgs
    BY <1>1, <1>4
  <2>2. /\ AbsW(L)[h] # <<>> /\ Head(AbsW(L)[h]) = m
        /\ AbsW(K) = [AbsW(L) EXCEPT ![h] = Tail(@)]
        /\ AbsA(N, K) = [AbsA(M, L) EXCEPT ![h] = Append(@, <<m, N[m].data>>)]
    <3>1. /\ Once(L) /\ Once(J) /\ Off(J, m)
          /\ Onto(J, L, Req(h), Tail(L[Req(h)]))
          /\ Onto(K, J, Resp(h), Append(J[Resp(h)], m))
      BY <1>2, <1>3
    <3>2. ServesAs(L, K, M, N, h, m)
      BY <2>1, <3>1, AbsServe, Zenon
    <3> QED
      BY <3>2 DEF ServesAs
  <2> QED
    BY <2>2
<1>6. WBar = AbsW(L) /\ ABar = AbsA(msg, L)
  BY <1>3, BarsFollow DEF BarsAre
<1>7. WBar' = AbsW(K) /\ ABar' = AbsA(msg', K)
  BY <1>2 DEF BarsAre, Lists
<1>8. uart'.read = uart.read + 1
  BY DEF Serving
<1>9. /\ WBar[h] # <<>>
      /\ WBar' = [WBar EXCEPT ![h] = Tail(@)]
      /\ ABar' = [ABar EXCEPT ![h] = Append(@, <<Head(WBar[h]), Char(uart'.read)>>)]
  BY <1>4, <1>5, <1>6, <1>7, <1>8
<1> QED
  BY <1>8, <1>9 DEF Queues!Serve, Queues!Answer, Queues!Char, Char, WBar, ABar

\* Taking a response is Take.
LEMMA TakeRefines ==
    ASSUME QInv, NEW h \in Harts, mcall_dev_resp(h), Unserved, BarsAre'
    PROVE  Queues!Take(h)
<1> PICK L : Lists(L)
  BY DEF QInv, LInv
<1>0. Shape /\ Typed
  BY DEF QInv, LInv, SInv
<1> PICK m : m = L[Resp(h)][1]
  OBVIOUS
<1>1. /\ L[Resp(h)] # <<>> /\ hls[h].resp_head = m /\ m \in Msgs
      /\ \E K : /\ Lists(K)' /\ Off(K, m)
                /\ Onto(K, L, Resp(h), Tail(L[Resp(h)]))
  BY <1>0, TakeLists, Zenon
<1>2. PICK K : Lists(K)' /\ Off(K, m) /\ Onto(K, L, Resp(h), Tail(L[Resp(h)]))
  BY <1>1
<1>3. Linked(hls, msg, L) /\ Once(L) /\ Once(K)
  BY <1>2 DEF Lists, Linked
<1>4. DataBut(msg', msg, m)
  <2>1. msg' = [msg EXCEPT ![m] = [priv |-> Null, data |-> Done]]
    BY <1>1 DEF mcall_dev_resp
  <2> QED
    BY <2>1, <1>0 DEF Typed, DataBut
<1>5. /\ AbsA(msg, L)[h] # <<>> /\ AbsW(K) = AbsW(L)
      /\ AbsA(msg', K) = [AbsA(msg, L) EXCEPT ![h] = Tail(@)]
  <2> PICK M, N : M = msg /\ N = msg'
    OBVIOUS
  <2>1. DataBut(N, M, m) /\ L[Resp(h)] # <<>> /\ m \in Msgs
    BY <1>1, <1>4
  <2>2. /\ AbsA(M, L)[h] # <<>> /\ AbsW(K) = AbsW(L)
        /\ AbsA(N, K) = [AbsA(M, L) EXCEPT ![h] = Tail(@)]
    BY <2>1, <1>2, <1>3, AbsTake
  <2> QED
    BY <2>2
<1>6. WBar = AbsW(L) /\ ABar = AbsA(msg, L)
  BY <1>3, BarsFollow DEF BarsAre
<1>7. WBar' = AbsW(K) /\ ABar' = AbsA(msg', K)
  BY <1>2 DEF BarsAre, Lists
<1>8. ABar[h] # <<>> /\ WBar' = WBar /\ ABar' = [ABar EXCEPT ![h] = Tail(@)]
  BY <1>5, <1>6, <1>7
<1> QED
  BY <1>8 DEF Queues!Take, WBar, ABar, Unserved

\* At first the queues are empty.
LEMMA InitRefines == Init => Queues!Init
<1> SUFFICES ASSUME Init PROVE Queues!Init
  OBVIOUS
<1>1. PICK L : Linked(hls, msg, L) /\ Owned(L, given)
  BY InitQInv DEF QInv, LInv, Lists
<1>2. WBar = AbsW(L) /\ ABar = AbsA(msg, L)
  BY <1>1, BarsFollow DEF BarsAre
<1>3. ASSUME NEW h \in Harts PROVE L[Req(h)] = <<>> /\ L[Resp(h)] = <<>>
  <2>1. hls[h] = NoQueues
    BY DEF Init
  <2>2. HartList(hls[h], msg, L[Req(h)], L[Resp(h)])
    BY <1>1 DEF Linked
  <2>3. /\ L[Req(h)] \in Seq(Msgs) /\ L[Resp(h)] \in Seq(Msgs)
        /\ Null \notin Msgs
    BY <1>1, SlotFacts, SbiAssumption DEF Linked, Once
  <2>4. First(L[Req(h)]) = Null /\ First(L[Resp(h)]) = Null
    BY <2>1, <2>2 DEF HartList, ListIn, NoQueues
  <2>5. \A q \in Seq(Msgs) : First(q) = Null => q = <<>>
    BY <2>3 DEF First
  <2> QED
    BY <2>3, <2>4, <2>5
<1>4. WBar = [h \in Harts |-> <<>>]
  BY <1>2, <1>3 DEF AbsW
<1>5. ABar = [h \in Harts |-> <<>>]
  <2>1. \A M : Ans(M, <<>>) = <<>>
    BY DEF Ans
  <2> QED
    BY <2>1, <1>2, <1>3 DEF AbsA
<1> QED
  BY <1>4, <1>5 DEF Queues!Init, WBar, ABar, Init

\* Every step is a step of the queues, or changes none.
LEMMA NextRefines ==
    ASSUME QInv, [Next]_vars, BarsAre'
    PROVE  [Queues!Next]_(Queues!vars)
<1>1. Shape /\ DOMAIN uart = {"irq0", "read", "came"}
  BY DEF QInv, SInv, Keyed
<1>s. \/ Quiet /\ Unserved
      \/ \E h \in Harts : \E m \in Msgs : Respondent(h, m) /\ Unserved
      \/ \E h \in Harts : \E m \in Msgs : ConsoleRead(h, m) /\ Unserved
      \/ \E h \in Harts : Serving(h)
      \/ \E h \in Harts : mcall_dev_resp(h) /\ Unserved
  BY <1>1, Steps, Zenon
<1>2. ASSUME NEW h \in Harts, NEW m \in Msgs, Respondent(h, m) /\ Unserved
      PROVE  Queues!Next
  BY <1>2, RespondRefines, Zenon DEF Queues!Next
<1>3. ASSUME NEW h \in Harts, NEW m \in Msgs, ConsoleRead(h, m) /\ Unserved
      PROVE  Queues!Next
  BY <1>3, ReadRefines, Zenon DEF Queues!Next
<1>4. ASSUME NEW h \in Harts, Serving(h) PROVE Queues!Next
  BY <1>4, ServeRefines, Zenon DEF Queues!Next
<1>5. ASSUME NEW h \in Harts, mcall_dev_resp(h) /\ Unserved PROVE Queues!Next
  BY <1>5, TakeRefines, Zenon DEF Queues!Next
<1> QED
  BY <1>s, <1>2, <1>3, <1>4, <1>5, QuietRefines

\* The lists linked through the messages (mtrap.c:91, :154, :203, :293) are
\* the queues that DeviceQueues promises, for every number of harts and
\* messages: answers come in the order of the requests, each once, and a
\* character goes to the latest read.
THEOREM RefinesQueues == Spec => Implements
<1>1. Init => QInv /\ Queues!Init
  BY InitQInv, InitRefines
<1>2. QInv /\ [Next]_vars => QInv'
  BY NextQInv
<1>3. BarsAre
  BY BarsFollow
<1>4. QInv /\ [Next]_vars /\ BarsAre' => [Queues!Next]_(Queues!vars)
  BY NextRefines
<1> QED
  BY <1>1, <1>2, <1>3, <1>4, PTL DEF Spec, Implements, Queues!Spec

==============================================================================
