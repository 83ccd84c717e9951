------------------------------ MODULE SbiDevice ------------------------------
(***************************************************************************)
(* The machine-mode side of the supervisor interface: requests to the      *)
(* console and the disk, their responses, the software interrupt that      *)
(* announces them, and the interrupts between harts                        *)
(* (software/hello/mtrap.c).  The queues are linked through the messages   *)
(* themselves, which lie in the supervisor's memory.                       *)
(*                                                                         *)
(* A call runs in machine mode without interrupts, but the other harts run *)
(* beside it: a call is cut where it touches ipi_pending or the interrupt  *)
(* of another hart.  pc says where.  The swap of ipi_pending is a load and *)
(* a store that mask the interrupts of their own hart only (atomic.h), so  *)
(* another hart may run between the two.                                   *)
(*                                                                         *)
(* The source has one hart (num_harts, minit.c); what two would do is in   *)
(* the model too.                                                          *)
(***************************************************************************)
EXTENDS FileTable, Sequences

CONSTANTS
    Harts,
    Console,    \* the hart irq0 is wired to; the others may ask for a read too
    Msgs,       \* the supervisor's sbi_device_message structures
    Null,
    MaxChars    \* bound: characters typed at the console

ASSUME SbiAssumption ==
    Console \in Harts /\ Null \notin Msgs /\ IsFiniteSet(Msgs) /\ MaxChars \in Nat

VARIABLES
    hls,      \* per hart: the queues and ipi_pending
    mip,      \* per hart: ssip, and msip for an interrupt from a hart
    msg,      \* sbi_private_data and data of each message
    pc,       \* per hart: "supervisor", or where in a call
    ramdisk,  \* the disk's file, 0 before it is identified
    files,
    uart,     \* irq0 is enabled at Console, characters that wait, and how many came
    given,    \* history: what each message the supervisor gave away asks for
    torn,     \* history: per hart, if a swap of ipi_pending was cut by its last clear
    panic

vars == <<hls, mip, msg, pc, ramdisk, files, uart, given, torn, panic>>

NotDevice == <<ramdisk, files, uart, given, panic>>

Done == <<"done", 0>>
Char(n) == <<"char", n>>

\* The first n messages, at most, of the list that starts at m.
Chain[n \in 0 .. Cardinality(Msgs)] ==
    [m \in Msgs \cup {Null} |->
        IF m = Null \/ n = 0 THEN <<>> ELSE <<m>> \o Chain[n - 1][msg[m].priv]]

Requests(h) == Chain[hls[h].req_size][hls[h].req_head]
Responses(h) == Chain[Cardinality(Msgs)][hls[h].resp_head]

Queues == INSTANCE DeviceQueues WITH
    waiting <- [h \in Harts |-> Requests(h)],
    answered <- [h \in Harts |->
                    LET r == Responses(h)
                    IN  [i \in 1 .. Len(r) |-> <<r[i], msg[r[i]].data>>]],
    served <- uart.read

-----------------------------------------------------------------------------
NoQueues == [req_head |-> Null, req_size |-> 0, resp_head |-> Null,
             resp_tail |-> Null, ipi_pending |-> FALSE]

Init ==
    /\ hls = [h \in Harts |-> NoQueues]
    /\ mip = [h \in Harts |-> [ssip |-> FALSE, msip |-> FALSE]]
    /\ msg = [m \in Msgs |-> [priv |-> Null, data |-> Done]]
    /\ pc = [h \in Harts |-> <<"supervisor", h>>]
    /\ ramdisk = 0
    /\ files = file_init
    /\ uart = [irq0 |-> FALSE, read |-> 0, came |-> 0]
    /\ given = [m \in Msgs |-> "nothing"]
    /\ torn = [h \in Harts |-> FALSE]
    /\ panic = "none"

Runs(h) == pc[h] = <<"supervisor", h>> /\ panic = "none"

\* A panic stops the machine: nothing reads its state again.
Panic(label) == panic' = label /\ UNCHANGED <<hls, mip, msg, pc, ramdisk, files, uart, given, torn>>

\* set_csr(mip, MIP_SSIP)
Signal(h) == mip' = [mip EXCEPT ![h].ssip = TRUE]

\* Mutant: responses are put in front.
RespondFirst(h, H, msgs, m, data) ==
    /\ msg' = [msgs EXCEPT ![m] = [priv |-> H.resp_head, data |-> data]]
    /\ hls' = [hls EXCEPT ![h] =
                  [H EXCEPT !.resp_head = m,
                            !.resp_tail = IF @ = Null THEN m ELSE @]]
    /\ Signal(h)

\* The message msgs[m] goes to the end of the hart's responses with data.
Respond(h, H, msgs, m, data) ==
    /\ msg' = [x \in Msgs |->
                  CASE x = m -> [priv |-> Null, data |-> data]
                    [] x # m /\ x = H.resp_tail -> [msgs[x] EXCEPT !.priv = m]
                    [] OTHER -> msgs[x]]
    /\ hls' = [hls EXCEPT ![h] =
                  [H EXCEPT !.resp_head = IF H.resp_tail = Null THEN m ELSE @,
                            !.resp_tail = m]]
    /\ Signal(h)

\* mcall_respond
mcall_respond(h, m) == Respond(h, hls[h], msg, m, Done)

-----------------------------------------------------------------------------
(* mcall_dev_req.  A refused request, with a bad address or a bad field,   *)
(* changes nothing.                                                        *)

\* The supervisor gives a message that it has.
Asks(h, m) == Runs(h) /\ given[m] = "nothing"
Gives(h, m, what) == Asks(h, m) /\ given' = [given EXCEPT ![m] = what]

\* Identify of the console and of unknown devices, and writes to the
\* console; a character is sent before the answer is queued.
AnswerAtOnce(h, m) ==
    /\ Gives(h, m, "answer")
    /\ mcall_respond(h, m)
    /\ UNCHANGED <<pc, ramdisk, files, uart, torn, panic>>

\* A read of the console waits for a character, in front of those that wait.
\* Each hart enables irq0 for itself.
ConsoleRead(h, m) ==
    /\ Gives(h, m, "char")
    /\ msg' = [msg EXCEPT ![m].priv = hls[h].req_head]
    /\ hls' = [hls EXCEPT ![h].req_head = m, ![h].req_size = @ + 1]
    /\ uart' = [uart EXCEPT !.irq0 = @ \/ h = Console]
    /\ UNCHANGED <<mip, pc, ramdisk, files, torn, panic>>

\* Identify of the disk opens its file, again if it is open.  The supervisor
\* identifies the disk before it uses it.
DiskIdentify(h, m) ==
    /\ FreeFiles(files) # {}
    /\ Gives(h, m, "answer")
    /\ ramdisk' = file_get_free(files)
    /\ files' = file_open(files)
    /\ mcall_respond(h, m)
    /\ UNCHANGED <<pc, uart, torn, panic>>

DiskTransfer(h, m) ==
    /\ ramdisk # 0
    /\ Gives(h, m, "answer")
    /\ mcall_respond(h, m)
    /\ UNCHANGED <<pc, ramdisk, files, uart, torn, panic>>

\* A command the device does not have, an identify that finds no free file
\* and a transfer the file cannot make whole stop the machine.
Impossible(h, m) == Asks(h, m) /\ Panic("mcall_dev_req")

mcall_dev_req(h, m) ==
    \/ AnswerAtOnce(h, m)
    \/ ConsoleRead(h, m)
    \/ DiskIdentify(h, m)
    \/ DiskTransfer(h, m)
    \/ Impossible(h, m)

-----------------------------------------------------------------------------
(* The characters *)

Type ==
    /\ panic = "none"
    /\ uart.came < MaxChars
    /\ uart' = [uart EXCEPT !.came = @ + 1]
    /\ UNCHANGED <<hls, mip, msg, pc, ramdisk, files, given, torn, panic>>

Unlink(H, next) == [H EXCEPT !.req_head = next, !.req_size = @ - 1]

\* The hart takes irq0 while a character waits: it goes to the first read of
\* the list, which holds nothing else.
io_irq_service(h) ==
    /\ h = Console /\ Runs(h)
    /\ uart.irq0 /\ uart.read < uart.came
    /\ \/ /\ hls[h].req_size > 0
          /\ LET m == hls[h].req_head
             IN  Respond(h, Unlink(hls[h], msg[m].priv), msg, m, Char(uart.read + 1))
          /\ uart' = [uart EXCEPT !.read = @ + 1]
          /\ UNCHANGED <<pc, ramdisk, files, given, torn, panic>>
       \/ /\ hls[h].req_size = 0
          /\ Panic("io_irq_service(): no record")

-----------------------------------------------------------------------------
(* mcall_dev_resp *)

Goto(h, where) == pc' = [pc EXCEPT ![h] = where]
Return(h) == Goto(h, <<"supervisor", h>>)

\* Mutant: resp_tail still names the last message that was taken.
DequeueHead(H, next) == [H EXCEPT !.resp_head = next]

Dequeue(H, next) ==
    [H EXCEPT !.resp_head = next, !.resp_tail = IF next = Null THEN Null ELSE @]

\* The message is the supervisor's again, what is in it too.
\* The last response takes the interrupt down with it, until it is seen
\* whether another hart has raised it as well.
mcall_dev_resp(h) ==
    /\ Runs(h)
    /\ hls[h].resp_head # Null
    /\ LET m == hls[h].resp_head
           next == msg[m].priv
       IN  /\ hls' = [hls EXCEPT ![h] = Dequeue(@, next)]
           /\ mip' = [mip EXCEPT ![h].ssip = @ /\ next # Null]
           /\ IF next = Null THEN Goto(h, <<"recheck", h>>) ELSE UNCHANGED pc
           /\ given' = [given EXCEPT ![m] = "nothing"]
           /\ msg' = [msg EXCEPT ![m] = [priv |-> Null, data |-> Done]]
    /\ UNCHANGED <<ramdisk, files, uart, torn, panic>>

\* Mutant: the interrupt of a hart that came before is not seen.
RecheckNothing(h) ==
    /\ pc[h] = <<"recheck", h>>
    /\ Return(h)
    /\ UNCHANGED <<hls, mip, msg, torn>> /\ UNCHANGED NotDevice

Recheck(h) ==
    /\ pc[h] = <<"recheck", h>>
    /\ mip' = [mip EXCEPT ![h].ssip = @ \/ hls[h].ipi_pending]
    /\ Return(h)
    /\ UNCHANGED <<hls, msg, torn>> /\ UNCHANGED NotDevice

-----------------------------------------------------------------------------
(* The interrupts between harts *)

\* mcall_send_ipi swaps ipi_pending of the other hart: it loads it, stores
\* TRUE, and raises the hart's interrupt if it had loaded FALSE.  A recipient
\* that is no hart is refused, and nothing changes.
mcall_send_ipi(h, recipient) ==
    /\ Runs(h)
    /\ Goto(h, <<IF hls[recipient].ipi_pending THEN "again" ELSE "first", recipient>>)
    /\ UNCHANGED <<hls, mip, msg, torn>> /\ UNCHANGED NotDevice

Store(h, recipient) ==
    /\ \/ pc[h] = <<"first", recipient>> /\ Goto(h, <<"send", recipient>>)
       \/ pc[h] = <<"again", recipient>> /\ Return(h)
    /\ hls' = [hls EXCEPT ![recipient].ipi_pending = TRUE]
    /\ UNCHANGED <<mip, msg, torn>> /\ UNCHANGED NotDevice

Send(h, recipient) ==
    /\ pc[h] = <<"send", recipient>>
    /\ mip' = [mip EXCEPT ![recipient].msip = TRUE]
    /\ Return(h)
    /\ UNCHANGED <<hls, msg, torn>> /\ UNCHANGED NotDevice

\* The trap of the hart that is interrupted (not in this repository) turns
\* the machine's interrupt into the supervisor's.
TakeIpi(h) ==
    /\ Runs(h) /\ mip[h].msip
    /\ mip' = [mip EXCEPT ![h] = [ssip |-> TRUE, msip |-> FALSE]]
    /\ UNCHANGED <<hls, msg, pc, torn>> /\ UNCHANGED NotDevice

\* mcall_clear_ipi takes the interrupt down unless a response holds it up,
\* and then swaps ipi_pending.
mcall_clear_ipi(h) ==
    /\ Runs(h)
    /\ mip' = [mip EXCEPT ![h].ssip = @ /\ hls[h].resp_head # Null]
    /\ Goto(h, <<"swap", h>>)
    /\ UNCHANGED <<hls, msg, torn>> /\ UNCHANGED NotDevice

\* The store of that swap.  What its load finds is only returned to the
\* supervisor.  A hart that has loaded TRUE and not yet stored it will raise
\* no interrupt for what is cleared here.
Swap(h) ==
    /\ pc[h] = <<"swap", h>>
    /\ hls' = [hls EXCEPT ![h].ipi_pending = FALSE]
    /\ torn' = [torn EXCEPT ![h] = \E g \in Harts : pc[g] = <<"again", h>>]
    /\ Return(h)
    /\ UNCHANGED <<mip, msg>> /\ UNCHANGED NotDevice

-----------------------------------------------------------------------------
InCall(h) == Recheck(h) \/ Swap(h) \/ (\E r \in Harts : Store(h, r) \/ Send(h, r))

Call(h) ==
    \/ \E m \in Msgs : mcall_dev_req(h, m)
    \/ mcall_dev_resp(h)
    \/ mcall_clear_ipi(h)
    \/ \E r \in Harts : mcall_send_ipi(h, r)

Trap(h) == io_irq_service(h) \/ TakeIpi(h)

Next == Type \/ \E h \in Harts : Call(h) \/ InCall(h) \/ Trap(h)

Spec == Init /\ [][Next]_vars

-----------------------------------------------------------------------------
\* A response that waits for the supervisor of a hart has its software
\* interrupt up.  A pending interrupt of another hart has it up too, or about
\* to be raised by the hart that sends it, by the trap or by the call that
\* took it down; it waits unannounced only where two harts swapped
\* ipi_pending at once, which the one hart of the source cannot
\* (mtrap.c:165, :299, :314, :325, atomic.h:21).
EventSignalled ==
    \A h \in Harts :
        /\ hls[h].resp_head # Null => mip[h].ssip
        /\ hls[h].ipi_pending /\ pc[h] \notin {<<"recheck", h>>, <<"swap", h>>} =>
               \/ mip[h].ssip \/ mip[h].msip
               \/ \E g \in Harts : pc[g] = <<"send", h>>
               \/ torn[h] /\ Harts # {h}

\* A message given to the machine is on one list of one hart, once: a read
\* waits or is answered, and a message the supervisor has back is on none
\* (mtrap.c:91, :154, :203, :293).
NothingLost ==
    \A m \in Msgs :
        LET places == {p \in Harts \X {"request", "response"} \X (1 .. Cardinality(Msgs)) :
                          LET q == IF p[2] = "request" THEN Requests(p[1]) ELSE Responses(p[1])
                          IN  p[3] <= Len(q) /\ q[p[3]] = m}
        IN  /\ Cardinality(places) = IF given[m] = "nothing" THEN 0 ELSE 1
            /\ given[m] = "answer" => \E p \in places : p[2] = "response"

\* The lists linked through the messages are the queues the calls promise.
Implements == Queues!Spec

=============================================================================
