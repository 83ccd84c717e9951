---------------------------- MODULE DeviceQueues ----------------------------
(***************************************************************************)
(* What the device calls of the supervisor interface promise: a request    *)
(* that can be answered is answered at once, a read of the console waits   *)
(* for a character, the last read first, and a hart gets the answers to    *)
(* its requests in the order they were made, each once.                    *)
(***************************************************************************)
EXTENDS Naturals, Sequences

CONSTANTS
    Harts,
    Msgs   \* the messages of the supervisor

VARIABLES
    waiting,    \* per hart: reads that wait for a character, the latest first
    answered,   \* per hart: messages with their answers, in order
    served      \* how many characters have been given to reads

vars == <<waiting, answered, served>>

Done == <<"done", 0>>
Char(n) == <<"char", n>>

In(m, q) == \E i \in 1 .. Len(q) : q[i] = m
Owned(m) == \A h \in Harts : /\ ~In(m, waiting[h])
                             /\ \A i \in 1 .. Len(answered[h]) : answered[h][i][1] # m

Init ==
    /\ waiting = [h \in Harts |-> <<>>]
    /\ answered = [h \in Harts |-> <<>>]
    /\ served = 0

Answer(h, m, data) == answered' = [answered EXCEPT ![h] = Append(@, <<m, data>>)]

AnswerNow(h, m) ==
    /\ Answer(h, m, Done)
    /\ Owned(m)
    /\ UNCHANGED <<waiting, served>>

Read(h, m) ==
    /\ waiting' = [waiting EXCEPT ![h] = <<m>> \o @]
    /\ Owned(m)
    /\ UNCHANGED <<answered, served>>

\* The next character goes to the read that came in last.
Serve(h) ==
    /\ waiting[h] # <<>>
    /\ waiting' = [waiting EXCEPT ![h] = Tail(@)]
    /\ served' = served + 1
    /\ Answer(h, Head(waiting[h]), Char(served'))

Take(h) ==
    /\ answered[h] # <<>>
    /\ answered' = [answered EXCEPT ![h] = Tail(@)]
    /\ UNCHANGED <<waiting, served>>

Next ==
    \E h \in Harts :
        \/ \E m \in Msgs : AnswerNow(h, m) \/ Read(h, m)
        \/ Serve(h) \/ Take(h)

Spec == Init /\ [][Next]_vars

=============================================================================
