---------------------------- MODULE SdHostProofs ----------------------------
(* That init_sd leaves a card ready whenever it was put in or taken out, that a  *)
(* driver that sees its hosts finish is left at its poll only by a card that     *)
(* does not fit, and one that does not at once, and that a block is read whole,  *)
(* for every set of addresses, of questions and of sectors.                      *)
(*                                                                               *)
(* The trace is a constant: TraceEntries says what each of its entries is.  The  *)
(* invariant then follows the card along the trace: where a card that fits is at *)
(* each step, and what the end of the trace leaves of any card.                  *)
EXTENDS SdHost, SequenceTheorems, TLAPS

-----------------------------------------------------------------------------
(* The entries of the trace *)

\* The fields an entry of the trace may have.
Entries == [op : {"software_reset"}] \cup [op : {"host_control"}, wide : BOOLEAN]
             \cup [op : {"command"}, cmd : Nat, arg : Nat, size : Nat]

\* A function on 1 .. n is a sequence of length n.
LEMMA Enumerated ==
  ASSUME NEW S, NEW n \in Nat, NEW f \in [1 .. n -> S]
  PROVE  f \in Seq(S) /\ Len(f) = n
<1>1. f \in Seq(S)
  BY SeqDef, Zenon
<1>2. Len(f) \in Nat /\ DOMAIN f = 1 .. Len(f)
  BY <1>1
<1>3. DOMAIN f = 1 .. n
  OBVIOUS
<1> QED
  BY <1>1, <1>2, <1>3

\* The parts of the trace that are written out are sequences.
LEMMA Tuples ==
  ASSUME NEW S, NEW a \in S, NEW b \in S, NEW c \in S, NEW d \in S, NEW e \in S
  PROVE  /\ <<a, b>> \in Seq(S) /\ Len(<<a, b>>) = 2
         /\ <<a, b, c>> \in Seq(S) /\ Len(<<a, b, c>>) = 3
         /\ <<a, b, c, d>> \in Seq(S) /\ Len(<<a, b, c, d>>) = 4
         /\ <<a, b, c, d, e>> \in Seq(S) /\ Len(<<a, b, c, d, e>>) = 5
OBVIOUS

\* What the parts of the trace hold, and how long they are.
LEMMA PartsOfTrace ==
  /\ PowerUp \in Seq(Entries) /\ Len(PowerUp) = 4
  /\ Polling \in Seq(Entries) /\ Len(Polling) = 84
  /\ Identify \in Seq(Entries) /\ Len(Identify) = 5
  /\ ReadScr \in Seq(Entries) /\ Len(ReadScr) = 2
  /\ Switch \in Seq(Entries) /\ Len(Switch) = 2
  /\ WideBus \in Seq(Entries) /\ Len(WideBus) = 3
  /\ ReadStatus \in Seq(Entries) /\ Len(ReadStatus) = 3
<1>1. /\ Command(51, 0, 8) \in Entries /\ Command(6, 0, 64) \in Entries
      /\ Command(6, 1, 64) \in Entries /\ Command(13, 0, 64) \in Entries
  BY DEF Command, Entries
<1>2. Control(TRUE) \in Entries /\ Control(FALSE) \in Entries /\ [op |-> "software_reset"] \in Entries
  BY DEF Control, Entries
<1>3. \A c \in {0, 2, 3, 6, 7, 8, 9, 13, 41, 55}, a \in {0, 2, RCA} : Plain(c, a) \in Entries
  BY DEF Plain, Command, Entries, RCA
<1>4. /\ Plain(0, 0) \in Entries /\ Plain(8, 0) \in Entries
      /\ Plain(2, 0) \in Entries /\ Plain(3, 0) \in Entries /\ Plain(9, RCA) \in Entries
      /\ Plain(13, RCA) \in Entries /\ Plain(7, RCA) \in Entries
      /\ Plain(55, RCA) \in Entries /\ Plain(6, 2) \in Entries
  BY <1>3
<1>5. PowerUp \in Seq(Entries) /\ Len(PowerUp) = 4
  BY <1>2, <1>4, Tuples, Zenon DEF PowerUp
<1>6. Polling \in Seq(Entries) /\ Len(Polling) = 84
  <2>1. Polling \in [1 .. 84 -> Entries]
    BY <1>3 DEF Polling
  <2> QED
    BY <2>1, Enumerated, ZenonT(60)
<1>7. Identify \in Seq(Entries) /\ Len(Identify) = 5
  BY <1>4, Tuples, Zenon DEF Identify
<1>8. /\ ReadScr \in Seq(Entries) /\ Len(ReadScr) = 2
      /\ Switch \in Seq(Entries) /\ Len(Switch) = 2
  BY <1>1, <1>4, Tuples, ZenonT(60) DEF ReadScr, Switch
<1>9. /\ WideBus \in Seq(Entries) /\ Len(WideBus) = 3
      /\ ReadStatus \in Seq(Entries) /\ Len(ReadStatus) = 3
  BY <1>1, <1>2, <1>4, Tuples, ZenonT(60) DEF WideBus, ReadStatus
<1> QED
  BY <1>5, <1>6, <1>7, <1>8, <1>9

\* u is s and then t, of lengths m and n.
Joins(u, s, m, t, n) ==
  /\ \A i \in 1 .. m : u[i] = s[i]
  /\ \A i \in m + 1 .. m + n : u[i] = t[i - m]

\* A sequence and the next one, put together.
LEMMA Joined ==
  ASSUME NEW s \in Seq(Entries), NEW t \in Seq(Entries), NEW m, NEW n, Len(s) = m, Len(t) = n
  PROVE  s \o t \in Seq(Entries) /\ Len(s \o t) = m + n /\ Joins(s \o t, s, m, t, n)
<1>1. \A x, y \in Seq(Entries) : /\ x \o y \in Seq(Entries) /\ Len(x \o y) = Len(x) + Len(y)
                               /\ Joins(x \o y, x, Len(x), y, Len(y))
  BY ConcatProperties DEF Joins
<1>2. /\ s \o t \in Seq(Entries) /\ Len(s \o t) = Len(s) + Len(t)
      /\ Joins(s \o t, s, Len(s), t, Len(t))
  BY <1>1, Zenon
<1> QED
  BY <1>2, Zenon

\* What the trace holds at each step.
LEMMA TraceEntries ==
  /\ Len(Trace) = 103
  /\ Trace[1] = [op |-> "software_reset"] /\ Trace[2] = Control(FALSE)
  /\ Trace[3] = Plain(0, 0) /\ Trace[4] = Plain(8, 0)
  /\ \A k \in 5 .. 88 : Trace[k] = Plain(IF k % 2 = 1 THEN 55 ELSE 41, 0)
  /\ Trace[89] = Plain(2, 0) /\ Trace[90] = Plain(3, 0) /\ Trace[91] = Plain(9, RCA)
  /\ Trace[92] = Plain(13, RCA) /\ Trace[93] = Plain(7, RCA)
  /\ Trace[94] = Plain(55, RCA) /\ Trace[95] = Command(51, 0, 8)
  /\ Trace[96] = Command(6, 0, 64) /\ Trace[97] = Command(6, 1, 64)
  /\ Trace[98] = Plain(55, RCA) /\ Trace[99] = Plain(6, 2) /\ Trace[100] = Control(TRUE)
  /\ Trace[101] = Plain(55, RCA) /\ Trace[102] = Command(13, 0, 64) /\ Trace[103] = Control(TRUE)
<1>0. 4 + 84 = 88 /\ 88 + 5 = 93 /\ 93 + 2 = 95 /\ 95 + 2 = 97 /\ 97 + 3 = 100 /\ 100 + 3 = 103
  OBVIOUS
<1>1. PICK A : A = PowerUp \o Polling
  OBVIOUS
<1>2. PICK B : B = A \o Identify
  OBVIOUS
<1>3. PICK C : C = B \o ReadScr
  OBVIOUS
<1>4. PICK D : D = C \o Switch
  OBVIOUS
<1>5. PICK E : E = D \o WideBus
  OBVIOUS
<1>6. Trace = E \o ReadStatus
  BY <1>1, <1>2, <1>3, <1>4, <1>5, Zenon DEF Trace
<1>a. A \in Seq(Entries) /\ Len(A) = 88 /\ Joins(A, PowerUp, 4, Polling, 84)
  <2>1. /\ PowerUp \o Polling \in Seq(Entries) /\ Len(PowerUp \o Polling) = 4 + 84
        /\ Joins(PowerUp \o Polling, PowerUp, 4, Polling, 84)
    BY PartsOfTrace, Joined, ZenonT(60)
  <2> QED
    BY <1>0, <1>1, <2>1, Zenon
<1>aj. Joins(A, PowerUp, 4, Polling, 84)
  BY <1>a
<1>b. B \in Seq(Entries) /\ Len(B) = 93 /\ Joins(B, A, 88, Identify, 5)
  <2>1. /\ A \o Identify \in Seq(Entries) /\ Len(A \o Identify) = 88 + 5
        /\ Joins(A \o Identify, A, 88, Identify, 5)
    BY <1>a, PartsOfTrace, Joined, ZenonT(60)
  <2> QED
    BY <1>0, <1>2, <2>1, Zenon
<1>bj. Joins(B, A, 88, Identify, 5)
  BY <1>b
<1>c. C \in Seq(Entries) /\ Len(C) = 95 /\ Joins(C, B, 93, ReadScr, 2)
  <2>1. /\ B \o ReadScr \in Seq(Entries) /\ Len(B \o ReadScr) = 93 + 2
        /\ Joins(B \o ReadScr, B, 93, ReadScr, 2)
    BY <1>b, PartsOfTrace, Joined, ZenonT(60)
  <2> QED
    BY <1>0, <1>3, <2>1, Zenon
<1>cj. Joins(C, B, 93, ReadScr, 2)
  BY <1>c
<1>d. D \in Seq(Entries) /\ Len(D) = 97 /\ Joins(D, C, 95, Switch, 2)
  <2>1. /\ C \o Switch \in Seq(Entries) /\ Len(C \o Switch) = 95 + 2
        /\ Joins(C \o Switch, C, 95, Switch, 2)
    BY <1>c, PartsOfTrace, Joined, ZenonT(60)
  <2> QED
    BY <1>0, <1>4, <2>1, Zenon
<1>dj. Joins(D, C, 95, Switch, 2)
  BY <1>d
<1>e. E \in Seq(Entries) /\ Len(E) = 100 /\ Joins(E, D, 97, WideBus, 3)
  <2>1. /\ D \o WideBus \in Seq(Entries) /\ Len(D \o WideBus) = 97 + 3
        /\ Joins(D \o WideBus, D, 97, WideBus, 3)
    BY <1>d, PartsOfTrace, Joined, ZenonT(60)
  <2> QED
    BY <1>0, <1>5, <2>1, Zenon
<1>ej. Joins(E, D, 97, WideBus, 3)
  BY <1>e
<1>7. Trace \in Seq(Entries) /\ Len(Trace) = 103 /\ Joins(Trace, E, 100, ReadStatus, 3)
  <2>0. ReadStatus \in Seq(Entries) /\ Len(ReadStatus) = 3
    BY PartsOfTrace, Zenon
  <2>00. E \in Seq(Entries) /\ Len(E) = 100
    BY <1>e, Zenon
  <2>1. /\ E \o ReadStatus \in Seq(Entries) /\ Len(E \o ReadStatus) = 100 + 3
        /\ Joins(E \o ReadStatus, E, 100, ReadStatus, 3)
    BY <2>0, <2>00, Joined, ZenonT(150)
  <2> QED
    BY <1>0, <1>6, <2>1, Zenon
<1>7j. Joins(Trace, E, 100, ReadStatus, 3)
  BY <1>7
<1>8. \A i \in 1 .. 100 : Trace[i] = E[i]
  BY <1>7j DEF Joins
<1>9. \A i \in 101 .. 103 : Trace[i] = ReadStatus[i - 100]
  BY <1>7j DEF Joins
<1>10. \A i \in 98 .. 100 : Trace[i] = WideBus[i - 97]
  BY <1>8, <1>ej DEF Joins
<1>11. \A i \in 1 .. 97 : Trace[i] = D[i]
  BY <1>8, <1>ej DEF Joins
<1>12. \A i \in 96 .. 97 : Trace[i] = Switch[i - 95]
  BY <1>11, <1>dj DEF Joins
<1>13. \A i \in 1 .. 95 : Trace[i] = C[i]
  BY <1>11, <1>dj DEF Joins
<1>14. \A i \in 94 .. 95 : Trace[i] = ReadScr[i - 93]
  BY <1>13, <1>cj DEF Joins
<1>15. \A i \in 1 .. 93 : Trace[i] = B[i]
  BY <1>13, <1>cj DEF Joins
<1>16. \A i \in 89 .. 93 : Trace[i] = Identify[i - 88]
  BY <1>15, <1>bj DEF Joins
<1>17. \A i \in 1 .. 88 : Trace[i] = A[i]
  BY <1>15, <1>bj DEF Joins
<1>18. \A i \in 5 .. 88 : Trace[i] = Polling[i - 4]
  BY <1>17, <1>aj DEF Joins
<1>19. \A i \in 1 .. 4 : Trace[i] = PowerUp[i]
  BY <1>17, <1>aj DEF Joins
<1>20. \A k \in 5 .. 88 : Trace[k] = Plain(IF k % 2 = 1 THEN 55 ELSE 41, 0)
  <2> SUFFICES ASSUME NEW k \in 5 .. 88
               PROVE  Trace[k] = Plain(IF k % 2 = 1 THEN 55 ELSE 41, 0)
    OBVIOUS
  <2>1. k - 4 \in 1 .. 84 /\ ((k - 4) % 2 = 1 <=> k % 2 = 1)
    OBVIOUS
  <2>2. Polling[k - 4] = Plain(IF (k - 4) % 2 = 1 THEN 55 ELSE 41, 0)
    BY <2>1 DEF Polling
  <2> QED
    BY <1>18, <2>1, <2>2
<1>21. /\ Trace[1] = [op |-> "software_reset"] /\ Trace[2] = Control(FALSE)
       /\ Trace[3] = Plain(0, 0) /\ Trace[4] = Plain(8, 0)
  <2>1. PowerUp[1] = [op |-> "software_reset"] /\ PowerUp[2] = Control(FALSE)
    BY DEF PowerUp
  <2>2. PowerUp[3] = Plain(0, 0) /\ PowerUp[4] = Plain(8, 0)
    BY DEF PowerUp
  <2>3. /\ Trace[1] = PowerUp[1] /\ Trace[2] = PowerUp[2]
        /\ Trace[3] = PowerUp[3] /\ Trace[4] = PowerUp[4]
    BY <1>19
  <2> QED
    BY <2>1, <2>2, <2>3, Zenon
<1>22. /\ Trace[89] = Plain(2, 0) /\ Trace[90] = Plain(3, 0) /\ Trace[91] = Plain(9, RCA)
       /\ Trace[92] = Plain(13, RCA) /\ Trace[93] = Plain(7, RCA)
  <2>1. Identify[1] = Plain(2, 0) /\ Identify[2] = Plain(3, 0) /\ Identify[3] = Plain(9, RCA)
    BY DEF Identify
  <2>2. Identify[4] = Plain(13, RCA) /\ Identify[5] = Plain(7, RCA)
    BY DEF Identify
  <2> QED
    BY <1>16, <2>1, <2>2
<1>23. /\ Trace[94] = Plain(55, RCA) /\ Trace[95] = Command(51, 0, 8)
       /\ Trace[96] = Command(6, 0, 64) /\ Trace[97] = Command(6, 1, 64)
  <2>1. /\ ReadScr[1] = Plain(55, RCA) /\ ReadScr[2] = Command(51, 0, 8)
        /\ Switch[1] = Command(6, 0, 64) /\ Switch[2] = Command(6, 1, 64)
    BY DEF ReadScr, Switch
  <2> QED
    BY <1>12, <1>14, <2>1
<1>24. /\ Trace[98] = Plain(55, RCA) /\ Trace[99] = Plain(6, 2) /\ Trace[100] = Control(TRUE)
       /\ Trace[101] = Plain(55, RCA) /\ Trace[102] = Command(13, 0, 64) /\ Trace[103] = Control(TRUE)
  <2>1. WideBus[1] = Plain(55, RCA) /\ WideBus[2] = Plain(6, 2) /\ WideBus[3] = Control(TRUE)
    BY DEF WideBus
  <2>2. /\ ReadStatus[1] = Plain(55, RCA) /\ ReadStatus[2] = Command(13, 0, 64)
        /\ ReadStatus[3] = Control(TRUE)
    BY DEF ReadStatus
  <2>3. Trace[98] = WideBus[1] /\ Trace[99] = WideBus[2] /\ Trace[100] = WideBus[3]
    BY <1>10
  <2>4. Trace[101] = ReadStatus[1] /\ Trace[102] = ReadStatus[2] /\ Trace[103] = ReadStatus[3]
    BY <1>9
  <2> QED
    BY <2>1, <2>2, <2>3, <2>4, Zenon
<1>25. Len(Trace) = 103
  BY <1>7, Zenon
<1> QED
  BY <1>20, <1>21, <1>22, <1>23, <1>24, <1>25, Zenon

\* Each entry is a reset, a change of the width or a command.
LEMMA TraceTyped ==
  ASSUME NEW k \in 1 .. 103
  PROVE  Trace[k] \in Entries
<1>1. CASE k \in 5 .. 88
  <2>1. PICK cmd \in {41, 55} : Trace[k] = Plain(cmd, 0)
    BY <1>1, TraceEntries
  <2> QED
    BY <2>1 DEF Plain, Command, Entries
<1>2. \A cmd, arg, size \in Nat : Command(cmd, arg, size) \in Entries
  BY DEF Command, Entries
<1>3. /\ Control(TRUE) \in Entries /\ Control(FALSE) \in Entries
      /\ [op |-> "software_reset"] \in Entries
  BY DEF Control, Entries
<1>4. /\ \A cmd \in {0, 2, 3, 6, 7, 8, 9, 13, 55}, arg \in {0, 2, RCA} : Plain(cmd, arg) \in Entries
      /\ Command(51, 0, 8) \in Entries /\ Command(6, 0, 64) \in Entries
      /\ Command(6, 1, 64) \in Entries /\ Command(13, 0, 64) \in Entries
  BY <1>2 DEF Plain, RCA
<1>5. /\ Plain(0, 0) \in Entries /\ Plain(8, 0) \in Entries
      /\ Plain(2, 0) \in Entries /\ Plain(3, 0) \in Entries /\ Plain(9, RCA) \in Entries
      /\ Plain(13, RCA) \in Entries /\ Plain(7, RCA) \in Entries
      /\ Plain(55, RCA) \in Entries /\ Plain(6, 2) \in Entries
  BY <1>4
<1>6. /\ Trace[1] \in Entries /\ Trace[2] \in Entries /\ Trace[3] \in Entries
      /\ Trace[4] \in Entries
  BY <1>3, <1>5, TraceEntries, Zenon
<1>7. /\ Trace[89] \in Entries /\ Trace[90] \in Entries /\ Trace[91] \in Entries
      /\ Trace[92] \in Entries /\ Trace[93] \in Entries /\ Trace[94] \in Entries
  BY <1>5, TraceEntries, ZenonT(60)
<1>8. /\ Trace[95] \in Entries /\ Trace[96] \in Entries /\ Trace[97] \in Entries
      /\ Trace[98] \in Entries /\ Trace[99] \in Entries /\ Trace[100] \in Entries
  BY <1>3, <1>4, <1>5, TraceEntries, ZenonT(60)
<1>9. /\ Trace[101] \in Entries /\ Trace[102] \in Entries /\ Trace[103] \in Entries
  BY <1>3, <1>4, <1>5, TraceEntries, ZenonT(60)
<1>10. k \in 5 .. 88 \/ k \in {1, 2, 3, 4, 89, 90, 91, 92, 93, 94}
         \/ k \in {95, 96, 97, 98, 99, 100, 101, 102, 103}
  OBVIOUS
<1> QED
  BY <1>1, <1>6, <1>7, <1>8, <1>9, <1>10

-----------------------------------------------------------------------------
(* The inductive invariant *)

Present == card.state # "absent"

\* A card the trace can bring up.
Fit == Present /\ card.reset /\ card.polls <= 42 /\ card.rca = RCA

Cards == [state : States, reset : BOOLEAN, app : BOOLEAN, wide : BOOLEAN, rca : Rcas,
          addressed : BOOLEAN, polls : Polls, asked : Nat, mute : BOOLEAN]

Hosts == [read : {FALSE}, wide : BOOLEAN, blksize : Nat, shown : BOOLEAN]

TypeOK ==
  /\ pc \in {"init", "blocklen", "read", "idle", "stuck"}
  /\ step \in 1 .. 103
  /\ job \in [sector : Nat, left : Nat, piece : Nat]
  /\ host \in Hosts
  /\ fifo = <<>>
  /\ buffer = [p \in 1 .. MaxCount |-> buffer[p]]
  /\ card \in Cards

\* A card that is selected, or may be, has published the address of the trace.
Placed(c) ==
  /\ c.state \in {"stby", "tran"} => c.addressed
  /\ c.state = "tran" => c.rca = RCA

\* From the first block of the trace on, a card that was reset is selected, and the
\* last commands put it and the host on four lanes.
OnLanes(c, k) ==
  /\ k >= 96 /\ c.state # "absent" /\ c.reset => c.state = "tran"
  /\ k = 99 /\ c.state = "tran" => c.app
  /\ k >= 100 /\ c.state = "tran" => c.wide

Widened ==
  pc = "init" =>
    /\ OnLanes(card, step)
    /\ step >= 101 => host.wide

Ready ==
  pc \in {"blocklen", "read", "idle"} =>
    /\ step = 1
    /\ Present /\ card.reset => card.state = "tran"
    /\ card.state = "tran" => card.wide
    /\ host.wide

\* Where a card is at a step of the trace that brings it up.
OnTrack(c, s) ==
  /\ s = 4 => c.state = "idle" /\ c.asked = 0 /\ ~c.addressed
  /\ s \in 5 .. 88 =>
       /\ ~c.addressed
       /\ \/ c.state = "ready"
          \/ /\ c.state = "idle" /\ 2 * c.asked + 5 \in {s, s - 1} /\ c.asked < c.polls
             /\ s % 2 = 0 => c.app
  /\ s = 89 => c.state = "ready"
  /\ s = 90 => c.state = "ident"
  /\ s \in 91 .. 93 => c.state = "stby"
  /\ s >= 94 => c.state = "tran"
  /\ s = 95 => c.app

Tracked == pc = "init" /\ Fit => OnTrack(card, step)

\* What is still to be read has its pieces in the buffer, and they are empty.
Ahead ==
  pc \in {"blocklen", "read"} =>
    /\ job.left > 0
    /\ job.piece > 0 =>
         /\ job.piece + job.left <= MaxCount + 1
         /\ \A p \in job.piece .. MaxCount : buffer[p] = <<>>

IInv == TypeOK /\ Placed(card) /\ Widened /\ Ready /\ Tracked /\ Ahead /\ StuckOnlyWithout

-----------------------------------------------------------------------------
(* The card after one command *)

\* What a command that is not CMD0 does to a card that is in its slot.
Moves(c, d, cmd, arg) ==
  /\ d.reset = c.reset
  /\ ~Answers(c, cmd, arg) \/ cmd \notin {2, 3, 6, 7, 41} =>
       d.state = c.state /\ d.wide = c.wide /\ d.addressed = c.addressed /\ d.asked = c.asked
  /\ Answers(c, cmd, arg) =>
       /\ cmd = 41 => /\ d.state = (IF c.asked + 1 >= c.polls THEN "ready" ELSE "idle")
                      /\ d.wide = c.wide /\ d.addressed = c.addressed /\ d.asked = c.asked + 1
       /\ cmd = 2 => d.state = "ident" /\ d.wide = c.wide /\ d.addressed = c.addressed
       /\ cmd = 3 => d.state = "stby" /\ d.wide = c.wide /\ d.addressed
       /\ cmd = 7 => d.state = "tran" /\ d.wide = c.wide /\ d.addressed = c.addressed
       /\ cmd = 6 => /\ d.state = c.state /\ d.addressed = c.addressed
                     /\ d.wide = (IF c.app THEN arg = 2 ELSE c.wide)

\* A command keeps what a card is, and changes what it asks for and no more.
LEMMA CardMoves ==
  ASSUME NEW c \in Cards, NEW cmd, NEW arg, NEW d \in CardAfter(c, cmd, arg)
  PROVE  /\ d \in Cards
         /\ d.rca = c.rca /\ d.polls = c.polls
         /\ d.app <=> cmd = 55 /\ Answers(c, cmd, arg)
         /\ c.state = "absent" => d.state = "absent"
         /\ c.state # "absent" /\ cmd = 0 =>
              d.state = "idle" /\ d.reset /\ ~d.wide /\ ~d.addressed /\ d.asked = 0
         /\ c.state # "absent" /\ cmd # 0 => Moves(c, d, cmd, arg)
<1>0. PICK done :
        done = CASE c.state = "absent" -> c
                 [] c.state # "absent" /\ cmd = 0 ->
                      [c EXCEPT !.state = "idle", !.reset = TRUE, !.wide = FALSE,
                                !.addressed = FALSE, !.asked = 0]
                 [] Answers(c, cmd, arg) -> Obeys(c, cmd, arg)
                 [] OTHER -> c
  OBVIOUS
<1>00. c.state = "absent" \/ cmd = 0 => ~Answers(c, cmd, arg)
  BY DEF Answers
<1>1. PICK mute \in {FALSE, done.state = "tran"} :
        d = [done EXCEPT !.app = cmd = 55 /\ Answers(c, cmd, arg), !.mute = mute]
  BY <1>0, Zenon DEF CardAfter
<1>2. mute \in BOOLEAN /\ (cmd = 55 /\ Answers(c, cmd, arg)) \in BOOLEAN
  OBVIOUS
<1>3. ASSUME done \in Cards
      PROVE  /\ d \in Cards
             /\ d.app <=> cmd = 55 /\ Answers(c, cmd, arg)
             /\ d.state = done.state /\ d.reset = done.reset /\ d.wide = done.wide /\ d.rca = done.rca
             /\ d.addressed = done.addressed /\ d.polls = done.polls /\ d.asked = done.asked
  BY <1>1, <1>2, <1>3, ZenonT(60) DEF Cards
<1>4. CASE c.state = "absent"
  <2>1. done = c
    BY <1>0, <1>00, <1>4
  <2> QED
    BY <1>3, <1>4, <2>1
<1>5. CASE c.state # "absent" /\ cmd = 0
  <2>1. done = [c EXCEPT !.state = "idle", !.reset = TRUE, !.wide = FALSE,
                         !.addressed = FALSE, !.asked = 0]
    BY <1>0, <1>00, <1>5
  <2>2. done \in Cards
    BY <2>1 DEF Cards, States
  <2> QED
    BY <1>3, <1>5, <2>1, <2>2 DEF Cards
<1>6. CASE c.state # "absent" /\ cmd # 0 /\ ~Answers(c, cmd, arg)
  <2>1. done = c
    BY <1>0, <1>6
  <2> QED
    BY <1>3, <1>6, <2>1 DEF Moves
<1>7. CASE c.state # "absent" /\ cmd # 0 /\ Answers(c, cmd, arg)
  <2>1. done = Obeys(c, cmd, arg)
    BY <1>0, <1>7
  <2>2. CASE cmd = 41
    <3>1. done = [c EXCEPT !.asked = @ + 1, !.state = IF c.asked + 1 >= c.polls THEN "ready" ELSE "idle"]
      BY <2>1, <2>2 DEF Obeys
    <3>2. PICK state \in {"ready", "idle"} :
            state = IF c.asked + 1 >= c.polls THEN "ready" ELSE "idle"
      OBVIOUS
    <3>3. PICK asked \in Nat : asked = c.asked + 1
      BY DEF Cards
    <3>4. done = [c EXCEPT !.asked = asked, !.state = state]
      BY <3>1, <3>2, <3>3, Zenon
    <3>5. /\ done \in Cards /\ done.state = state /\ done.asked = asked
          /\ done.wide = c.wide /\ done.addressed = c.addressed /\ done.reset = c.reset
          /\ done.rca = c.rca /\ done.polls = c.polls
      BY <3>4 DEF Cards, States
    <3> QED
      BY <1>3, <1>7, <2>2, <3>2, <3>3, <3>5 DEF Moves
  <2>3. CASE cmd = 2
    <3>1. done = [c EXCEPT !.state = "ident"]
      BY <2>1, <2>3 DEF Obeys
    <3>2. done \in Cards
      BY <3>1 DEF Cards, States
    <3> QED
      BY <1>3, <1>7, <2>3, <3>1, <3>2 DEF Cards, Moves
  <2>4. CASE cmd = 3
    <3>1. done = [c EXCEPT !.state = "stby", !.addressed = TRUE]
      BY <2>1, <2>4 DEF Obeys
    <3>2. /\ done \in Cards /\ done.state = "stby" /\ done.addressed = TRUE
          /\ done.wide = c.wide /\ done.reset = c.reset
          /\ done.rca = c.rca /\ done.polls = c.polls
      BY <3>1 DEF Cards, States
    <3> QED
      BY <1>3, <1>7, <2>4, <3>2 DEF Moves
  <2>5. CASE cmd = 7
    <3>1. done = [c EXCEPT !.state = "tran"]
      BY <2>1, <2>5 DEF Obeys
    <3>2. done \in Cards
      BY <3>1 DEF Cards, States
    <3> QED
      BY <1>3, <1>7, <2>5, <3>1, <3>2 DEF Cards, Moves
  <2>6. CASE cmd = 6 /\ c.app
    <3>1. done = [c EXCEPT !.wide = arg = 2]
      BY <2>1, <2>6 DEF Obeys
    <3>2. done \in Cards
      BY <3>1 DEF Cards, States
    <3> QED
      BY <1>3, <1>7, <2>6, <3>1, <3>2 DEF Cards, Moves
  <2>7. CASE cmd \notin {41, 2, 3, 7} /\ ~(cmd = 6 /\ c.app)
    <3>1. done = c
      BY <2>1, <2>7 DEF Obeys
    <3> QED
      BY <1>3, <1>7, <2>7, <3>1 DEF Moves
  <2> QED
    BY <2>2, <2>3, <2>4, <2>5, <2>6, <2>7
<1> QED
  BY <1>4, <1>5, <1>6, <1>7

\* The trace brings a card that fits from one step to the next.
LEMMA TraceTracks ==
  ASSUME NEW c \in Cards, NEW k \in 3 .. 102, Trace[k].op = "command",
         NEW d \in CardAfter(c, Trace[k].cmd, Trace[k].arg),
         c.state # "absent", c.polls <= 42, c.rca = RCA, c.polls > 0,
         k > 3 => OnTrack(c, k), Placed(c)
  PROVE  OnTrack(d, k + 1)
<1> DEFINE cmd == Trace[k].cmd
           arg == Trace[k].arg
<1>0. /\ d \in Cards
      /\ d.rca = c.rca /\ d.polls = c.polls
      /\ d.app <=> cmd = 55 /\ Answers(c, cmd, arg)
      /\ cmd = 0 => d.state = "idle" /\ d.reset /\ ~d.wide /\ ~d.addressed /\ d.asked = 0
      /\ cmd # 0 => Moves(c, d, cmd, arg)
  BY CardMoves
<1>1. CASE k = 3
  <2>1. cmd = 0
    BY <1>1, TraceEntries DEF Plain, Command
  <2> QED
    BY <1>0, <1>1, <2>1 DEF OnTrack
<1>2. CASE k = 4
  <2>1. cmd = 8
    BY <1>2, TraceEntries DEF Plain, Command
  <2> QED
    BY <1>0, <1>2, <2>1 DEF OnTrack, Moves, Cards
<1>3. CASE k \in 5 .. 88 /\ k % 2 = 1
  <2>1. Trace[k] = Plain(55, 0)
    BY <1>3, TraceEntries
  <2>2. cmd = 55 /\ arg = 0
    BY <2>1 DEF Plain, Command
  <2>3. ~c.addressed /\ c.state \in {"ready", "idle"}
    BY <1>3 DEF OnTrack
  <2>4. Answers(c, cmd, arg)
    BY <2>2, <2>3 DEF Answers, Addressed
  <2>5. d.state = c.state /\ ~d.addressed /\ d.asked = c.asked /\ d.app
    BY <1>0, <2>2, <2>3, <2>4 DEF Moves
  <2>6. k + 1 \in 5 .. 88 /\ (k + 1) % 2 = 0 /\ k + 1 \in 6 .. 88
    BY <1>3
  <2>7. c.asked \in Nat /\ d.asked \in Nat
    BY <1>0 DEF Cards
  <2>8. c.state = "ready" \/ (c.state = "idle" /\ 2 * c.asked + 5 = k /\ c.asked < c.polls)
    BY <1>3, <2>7 DEF OnTrack
  <2>9. d.state = "ready" \/ (d.state = "idle" /\ 2 * d.asked + 5 = (k + 1) - 1 /\ d.asked < d.polls)
    BY <1>0, <2>5, <2>7, <2>8
  <2> QED
    BY <2>5, <2>6, <2>9 DEF OnTrack
<1>4. CASE k \in 5 .. 88 /\ k % 2 = 0
  <2>1. Trace[k] = Plain(41, 0)
    BY <1>4, TraceEntries
  <2>2. cmd = 41 /\ arg = 0
    BY <2>1 DEF Plain, Command
  <2>0. ~c.addressed
    BY <1>4 DEF OnTrack
  <2>3. ~c.addressed /\ c.asked \in Nat /\ c.polls \in Nat
    BY <2>0, SdHostAssumption DEF Cards
  <2>4. c.state = "ready" \/ (c.state = "idle" /\ 2 * c.asked + 5 = k - 1 /\ c.asked < c.polls /\ c.app)
    BY <1>4, <2>3 DEF OnTrack
  <2>5. CASE c.state = "ready"
    <3>1. d.state = "ready" /\ ~d.addressed
      BY <1>0, <2>2, <2>3, <2>5 DEF Moves, Answers
    <3> QED
      BY <1>4, <3>1 DEF OnTrack
  <2>6. CASE c.state = "idle"
    <3>1. Answers(c, cmd, arg)
      BY <2>2, <2>4, <2>6 DEF Answers
    <3>2. /\ d.state = (IF c.asked + 1 >= c.polls THEN "ready" ELSE "idle")
          /\ ~d.addressed /\ d.asked = c.asked + 1
      BY <1>0, <2>2, <2>3, <3>1 DEF Moves
    <3>3. CASE c.asked + 1 >= c.polls
      BY <1>4, <3>2, <3>3 DEF OnTrack
    <3>4. CASE ~(c.asked + 1 >= c.polls)
      <4>0. 2 * c.asked + 5 = k - 1
        BY <2>4, <2>6
      <4>00. PICK n \in Nat, m \in Nat : n = c.asked /\ m = c.polls
        BY <2>3
      <4>1. c.asked + 1 < 42 /\ 2 * (c.asked + 1) + 5 = k + 1
        <5>1. n + 1 < m /\ m <= 42
          BY <3>4, <4>00
        <5>2. 2 * n + 5 = k - 1
          BY <4>0, <4>00, Zenon
        <5>3. n + 1 < 42 /\ 2 * (n + 1) + 5 = k + 1
          BY <5>1, <5>2
        <5> QED
          BY <4>00, <5>3, Zenon
      <4>2. k + 1 \in 5 .. 88 /\ (k + 1) % 2 = 1
        BY <1>4, <2>3, <4>1
      <4>3. d.state = "idle" /\ 2 * d.asked + 5 = k + 1 /\ d.asked < d.polls
        BY <1>0, <2>3, <3>2, <3>4, <4>1
      <4> QED
        BY <3>2, <4>2, <4>3 DEF OnTrack
    <3> QED
      BY <3>3, <3>4
  <2> QED
    BY <2>4, <2>5, <2>6
<1>5. CASE k = 89
  <2>1. cmd = 2
    BY <1>5, TraceEntries DEF Plain, Command
  <2>2. c.state = "ready"
    BY <1>5 DEF OnTrack
  <2>3. d.state = "ident"
    BY <1>0, <2>1, <2>2 DEF Moves, Answers
  <2> QED
    BY <1>5, <2>3 DEF OnTrack
<1>6. CASE k = 90
  <2>1. cmd = 3
    BY <1>6, TraceEntries DEF Plain, Command
  <2>2. c.state = "ident"
    BY <1>6 DEF OnTrack
  <2>3. d.state = "stby"
    BY <1>0, <2>1, <2>2 DEF Moves, Answers
  <2> QED
    BY <1>6, <2>3 DEF OnTrack
<1>7. CASE k \in {91, 92}
  <2>1. cmd \in {9, 13}
    BY <1>7, TraceEntries DEF Plain, Command
  <2>2. c.state = "stby"
    BY <1>7 DEF OnTrack
  <2>3. d.state = "stby"
    BY <1>0, <2>1, <2>2 DEF Moves
  <2> QED
    BY <1>7, <2>3 DEF OnTrack
<1>8. CASE k = 93
  <2>1. cmd = 7 /\ arg = RCA
    BY <1>8, TraceEntries DEF Plain, Command
  <2>2. c.state = "stby" /\ c.addressed
    BY <1>8 DEF OnTrack, Placed
  <2>3. d.state = "tran"
    BY <1>0, <2>1, <2>2 DEF Moves, Answers, Addressed
  <2> QED
    BY <1>8, <2>3 DEF OnTrack
<1>9. CASE k = 94
  <2>1. cmd = 55 /\ arg = RCA
    BY <1>9, TraceEntries DEF Plain, Command
  <2>2. c.state = "tran"
    BY <1>9 DEF OnTrack
  <2>3. Answers(c, cmd, arg)
    BY <2>1, <2>2 DEF Answers, Addressed, Placed
  <2>4. d.state = "tran" /\ d.app
    BY <1>0, <2>1, <2>2, <2>3 DEF Moves
  <2> QED
    BY <1>9, <2>4 DEF OnTrack
<1>10. CASE k \in 95 .. 102
  <2>1. cmd \notin {0, 2, 3, 7, 41}
    BY <1>10, TraceEntries DEF Plain, Command, Control
  <2>2. c.state = "tran"
    BY <1>10 DEF OnTrack
  <2>3. d.state = "tran"
    BY <1>0, <2>1, <2>2 DEF Moves
  <2> QED
    BY <1>10, <2>3 DEF OnTrack
<1> QED
  BY <1>1, <1>2, <1>3, <1>4, <1>5, <1>6, <1>7, <1>8, <1>9, <1>10

\* No command moves a card off its address; CMD7 selects it by the trace's.
LEMMA StaysPlaced ==
  ASSUME NEW c \in Cards, Placed(c), NEW cmd, NEW arg, cmd = 7 => arg = RCA,
         NEW d \in CardAfter(c, cmd, arg)
  PROVE  Placed(d)
<1>0. /\ d.rca = c.rca
      /\ c.state = "absent" => d.state = "absent"
      /\ c.state # "absent" /\ cmd = 0 => d.state = "idle"
      /\ c.state # "absent" /\ cmd # 0 => Moves(c, d, cmd, arg)
  BY CardMoves
<1>1. CASE c.state = "absent" \/ cmd = 0
  BY <1>0, <1>1 DEF Placed
<1>2. CASE c.state # "absent" /\ cmd # 0 /\ (~Answers(c, cmd, arg) \/ cmd \notin {2, 3, 6, 7, 41})
  <2>1. d.state = c.state /\ d.addressed = c.addressed
    BY <1>0, <1>2 DEF Moves
  <2> QED
    BY <1>0, <2>1 DEF Placed
<1>3. CASE c.state # "absent" /\ Answers(c, cmd, arg) /\ cmd \in {2, 3, 41}
  BY <1>0, <1>3 DEF Placed, Moves
<1>4. CASE c.state # "absent" /\ Answers(c, cmd, arg) /\ cmd = 6
  BY <1>0, <1>4 DEF Placed, Moves
<1>5. CASE c.state # "absent" /\ Answers(c, cmd, arg) /\ cmd = 7
  <2>1. c.state = "stby" /\ Addressed(c, RCA)
    BY <1>5 DEF Answers
  <2>2. c.addressed /\ c.rca = RCA
    BY <2>1 DEF Placed, Addressed, RCA
  <2> QED
    BY <1>0, <1>5, <2>2 DEF Placed, Moves
<1> QED
  BY <1>1, <1>2, <1>3, <1>4, <1>5

\* The end of the trace puts what card there is on four lanes.
LEMMA TraceWidens ==
  ASSUME NEW c \in Cards, Placed(c), NEW k \in 3 .. 102, Trace[k].op = "command",
         Trace[k].size > 0 => Answers(c, Trace[k].cmd, Trace[k].arg),
         NEW d \in CardAfter(c, Trace[k].cmd, Trace[k].arg), OnLanes(c, k)
  PROVE  OnLanes(d, k + 1)
<1> DEFINE cmd == Trace[k].cmd
           arg == Trace[k].arg
<1>0. /\ d.app <=> cmd = 55 /\ Answers(c, cmd, arg)
      /\ c.state = "absent" => d.state = "absent"
      /\ c.state # "absent" /\ cmd # 0 => Moves(c, d, cmd, arg)
  BY CardMoves
<1>1. CASE k < 95
  BY <1>1 DEF OnLanes
<1>2. CASE c.state = "absent"
  BY <1>0, <1>2 DEF OnLanes
<1>3. CASE c.state # "absent" /\ k \in {95, 96, 97}
  <2>1. cmd \in {6, 51} /\ Trace[k].size > 0
    BY <1>3, TraceEntries DEF Command
  <2>2. c.state = "tran"
    BY <2>1 DEF Answers
  <2>3. d.state = "tran"
    BY <1>0, <1>3, <2>1, <2>2 DEF Moves
  <2> QED
    BY <1>3, <2>3 DEF OnLanes
<1>4. CASE c.state # "absent" /\ k = 98
  <2>1. cmd = 55 /\ arg = RCA
    BY <1>4, TraceEntries DEF Plain, Command
  <2>2. d.state = c.state /\ d.reset = c.reset
    BY <1>0, <1>4, <2>1 DEF Moves
  <2>3. c.state = "tran" => Answers(c, cmd, arg)
    BY <2>1 DEF Answers, Addressed, Placed
  <2> QED
    BY <1>0, <1>4, <2>1, <2>2, <2>3 DEF OnLanes
<1>5. CASE c.state # "absent" /\ k = 99
  <2>1. cmd = 6 /\ arg = 2
    BY <1>5, TraceEntries DEF Plain, Command
  <2>2. d.state = c.state /\ d.reset = c.reset
    BY <1>0, <1>5, <2>1 DEF Moves
  <2>3. c.state = "tran" => c.app /\ Answers(c, cmd, arg)
    BY <1>5, <2>1 DEF Answers, OnLanes
  <2>4. ASSUME c.state = "tran" PROVE d.wide
    <3>0. Moves(c, d, cmd, arg) /\ Answers(c, cmd, arg) /\ cmd = 6
      <4>1. cmd # 0
        BY <2>1
      <4> QED
        BY <1>0, <1>5, <2>1, <2>3, <2>4, <4>1, Zenon
    <3>1. d.wide = (IF c.app THEN arg = 2 ELSE c.wide)
      BY <3>0, Zenon DEF Moves
    <3>2. d.wide = (arg = 2)
      BY <2>3, <2>4, <3>1, Zenon
    <3> QED
      BY <2>1, <3>2, Zenon
  <2> QED
    BY <1>5, <2>2, <2>4 DEF OnLanes
<1>6. CASE c.state # "absent" /\ k \in 100 .. 102
  <2>1. cmd \in {13, 55}
    BY <1>6, TraceEntries DEF Plain, Command, Control
  <2>2. d.state = c.state /\ d.reset = c.reset /\ d.wide = c.wide
    BY <1>0, <1>6, <2>1 DEF Moves
  <2> QED
    BY <1>6, <2>2 DEF OnLanes
<1> QED
  BY <1>1, <1>2, <1>3, <1>4, <1>5, <1>6

-----------------------------------------------------------------------------
(* The steps *)

\* A command of the trace: its wait does not end, or all that it may change are the
\* card and the step.
LEMMA CommandStep ==
  ASSUME TypeOK, InitCommand
  PROVE  /\ pc = "init" /\ step \in 3 .. 102 /\ Trace[step].op = "command"
         /\ Trace[step].cmd = 7 => Trace[step].arg = RCA
         /\ \/ /\ pc' = "stuck" /\ UNCHANGED <<step, job, host, fifo, buffer, card>>
               /\ host.shown =>
                    Trace[step].size > 0 /\ ~Answers(card, Trace[step].cmd, Trace[step].arg)
            \/ /\ UNCHANGED <<pc, job, fifo, buffer>> /\ step' = step + 1
               /\ host' \in Hosts /\ host'.wide = host.wide /\ host.shown /\ host'.shown
               /\ card' \in CardAfter(card, Trace[step].cmd, Trace[step].arg)
               /\ Trace[step].size > 0 => Answers(card, Trace[step].cmd, Trace[step].arg)
<1>1. pc = "init" /\ step \in 1 .. 103 /\ Trace[step].op = "command"
  BY DEF InitCommand, TypeOK
<1>2. step \in 3 .. 102
  BY <1>1, TraceEntries DEF Control
<1>3. PICK s : s = Trace[step]
  OBVIOUS
<1>4. s.cmd \in Nat /\ s.arg \in Nat /\ s.size \in Nat
  BY <1>1, <1>3, TraceTyped DEF Entries
<1>5. PICK h : h = (IF s.size > 0 THEN BlockSetup(s.size) ELSE host)
  OBVIOUS
<1>6. /\ h.wide = host.wide /\ h.blksize \in Nat /\ h.shown = host.shown /\ h.shown \in BOOLEAN
      /\ h = [read |-> h.read, wide |-> h.wide, blksize |-> h.blksize, shown |-> h.shown]
      /\ h.read <=> s.size > 0
  BY <1>4, <1>5 DEF TypeOK, Hosts, BlockSetup
<1>7. /\ WriteIntStatus(h) \in Hosts /\ WriteIntStatus(h).wide = host.wide
      /\ WriteIntStatus(h).shown = host.shown
  BY <1>6 DEF WriteIntStatus, Hosts, TypeOK
<1>8. s.cmd = 0 \/ s.cmd = 7 => s.size = 0 /\ (s.cmd = 7 => s.arg = RCA)
  <2>1. CASE step \in 5 .. 88
    <3>1. PICK cmd \in {41, 55} : s = Plain(cmd, 0)
      BY <1>3, <2>1, TraceEntries
    <3> QED
      BY <3>1 DEF Plain, Command
  <2>2. CASE step \in 3 .. 4 \cup 89 .. 94
    BY <1>3, <2>2, TraceEntries DEF Plain, Command
  <2>3. CASE step \in 95 .. 102
    BY <1>1, <1>3, <2>3, TraceEntries DEF Plain, Command, Control
  <2> QED
    BY <1>2, <2>1, <2>2, <2>3
<1>9. PICK words : words = Filled(h, s.cmd, s.arg)
  OBVIOUS
<1>10. \/ /\ Transact(h, s.cmd, s.arg)
          /\ fifo' = IF s.size > 0 \/ s.cmd = 0 THEN Unread(words) ELSE words
          /\ host' = WriteIntStatus(h) /\ Advance /\ UNCHANGED buffer
       \/ PollForEver(h, s.cmd, s.arg)
  BY <1>3, <1>5, <1>9, Zenon DEF InitCommand
<1>11. CASE PollForEver(h, s.cmd, s.arg)
  <2>1. h.shown => h.read /\ s.cmd # 0 /\ ~Answers(card, s.cmd, s.arg)
    BY <1>11, Zenon DEF PollForEver, WaitEnds, Answered
  <2>2. pc' = "stuck" /\ UNCHANGED <<step, job, host, fifo, buffer, card>>
    BY <1>11 DEF PollForEver
  <2> QED
    BY <1>1, <1>2, <1>3, <1>6, <1>8, <2>1, <2>2
<1>12. CASE /\ Transact(h, s.cmd, s.arg)
            /\ fifo' = IF s.size > 0 \/ s.cmd = 0 THEN Unread(words) ELSE words
            /\ host' = WriteIntStatus(h) /\ Advance /\ UNCHANGED buffer
  <2>1. /\ card' \in CardAfter(card, s.cmd, s.arg) /\ h.shown
        /\ h.read => s.cmd = 0 \/ Answers(card, s.cmd, s.arg)
    BY <1>12, Zenon DEF Transact, WaitEnds, Answered
  <2>2. s.size > 0 => Answers(card, s.cmd, s.arg)
    BY <1>4, <1>6, <1>8, <2>1
  <2>3. s.size = 0 => words = fifo
    BY <1>6, <1>9 DEF Filled
  <2>4. fifo' = fifo
    <3>1. s.size > 0 \/ s.size = 0
      BY <1>4
    <3> QED
      BY <1>12, <2>3, <3>1 DEF Unread, TypeOK
  <2>5. UNCHANGED <<pc, job>> /\ step' = step + 1
    BY <1>2, <1>12, TraceEntries DEF Advance
  <2> QED
    BY <1>1, <1>2, <1>3, <1>6, <1>7, <1>8, <1>12, <2>1, <2>2, <2>4, <2>5
<1> QED
  BY <1>10, <1>11, <1>12

\* The words of a sector are numbered up to its length.
LEMMA WithinSector == \A k \in 1 .. 128 : k <= 128
OBVIOUS

\* A sector is 128 words long.
LEMMA SectorLength ==
  ASSUME NEW n
  PROVE  Sector(n) \in Seq({n} \X (1 .. 128)) /\ Len(Sector(n)) = 128
<1>1. PICK T : T = {n} \X (1 .. 128)
  OBVIOUS
<1>2. PICK f : f = Sector(n)
  OBVIOUS
<1>3. PICK m \in Nat : m = 128
  OBVIOUS
<1>4. f \in [1 .. 128 -> T]
  BY <1>1, <1>2, ZenonT(60) DEF Sector
<1>5. f \in [1 .. m -> T]
  BY <1>3, <1>4, Zenon
<1>6. f \in Seq(T) /\ Len(f) = m
  BY <1>5, Enumerated, Zenon
<1> QED
  BY <1>1, <1>2, <1>3, <1>6, Zenon

\* The words of the block, laid over an empty piece, are the sector asked for.
LEMMA WholeSector ==
  ASSUME NEW n, fifo = <<>>, host.wide = card.wide, ~card.mute, Answers(card, 17, n),
         host = [read |-> FALSE, wide |-> host.wide, blksize |-> host.blksize, shown |-> host.shown]
  PROVE  Over(Filled(BlockSetup(512), 17, n), <<>>) = Sector(n)
<1> DEFINE h == BlockSetup(512)
<1>1. h.read /\ h.wide = card.wide /\ h.blksize = 512
  BY DEF BlockSetup
<1>2. Block(card, 17, n) = Sector(n)
  BY DEF Block
<1>3. PICK s : s = Sector(n)
  OBVIOUS
<1>4. s \in Seq({n} \X (1 .. 128)) /\ Len(s) = 128 /\ DOMAIN s = 1 .. 128
  BY <1>3, SectorLength
<1>5. s # <<>>
  <2>1. Len(<<>>) = 0
    OBVIOUS
  <2>2. Len(s) # 0
    BY <1>4
  <2> QED
    BY <2>1, <2>2, Zenon
<1>6. s = [k \in 1 .. 128 |-> s[k]]
  BY <1>3 DEF Sector
<1>7. Taken(h, s) = s
  <2>1. h.blksize \div 4 = 128
    <3>1. 512 \div 4 = 128
      OBVIOUS
    <3> QED
      BY <1>1, <3>1, ZenonT(60)
  <2>2. Taken(h, s) = [k \in 1 .. 128 |-> IF h.wide = card.wide /\ k <= Len(s) THEN s[k] ELSE <<-2, k>>]
    BY <2>1, Zenon DEF Taken
  <2>3. \A k \in 1 .. 128 : k <= Len(s)
    BY <1>4, WithinSector, Zenon
  <2>4. \A k \in 1 .. 128 : (IF h.wide = card.wide /\ k <= Len(s) THEN s[k] ELSE <<-2, k>>) = s[k]
    BY <1>1, <2>3, ZenonT(60)
  <2>5. [k \in 1 .. 128 |-> IF h.wide = card.wide /\ k <= Len(s) THEN s[k] ELSE <<-2, k>>]
          = [k \in 1 .. 128 |-> s[k]]
    BY <2>4, Zenon
  <2> QED
    BY <1>6, <2>2, <2>5, Zenon
<1>8. Filled(h, 17, n) = fifo \o Taken(h, s)
  BY <1>1, <1>2, <1>3, <1>5 DEF Filled, Answered
<1>9. Filled(h, 17, n) = s
  BY <1>4, <1>7, <1>8
<1>10. Over(s, <<>>) = s
  <2>1. SubSeq(<<>>, Len(s) + 1, Len(<<>>)) = <<>>
    BY <1>4
  <2>2. s \o <<>> = s
    BY <1>4
  <2> QED
    BY <2>1, <2>2, Zenon DEF Over
<1> QED
  BY <1>3, <1>9, <1>10

\* A read of a block: its wait does not end, or a piece that has one gets the sector
\* whole or stays as it was.
LEMMA ReadStep ==
  ASSUME TypeOK, Ready, Ahead, ReadBlock, host.shown
  PROVE  /\ pc = "read"
         /\ \/ /\ pc' = "stuck" /\ UNCHANGED <<step, job, host, fifo, buffer, card>>
               /\ card.state # "tran"
            \/ /\ card.state = "tran" /\ card' \in CardAfter(card, 17, job.sector)
               /\ UNCHANGED <<step, fifo>> /\ host' \in Hosts /\ host'.wide = host.wide
               /\ host'.shown
               /\ pc' = IF job.left = 1 THEN "idle" ELSE "blocklen"
               /\ job' = IF job.left = 1 THEN NoJob
                         ELSE [sector |-> IF job.piece = 0 THEN job.sector + 1 ELSE job.sector,
                               left |-> job.left - 1,
                               piece |-> IF job.piece = 0 THEN 0 ELSE job.piece + 1]
               /\ buffer' = IF job.piece = 0 \/ card.mute THEN buffer
                            ELSE [buffer EXCEPT ![job.piece] = Sector(job.sector)]
<1>1. pc = "read" /\ fifo = <<>> /\ host \in Hosts
  BY DEF ReadBlock, TypeOK
<1> DEFINE h == BlockSetup(512)
           words == Filled(h, 17, job.sector)
<1>3. h = [read |-> TRUE, wide |-> host.wide, blksize |-> 512, shown |-> TRUE]
  <2>1. PICK g : g = BlockSetup(512)
    OBVIOUS
  <2>2. g = [read |-> TRUE, wide |-> host.wide, blksize |-> 512, shown |-> TRUE]
    BY <1>1, <2>1, ZenonT(60) DEF BlockSetup, Hosts
  <2> QED
    BY <2>1, <2>2, ZenonT(60)
<1>5. \/ /\ Transact(h, 17, job.sector)
         /\ fifo' = Unread(words)
         /\ buffer' = IF job.piece = 0 THEN buffer
                      ELSE [buffer EXCEPT ![job.piece] = Over(words, buffer[job.piece])]
         /\ host' = WriteIntStatus(h)
         /\ pc' = IF job.left = 1 THEN "idle" ELSE "blocklen"
         /\ job' = IF job.left = 1 THEN NoJob
                   ELSE [sector |-> IF job.piece = 0 THEN job.sector + 1 ELSE job.sector,
                         left |-> job.left - 1,
                         piece |-> IF job.piece = 0 THEN 0 ELSE job.piece + 1]
         /\ UNCHANGED step
      \/ PollForEver(h, 17, job.sector)
  BY Zenon DEF ReadBlock
<1>2. h = BlockSetup(512) /\ words = Filled(h, 17, job.sector)
  OBVIOUS
<1> HIDE DEF h, words
<1>6. CASE PollForEver(h, 17, job.sector)
  <2>1. ~Answers(card, 17, job.sector)
    BY <1>3, <1>6 DEF PollForEver, WaitEnds, Answered
  <2>2. card.state # "tran"
    BY <2>1 DEF Answers
  <2> QED
    BY <1>1, <1>6, <2>2 DEF PollForEver
<1>7. CASE /\ Transact(h, 17, job.sector)
           /\ fifo' = Unread(words)
           /\ buffer' = IF job.piece = 0 THEN buffer
                        ELSE [buffer EXCEPT ![job.piece] = Over(words, buffer[job.piece])]
           /\ host' = WriteIntStatus(h)
           /\ pc' = IF job.left = 1 THEN "idle" ELSE "blocklen"
           /\ job' = IF job.left = 1 THEN NoJob
                     ELSE [sector |-> IF job.piece = 0 THEN job.sector + 1 ELSE job.sector,
                           left |-> job.left - 1,
                           piece |-> IF job.piece = 0 THEN 0 ELSE job.piece + 1]
           /\ UNCHANGED step
  <2>1. Answers(card, 17, job.sector)
    BY <1>3, <1>7 DEF Transact, WaitEnds, Answered
  <2>2. card.state = "tran"
    BY <2>1 DEF Answers
  <2>3. card' \in CardAfter(card, 17, job.sector)
    BY <1>7 DEF Transact
  <2>4. host' \in Hosts /\ host'.wide = host.wide /\ host'.shown
    <3>1. host' = WriteIntStatus(h)
      BY <1>7, Zenon
    <3>2. WriteIntStatus(h) = [read |-> FALSE, wide |-> host.wide, blksize |-> 512, shown |-> TRUE]
      <4>1. PICK g : g = WriteIntStatus(h)
        OBVIOUS
      <4>2. g = [read |-> FALSE, wide |-> host.wide, blksize |-> 512, shown |-> TRUE]
        BY <1>3, <4>1, ZenonT(60) DEF WriteIntStatus
      <4> QED
        BY <4>1, <4>2, Zenon
    <3>3. host.wide \in BOOLEAN
      BY <1>1 DEF Hosts
    <3>4. [read |-> FALSE, wide |-> host.wide, blksize |-> 512, shown |-> TRUE] \in Hosts
      BY <3>3 DEF Hosts
    <3>5. [read |-> FALSE, wide |-> host.wide, blksize |-> 512, shown |-> TRUE].wide = host.wide
      OBVIOUS
    <3>6. [read |-> FALSE, wide |-> host.wide, blksize |-> 512, shown |-> TRUE].shown
      OBVIOUS
    <3> QED
      BY <3>1, <3>2, <3>4, <3>5, <3>6, Zenon
  <2>5. fifo' = fifo
    BY <1>1, <1>7 DEF Unread
  <2>6. ASSUME job.piece # 0
        PROVE  buffer' = IF card.mute THEN buffer
                         ELSE [buffer EXCEPT ![job.piece] = Sector(job.sector)]
    <3>0. job.left \in Nat /\ job.piece \in Nat /\ MaxCount \in Nat
      BY SdHostAssumption DEF TypeOK
    <3>00. /\ job.left > 0 /\ job.piece > 0 /\ job.piece + job.left <= MaxCount + 1
           /\ \A p \in job.piece .. MaxCount : buffer[p] = <<>>
      BY <1>1, <2>6, <3>0 DEF Ahead
    <3>01. job.piece \in 1 .. MaxCount /\ job.piece \in job.piece .. MaxCount
      BY <3>0, <3>00
    <3>1. job.piece \in 1 .. MaxCount /\ buffer[job.piece] = <<>>
      BY <3>00, <3>01
    <3>2. buffer' = [buffer EXCEPT ![job.piece] = Over(words, <<>>)]
      BY <1>7, <2>6, <3>1
    <3>3. CASE card.mute
      <4>1. words = <<>>
        BY <1>1, <1>2, <3>3 DEF Filled
      <4>2. Over(words, <<>>) = <<>>
        BY <4>1 DEF Over
      <4>3. [buffer EXCEPT ![job.piece] = buffer[job.piece]] = buffer
        BY DEF TypeOK
      <4> QED
        BY <3>1, <3>2, <3>3, <4>2, <4>3
    <3>4. CASE ~card.mute
      <4>1. host.wide = card.wide
        BY <1>1, <2>2 DEF Ready, TypeOK, Hosts, Cards
      <4>2. host = [read |-> FALSE, wide |-> host.wide, blksize |-> host.blksize, shown |-> host.shown]
        BY <1>1 DEF Hosts
      <4>3. Over(words, <<>>) = Sector(job.sector)
        BY <1>1, <1>2, <2>1, <3>4, <4>1, <4>2, WholeSector
      <4> QED
        BY <3>2, <3>4, <4>3
    <3> QED
      BY <3>3, <3>4
  <2> QED
    BY <1>1, <1>7, <2>2, <2>3, <2>4, <2>5, <2>6
<1> QED
  BY <1>5, <1>6, <1>7

\* CMD16 has no block: its wait ends, and it moves no card.
LEMMA LengthStep ==
  ASSUME TypeOK, BlockLength, host.shown
  PROVE  /\ pc = "blocklen" /\ pc' = "read" /\ UNCHANGED <<step, job, fifo, buffer>>
         /\ card' \in CardAfter(card, 16, 512)
         /\ host' \in Hosts /\ host'.wide = host.wide /\ host'.shown
<1>1. pc = "blocklen" /\ fifo = <<>> /\ host \in Hosts
  BY DEF BlockLength, TypeOK
<1> DEFINE h == WriteIntStatus(host)
<1>3. h \in Hosts /\ h.wide = host.wide /\ ~h.read /\ h.shown
  BY <1>1 DEF WriteIntStatus, Hosts
<1>4. \/ /\ Transact(h, 16, 512) /\ fifo' = Filled(h, 16, 512)
         /\ host' = WriteIntStatus(h) /\ pc' = "read" /\ UNCHANGED <<step, job, buffer>>
      \/ PollForEver(h, 16, 512)
  BY ZenonT(60) DEF BlockLength
<1> HIDE DEF h
<1>5. ~PollForEver(h, 16, 512)
  BY <1>3 DEF PollForEver, WaitEnds
<1>6. Filled(h, 16, 512) = fifo
  BY <1>3 DEF Filled
<1>7. WriteIntStatus(h) \in Hosts /\ WriteIntStatus(h).wide = host.wide /\ WriteIntStatus(h).shown
  BY <1>3 DEF WriteIntStatus, Hosts
<1>8. card' \in CardAfter(card, 16, 512)
  BY <1>4, <1>5 DEF Transact
<1> QED
  BY <1>1, <1>4, <1>5, <1>6, <1>7, <1>8

\* What is true of a card that was selected stays true over a command that moves none.
LEMMA StaysReady ==
  ASSUME NEW c \in Cards, NEW cmd \in {16, 17}, NEW arg, NEW d \in CardAfter(c, cmd, arg)
  PROVE  /\ d \in Cards /\ d.state = c.state /\ d.rca = c.rca /\ d.polls = c.polls
         /\ d.state # "absent" => d.reset = c.reset /\ d.wide = c.wide
<1>1. /\ d \in Cards /\ d.rca = c.rca /\ d.polls = c.polls
      /\ c.state = "absent" => d.state = "absent"
      /\ c.state # "absent" => Moves(c, d, cmd, arg)
  BY CardMoves
<1> QED
  BY <1>1 DEF Moves

\* A command of the trace moves the card along it, or finds it is not one that fits.
LEMMA KeptByCommand ==
  ASSUME IInv, InitCommand
  PROVE  IInv'
<1>1. /\ TypeOK /\ Placed(card) /\ Widened /\ Tracked /\ Ready /\ Ahead /\ card \in Cards
      /\ StuckOnlyWithout
  BY DEF IInv, TypeOK
<1>2. /\ pc = "init" /\ step \in 3 .. 102 /\ Trace[step].op = "command"
      /\ Trace[step].cmd = 7 => Trace[step].arg = RCA
      /\ \/ /\ pc' = "stuck" /\ UNCHANGED <<step, job, host, fifo, buffer, card>>
            /\ host.shown =>
                 Trace[step].size > 0 /\ ~Answers(card, Trace[step].cmd, Trace[step].arg)
         \/ /\ UNCHANGED <<pc, job, fifo, buffer>> /\ step' = step + 1
            /\ host' \in Hosts /\ host'.wide = host.wide /\ host.shown /\ host'.shown
            /\ card' \in CardAfter(card, Trace[step].cmd, Trace[step].arg)
            /\ Trace[step].size > 0 => Answers(card, Trace[step].cmd, Trace[step].arg)
  BY <1>1, CommandStep
<1>3. CASE /\ pc' = "stuck" /\ UNCHANGED <<step, job, host, fifo, buffer, card>>
           /\ host.shown =>
                Trace[step].size > 0 /\ ~Answers(card, Trace[step].cmd, Trace[step].arg)
  <2>1. TypeOK' /\ Placed(card)'
    BY <1>1, <1>3 DEF TypeOK, Placed
  <2>2. Widened' /\ Ready' /\ Tracked' /\ Ahead'
    BY <1>3 DEF Widened, Ready, Tracked, Ahead
  <2>3. host.shown => ~Fit
    <3>1. SUFFICES ASSUME host.shown, Fit PROVE FALSE
      OBVIOUS
    <3>2. OnTrack(card, step)
      BY <1>1, <1>2, <3>1 DEF Tracked
    <3>3. step \in {95, 96, 97, 102}
      <4>1. CASE step \in 5 .. 88
        <5>1. PICK cmd \in {41, 55} : Trace[step] = Plain(cmd, 0)
          BY <4>1, TraceEntries
        <5> QED
          BY <1>3, <3>1, <5>1 DEF Plain, Command
      <4>2. CASE step \in 3 .. 4 \cup 89 .. 94
        BY <1>3, <3>1, <4>2, TraceEntries DEF Plain, Command
      <4>3. CASE step \in 95 .. 102
        BY <1>2, <1>3, <3>1, <4>3, TraceEntries DEF Plain, Command, Control
      <4> QED
        BY <1>2, <4>1, <4>2, <4>3
    <3>4. card.state = "tran" /\ (step = 95 => card.app)
      BY <3>2, <3>3 DEF OnTrack
    <3>5. Trace[step].cmd \in {6, 13, 51} /\ (Trace[step].cmd = 51 => step = 95)
      BY <3>3, TraceEntries DEF Command
    <3> QED
      BY <1>3, <3>1, <3>4, <3>5 DEF Answers
  <2>4. StuckOnlyWithout'
    <3>1. card.polls \in Nat
      BY <1>1, SdHostAssumption DEF Cards
    <3> QED
      BY <1>1, <1>2, <1>3, <2>3, <3>1 DEF StuckOnlyWithout, Fit, Present
  <2> QED
    BY <2>1, <2>2, <2>4 DEF IInv
<1>4. CASE /\ UNCHANGED <<pc, job, fifo, buffer>> /\ step' = step + 1
           /\ host' \in Hosts /\ host'.wide = host.wide /\ host.shown /\ host'.shown
           /\ card' \in CardAfter(card, Trace[step].cmd, Trace[step].arg)
           /\ Trace[step].size > 0 => Answers(card, Trace[step].cmd, Trace[step].arg)
  <2>1. /\ card' \in Cards /\ card'.rca = card.rca /\ card'.polls = card.polls
        /\ card.state = "absent" => card'.state = "absent"
        /\ card.state # "absent" /\ Trace[step].cmd # 0 => card'.reset = card.reset
    BY <1>1, <1>4, CardMoves DEF Moves
  <2>2. TypeOK'
    <3>1. pc' \in {"init", "blocklen", "read", "idle", "stuck"} /\ step' \in 1 .. 103
      BY <1>2, <1>4
    <3>2. job' \in [sector : Nat, left : Nat, piece : Nat]
      BY <1>1, <1>4, Zenon DEF TypeOK
    <3>3. fifo' = <<>> /\ buffer' = [p \in 1 .. MaxCount |-> buffer'[p]]
      BY <1>1, <1>4, Zenon DEF TypeOK
    <3> QED
      BY <1>4, <2>1, <3>1, <3>2, <3>3, Zenon DEF TypeOK
  <2>3. Placed(card)'
    <3>1. Placed(card')
      BY <1>1, <1>2, <1>4, StaysPlaced
    <3> QED
      BY <3>1 DEF Placed
  <2>4. Widened'
    <3>1. OnLanes(card, step) /\ (step >= 101 => host.wide)
      BY <1>1, <1>2 DEF Widened
    <3>2. OnLanes(card', step + 1)
      BY <1>1, <1>2, <1>4, <3>1, TraceWidens
    <3>3. step + 1 >= 101 => host.wide
      <4>1. step # 100
        BY <1>2, TraceEntries DEF Control
      <4> QED
        BY <1>2, <3>1, <4>1
    <3> QED
      BY <1>4, <3>2, <3>3 DEF Widened, OnLanes
  <2>5. Tracked'
    <3>1. SUFFICES ASSUME Fit' PROVE OnTrack(card', step + 1)
      BY <1>4 DEF Tracked, OnTrack
    <3>2. card.state # "absent" /\ card.polls <= 42 /\ card.rca = RCA
      BY <2>1, <3>1 DEF Fit, Present
    <3>3. step > 3 => card.reset
      <4>1. step > 3 => Trace[step].cmd # 0
        <5>1. CASE step \in 5 .. 88
          <6>1. PICK cmd \in {41, 55} : Trace[step] = Plain(cmd, 0)
            BY <5>1, TraceEntries
          <6> QED
            BY <6>1 DEF Plain, Command
        <5>2. CASE step \in {3, 4} \cup 89 .. 94
          BY <5>2, TraceEntries DEF Plain, Command
        <5>3. CASE step \in 95 .. 102
          BY <1>2, <5>3, TraceEntries DEF Plain, Command, Control
        <5> QED
          BY <1>2, <5>1, <5>2, <5>3
      <4> QED
        BY <2>1, <3>1, <3>2, <4>1 DEF Fit
    <3>4. step > 3 => OnTrack(card, step)
      BY <1>1, <1>2, <3>2, <3>3 DEF Tracked, Fit, Present
    <3>5. card.polls > 0
      <4>1. card.polls \in Polls
        BY <1>1, Zenon DEF Cards
      <4>2. card.polls \in Nat \ {0}
        BY <4>1, SdHostAssumption, Zenon
      <4> QED
        BY <4>2
    <3>6. Placed(card)
      BY <1>1
    <3> QED
      BY <1>1, <1>2, <1>4, <3>2, <3>4, <3>5, <3>6, TraceTracks
  <2>6. Ready' /\ Ahead' /\ StuckOnlyWithout'
    BY <1>2, <1>4 DEF Ready, Ahead, StuckOnlyWithout
  <2> QED
    BY <2>2, <2>3, <2>4, <2>5, <2>6 DEF IInv
<1> QED
  BY <1>2, <1>3, <1>4

\* The other entries of the trace change no card: the reset is its first, the widths
\* its second, its hundredth and its last.
LEMMA KeptByControl ==
  ASSUME IInv, SoftwareReset \/ HostControl
  PROVE  IInv'
<1>1. /\ TypeOK /\ Placed(card) /\ Widened /\ Tracked /\ StuckOnlyWithout
      /\ pc = "init" /\ step \in 1 .. 103 /\ host \in Hosts
  BY DEF IInv, TypeOK, SoftwareReset, HostControl
<1>2. UNCHANGED <<fifo, buffer, card>> /\ Advance
  BY DEF SoftwareReset, HostControl
<1>3. Trace[step].op # "command"
  BY DEF SoftwareReset, HostControl
<1>4. step \in {1, 2, 100, 103}
  <2>1. CASE step \in 5 .. 88
    <3>1. PICK cmd \in {41, 55} : Trace[step] = Plain(cmd, 0)
      BY <2>1, TraceEntries
    <3> QED
      BY <1>3, <3>1 DEF Plain, Command
  <2>2. CASE step \in 3 .. 4 \cup 89 .. 95
    BY <1>3, <2>2, TraceEntries DEF Plain, Command
  <2>3. CASE step \in 96 .. 99 \cup 101 .. 102
    BY <1>3, <2>3, TraceEntries DEF Plain, Command
  <2> QED
    BY <1>1, <2>1, <2>2, <2>3
<1>5. host' \in Hosts /\ (step \in {100, 103} => host'.wide) /\ host'.shown = host.shown
  <2>1. CASE SoftwareReset
    <3>1. host' = WriteIntStatus(host) /\ Trace[step].op = "software_reset"
      BY <2>1 DEF SoftwareReset
    <3>2. step \notin {100, 103}
      BY <3>1, TraceEntries DEF Control
    <3> QED
      BY <1>1, <3>1, <3>2 DEF WriteIntStatus, Hosts
  <2>2. CASE HostControl
    <3>1. host' = [host EXCEPT !.wide = Trace[step].wide] /\ Trace[step].op = "host_control"
      BY <2>2 DEF HostControl
    <3>2. Trace[step].wide \in BOOLEAN
      BY <1>1, <3>1, TraceTyped DEF Entries
    <3>3. step \in {100, 103} => Trace[step].wide
      BY TraceEntries DEF Control
    <3> QED
      BY <1>1, <3>1, <3>2, <3>3 DEF Hosts
  <2> QED
    BY <2>1, <2>2
<1>6. CASE step # 103
  <2>1. step' = step + 1 /\ UNCHANGED <<pc, job>>
    BY <1>1, <1>2, <1>6, TraceEntries DEF Advance
  <2>2. TypeOK'
    <3>1. pc' \in {"init", "blocklen", "read", "idle", "stuck"} /\ step' \in 1 .. 103
      BY <1>1, <1>6, <2>1
    <3>2. job' \in [sector : Nat, left : Nat, piece : Nat] /\ card' \in Cards
      BY <1>1, <1>2, <2>1, Zenon DEF TypeOK
    <3>3. fifo' = <<>> /\ buffer' = [p \in 1 .. MaxCount |-> buffer'[p]]
      BY <1>1, <1>2, Zenon DEF TypeOK
    <3> QED
      BY <1>5, <3>1, <3>2, <3>3, Zenon DEF TypeOK
  <2>3. Placed(card)'
    BY <1>1, <1>2 DEF Placed
  <2>4. Widened'
    BY <1>1, <1>2, <1>4, <1>5, <1>6, <2>1 DEF Widened, OnLanes
  <2>5. Tracked'
    BY <1>1, <1>2, <1>4, <1>6, <2>1 DEF Tracked, Fit, Present, OnTrack
  <2>6. Ready' /\ Ahead'
    BY <1>1, <2>1 DEF Ready, Ahead
  <2>7. StuckOnlyWithout'
    BY <1>1, <1>4, <1>5, <1>6, <2>1 DEF StuckOnlyWithout
  <2> QED
    BY <2>2, <2>3, <2>4, <2>5, <2>6, <2>7 DEF IInv
<1>7. CASE step = 103
  <2>1. step' = 1 /\ pc' = "blocklen" /\ job' = [sector |-> 0, left |-> 16, piece |-> 0]
    BY <1>2, <1>7, TraceEntries DEF Advance
  <2>2. TypeOK'
    BY <1>1, <1>2, <1>5, <2>1 DEF TypeOK
  <2>3. Placed(card)'
    BY <1>1, <1>2 DEF Placed
  <2>4. Ready'
    <3>1. OnLanes(card, 103)
      BY <1>1, <1>7, Zenon DEF Widened
    <3> QED
      BY <1>2, <1>5, <1>7, <2>1, <3>1 DEF Ready, OnLanes, Present
  <2>5. Widened' /\ Tracked' /\ Ahead'
    BY <2>1 DEF Widened, Tracked, Ahead
  <2>6. StuckOnlyWithout'
    BY <1>1, <1>5, <1>7, <2>1 DEF StuckOnlyWithout
  <2> QED
    BY <2>2, <2>3, <2>4, <2>5, <2>6 DEF IInv
<1> QED
  BY <1>6, <1>7

\* The two commands of sd_read_sector move no card and fill one piece.
LEMMA KeptByRead ==
  ASSUME IInv, BlockLength \/ ReadBlock
  PROVE  IInv'
<1>0. host.shown
  BY DEF IInv, StuckOnlyWithout, BlockLength, ReadBlock
<1>1. /\ TypeOK /\ Placed(card) /\ Ready /\ Ahead /\ card \in Cards
      /\ buffer = [p \in 1 .. MaxCount |-> buffer[p]]
      /\ job \in [sector : Nat, left : Nat, piece : Nat]
  BY DEF IInv, TypeOK
<1>2. CASE BlockLength
  <2>1. /\ pc = "blocklen" /\ pc' = "read" /\ UNCHANGED <<step, job, fifo, buffer>>
        /\ card' \in CardAfter(card, 16, 512)
        /\ host' \in Hosts /\ host'.wide = host.wide /\ host'.shown
    BY <1>0, <1>1, <1>2, LengthStep
  <2>2. /\ card' \in Cards /\ card'.state = card.state
        /\ card'.state # "absent" => card'.reset = card.reset /\ card'.wide = card.wide
    BY <1>1, <2>1, StaysReady
  <2>3. TypeOK'
    BY <1>1, <2>1, <2>2 DEF TypeOK
  <2>4. Placed(card)'
    <3>1. Placed(card')
      BY <1>1, <2>1, StaysPlaced
    <3> QED
      BY <3>1 DEF Placed
  <2>5. Ready'
    BY <1>1, <2>1, <2>2 DEF Ready, Present
  <2>6. Ahead'
    BY <1>1, <2>1 DEF Ahead
  <2>7. Widened' /\ Tracked' /\ StuckOnlyWithout'
    BY <2>1 DEF Widened, Tracked, StuckOnlyWithout
  <2> QED
    BY <2>3, <2>4, <2>5, <2>6, <2>7 DEF IInv
<1>3. CASE ReadBlock
  <2>0. /\ pc = "read"
        /\ \/ /\ pc' = "stuck" /\ UNCHANGED <<step, job, host, fifo, buffer, card>>
              /\ card.state # "tran"
           \/ /\ card.state = "tran" /\ card' \in CardAfter(card, 17, job.sector)
              /\ UNCHANGED <<step, fifo>> /\ host' \in Hosts /\ host'.wide = host.wide
              /\ host'.shown
              /\ pc' = IF job.left = 1 THEN "idle" ELSE "blocklen"
              /\ job' = IF job.left = 1 THEN NoJob
                        ELSE [sector |-> IF job.piece = 0 THEN job.sector + 1 ELSE job.sector,
                              left |-> job.left - 1,
                              piece |-> IF job.piece = 0 THEN 0 ELSE job.piece + 1]
              /\ buffer' = IF job.piece = 0 \/ card.mute THEN buffer
                           ELSE [buffer EXCEPT ![job.piece] = Sector(job.sector)]
    BY <1>0, <1>1, <1>3, ReadStep
  <2>1. CASE pc' = "stuck" /\ UNCHANGED <<step, job, host, fifo, buffer, card>> /\ card.state # "tran"
    <3>1. TypeOK' /\ Placed(card)'
      BY <1>1, <2>1 DEF TypeOK, Placed
    <3>2. StuckOnlyWithout'
      BY <1>1, <2>0, <2>1 DEF Ready, StuckOnlyWithout, Present
    <3>3. Widened' /\ Ready' /\ Tracked' /\ Ahead'
      BY <2>1 DEF Widened, Ready, Tracked, Ahead
    <3> QED
      BY <3>1, <3>2, <3>3 DEF IInv
  <2>2. CASE /\ card.state = "tran" /\ card' \in CardAfter(card, 17, job.sector)
             /\ UNCHANGED <<step, fifo>> /\ host' \in Hosts /\ host'.wide = host.wide
             /\ host'.shown
             /\ pc' = IF job.left = 1 THEN "idle" ELSE "blocklen"
             /\ job' = IF job.left = 1 THEN NoJob
                       ELSE [sector |-> IF job.piece = 0 THEN job.sector + 1 ELSE job.sector,
                             left |-> job.left - 1,
                             piece |-> IF job.piece = 0 THEN 0 ELSE job.piece + 1]
             /\ buffer' = IF job.piece = 0 \/ card.mute THEN buffer
                          ELSE [buffer EXCEPT ![job.piece] = Sector(job.sector)]
    <3>1. /\ card' \in Cards /\ card'.state = card.state
          /\ card'.state # "absent" => card'.reset = card.reset /\ card'.wide = card.wide
      BY <1>1, <2>2, StaysReady
    <3>2. buffer' = [p \in 1 .. MaxCount |-> buffer'[p]]
      <4>1. CASE job.piece = 0 \/ card.mute
        BY <1>1, <2>2, <4>1
      <4>2. CASE ~(job.piece = 0 \/ card.mute)
        <5>1. buffer' = [buffer EXCEPT ![job.piece] = Sector(job.sector)]
          BY <2>2, <4>2
        <5> QED
          BY <1>1, <5>1
      <4> QED
        BY <4>1, <4>2
    <3>3. job.left > 0
      BY <1>1, <2>0 DEF Ahead
    <3>4. job' \in [sector : Nat, left : Nat, piece : Nat]
      BY <1>1, <2>2, <3>3 DEF NoJob
    <3>5. TypeOK'
      BY <1>1, <2>0, <2>2, <3>1, <3>2, <3>4 DEF TypeOK
    <3>6. Placed(card)'
      <4>1. Placed(card')
        BY <1>1, <2>2, StaysPlaced
      <4> QED
        BY <4>1 DEF Placed
    <3>7. Ready'
      BY <1>1, <2>0, <2>2, <3>1 DEF Ready, Present
    <3>8. Ahead'
      <4>1. CASE job.left = 1
        BY <2>2, <4>1 DEF Ahead
      <4>2. CASE job.left # 1
        <5>1. /\ job'.left = job.left - 1 /\ job'.piece = (IF job.piece = 0 THEN 0 ELSE job.piece + 1)
              /\ job.left \in Nat /\ job.piece \in Nat
          BY <1>1, <2>2, <4>2
        <5>2. job'.left > 0
          BY <3>3, <4>2, <5>1
        <5>3. ASSUME job'.piece > 0
              PROVE  /\ job'.piece + job'.left <= MaxCount + 1
                     /\ \A p \in job'.piece .. MaxCount : buffer'[p] = <<>>
          <6>1. /\ job.piece > 0 /\ job'.piece = job.piece + 1
                /\ job.piece + job.left <= MaxCount + 1
            BY <1>1, <2>0, <5>1, <5>3 DEF Ahead
          <6>2. \A p \in job.piece .. MaxCount : buffer[p] = <<>>
            BY <1>1, <2>0, <6>1 DEF Ahead
          <6>3. \A p \in job'.piece .. MaxCount : buffer'[p] = buffer[p]
            BY <1>1, <2>2, <5>1, <6>1, SdHostAssumption
          <6>4. \A p \in job'.piece .. MaxCount : p \in job.piece .. MaxCount
            BY <5>1, <6>1, SdHostAssumption
          <6> QED
            BY <5>1, <6>1, <6>2, <6>3, <6>4, SdHostAssumption
        <5> QED
          BY <5>2, <5>3 DEF Ahead
      <4> QED
        BY <4>1, <4>2
    <3>9. Widened' /\ Tracked' /\ StuckOnlyWithout'
      BY <2>2 DEF Widened, Tracked, StuckOnlyWithout
    <3> QED
      BY <3>5, <3>6, <3>7, <3>8, <3>9 DEF IInv
  <2> QED
    BY <2>0, <2>1, <2>2
<1> QED
  BY <1>2, <1>3

\* A call of FatFs starts with its buffer empty.
LEMMA KeptByDisk ==
  ASSUME IInv,
         \/ \E sector \in Sectors, count \in 1 .. MaxCount : disk_read(sector, count)
         \/ disk_initialize
  PROVE  IInv'
<1>1. TypeOK /\ Placed(card) /\ Ready /\ pc = "idle" /\ UNCHANGED <<step, host, fifo, card>>
  BY DEF IInv, disk_read, disk_initialize
<1>0. host.shown
  BY <1>1 DEF IInv, StuckOnlyWithout
<1>2. buffer' = EmptyBuffer
  BY DEF disk_read, disk_initialize
<1>3. buffer' = [p \in 1 .. MaxCount |-> <<>>]
  BY <1>2 DEF EmptyBuffer
<1>4. Placed(card)'
  BY <1>1 DEF Placed
<1>5. CASE \E sector \in Sectors, count \in 1 .. MaxCount : disk_read(sector, count)
  <2>1. PICK sector \in Sectors, count \in 1 .. MaxCount : disk_read(sector, count)
    BY <1>5
  <2>2. pc' = "blocklen" /\ job' = [sector |-> sector, left |-> count, piece |-> 1]
    BY <2>1 DEF disk_read
  <2>3. sector \in Nat /\ count \in 1 .. MaxCount /\ MaxCount \in Nat
    BY SdHostAssumption
  <2>4. TypeOK'
    BY <1>1, <1>3, <2>2, <2>3 DEF TypeOK
  <2>5. Ready'
    BY <1>1, <2>2 DEF Ready, Present
  <2>6. Ahead'
    BY <1>3, <2>2, <2>3 DEF Ahead
  <2>7. Widened' /\ Tracked' /\ StuckOnlyWithout'
    BY <1>0, <1>1, <2>2 DEF Widened, Tracked, StuckOnlyWithout
  <2> QED
    BY <1>4, <2>4, <2>5, <2>6, <2>7 DEF IInv
<1>6. CASE disk_initialize
  <2>1. pc' = "init" /\ job' = job
    BY <1>6 DEF disk_initialize
  <2>2. step = 1
    BY <1>1 DEF Ready
  <2>3. TypeOK'
    BY <1>1, <1>3, <2>1 DEF TypeOK
  <2>4. Widened'
    BY <1>1, <2>1, <2>2 DEF Widened, OnLanes
  <2>5. Tracked'
    BY <1>1, <2>1, <2>2 DEF Tracked, OnTrack
  <2>6. Ready' /\ Ahead' /\ StuckOnlyWithout'
    BY <1>0, <1>1, <2>1 DEF Ready, Ahead, StuckOnlyWithout
  <2> QED
    BY <1>4, <2>3, <2>4, <2>5, <2>6 DEF IInv
<1> QED
  BY <1>5, <1>6

\* A card that was just put in is idle and waits for its reset.
LEMMA InsertedCards ==
  ASSUME NEW c \in Inserted
  PROVE  c \in Cards /\ c.state = "idle" /\ ~c.reset
<1>1. PICK rca \in Rcas, polls \in Polls :
        c = [state |-> "idle", reset |-> FALSE, app |-> FALSE, wide |-> FALSE, rca |-> rca,
             addressed |-> FALSE, polls |-> polls, asked |-> 0, mute |-> FALSE]
  BY DEF Inserted
<1> QED
  BY <1>1 DEF Cards, States

\* A card may be taken out and another put in at any step.
LEMMA KeptBySlot ==
  ASSUME IInv, Remove \/ Insert
  PROVE  IInv'
<1>1. TypeOK /\ Widened /\ Ready /\ Ahead /\ card \in Cards
  BY DEF IInv, TypeOK
<1>2. UNCHANGED <<pc, step, job, host, fifo, buffer>>
  BY DEF Remove, Insert
<1>3. card' \in Cards /\ (card'.state = "absent" \/ (card'.state = "idle" /\ ~card'.reset))
  <2>1. CASE Remove
    <3>1. card' = [card EXCEPT !.state = "absent"]
      BY <2>1 DEF Remove
    <3> QED
      BY <1>1, <3>1 DEF Cards, States
  <2>2. CASE Insert
    <3>1. card' \in Inserted
      BY <2>2 DEF Insert
    <3> QED
      BY <3>1, InsertedCards
  <2> QED
    BY <2>1, <2>2
<1>4. TypeOK'
  BY <1>1, <1>2, <1>3 DEF TypeOK
<1>5. Placed(card)'
  BY <1>3 DEF Placed
<1>6. Widened'
  BY <1>1, <1>2, <1>3 DEF Widened, OnLanes
<1>7. Ready'
  BY <1>1, <1>2, <1>3 DEF Ready, Present
<1>8. Tracked'
  BY <1>3 DEF Tracked, Fit, Present
<1>9. Ahead'
  BY <1>1, <1>2 DEF Ahead
<1>10. StuckOnlyWithout'
  <2>1. StuckOnlyWithout
    BY DEF IInv
  <2> QED
    BY <1>2, <1>3, <2>1 DEF StuckOnlyWithout
<1> QED
  BY <1>4, <1>5, <1>6, <1>7, <1>8, <1>9, <1>10 DEF IInv

-----------------------------------------------------------------------------
(* The theorems *)

\* At power-up no card was reset yet.
LEMMA InitIInv == Init => IInv
<1> SUFFICES ASSUME Init PROVE IInv
  OBVIOUS
<1>1. pc = "init" /\ step = 1 /\ card \in Inserted
  BY DEF Init
<1>2. card \in Cards /\ card.state = "idle" /\ ~card.reset
  BY <1>1, InsertedCards
<1>3. host \in Hosts
  <2>1. PICK b \in BOOLEAN : host = [read |-> FALSE, wide |-> FALSE, blksize |-> 0, shown |-> b]
    BY DEF Init
  <2> QED
    BY <2>1 DEF Hosts
<1>4. job \in [sector : Nat, left : Nat, piece : Nat]
  BY DEF Init, NoJob
<1>5. buffer = [p \in 1 .. MaxCount |-> buffer[p]]
  BY DEF Init, EmptyBuffer
<1>6. TypeOK
  BY <1>1, <1>2, <1>3, <1>4, <1>5 DEF Init, TypeOK
<1>7. Placed(card) /\ Widened /\ Ready /\ Tracked /\ Ahead /\ StuckOnlyWithout
  BY <1>1, <1>2 DEF Placed, Widened, OnLanes, Ready, Tracked, Fit, Ahead, StuckOnlyWithout
<1> QED
  BY <1>6, <1>7 DEF IInv

\* Every step keeps the invariant.
LEMMA NextIInv == IInv /\ [Next]_vars => IInv'
<1> SUFFICES ASSUME IInv, [Next]_vars PROVE IInv'
  OBVIOUS
<1>1. CASE SoftwareReset \/ HostControl
  BY <1>1, KeptByControl
<1>2. CASE InitCommand
  BY <1>2, KeptByCommand
<1>3. CASE BlockLength \/ ReadBlock
  BY <1>3, KeptByRead
<1>4. CASE \/ \E sector \in Sectors, count \in 1 .. MaxCount : disk_read(sector, count)
           \/ disk_initialize
  BY <1>4, KeptByDisk
<1>5. CASE Remove \/ Insert
  BY <1>5, KeptBySlot
<1>6. CASE UNCHANGED vars
  <2>1. TypeOK' /\ Placed(card)' /\ StuckOnlyWithout'
    BY <1>6 DEF vars, IInv, TypeOK, Placed, StuckOnlyWithout
  <2>2. Widened' /\ Ready' /\ Ahead'
    BY <1>6 DEF vars, IInv, Widened, OnLanes, Ready, Present, Ahead
  <2>3. Tracked'
    BY <1>6 DEF vars, IInv, Tracked, Fit, Present, OnTrack
  <2> QED
    BY <2>1, <2>2, <2>3 DEF IInv
<1> QED
  BY <1>1, <1>2, <1>3, <1>4, <1>5, <1>6, Zenon DEF Next

\* The invariant holds of every run, for any cards, sectors and length of a read.
THEOREM Inductive == Spec => []IInv
<1> QED
  BY InitIInv, NextIInv, PTL DEF Spec

\* init_sd leaves the card it began with selected and the bus on four lanes at both
\* ends, whenever the card was put in or taken out on the way.
THEOREM InitialisedIsReadyHolds == Spec => []InitialisedIsReady
<1>1. IInv => InitialisedIsReady
  <2> SUFFICES ASSUME IInv, pc \in {"blocklen", "read", "idle"}, card.state # "absent", card.reset
               PROVE  card.state = "tran" /\ card.wide /\ host.wide
    BY DEF InitialisedIsReady
  <2> QED
    BY DEF IInv, Ready, Present
<1> QED
  BY <1>1, Inductive, PTL

\* Where the driver sees the hosts finish, a card that is not swapped, is ready within
\* 42 questions and is at the address of the trace never leaves it at its poll; where
\* it does not, as in this SoC (minion_soc.sv:625) and with hosts nobody took out of
\* reset (minion_helper.c:513), it never passes its first command.
THEOREM StuckOnlyWithoutHolds == Spec => []StuckOnlyWithout
<1>1. IInv => StuckOnlyWithout
  BY DEF IInv
<1> QED
  BY <1>1, Inductive, PTL

\* sd_read_sector puts the sector its command names, whole, or nothing into its piece.
THEOREM SectorExactHolds == Spec => SectorExact
<1>1. ASSUME IInv, [Next]_vars, pc = "read", job' # job, job.piece > 0
      PROVE  buffer' = IF card.mute THEN buffer
                       ELSE [buffer EXCEPT ![job.piece] = Sector(job.sector)]
  <2>1. ReadBlock
    BY <1>1, Zenon DEF Next, vars, SoftwareReset, HostControl, InitCommand, BlockLength,
                       disk_read, disk_initialize, Remove, Insert
  <2>2. TypeOK /\ Ready /\ Ahead /\ job.piece # 0 /\ host.shown
    BY <1>1 DEF IInv, TypeOK, StuckOnlyWithout
  <2> QED
    BY <1>1, <2>1, <2>2, ReadStep
<1>2. IInv /\ [Next]_vars =>
        [pc = "read" /\ job' # job /\ job.piece > 0 =>
           buffer' = IF card.mute THEN buffer
                     ELSE [buffer EXCEPT ![job.piece] = Sector(job.sector)]]_vars
  BY <1>1
<1> QED
  BY <1>2, Inductive, PTL DEF Spec, SectorExact
=============================================================================
