----------------------------- MODULE NetBootProofs -----------------------------
(***************************************************************************)
(* Proofs about a boot over the network: for every memory size, set of     *)
(* files and bounds                                                        *)
(*   ListsAndTriggers   no trigger is walked twice (OneListPerTrigger);    *)
(*   SlotsWritten       what is taken for a slot was written as one        *)
(*                      (OnlyWrittenSlots);                                *)
(*   WholeProgram       the program called is the one asked for            *)
(*                      (BootExact).                                       *)
(* All three for files whose loaded sections leave the slots alone         *)
(* (Clear), the last for files whose sections agree where they overlap     *)
(* (Separate).                                                             *)
(*                                                                         *)
(* The argument: no word on its way to the first slot is other than a      *)
(* boot's or 0 (Requests), so a list has at most one slot (Slots, List);   *)
(* in a run without trouble the core is at its poll (Alone), so that what  *)
(* was written stays as it is, in memory or on its way (Kept), until the   *)
(* trigger lands behind it; from there to the call the core finds it       *)
(* (Carried).                                                              *)
(***************************************************************************)
EXTENDS NetBoot, TLAPS

\* What the pointer of a slot can be.
Entries == Image \cup {0}

\* What a word on its way to the first two slots can be.
Fits(a, v) == /\ a = Slot(0) => v \in {0, edcl_mode_bootstrap}
              /\ a = Slot(0) + 1 => v \in Entries
              /\ a \in {Slot(1), Slot(1) + 1} => v = 0

Requests == {w \in [a : 0 .. SHM - 1, v : Int] : Fits(w.a, w.v)}

MemoryOK ==
  /\ shm \in [0 .. SHM - 1 -> Int] /\ code \in [Entries -> Int]
  /\ pc \in {"poll", "hello", "ptr", "mode", "access", "copy", "run", "count", "clear", "end"}
  /\ i \in 0 .. 2 /\ addr2 \in Entries /\ copied \in IMAGE .. SHM

ToolOK ==
  /\ file \in Files /\ section \in Nat \ {0} /\ offset \in Nat
  /\ tool \in {"load", "verify", "init", "slot", "readback", "trigger", "done"}

WayOK == pend \in Seq(Requests) /\ stray \in Nat

Booleans == trouble \in BOOLEAN /\ everTrouble \in BOOLEAN /\ crossed \in BOOLEAN

CountersOK == fresh \in SUBSET Files /\ lists \in Nat /\ triggers \in Nat /\ resets \in Nat

TypeOK == MemoryOK /\ ToolOK /\ WayOK /\ Booleans /\ CountersOK

\* The tool is in a section of its file, or past the last.
AtSection == /\ tool \in {"load", "verify", "init"} => section \in 1 .. Len(Sections)
             /\ tool \in {"load", "verify"} => Here.load /\ offset = 0
             /\ tool = "init" => ~Here.load /\ offset < Len(Here.data)
             /\ tool \in {"slot", "readback", "trigger"} => section = Len(Sections) + 1

\* A list has one slot that is not empty, the first.
Slots == /\ shm[Slot(0)] \in {0, 1, 2, edcl_mode_bootstrap} /\ shm[Slot(0) + 1] \in Entries
         /\ shm[Slot(1)] = 0 /\ shm[Slot(1) + 1] = 0

List == /\ pc \in {"ptr", "mode"} => i \in {0, 1}
        /\ pc \in {"access", "copy", "run"} => i = 0
        /\ pc = "count" => i \in {1, 2}
        /\ pc = "copy" => copied < SHM

\* A trigger is there, or taken, whose list has not begun.
Owed == IF pc = "hello" \/ (pc = "poll" /\ shm[last] = GO) THEN 1 ELSE 0

Counts == lists + Owed <= triggers + resets

-----------------------------------------------------------------------------
(* The slots *)

\* The core polls, or the tool and its words are out of its way.
Alone == pc = "poll" \/ (tool = "done" /\ pend = <<>>)
Ghosts == /\ trouble => everTrouble
          /\ ~crossed \/ ~trouble \/ ~everTrouble => Alone

\* The word before the k-th on its way, or the one that landed last, is a slot's mode.
Behind(k) == IF k = 1 THEN shm[Slot(0)] = edcl_mode_bootstrap
             ELSE pend[k - 1].a = Slot(0) /\ pend[k - 1].v = edcl_mode_bootstrap
Ordered == ~crossed => \A k \in 1 .. Len(pend) :
             pend[k].a = Slot(0) + 1 /\ pend[k].v # 0 => Behind(k)

\* A count in the place of a mode has no pointer.
AMode == shm[Slot(0)] \in {0, edcl_mode_bootstrap}
NoPointer == ~crossed => /\ pc # "clear" /\ ~AMode => shm[Slot(0) + 1] = 0
                         /\ pc = "mode" /\ i = 0 /\ ~AMode => addr2 = 0
                         /\ pc = "access" => addr2 = 0

\* A list without trouble begins with the slot that was written.
Triggered == (pc = "poll" /\ shm[last] = GO) \/ pc = "hello" \/ (pc \in {"ptr", "mode"} /\ i = 0)
Written == ~everTrouble =>
             /\ tool = "done" /\ pend = <<>> /\ Triggered => shm[Slot(0)] = edcl_mode_bootstrap
             /\ pc # "access"

-----------------------------------------------------------------------------
(* The image *)

\* An address has its word, or gets it from what is on its way, and nothing else comes there.
Wanted(a, v) == shm[a] = v \/ \E k \in 1 .. Len(pend) : pend[k].a = a
Kept(a, v) == /\ Wanted(a, v)
              /\ \A k \in 1 .. Len(pend) : pend[k].a = a => pend[k].v = v

\* The k-th word of section n was sent.
Due(n, k) == n < section \/ (n = section /\ (tool = "verify" \/ (tool = "init" /\ k <= offset)))

\* A run without trouble is not over.
Busy == ~trouble /\ (tool # "done" \/ pend # <<>>)

\* Once sent, the slot is kept; the trigger is sent last.
SlotLoading == Busy =>
  /\ stray = 0
  /\ tool \in {"readback", "trigger", "done"} =>
       /\ section = Len(Sections) + 1
       /\ Kept(Slot(0), edcl_mode_bootstrap) /\ Kept(Slot(0) + 1, file.entry)
  /\ tool = "done" => \A k \in 1 .. Len(pend) : pend[k].a \in Slot(edcl_max) .. last

\* Once sent, the words of the image are kept.
ImageLoading == Busy =>
  \A n \in 1 .. Len(Sections) : \A k \in 1 .. Len(Sections[n].data) :
    Due(n, k) /\ Target(Sections[n], k) \in Image =>
      Kept(Target(Sections[n], k), Sections[n].data[k])

\* What holds for a file that was triggered, from there to the call of its program.
Carried(f) ==
  /\ \A n \in 1 .. Len(f.sections) : Holds(shm, f.sections[n])
  /\ pc \in {"poll", "hello"} \/ (pc \in {"ptr", "mode"} /\ i = 0) =>
       shm[Slot(0)] = edcl_mode_bootstrap /\ shm[Slot(0) + 1] = f.entry
  /\ pc \in {"copy", "run"} \/ (pc = "mode" /\ i = 0) => addr2 = f.entry
  /\ pc = "copy" => \A a \in IMAGE .. copied - 1 : code[a] = shm[a]
  /\ pc = "run" => \A a \in Image : code[a] = shm[a]
  /\ pc # "access"

Fresh == \A f \in fresh : Carried(f)

-----------------------------------------------------------------------------
(* Addresses, files and words *)

LEMMA Numbers ==
  /\ edcl_max \in Nat /\ edcl_max >= 2 /\ IMAGE \in Nat /\ SHM \in Nat
  /\ last = 4 * edcl_max + 3 /\ last >= 11 /\ last < IMAGE /\ IMAGE < SHM
  /\ Slot(0) = 0 /\ Slot(1) = 4 /\ Slot(2) = 8 /\ Slot(edcl_max) = 4 * edcl_max
BY MailboxAssumption DEF last, Slot

LEMMA Modulo ==
  ASSUME NEW n \in Nat \ {0}, NEW a \in Nat
  PROVE  a % n \in 0 .. n - 1 /\ (a < n => a % n = a)
OBVIOUS

LEMMA Places ==
  ASSUME NEW a \in Nat
  PROVE  Place(a) \in 0 .. SHM - 1 /\ (a < SHM => Place(a) = a)
<1>1. SHM \in Nat \ {0}
  BY Numbers
<1> QED BY <1>1, Modulo DEF Place

\* A file's sections and their words.
LEMMA FileShape ==
  ASSUME NEW f \in Files
  PROVE  /\ f.entry \in Image /\ Len(f.sections) \in Nat /\ Len(f.sections) >= 1
         /\ \A n \in 1 .. Len(f.sections) : f.sections[n] \in Section
<1>1. f.entry \in Image /\ f.sections \in Seq(Section) \ {<<>>}
  BY FilesAssumption
<1>2. Len(f.sections) \in Nat /\ \A n \in 1 .. Len(f.sections) : f.sections[n] \in Section
  BY <1>1
<1>3. Len(f.sections) # 0
  BY <1>1
<1> QED BY <1>1, <1>2, <1>3

LEMMA SectionShape ==
  ASSUME NEW s \in Section
  PROVE  /\ s.load \in BOOLEAN /\ s.addr \in Nat /\ s.data \in Seq(Int)
         /\ Len(s.data) \in Nat /\ Len(s.data) >= 1
         /\ \A k \in 1 .. Len(s.data) : /\ s.data[k] \in Int /\ s.addr + k - 1 \in Nat
                                        /\ Target(s, k) \in 0 .. SHM - 1
<1>1. s.load \in BOOLEAN /\ s.addr \in Nat /\ s.data \in Seq(Int) /\ s.data # <<>>
  BY DEF Section
<1>2. Len(s.data) \in Nat /\ Len(s.data) # 0 /\ \A k \in 1 .. Len(s.data) : s.data[k] \in Int
  BY <1>1
<1>3. \A k \in 1 .. Len(s.data) : s.addr + k - 1 \in Nat
  BY <1>1, <1>2
<1>4. \A k \in 1 .. Len(s.data) : Target(s, k) \in 0 .. SHM - 1
  BY <1>3, Places DEF Target
<1> QED BY <1>1, <1>2, <1>3, <1>4

LEMMA Zeroed ==
  ASSUME NEW f \in Files, NEW n \in 1 .. Len(f.sections), ~f.sections[n].load,
         NEW k \in 1 .. Len(f.sections[n].data)
  PROVE  f.sections[n].data[k] = 0
BY FilesAssumption

\* The words of a call, one by one.
LEMMA WordsAre ==
  ASSUME NEW addr \in Nat, NEW data \in Seq(Int),
         \A k \in 1 .. Len(data) : Fits(Place(addr + k - 1), data[k])
  PROVE  /\ Words(addr, data) \in Seq(Requests) /\ Len(Words(addr, data)) = Len(data)
         /\ \A k \in 1 .. Len(data) : /\ Words(addr, data)[k].a = Place(addr + k - 1)
                                      /\ Words(addr, data)[k].v = data[k]
<1> DEFINE word(k) == [a |-> Place(addr + k - 1), v |-> data[k]]
<1>1. Len(data) \in Nat /\ \A k \in 1 .. Len(data) : data[k] \in Int /\ addr + k - 1 \in Nat
  OBVIOUS
<1>2. \A k \in 1 .. Len(data) : word(k) \in Requests
  <2> SUFFICES ASSUME NEW k \in 1 .. Len(data) PROVE word(k) \in Requests
    OBVIOUS
  <2>1. Place(addr + k - 1) \in 0 .. SHM - 1 /\ data[k] \in Int
    BY <1>1, Places
  <2> QED BY <2>1 DEF Requests
<1>3. Words(addr, data) = [k \in 1 .. Len(data) |-> word(k)]
  BY DEF Words
<1> HIDE DEF word
<1>4. Words(addr, data) \in Seq(Requests) /\ Len(Words(addr, data)) = Len(data)
  BY <1>1, <1>2, <1>3
<1>5. \A k \in 1 .. Len(data) : Words(addr, data)[k] = word(k)
  BY <1>3
<1>6. \A k \in 1 .. Len(data) : word(k).a = Place(addr + k - 1) /\ word(k).v = data[k]
  BY DEF word
<1> QED BY <1>4, <1>5, <1>6

\* No loaded section of a file comes to the first two slots.
Clear == \A f \in Files : ClearOfSlots(f)

LEMMA LoadWords ==
  ASSUME Clear, NEW f \in Files, NEW n \in 1 .. Len(f.sections), f.sections[n].load
  PROVE  \A k \in 1 .. Len(f.sections[n].data) :
           /\ Target(f.sections[n], k) >= 8
           /\ Fits(Place(f.sections[n].addr + k - 1), f.sections[n].data[k])
<1> SUFFICES ASSUME NEW k \in 1 .. Len(f.sections[n].data)
             PROVE  /\ Target(f.sections[n], k) >= 8
                    /\ Fits(Place(f.sections[n].addr + k - 1), f.sections[n].data[k])
  OBVIOUS
<1>1. f.sections[n] \in Section
  BY FileShape
<1>2. Target(f.sections[n], k) >= 8
  BY Numbers DEF Clear, ClearOfSlots
<1>3. Place(f.sections[n].addr + k - 1) \in 0 .. SHM - 1 /\ Place(f.sections[n].addr + k - 1) >= 8
  BY <1>1, <1>2, SectionShape DEF Target
<1>4. Fits(Place(f.sections[n].addr + k - 1), f.sections[n].data[k])
  BY <1>3, Numbers DEF Fits
<1> QED BY <1>2, <1>4

LEMMA ZeroWords ==
  ASSUME NEW a \in Nat
  PROVE  /\ << 0 >> \in Seq(Int) /\ Len(<< 0 >>) = 1
         /\ \A k \in 1 .. Len(<< 0 >>) : << 0 >>[k] = 0 /\ Fits(Place(a + k - 1), << 0 >>[k])
<1>1. \A p : Fits(p, 0)
  BY Numbers DEF Fits, Entries
<1>2. << 0 >> \in Seq(Int) /\ Len(<< 0 >>) = 1 /\ \A k \in 1 .. Len(<< 0 >>) : << 0 >>[k] = 0
  OBVIOUS
<1> QED BY <1>1, <1>2

LEMMA EtransIs ==
  ASSUME file \in Files
  PROVE  /\ Etrans \in Seq(Int) /\ Len(Etrans) = 4 /\ 1 .. Len(Etrans) = 1 .. 4
         /\ Etrans[1] = 4 /\ Etrans[2] = file.entry /\ Etrans[3] = 0 /\ Etrans[4] = GO
         /\ file.entry \in Image /\ file.entry \in Int /\ file.entry # 0
<1>1. file.entry \in Image
  BY FileShape
<1>2. file.entry \in Int /\ file.entry # 0
  BY <1>1, Numbers DEF Image
<1>3. Etrans = <<4, file.entry, 0, GO>>
  BY DEF Etrans, edcl_mode_bootstrap
<1>4. GO \in Int
  BY DEF GO
<1> QED BY <1>1, <1>2, <1>3, <1>4

LEMMA EtransAt ==
  ASSUME file \in Files, NEW n \in {0, edcl_max}
  PROVE  \A k \in 1 .. Len(Etrans) : /\ Place(Slot(n) + k - 1) = Slot(n) + k - 1
                                     /\ Fits(Place(Slot(n) + k - 1), Etrans[k])
<1> SUFFICES ASSUME NEW k \in 1 .. 4
             PROVE  /\ Place(Slot(n) + k - 1) = Slot(n) + k - 1
                    /\ Fits(Place(Slot(n) + k - 1), Etrans[k])
  BY EtransIs
<1>1. Slot(n) \in Nat /\ Slot(n) + 3 < SHM /\ (n = 0 => Slot(n) = 0) /\ (n # 0 => Slot(n) >= 8)
  BY Numbers DEF Slot
<1>2. Place(Slot(n) + k - 1) = Slot(n) + k - 1
  <2>1. PICK a : a = Slot(n) + k - 1
    OBVIOUS
  <2>2. a \in Nat /\ a < SHM
    BY <1>1, <2>1, Numbers
  <2>3. Place(a) = a
    BY <2>2, Places
  <2> QED BY <2>1, <2>3
<1>3. CASE n # 0
  BY <1>1, <1>2, <1>3, Numbers DEF Fits
<1>4. CASE n = 0
  BY <1>1, <1>2, <1>4, EtransIs, Numbers DEF Fits, Entries, edcl_mode_bootstrap
<1> QED BY <1>2, <1>3, <1>4

-----------------------------------------------------------------------------
(* What a call puts on its way *)

\* pend' is pend and the first n words of ws.
Appended(ws, n) ==
  /\ Len(pend') = Len(pend) + n
  /\ \A k \in 1 .. Len(pend) : pend'[k] = pend[k]
  /\ \A k \in 1 .. n : pend'[Len(pend) + k] = ws[k]

LEMMA PartAppended ==
  ASSUME NEW ws \in Seq(Requests), pend \in Seq(Requests),
         NEW n \in 0 .. Len(ws), pend' = pend \o SubSeq(ws, 1, n)
  PROVE  pend' \in Seq(Requests) /\ Appended(ws, n)
<1>1. SubSeq(ws, 1, n) \in Seq(Requests) /\ Len(SubSeq(ws, 1, n)) = n
  OBVIOUS
<1>2. \A k \in 1 .. n : SubSeq(ws, 1, n)[k] = ws[k]
  OBVIOUS
<1>3. PICK p : p = SubSeq(ws, 1, n)
  OBVIOUS
<1>4. p \in Seq(Requests) /\ Len(p) = n /\ (\A k \in 1 .. n : p[k] = ws[k]) /\ pend' = pend \o p
  BY <1>1, <1>2, <1>3
<1>5. Len(pend) \in Nat /\ Len(pend') = Len(pend) + n
  BY <1>4
<1>6. \A k \in 1 .. Len(pend) : pend'[k] = pend[k]
  BY <1>4, <1>5
<1>7. \A k \in 1 .. n : pend'[Len(pend) + k] = p[k]
  BY <1>4, <1>5
<1> QED BY <1>4, <1>5, <1>6, <1>7 DEF Appended

LEMMA WholeAppended ==
  ASSUME NEW ws \in Seq(Requests), pend = <<>>, pend' = ws
  PROVE  pend' \in Seq(Requests) /\ Appended(ws, Len(ws)) /\ Len(ws) \in 0 .. Len(ws)
<1>1. Len(pend) = 0 /\ Len(ws) \in Nat
  OBVIOUS
<1> QED BY <1>1 DEF Appended

LEMMA CallWriteAppends ==
  ASSUME NEW ws \in Seq(Requests), pend \in Seq(Requests), stray \in Nat, CallWrite(ws)
  PROVE  /\ pend' \in Seq(Requests) /\ stray' \in Nat
         /\ \E n \in 0 .. Len(ws) : /\ Appended(ws, n)
                                    /\ tool # "load" => n \in {0, Len(ws)}
<1>1. CASE pend = <<>> /\ pend' = ws /\ UNCHANGED stray
  BY <1>1, WholeAppended
<1>2. CASE FirstPart(ws) /\ stray' \in {stray, stray + 1, stray - 1} /\ stray' >= 0
  <2>1. PICK n \in Cuts(ws) : pend' = pend \o SubSeq(ws, 1, n)
    BY <1>2 DEF FirstPart
  <2>2. n \in 0 .. Len(ws) /\ (tool # "load" => n \in {0, Len(ws)})
    BY <2>1 DEF Cuts
  <2>3. pend' \in Seq(Requests) /\ Appended(ws, n)
    BY <2>1, <2>2, PartAppended
  <2>4. stray' \in Nat
    BY <1>2
  <2> QED BY <2>2, <2>3, <2>4
<1>3. CASE stray > 0 /\ stray' = stray - 1 /\ FirstPart(ws)
  <2>1. stray' >= 0
    BY <1>3
  <2> QED BY <1>2, <1>3, <2>1
<1>4. CASE stray' \in {stray, stray + 1} /\ FirstPart(ws)
  <2>1. stray' >= 0
    BY <1>4
  <2> QED BY <1>2, <1>4, <2>1
<1> QED BY <1>1, <1>3, <1>4 DEF CallWrite

LEMMA CallReadKeeps ==
  ASSUME NEW ok \in BOOLEAN, stray \in Nat, CallRead(ok)
  PROVE  pend' = pend /\ stray' \in Nat
<1>1. pend' = pend /\ (stray' = stray \/ stray' \in {stray, stray + 1} \/ (stray > 0 /\ stray' = stray - 1))
  BY Zenon DEF CallRead
<1> QED BY <1>1

\* In a run without trouble a call is done when it returns.
LEMMA CleanWrite ==
  ASSUME NEW ws, CallWrite(ws), stray = 0, ~trouble'
  PROVE  pend = <<>> /\ pend' = ws /\ stray' = stray
<1>1. ~(stray > 0)
  OBVIOUS
<1>2. ~Note(TRUE)
  BY Zenon DEF Note
<1> QED BY <1>1, <1>2, Zenon DEF CallWrite

LEMMA CleanRead ==
  ASSUME NEW ok \in BOOLEAN, CallRead(ok), stray = 0, ~trouble'
  PROVE  pend = <<>> /\ pend' = <<>> /\ stray' = stray /\ ok
<1>1. ~(stray > 0)
  OBVIOUS
<1>2. ~Note(TRUE) /\ (Note(~ok) => ok)
  BY Zenon DEF Note
<1>3. pend = <<>> /\ pend' = pend /\ stray' = stray /\ Note(~ok)
  BY <1>1, <1>2, Zenon DEF CallRead
<1> QED BY <1>2, <1>3

\* What the three ghosts make of a step.
Marks == /\ trouble' \in BOOLEAN /\ everTrouble' \in BOOLEAN /\ crossed' \in BOOLEAN
         /\ ~crossed' => ~crossed /\ ~Crossing
         /\ ~everTrouble' => ~everTrouble /\ ~Crossing
         /\ ~trouble' => ~Crossing
         /\ (trouble => everTrouble) => (trouble' => everTrouble')

LEMMA NoteMarks ==
  ASSUME Booleans, NEW b \in BOOLEAN, Note(b)
  PROVE  Marks /\ (~trouble' => ~trouble /\ ~b)
<1> DEFINE c == pc' # "poll" /\ (tool' # "done" \/ pend' # <<>>)
<1>1. c \in BOOLEAN /\ (Crossing <=> c)
  BY Zenon DEF Crossing
<1> HIDE DEF c
<1> QED BY <1>1 DEF Note, Booleans, Marks

LEMMA CallMarks ==
  ASSUME Booleans, NEW ok \in BOOLEAN, NEW ws, CallWrite(ws) \/ CallRead(ok)
  PROVE  Marks /\ (~trouble' => ~trouble)
<1>1. PICK b \in BOOLEAN : Note(b)
  BY DEF CallWrite, CallRead
<1> QED BY <1>1, NoteMarks

-----------------------------------------------------------------------------
(* The tool's steps *)

\* A pointer other than 0 for the first slot comes right behind its mode.
Paired(ws) == \A k \in 1 .. Len(ws) : ws[k].a = Slot(0) + 1 /\ ws[k].v # 0 =>
                k # 1 /\ ws[k - 1].a = Slot(0) /\ ws[k - 1].v = edcl_mode_bootstrap

Call == \/ \E ws \in Seq(Requests) : Paired(ws) /\ CallWrite(ws)
        \/ \E ok \in BOOLEAN : CallRead(ok)

LEMMA LoadIsCall ==
  ASSUME Clear, ToolOK, section \in 1 .. Len(Sections), Here.load
  PROVE  Words(Here.addr, Here.data) \in Seq(Requests) /\ Paired(Words(Here.addr, Here.data))
<1>1. file \in Files /\ section \in 1 .. Len(file.sections) /\ Here = file.sections[section]
  BY DEF ToolOK, Sections, Here
<1>2. Here \in Section
  BY <1>1, FileShape
<1>3. Here.addr \in Nat /\ Here.data \in Seq(Int)
  BY <1>2, SectionShape
<1>4. \A k \in 1 .. Len(Here.data) :
        Target(Here, k) >= 8 /\ Fits(Place(Here.addr + k - 1), Here.data[k])
  BY <1>1, LoadWords
<1>5. PICK ws : ws = Words(Here.addr, Here.data)
  OBVIOUS
<1>6. /\ ws \in Seq(Requests) /\ Len(ws) = Len(Here.data)
      /\ \A k \in 1 .. Len(Here.data) : ws[k].a = Place(Here.addr + k - 1)
  BY <1>3, <1>4, <1>5, WordsAre
<1>7. \A k \in 1 .. Len(ws) : ws[k].a >= 8
  BY <1>4, <1>6 DEF Target
<1>8. Paired(ws)
  BY <1>7, Numbers DEF Paired
<1> QED BY <1>5, <1>6, <1>8

LEMMA InitIsCall ==
  ASSUME NEW a \in Nat
  PROVE  Words(a, << 0 >>) \in Seq(Requests) /\ Paired(Words(a, << 0 >>))
<1>1. PICK data : data = << 0 >>
  OBVIOUS
<1>2. data \in Seq(Int) /\ Len(data) = 1
      /\ \A k \in 1 .. Len(data) : data[k] = 0 /\ Fits(Place(a + k - 1), data[k])
  BY <1>1, ZeroWords
<1>3. PICK ws : ws = Words(a, data)
  OBVIOUS
<1>4. ws \in Seq(Requests) /\ Len(ws) = 1 /\ \A k \in 1 .. 1 : ws[k].v = data[k]
  BY <1>2, <1>3, WordsAre
<1>5. \A k \in 1 .. Len(ws) : ws[k].v = 0
  BY <1>2, <1>4
<1>6. Paired(ws)
  BY <1>5 DEF Paired
<1> QED BY <1>1, <1>3, <1>4, <1>6

\* The words of a slot.
LEMMA EtransWords ==
  ASSUME file \in Files, NEW n \in {0, edcl_max}
  PROVE  /\ Words(Slot(n), Etrans) \in Seq(Requests) /\ Len(Words(Slot(n), Etrans)) = 4
         /\ \A k \in 1 .. 4 : /\ Words(Slot(n), Etrans)[k].a = Slot(n) + k - 1
                              /\ Words(Slot(n), Etrans)[k].v = Etrans[k]
<1>1. Slot(n) \in Nat
  BY Numbers DEF Slot
<1>2. Etrans \in Seq(Int) /\ Len(Etrans) = 4
  BY EtransIs
<1>3. \A k \in 1 .. Len(Etrans) : Place(Slot(n) + k - 1) = Slot(n) + k - 1
                                  /\ Fits(Place(Slot(n) + k - 1), Etrans[k])
  BY EtransAt
<1>4. PICK d : d = Etrans
  OBVIOUS
<1>5. PICK ws : ws = Words(Slot(n), d)
  OBVIOUS
<1>6. /\ ws \in Seq(Requests) /\ Len(ws) = Len(d)
      /\ \A k \in 1 .. Len(d) : ws[k].a = Place(Slot(n) + k - 1) /\ ws[k].v = d[k]
  BY <1>1, <1>2, <1>3, <1>4, <1>5, WordsAre
<1> QED BY <1>2, <1>3, <1>4, <1>5, <1>6

LEMMA SlotIsCall ==
  ASSUME file \in Files, NEW n \in {0, edcl_max}
  PROVE  Words(Slot(n), Etrans) \in Seq(Requests) /\ Paired(Words(Slot(n), Etrans))
<1>1. PICK ws : ws = Words(Slot(n), Etrans)
  OBVIOUS
<1>2. /\ ws \in Seq(Requests) /\ Len(ws) = 4
      /\ \A k \in 1 .. 4 : ws[k].a = Slot(n) + k - 1 /\ ws[k].v = Etrans[k]
  BY <1>1, EtransWords
<1>3. Slot(n) \in Nat /\ (n = 0 => Slot(n) = 0) /\ (n # 0 => Slot(n) >= 8)
  BY Numbers DEF Slot
<1>4. Etrans[1] = edcl_mode_bootstrap
  BY EtransIs DEF edcl_mode_bootstrap
<1>5. Paired(ws)
  <2> SUFFICES ASSUME NEW k \in 1 .. 4, ws[k].a = 1
               PROVE  k # 1 /\ ws[k - 1].a = 0 /\ ws[k - 1].v = edcl_mode_bootstrap
    BY <1>2, Numbers DEF Paired
  <2>0. ws[k].a = Slot(n) + k - 1 /\ (Slot(n) = 0 \/ Slot(n) >= 8)
    BY <1>2, <1>3
  <2>1. Slot(n) = 0 /\ k = 2
    BY <1>3, <2>0
  <2> QED BY <1>2, <1>3, <1>4, <2>1
<1> QED BY <1>1, <1>2, <1>5

\* The section after the one the tool is at, or the slot.
LEMMA NextSection ==
  ASSUME ToolOK, section \in 1 .. Len(Sections), section' = section + 1, At(section + 1),
         file' = file, offset' = 0
  PROVE  ToolOK' /\ AtSection'
<1>1. file \in Files /\ Len(Sections) \in Nat /\ section \in Nat \ {0}
  BY FileShape DEF ToolOK, Sections
<1>2. Sections' = Sections
  BY DEF Sections
<1>3. CASE section + 1 > Len(Sections)
  <2>1. tool' = "slot" /\ section + 1 = Len(Sections) + 1
    BY <1>1, <1>3 DEF At
  <2> QED BY <1>1, <1>2, <2>1 DEF ToolOK, AtSection
<1>4. CASE ~(section + 1 > Len(Sections))
  <2>1. section + 1 \in 1 .. Len(Sections)
    BY <1>1, <1>4
  <2>2. Sections[section + 1] \in Section
    BY <1>1, <2>1, FileShape DEF Sections
  <2>3. Here' = Sections[section + 1]
    BY <1>2 DEF Here
  <2>4. Here' \in Section /\ Len(Here'.data) \in Nat /\ Len(Here'.data) >= 1
    BY <2>2, <2>3, SectionShape
  <2>5. tool' = IF Here'.load THEN "load" ELSE "init"
    BY <1>4, <2>3 DEF At
  <2>6. AtSection'
    BY <1>2, <2>1, <2>4, <2>5 DEF AtSection
  <2> QED BY <1>1, <2>5, <2>6 DEF ToolOK
<1> QED BY <1>3, <1>4

Elsewhere == <<shm, code, core, ghosts, resets>>

LEMMA ToolCalls ==
  ASSUME Clear, ToolOK, AtSection, Tool
  PROVE  Call /\ ToolOK' /\ AtSection' /\ UNCHANGED Elsewhere /\ UNCHANGED file
<1>0. UNCHANGED Elsewhere /\ UNCHANGED file
  BY DEF Tool, LoadMemory, Verify, InitMemory, WriteSlot, ReadBack, WriteTrigger, Outside, Elsewhere
<1>1. CASE LoadMemory
  <2>1. Call
    BY <1>1, LoadIsCall DEF LoadMemory, AtSection, Call
  <2>2. tool = "load" /\ tool' = "verify" /\ UNCHANGED <<file, section, offset>>
    BY <1>1 DEF LoadMemory
  <2>3. ToolOK' /\ AtSection'
    BY <2>2 DEF ToolOK, AtSection, Sections, Here
  <2> QED BY <1>0, <2>1, <2>3
<1>2. CASE Verify
  <2>1. InMemory(Here) \in BOOLEAN
    BY DEF InMemory
  <2>2. Call
    BY <1>2, <2>1 DEF Verify, Call
  <2>3. tool = "verify" /\ UNCHANGED <<file, offset>> /\ section' = section + 1 /\ At(section + 1)
    BY <1>2 DEF Verify
  <2>4. ToolOK' /\ AtSection'
    BY <2>3, NextSection DEF AtSection
  <2> QED BY <1>0, <2>2, <2>4
<1>3. CASE InitMemory
  <2>1. tool = "init" /\ section \in 1 .. Len(Sections) /\ offset < Len(Here.data) /\ ~Here.load
    BY <1>3 DEF InitMemory, AtSection
  <2>2. Here \in Section
    BY <2>1, FileShape DEF ToolOK, Here, Sections
  <2>3. Here.addr + offset \in Nat /\ Len(Here.data) \in Nat /\ offset \in Nat
    BY <2>2, SectionShape DEF ToolOK
  <2>4. Call
    BY <1>3, <2>3, InitIsCall DEF InitMemory, Call
  <2>5. CASE InitOver
    BY <1>0, <1>3, <2>1, <2>4, <2>5, NextSection DEF InitMemory
  <2>6. CASE ~InitOver
    <3>1. offset' = offset + 1 /\ UNCHANGED <<section, tool, file>>
      BY <1>3, <2>6 DEF InitMemory
    <3>2. offset + 1 < Len(Here.data)
      BY <2>3, <2>6 DEF InitOver
    <3>3. ToolOK' /\ AtSection'
      BY <2>1, <2>3, <3>1, <3>2 DEF ToolOK, AtSection, Here, Sections
    <3> QED BY <1>0, <2>4, <3>3
  <2> QED BY <2>5, <2>6
<1>4. CASE WriteSlot
  <2>1. Call
    BY <1>4, SlotIsCall DEF WriteSlot, Call, ToolOK
  <2>2. tool = "slot" /\ tool' = "readback" /\ UNCHANGED <<file, section, offset>>
    BY <1>4 DEF WriteSlot
  <2>3. ToolOK' /\ AtSection'
    BY <2>2 DEF ToolOK, AtSection, Sections, Here
  <2> QED BY <1>0, <2>1, <2>3
<1>5. CASE ReadBack
  <2>1. Call
    BY <1>5 DEF ReadBack, Call
  <2>2. tool = "readback" /\ tool' = "trigger" /\ UNCHANGED <<file, section, offset>>
    BY <1>5 DEF ReadBack
  <2>3. ToolOK' /\ AtSection'
    BY <2>2 DEF ToolOK, AtSection, Sections, Here
  <2> QED BY <1>0, <2>1, <2>3
<1>6. CASE WriteTrigger
  <2>1. Call
    BY <1>6, SlotIsCall DEF WriteTrigger, Call, ToolOK
  <2>2. tool = "trigger" /\ tool' = "done" /\ UNCHANGED <<file, section, offset>>
    BY <1>6 DEF WriteTrigger
  <2>3. ToolOK' /\ AtSection'
    BY <2>2 DEF ToolOK, AtSection, Sections, Here
  <2> QED BY <1>0, <2>1, <2>3
<1> QED BY <1>1, <1>2, <1>3, <1>4, <1>5, <1>6 DEF Tool

-----------------------------------------------------------------------------
(* The core's steps *)

\* What a step of the core leaves true, and what it does to the list that is owed.
Served == /\ MemoryOK' /\ Slots' /\ List'
          /\ pc = "hello" => Owed = 1 /\ Owed' = 0
          /\ pc # "hello" => Owed' <= Owed

LEMMA OwedIs == Owed \in {0, 1}
BY DEF Owed

LEMMA OwedNext ==
  Owed' = IF pc' = "hello" \/ (pc' = "poll" /\ shm'[last] = GO) THEN 1 ELSE 0
BY DEF Owed, last, Slot

LEMMA LowWords ==
  ASSUME NEW m \in [0 .. SHM - 1 -> Int]
  PROVE  \A n \in 0 .. last : n \in 0 .. SHM - 1 /\ m[n] \in Int
BY Numbers

\* A step of the core that writes no memory but leaves the list or walks on in it.
LEMMA QuietServed ==
  ASSUME MemoryOK, Slots, UNCHANGED <<shm, code>>,
         pc' \in {"hello", "ptr", "mode", "access", "copy", "run", "count", "clear", "end"},
         i' \in 0 .. 2, addr2' \in Entries, copied' \in IMAGE .. SHM, List',
         pc' = "hello" => Owed = 1, pc = "hello" => Owed = 1 /\ pc' # "hello"
  PROVE  Served
<1>1. Owed' = IF pc' = "hello" THEN 1 ELSE 0
  BY OwedNext
<1>2. MemoryOK'
  BY DEF MemoryOK
<1>3. Slots'
  BY DEF Slots, Slot, Entries
<1> QED BY <1>1, <1>2, <1>3, OwedIs DEF Served

LEMMA ServeKeeps ==
  ASSUME MemoryOK, Slots, List, Serve
  PROVE  Served
<1>0. /\ shm \in [0 .. SHM - 1 -> Int] /\ code \in [Entries -> Int]
      /\ i \in 0 .. 2 /\ addr2 \in Entries /\ copied \in IMAGE .. SHM
      /\ IMAGE \in IMAGE .. SHM /\ GO # 0 /\ 0 \in Entries /\ 0 \in Int
  BY Numbers DEF MemoryOK, GO, Entries
<1>1. CASE PollShm
  <2>1. pc = "poll" /\ pc' = "hello" /\ shm[last] = GO /\ UNCHANGED <<shm, code, i, addr2, mode, copied>>
    BY <1>1 DEF PollShm, Trigger
  <2>2. Owed = 1 /\ List'
    BY <2>1 DEF Owed, List
  <2> QED BY <1>0, <2>1, <2>2, QuietServed
<1>2. CASE Hello
  <2>1. pc = "hello" /\ pc' = "ptr" /\ i' = 0 /\ UNCHANGED <<shm, code, addr2, mode, copied>>
    BY <1>2 DEF Hello, FromZero
  <2>2. Owed = 1 /\ List' /\ i' \in 0 .. 2
    BY <2>1 DEF Owed, List
  <2> QED BY <1>0, <2>1, <2>2, QuietServed
<1>3. CASE ReadPtr
  <2>1. pc = "ptr" /\ pc' = "mode" /\ addr2' = shm[Slot(i) + 1] /\ UNCHANGED <<shm, code, i, mode, copied>>
    BY <1>3 DEF ReadPtr
  <2>2. i = 0 \/ i = 1
    BY <2>1 DEF List
  <2>3. addr2' \in Entries /\ List'
    BY <1>0, <2>1, <2>2 DEF Slots, List
  <2> QED BY <1>0, <2>1, <2>3, QuietServed
<1>4. CASE ReadMode
  <2>1. /\ pc = "mode" /\ mode' = shm[Slot(i)] /\ UNCHANGED <<shm, code, addr2>>
        /\ \/ mode' = 0 /\ pc' = "count" /\ i' = i + 1 /\ copied' = copied
           \/ mode' # 0 /\ pc' \in {"copy", "access"} /\ copied' = IMAGE /\ i' = i
    BY <1>4 DEF ReadMode
  <2>2. i = 0 \/ i = 1
    BY <2>1 DEF List
  <2>3. i = 1 => mode' = 0
    BY <2>1 DEF Slots
  <2>4. i' \in 0 .. 2 /\ IMAGE < SHM
    BY <2>1, <2>2, Numbers
  <2>5. copied' \in IMAGE .. SHM
    BY <1>0, <2>1
  <2>6. pc' = "count" => i' \in {1, 2}
    BY <2>1, <2>2
  <2>7. pc' # "count" => i' = 0 /\ copied' = IMAGE
    BY <2>1, <2>2, <2>3
  <2>8. List'
    BY <2>1, <2>4, <2>6, <2>7 DEF List
  <2> QED BY <1>0, <2>1, <2>4, <2>5, <2>8, QuietServed
<1>5. CASE Read
  <2>1. /\ pc = "access" /\ pc' = "ptr" /\ i' = i + 1 /\ UNCHANGED <<code, addr2, mode, copied>>
        /\ shm' = [shm EXCEPT ![Slot(i) + 3] = code[addr2]]
    BY <1>5 DEF Read, NextSlot
  <2>2. i = 0 /\ i' = 1 /\ code[addr2] \in Int /\ Slot(i) + 3 = 3
    BY <1>0, <2>1, Numbers DEF List
  <2>3. shm' = [shm EXCEPT ![3] = code[addr2]]
    BY <2>1, <2>2
  <2>4. shm' \in [0 .. SHM - 1 -> Int] /\ \A n \in {0, 1, 4, 5} : shm'[n] = shm[n]
    BY <1>0, <2>2, <2>3, Numbers
  <2>5. MemoryOK'
    BY <1>0, <2>1, <2>2, <2>4 DEF MemoryOK
  <2>6. Slots'
    BY <2>4, Numbers DEF Slots, Entries, Slot
  <2>7. List' /\ Owed' = 0
    BY <2>1, <2>2, OwedNext DEF List
  <2> QED BY <2>1, <2>5, <2>6, <2>7, OwedIs DEF Served
<1>6. CASE Write
  <2>1. /\ pc = "access" /\ pc' = "ptr" /\ i' = i + 1 /\ UNCHANGED <<shm, addr2, mode, copied>>
        /\ code' = [code EXCEPT ![addr2] = shm[Slot(i) + 3]]
    BY <1>6 DEF Write, NextSlot
  <2>2. i = 0 /\ i' = 1 /\ shm[Slot(i) + 3] \in Int
    BY <1>0, <2>1, Numbers, SMTT(40) DEF List
  <2>3. code' \in [Entries -> Int]
    BY <1>0, <2>1, <2>2
  <2>4. MemoryOK'
    BY <1>0, <2>1, <2>2, <2>3 DEF MemoryOK, Entries
  <2>5. Slots'
    BY <2>1 DEF Slots, Entries, Slot
  <2>6. List' /\ Owed' = 0
    BY <2>1, <2>2, OwedNext DEF List
  <2> QED BY <2>1, <2>4, <2>5, <2>6, OwedIs DEF Served
<1>7. CASE Copy
  <2>1. /\ pc = "copy" /\ copied' = copied + 1 /\ UNCHANGED <<shm, i, addr2, mode>>
        /\ code' = [code EXCEPT ![copied] = shm[copied]]
        /\ pc' = IF copied + 1 = SHM THEN "run" ELSE "copy"
    BY <1>7 DEF Copy, CopyEnd
  <2>2. i = 0 /\ copied < SHM
    BY <2>1 DEF List
  <2>3. shm[copied] \in Int /\ copied' \in IMAGE .. SHM
    BY <1>0, <2>1, <2>2, Numbers
  <2>4. code' \in [Entries -> Int]
    BY <1>0, <2>1, <2>3
  <2>5. MemoryOK'
    BY <1>0, <2>1, <2>3, <2>4 DEF MemoryOK, Entries
  <2>6. Slots'
    BY <2>1 DEF Slots, Entries, Slot
  <2>7. List' /\ Owed' = 0
    <3>1. pc' \in {"run", "copy"} /\ i' = 0
      BY <2>1, <2>2
    <3>2. pc' = "copy" => copied' < SHM
      BY <1>0, <2>1, <2>2, Numbers
    <3> QED BY <3>1, <3>2, OwedNext DEF List
  <2> QED BY <2>1, <2>5, <2>6, <2>7, OwedIs DEF Served
<1>8. CASE WriteCount
  <2>1. /\ pc = "count" /\ pc' = "clear" /\ UNCHANGED <<code, i, addr2, mode, copied>>
        /\ shm' = [shm EXCEPT ![0] = i]
    BY <1>8, Numbers DEF WriteCount
  <2>2. i \in {1, 2}
    BY <2>1 DEF List
  <2>3. shm' \in [0 .. SHM - 1 -> Int] /\ shm'[0] = i /\ \A n \in {1, 4, 5} : shm'[n] = shm[n]
    BY <1>0, <2>1, <2>2, Numbers
  <2>4. MemoryOK'
    BY <1>0, <2>1, <2>3 DEF MemoryOK
  <2>5. Slots'
    BY <2>2, <2>3, Numbers DEF Slots, Entries, Slot
  <2>6. List' /\ Owed' = 0
    BY <2>1, OwedNext DEF List
  <2> QED BY <2>1, <2>4, <2>5, <2>6, OwedIs DEF Served
<1>9. CASE ClearPtr
  <2>1. /\ pc = "clear" /\ pc' = "end" /\ UNCHANGED <<code, i, addr2, mode, copied>>
        /\ shm' = [shm EXCEPT ![1] = 0]
    <3>1. Slot(0) + 1 = 1
      BY Numbers
    <3> QED BY <1>9, <3>1 DEF ClearPtr
  <2>2. shm' \in [0 .. SHM - 1 -> Int] /\ shm'[1] = 0 /\ \A n \in {0, 4, 5} : shm'[n] = shm[n]
    BY <1>0, <2>1, Numbers
  <2>3. MemoryOK'
    BY <1>0, <2>1, <2>2 DEF MemoryOK
  <2>4. Slots'
    BY <2>2, Numbers DEF Slots, Entries, Slot
  <2>5. List' /\ Owed' = 0
    BY <2>1, OwedNext DEF List
  <2> QED BY <2>1, <2>3, <2>4, <2>5, OwedIs DEF Served
<1>10. CASE End
  <2>1. /\ pc = "end" /\ pc' = "poll" /\ UNCHANGED <<code, i, addr2, mode, copied>>
        /\ shm' = [shm EXCEPT ![last] = 0]
    BY <1>10 DEF End, ClearTrigger
  <2>2. shm' \in [0 .. SHM - 1 -> Int] /\ shm'[last] = 0 /\ \A n \in {0, 1, 4, 5} : shm'[n] = shm[n]
    BY <1>0, <2>1, Numbers
  <2>3. MemoryOK'
    BY <1>0, <2>1, <2>2 DEF MemoryOK
  <2>4. Slots'
    BY <2>2, Numbers DEF Slots, Entries, Slot
  <2>5. List' /\ Owed' = 0
    BY <1>0, <2>1, <2>2, OwedNext DEF List
  <2> QED BY <2>1, <2>3, <2>4, <2>5, OwedIs DEF Served
<1> QED
  BY <1>1, <1>2, <1>3, <1>4, <1>5, <1>6, <1>7, <1>8, <1>9, <1>10 DEF Serve

-----------------------------------------------------------------------------
(* The invariant of one list per trigger *)

Base == TypeOK /\ AtSection /\ Slots /\ List /\ Counts

LEMMA InitBase == Init => Base
<1> SUFFICES ASSUME Init PROVE Base
  OBVIOUS
<1>1. file \in Files
  BY FilesAssumption DEF Init
<1>2. /\ pc = "poll" /\ i = 0 /\ addr2 = 0 /\ copied = IMAGE
      /\ code = [a \in Entries |-> 0] /\ shm = [a \in 0 .. SHM - 1 |-> 0]
  BY DEF Init, CoreInit, Entries
<1>3. shm \in [0 .. SHM - 1 -> Int] /\ code \in [Entries -> Int]
  BY <1>2
<1>4. MemoryOK
  BY <1>2, <1>3, Numbers DEF MemoryOK, Entries
<1>5. ToolOK /\ WayOK /\ Booleans /\ CountersOK
  <2>1. ToolOK
    BY <1>1 DEF Init, ToolOK
  <2>2. <<>> \in Seq(Requests)
    OBVIOUS
  <2>3. WayOK
    BY <2>2 DEF Init, WayOK
  <2>4. Booleans /\ CountersOK
    BY DEF Init, Booleans, CountersOK
  <2> QED BY <2>1, <2>3, <2>4
<1>6. AtSection /\ List
  BY <1>2 DEF Init, AtSection, List
<1>7. Slots
  BY <1>2, Numbers DEF Slots, Entries
<1>8. shm[last] = 0 /\ GO # 0
  BY <1>2, Numbers DEF GO
<1>9. Owed = 0
  BY <1>2, <1>8 DEF Owed
<1>10. Counts
  BY <1>9 DEF Init, Counts
<1> QED BY <1>4, <1>5, <1>6, <1>7, <1>10 DEF Base, TypeOK

\* A step that leaves the memories and the core alone, and the counts.
LEMMA SameServed ==
  ASSUME Base, UNCHANGED Elsewhere
  PROVE  MemoryOK' /\ Slots' /\ List' /\ Counts' /\ CountersOK'
<1>1. /\ UNCHANGED <<shm, code, core>> /\ UNCHANGED <<fresh, lists, triggers, resets>>
  BY DEF Elsewhere, ghosts
<1>2. UNCHANGED <<shm, code, pc, i, addr2, copied>>
  BY <1>1 DEF core
<1>3. MemoryOK' /\ List' /\ CountersOK'
  BY <1>1, <1>2 DEF Base, TypeOK, MemoryOK, List, CountersOK
<1>4. Slots'
  BY <1>2 DEF Base, Slots, Slot, Entries
<1>5. Owed' = Owed
  BY <1>2 DEF Owed, last, Slot
<1>6. Counts'
  BY <1>1, <1>5 DEF Base, Counts
<1> QED BY <1>3, <1>4, <1>6

LEMMA ToolBase ==
  ASSUME Clear, Base, Tool
  PROVE  Base' /\ Marks
<1>1. Call /\ ToolOK' /\ AtSection' /\ UNCHANGED Elsewhere
  BY ToolCalls DEF Base, TypeOK
<1>2. WayOK'
  BY <1>1, CallWriteAppends, CallReadKeeps DEF Call, Base, TypeOK, WayOK
<1>3. Marks
  <2>1. \E ws, ok : ok \in BOOLEAN /\ (CallWrite(ws) \/ CallRead(ok))
    BY <1>1, Zenon DEF Call
  <2> QED BY <2>1, CallMarks DEF Base, TypeOK
<1>4. Booleans'
  BY <1>3 DEF Marks, Booleans
<1> QED BY <1>1, <1>2, <1>3, <1>4, SameServed DEF Base, TypeOK

LEMMA RunBase ==
  ASSUME Base, NEW f \in Files, Run(f)
  PROVE  Base' /\ Marks
<1>1. /\ tool = "done" /\ file' = f /\ section' = 1 /\ offset' = 0 /\ stray' = 0
      /\ tool' = IF f.sections[1].load THEN "load" ELSE "init"
      /\ UNCHANGED <<shm, code, core, pend, resets, ghosts>>
  BY DEF Run
<1>2. f.sections[1] \in Section /\ 1 \in 1 .. Len(f.sections)
  BY FileShape
<1>3. Len(f.sections[1].data) \in Nat /\ Len(f.sections[1].data) >= 1
  BY <1>2, SectionShape
<1>4. ToolOK'
  BY <1>1 DEF ToolOK
<1>5. AtSection'
  <2>1. Sections' = f.sections /\ Here' = f.sections[1]
    BY <1>1 DEF Sections, Here
  <2> QED BY <1>1, <1>2, <1>3, <2>1 DEF AtSection
<1>6. WayOK'
  BY <1>1 DEF Base, TypeOK, WayOK
<1>7. UNCHANGED Elsewhere
  BY <1>1 DEF Elsewhere
<1>8. Marks
  <2> DEFINE c == pc' # "poll" /\ (tool' # "done" \/ pend' # <<>>)
  <2>1. c \in BOOLEAN /\ Crossing = c
    BY Zenon DEF Crossing
  <2> HIDE DEF c
  <2>2. trouble' = Crossing /\ everTrouble' = (everTrouble \/ Crossing) /\ crossed' = (crossed \/ Crossing)
    BY DEF Run
  <2>3. trouble \in BOOLEAN /\ everTrouble \in BOOLEAN /\ crossed \in BOOLEAN
    BY DEF Base, TypeOK, Booleans
  <2>4. trouble' = c /\ everTrouble' = (everTrouble \/ c) /\ crossed' = (crossed \/ c)
    BY <2>1, <2>2, Zenon
  <2> QED BY <2>1, <2>3, <2>4 DEF Marks
<1>9. Booleans'
  BY <1>8 DEF Marks, Booleans
<1> QED BY <1>4, <1>5, <1>6, <1>7, <1>8, <1>9, SameServed DEF Base, TypeOK

\* The word that lands.
LEMMA HeadIs ==
  ASSUME WayOK, pend # <<>>
  PROVE  /\ Head(pend) = pend[1] /\ pend[1] \in Requests /\ Len(pend) \in Nat /\ Len(pend) >= 1
         /\ Tail(pend) \in Seq(Requests) /\ Len(Tail(pend)) = Len(pend) - 1
         /\ \A k \in 1 .. Len(pend) - 1 : Tail(pend)[k] = pend[k + 1]
BY DEF WayOK

LEMMA LandIs ==
  ASSUME Land
  PROVE  /\ pend # <<>> /\ pend' = Tail(pend)
         /\ shm' = [shm EXCEPT ![Head(pend).a] = Head(pend).v]
         /\ UNCHANGED <<code, core, toolVars, stray, bounds, lists>>
         /\ triggers' = IF Head(pend).a = last /\ Head(pend).v = GO THEN triggers + 1 ELSE triggers
         /\ fresh' = IF /\ Head(pend).a = last /\ Head(pend).v = GO
                        /\ tool = "done" /\ pc = "poll" /\ ~trouble THEN {file} ELSE {}
         /\ Note(FALSE)
BY DEF Land

LEMMA LandBase ==
  ASSUME Base, Land
  PROVE  Base' /\ Marks
<1>1. PICK w : w = Head(pend)
  OBVIOUS
<1>2. /\ pend # <<>> /\ pend' = Tail(pend) /\ shm' = [shm EXCEPT ![w.a] = w.v]
      /\ UNCHANGED <<code, core, toolVars, stray, bounds, lists>>
      /\ triggers' = IF w.a = last /\ w.v = GO THEN triggers + 1 ELSE triggers
      /\ fresh' \in {{file}, {}}
      /\ Note(FALSE)
  BY <1>1, LandIs
<1>3. w \in Requests /\ pend' \in Seq(Requests)
  BY <1>1, <1>2, HeadIs DEF Base, TypeOK
<1>4. w.a \in 0 .. SHM - 1 /\ w.v \in Int /\ Fits(w.a, w.v)
  BY <1>3 DEF Requests
<1>5. /\ shm \in [0 .. SHM - 1 -> Int] /\ UNCHANGED <<code, pc, i, addr2, copied>>
      /\ UNCHANGED <<file, tool, section, offset, stray, resets, lists>>
  BY <1>2 DEF Base, TypeOK, MemoryOK, core, toolVars, bounds
<1>6. shm' \in [0 .. SHM - 1 -> Int] /\ \A n \in 0 .. SHM - 1 : shm'[n] = IF n = w.a THEN w.v ELSE shm[n]
  BY <1>2, <1>4, <1>5
<1>7. MemoryOK' /\ List'
  BY <1>5, <1>6 DEF Base, TypeOK, MemoryOK, List
<1>8. ToolOK' /\ AtSection'
  BY <1>5 DEF Base, TypeOK, ToolOK, AtSection, Sections, Here
<1>9. WayOK'
  BY <1>3, <1>5 DEF Base, TypeOK, WayOK
<1>10. CountersOK'
  BY <1>2, <1>5 DEF Base, TypeOK, CountersOK, ToolOK
<1>11. Slots'
  <2>1. \A n \in {0, 1, 4, 5} : n \in 0 .. SHM - 1
    BY Numbers
  <2>2. /\ shm[0] \in {0, 1, 2, 4} /\ shm[1] \in Entries /\ shm[4] = 0 /\ shm[5] = 0
    BY Numbers DEF Base, Slots, edcl_mode_bootstrap
  <2>3. /\ w.a = 0 => w.v \in {0, 4} /\ w.a = 0
        /\ w.a = 1 => w.v \in Entries
        /\ w.a \in {4, 5} => w.v = 0
    BY <1>4, Numbers DEF Fits, edcl_mode_bootstrap
  <2>4. shm'[0] \in {0, 1, 2, 4} /\ shm'[1] \in Entries /\ shm'[4] = 0 /\ shm'[5] = 0
    BY <1>6, <2>1, <2>2, <2>3
  <2>5. Slot(0)' = 0 /\ Slot(1)' = 4 /\ Entries' = Entries
    BY Numbers DEF Slot, Entries
  <2> QED BY <2>4, <2>5, Numbers DEF Slots, edcl_mode_bootstrap
<1>12. Counts'
  <2>1. last \in 0 .. SHM - 1
    BY Numbers
  <2>2. shm'[last] = IF last = w.a THEN w.v ELSE shm[last]
    BY <1>6, <2>1
  <2>3. Owed' = IF pc = "hello" \/ (pc = "poll" /\ shm'[last] = GO) THEN 1 ELSE 0
    BY <1>5, OwedNext
  <2>4. lists \in Nat /\ triggers \in Nat /\ resets \in Nat
    BY DEF Base, TypeOK, CountersOK
  <2>5. Owed' <= Owed + 1 /\ (~(w.a = last /\ w.v = GO) => Owed' <= Owed)
    BY <2>2, <2>3 DEF Owed
  <2>6. triggers' = triggers + 1 \/ (triggers' = triggers /\ Owed' <= Owed)
    BY <1>2, <2>5
  <2> QED BY <1>5, <2>3, <2>4, <2>5, <2>6, OwedIs DEF Base, Counts
<1>13. Marks
  BY <1>2, NoteMarks DEF Base, TypeOK
<1>14. Booleans'
  BY <1>13 DEF Marks, Booleans
<1> QED BY <1>7, <1>8, <1>9, <1>10, <1>11, <1>12, <1>13, <1>14 DEF Base, TypeOK

LEMMA Weigh ==
  ASSUME NEW l \in Nat, NEW t \in Nat, NEW r \in Nat, NEW o \in {0, 1}, NEW p \in {0, 1},
         l + o <= t + r
  PROVE  (p <= o => l + p <= t + r) /\ l + p <= t + (r + 1)
OBVIOUS

\* The core and the board move on without the tool.
Unmoved == UNCHANGED <<toolVars, pend, stray>>

LEMMA UnmovedBase ==
  ASSUME Base, Unmoved
  PROVE  ToolOK' /\ AtSection' /\ WayOK'
<1>1. UNCHANGED <<file, tool, section, offset, pend, stray>>
  BY DEF Unmoved, toolVars
<1> QED BY <1>1 DEF Base, TypeOK, ToolOK, AtSection, Sections, Here, WayOK

LEMMA MailboxBase ==
  ASSUME Base, Mailbox
  PROVE  Base' /\ Marks
<1>1. /\ Serve /\ UNCHANGED <<toolVars, pend, stray, bounds, triggers>>
      /\ lists' = IF pc = "hello" THEN lists + 1 ELSE lists
      /\ fresh' = (IF pc = "end" THEN {} ELSE fresh)
      /\ Note(FALSE)
  BY DEF Mailbox
<1>2. MemoryOK /\ Slots /\ List
  BY DEF Base, TypeOK
<1>3. Served
  BY <1>1, <1>2, ServeKeeps
<1>4. ToolOK' /\ AtSection' /\ WayOK'
  BY <1>1, UnmovedBase DEF Unmoved
<1>5. Marks /\ Booleans'
  BY <1>1, NoteMarks DEF Base, TypeOK, Marks, Booleans
<1>6. UNCHANGED resets
  BY <1>1 DEF bounds
<1>7. CountersOK'
  BY <1>1, <1>6 DEF Base, TypeOK, CountersOK
<1>8. Counts'
  <2>1. lists \in Nat /\ triggers \in Nat /\ resets \in Nat /\ lists + Owed <= triggers + resets
    BY DEF Base, TypeOK, CountersOK, Counts
  <2>2. Owed' \in {0, 1}
    BY <1>1, OwedNext
  <2>3. /\ pc = "hello" => Owed = 1 /\ Owed' = 0
        /\ pc # "hello" => Owed' <= Owed
    BY <1>3 DEF Served
  <2>4. triggers' = triggers /\ resets' = resets
    BY <1>1, <1>6
  <2>5. CASE pc = "hello"
    <3>1. lists' = lists + 1 /\ Owed = 1 /\ Owed' = 0
      BY <1>1, <2>3, <2>5
    <3> QED BY <2>1, <2>4, <3>1 DEF Counts
  <2>6. CASE pc # "hello"
    <3>1. lists' = lists /\ Owed' <= Owed
      BY <1>1, <2>3, <2>6
    <3>2. PICK o \in {0, 1}, p \in {0, 1} : o = Owed /\ p = Owed'
      BY <2>2, OwedIs
    <3>3. lists + o <= triggers + resets /\ p <= o
      BY <2>1, <3>1, <3>2, Zenon
    <3>4. lists + p <= triggers + resets
      BY <2>1, <3>2, <3>3, Weigh, Zenon
    <3> QED BY <2>4, <3>1, <3>2, <3>4, Zenon DEF Counts
  <2> QED BY <2>5, <2>6
<1> QED BY <1>3, <1>4, <1>5, <1>7, <1>8 DEF Base, TypeOK, Served

LEMMA ReturnBase ==
  ASSUME Base, ProgramReturns
  PROVE  Base' /\ Marks
<1>1. /\ pc = "run" /\ pc' = "ptr" /\ i' = i + 1 /\ UNCHANGED <<shm, code, addr2, mode, copied>>
      /\ UNCHANGED <<toolVars, pend, stray, bounds, ghosts>> /\ Note(FALSE)
  BY DEF ProgramReturns, Return, NextSlot
<1>2. i = 0 /\ i' = 1
  BY <1>1 DEF Base, List
<1>3. ToolOK' /\ AtSection' /\ WayOK'
  BY <1>1, UnmovedBase DEF Unmoved
<1>4. MemoryOK' /\ List'
  BY <1>1, <1>2 DEF Base, TypeOK, MemoryOK, List
<1>5. Slots'
  BY <1>1 DEF Base, Slots, Slot, Entries
<1>6. Marks /\ Booleans'
  BY <1>1, NoteMarks DEF Base, TypeOK, Marks, Booleans
<1>7. UNCHANGED <<fresh, lists, triggers, resets>>
  BY <1>1 DEF ghosts, bounds
<1>8. CountersOK'
  BY <1>7 DEF Base, TypeOK, CountersOK
<1>9. Owed = 0 /\ Owed' = 0
  BY <1>1, OwedNext DEF Owed
<1>10. Counts'
  BY <1>7, <1>9 DEF Base, Counts
<1> QED BY <1>3, <1>4, <1>5, <1>6, <1>8, <1>10 DEF Base, TypeOK

LEMMA ResetBase ==
  ASSUME Base, BoardReset
  PROVE  Base' /\ Marks
<1>1. /\ resets' = resets + 1 /\ pc' = "poll" /\ i' = 0 /\ addr2' = 0 /\ copied' = IMAGE
      /\ UNCHANGED <<shm, code>> /\ UNCHANGED <<toolVars, stray, runs, faults, lists, triggers>>
      /\ pend' = <<>> /\ trouble' = TRUE /\ everTrouble' = TRUE /\ fresh' = {}
      /\ crossed' = (crossed \/ pc \in {"clear", "end"})
  BY DEF BoardReset, Reset
<1>2. MemoryOK' /\ List'
  <2>1. IMAGE \in IMAGE .. SHM /\ 0 \in Entries
    BY Numbers DEF Entries
  <2> QED BY <1>1, <2>1 DEF Base, TypeOK, MemoryOK, List
<1>3. Slots'
  BY <1>1 DEF Base, Slots, Slot, Entries
<1>4. ToolOK' /\ AtSection'
  <2>1. UNCHANGED <<file, tool, section, offset>>
    BY <1>1 DEF toolVars
  <2> QED BY <2>1 DEF Base, TypeOK, ToolOK, AtSection, Sections, Here
<1>5. WayOK'
  <2>1. <<>> \in Seq(Requests)
    OBVIOUS
  <2> QED BY <1>1, <2>1 DEF Base, TypeOK, WayOK
<1>6. Booleans /\ Booleans'
  BY <1>1, Zenon DEF Base, TypeOK, Booleans
<1>7. Marks
  <2>1. ~Crossing
    BY <1>1 DEF Crossing
  <2> QED BY <1>1, <1>6, <2>1 DEF Marks, Booleans
<1>8. CountersOK'
  BY <1>1 DEF Base, TypeOK, CountersOK
<1>9. Counts'
  <2>1. Owed' \in {0, 1}
    BY OwedNext
  <2>2. lists \in Nat /\ triggers \in Nat /\ resets \in Nat /\ lists + Owed <= triggers + resets
    BY DEF Base, TypeOK, CountersOK, Counts
  <2>3. lists' = lists /\ triggers' = triggers /\ resets' = resets + 1
    BY <1>1
  <2>4. PICK o \in {0, 1}, p \in {0, 1} : o = Owed /\ p = Owed'
    BY <2>1, OwedIs
  <2>5. lists + o <= triggers + resets
    BY <2>2, <2>4, Zenon
  <2>6. lists + p <= triggers + (resets + 1)
    BY <2>2, <2>4, <2>5, Weigh, Zenon
  <2> QED BY <2>3, <2>4, <2>6, Zenon DEF Counts
<1> QED BY <1>2, <1>3, <1>4, <1>5, <1>6, <1>7, <1>8, <1>9 DEF Base, TypeOK

LEMMA BaseStep ==
  ASSUME Clear, Base, Next
  PROVE  Base' /\ Marks
BY ToolBase, RunBase, LandBase, MailboxBase, ReturnBase, ResetBase DEF Next

LEMMA StutterIs ==
  ASSUME UNCHANGED vars
  PROVE  /\ UNCHANGED <<shm, code, pc, i, addr2, mode, copied>>
         /\ UNCHANGED <<file, tool, section, offset, pend, stray>>
         /\ UNCHANGED <<trouble, everTrouble, crossed, fresh, lists, triggers, resets>>
BY DEF vars, core, toolVars, bounds, ghosts

LEMMA BaseInvariant == Clear => (Spec => []Base)
<1> SUFFICES ASSUME Clear PROVE Spec => []Base
  OBVIOUS
<1>1. Base /\ [Next]_vars => Base'
  <2> SUFFICES ASSUME Base, [Next]_vars PROVE Base'
    OBVIOUS
  <2>1. CASE Next
    BY <2>1, BaseStep
  <2>2. CASE UNCHANGED vars
    <3>1. /\ UNCHANGED Elsewhere /\ UNCHANGED <<file, tool, section, offset, pend, stray>>
          /\ UNCHANGED <<trouble, everTrouble, crossed>>
      BY <2>2, StutterIs DEF Elsewhere, core, ghosts
    <3>2. ToolOK' /\ AtSection' /\ WayOK' /\ Booleans'
      BY <3>1 DEF Base, TypeOK, ToolOK, AtSection, Sections, Here, WayOK, Booleans
    <3> QED BY <3>1, <3>2, SameServed DEF Base, TypeOK
  <2> QED BY <2>1, <2>2
<1> QED BY <1>1, InitBase, PTL DEF Spec

\* main() and hello() of the core walk no trigger twice, whatever the tool's calls, the resets and
\* the program do, unless a file is loaded over the slots.
THEOREM ListsAndTriggers == Clear => (Spec => []OneListPerTrigger)
<1> SUFFICES ASSUME Clear PROVE Spec => []OneListPerTrigger
  OBVIOUS
<1>1. Base => OneListPerTrigger
  BY OwedIs DEF Base, TypeOK, CountersOK, Counts, OneListPerTrigger
<1>2. Spec => []Base
  BY BaseInvariant
<1> QED BY <1>1, <1>2, PTL

-----------------------------------------------------------------------------
(* What is kept for the list *)

LEMMA KeptLands ==
  ASSUME MemoryOK, WayOK, Land, NEW a \in 0 .. SHM - 1, NEW v, Kept(a, v)
  PROVE  Kept(a, v)'
<1>1. /\ pend # <<>> /\ pend' = Tail(pend) /\ shm' = [shm EXCEPT ![Head(pend).a] = Head(pend).v]
  BY LandIs
<1>2. /\ Head(pend) = pend[1] /\ Len(pend) \in Nat /\ Len(pend) >= 1
      /\ Len(pend') = Len(pend) - 1
      /\ \A k \in 1 .. Len(pend) - 1 : pend'[k] = pend[k + 1]
  BY <1>1, HeadIs
<1>3. \A k \in 1 .. Len(pend') : k + 1 \in 1 .. Len(pend) /\ pend'[k] = pend[k + 1]
  BY <1>2
<1>4. \A k \in 1 .. Len(pend) : pend[k].a = a => pend[k].v = v
  BY DEF Kept
<1>5. \A k \in 1 .. Len(pend') : pend'[k].a = a => pend'[k].v = v
  BY <1>3, <1>4
<1>6. shm'[a] = IF a = pend[1].a THEN pend[1].v ELSE shm[a]
  BY <1>1, <1>2 DEF MemoryOK
<1>7. CASE a = pend[1].a
  <2>1. shm'[a] = v
    BY <1>2, <1>4, <1>6, <1>7
  <2> QED BY <1>5, <2>1 DEF Kept, Wanted
<1>8. CASE a # pend[1].a /\ shm[a] = v
  BY <1>5, <1>6, <1>8 DEF Kept, Wanted
<1>9. CASE a # pend[1].a /\ shm[a] # v
  <2>1. PICK k \in 1 .. Len(pend) : pend[k].a = a
    BY <1>9 DEF Kept, Wanted
  <2>2. k - 1 \in 1 .. Len(pend') /\ pend'[k - 1] = pend[k]
    BY <1>2, <1>9, <2>1
  <2>3. \E j \in 1 .. Len(pend') : pend'[j].a = a
    BY <2>1, <2>2
  <2> QED BY <1>5, <2>3 DEF Kept, Wanted
<1> QED BY <1>7, <1>8, <1>9

LEMMA KeptThere ==
  ASSUME NEW a, NEW v, Kept(a, v), \A k \in 1 .. Len(pend) : pend[k].a # a
  PROVE  shm[a] = v
BY DEF Kept, Wanted

\* Nothing is on its way.
LEMMA KeptAlone ==
  ASSUME pend = <<>>, NEW a, NEW v
  PROVE  Kept(a, v) <=> shm[a] = v
<1>1. Len(pend) = 0
  OBVIOUS
<1> QED BY <1>1 DEF Kept, Wanted

LEMMA KeptRead ==
  ASSUME pend' = pend, shm' = shm, NEW a, NEW v, Kept(a, v)
  PROVE  Kept(a, v)'
BY DEF Kept, Wanted

LEMMA KeptWrite ==
  ASSUME NEW ws, pend = <<>>, pend' = ws, shm' = shm, NEW a, NEW v, Kept(a, v),
         \A k \in 1 .. Len(ws) : ws[k].a = a => ws[k].v = v
  PROVE  Kept(a, v)'
<1>1. shm[a] = v
  BY KeptAlone
<1> QED BY <1>1 DEF Kept, Wanted

LEMMA WriteKept ==
  ASSUME NEW ws, pend' = ws, NEW a, NEW v, \E j \in 1 .. Len(ws) : ws[j].a = a,
         \A k \in 1 .. Len(ws) : ws[k].a = a => ws[k].v = v
  PROVE  Kept(a, v)'
BY DEF Kept, Wanted

-----------------------------------------------------------------------------
(* Trouble, and the core alone with its list *)

LEMMA InitGhosts == Init => Ghosts
BY DEF Init, CoreInit, Ghosts, Alone

LEMMA GhostsStep ==
  ASSUME Ghosts, Marks
  PROVE  Ghosts'
<1>1. ~Crossing => Alone'
  BY DEF Crossing, Alone
<1> QED BY <1>1 DEF Ghosts, Marks

\* In a run without trouble the core walks its list while nothing else is under way.
LEMMA CoreAlone ==
  ASSUME Base, Ghosts, Mailbox \/ ProgramReturns, ~crossed' \/ ~trouble' \/ ~everTrouble'
  PROVE  tool = "done" /\ pend = <<>>
<1>1. Note(FALSE) /\ UNCHANGED <<toolVars, pend>> /\ (Serve \/ pc = "run")
  BY DEF Mailbox, ProgramReturns, Return
<1>2. Marks /\ (~trouble' => ~trouble)
  BY <1>1, NoteMarks DEF Base, TypeOK
<1>3. ~Crossing /\ Alone
  BY <1>2 DEF Marks, Ghosts
<1>4. CASE pc # "poll"
  BY <1>3, <1>4 DEF Alone
<1>5. CASE pc = "poll"
  <2>1. PollShm
    BY <1>1, <1>5 DEF Serve, Hello, ReadPtr, ReadMode, Read, Write, Copy, WriteCount, ClearPtr, End
  <2>2. pc' # "poll"
    BY <2>1 DEF PollShm
  <2>3. tool' = "done" /\ pend' = <<>>
    BY <1>3, <2>2 DEF Crossing
  <2> QED BY <1>1, <2>3 DEF toolVars
<1> QED BY <1>4, <1>5

\* So a busy tool that meets no trouble is moved on by itself and by the bus only.
LEMMA BusyStep ==
  ASSUME Base, Ghosts, Next, Busy'
  PROVE  Tool \/ Land \/ \E f \in Files : Run(f)
<1>1. CASE Mailbox \/ ProgramReturns
  <2>1. tool = "done" /\ pend = <<>>
    BY <1>1, CoreAlone DEF Busy
  <2>2. UNCHANGED <<toolVars, pend>>
    BY <1>1 DEF Mailbox, ProgramReturns
  <2> QED BY <2>1, <2>2 DEF Busy, toolVars
<1>2. CASE BoardReset
  BY <1>2 DEF BoardReset, Busy
<1> QED BY <1>1, <1>2 DEF Next

LEMMA ToolBusy ==
  ASSUME Clear, Base, Tool, Busy'
  PROVE  Busy /\ ~trouble'
<1>1. Call
  BY ToolCalls DEF Base, TypeOK
<1>2. \E ws, ok : ok \in BOOLEAN /\ (CallWrite(ws) \/ CallRead(ok))
  BY <1>1, Zenon DEF Call
<1>3. ~trouble' => ~trouble
  BY <1>2, CallMarks DEF Base, TypeOK
<1>4. tool # "done"
  BY DEF Tool, LoadMemory, Verify, InitMemory, WriteSlot, ReadBack, WriteTrigger
<1> QED BY <1>3, <1>4 DEF Busy

LEMMA LandBusy ==
  ASSUME Base, Land, Busy'
  PROVE  Busy
<1>1. pend # <<>> /\ Note(FALSE)
  BY LandIs
<1>2. ~trouble' => ~trouble
  BY <1>1, NoteMarks DEF Base, TypeOK
<1> QED BY <1>1, <1>2 DEF Busy

-----------------------------------------------------------------------------
(* The slot on its way *)

LEMMA InitSlotLoading == Init => SlotLoading
BY DEF Init, SlotLoading, Busy

LEMMA SlotLoadingTool ==
  ASSUME Clear, Base, SlotLoading, Tool, Busy'
  PROVE  SlotLoading'
<1>1. Busy /\ stray = 0 /\ ~trouble'
  BY ToolBusy DEF SlotLoading
<1>2. file' = file /\ shm' = shm /\ Sections' = Sections
  BY ToolCalls DEF Base, TypeOK, Elsewhere, Sections
<1>3. file \in Files
  BY DEF Base, TypeOK, ToolOK
<1>4. CASE LoadMemory
  <2>1. stray' = stray /\ tool' = "verify"
    BY <1>1, <1>4, CleanWrite DEF LoadMemory
  <2> QED BY <1>1, <2>1 DEF SlotLoading
<1>5. CASE Verify
  <2>1. InMemory(Here) \in BOOLEAN
    BY DEF InMemory
  <2>2. stray' = stray /\ tool' \in {"load", "init", "slot"}
    BY <1>1, <1>5, <2>1, CleanRead DEF Verify, At
  <2> QED BY <1>1, <2>2 DEF SlotLoading
<1>6. CASE InitMemory
  <2>1. stray' = stray /\ tool' \in {"load", "init", "slot"}
    BY <1>1, <1>6, CleanWrite DEF InitMemory, At
  <2> QED BY <1>1, <2>1 DEF SlotLoading
<1>7. CASE WriteSlot
  <2>1. PICK ws : ws = Words(Slot(0), Etrans)
    OBVIOUS
  <2>2. CallWrite(ws) /\ tool = "slot" /\ tool' = "readback" /\ section' = section
    BY <1>7, <2>1 DEF WriteSlot
  <2>3. pend' = ws /\ stray' = stray
    BY <1>1, <2>2, CleanWrite
  <2>4. Len(ws) = 4 /\ \A k \in 1 .. 4 : ws[k].a = k - 1 /\ ws[k].v = Etrans[k]
    BY <1>3, <2>1, EtransWords, Numbers
  <2>5. Etrans[1] = edcl_mode_bootstrap /\ Etrans[2] = file.entry
    BY <1>3, EtransIs DEF edcl_mode_bootstrap
  <2>6. Kept(0, edcl_mode_bootstrap)'
    <3>1. 1 \in 1 .. Len(ws) /\ ws[1].a = 0 /\ \A k \in 1 .. Len(ws) : ws[k].a = 0 => ws[k].v = edcl_mode_bootstrap
      BY <2>4, <2>5
    <3> QED BY <2>3, <3>1, WriteKept
  <2>7. Kept(1, file.entry)'
    <3>1. 2 \in 1 .. Len(ws) /\ ws[2].a = 1 /\ \A k \in 1 .. Len(ws) : ws[k].a = 1 => ws[k].v = file.entry
      BY <2>4, <2>5
    <3>2. PICK e : e = file.entry
      OBVIOUS
    <3>3. Kept(1, e)'
      BY <2>3, <3>1, <3>2, WriteKept
    <3> QED BY <1>2, <3>2, <3>3
  <2>8. section' = Len(Sections') + 1
    BY <1>2, <2>2 DEF Base, AtSection
  <2>9. Slot(0)' = 0 /\ (Slot(0) + 1)' = 1
    BY Numbers DEF Slot
  <2> QED BY <1>1, <2>2, <2>3, <2>6, <2>7, <2>8, <2>9 DEF SlotLoading
<1>8. CASE ReadBack
  <2>1. stray' = stray /\ pend' = pend /\ tool' = "trigger" /\ tool = "readback" /\ section' = section
    BY <1>1, <1>8, CleanRead DEF ReadBack
  <2>2. section = Len(Sections) + 1 /\ Kept(Slot(0), edcl_mode_bootstrap) /\ Kept(Slot(0) + 1, file.entry)
    BY <1>1, <2>1 DEF SlotLoading
  <2>3. Kept(Slot(0), edcl_mode_bootstrap)' /\ Kept(Slot(0) + 1, file.entry)'
    BY <1>2, <2>1, <2>2 DEF Kept, Wanted, Slot
  <2> QED BY <1>1, <1>2, <2>1, <2>2, <2>3 DEF SlotLoading
<1>9. CASE WriteTrigger
  <2>1. PICK ws : ws = Words(Slot(edcl_max), Etrans)
    OBVIOUS
  <2>2. CallWrite(ws) /\ tool = "trigger" /\ tool' = "done" /\ section' = section
    BY <1>9, <2>1 DEF WriteTrigger
  <2>3. pend = <<>> /\ pend' = ws /\ stray' = stray
    BY <1>1, <2>2, CleanWrite
  <2>4. Len(ws) = 4 /\ \A k \in 1 .. 4 : ws[k].a = 4 * edcl_max + k - 1
    BY <1>3, <2>1, EtransWords, Numbers
  <2>5. \A k \in 1 .. Len(ws) : ws[k].a >= 8 /\ ws[k].a \in Slot(edcl_max) .. last
    BY <2>4, Numbers
  <2>6. section = Len(Sections) + 1 /\ Kept(Slot(0), edcl_mode_bootstrap) /\ Kept(Slot(0) + 1, file.entry)
    BY <1>1, <2>2 DEF SlotLoading
  <2>7. Kept(0, edcl_mode_bootstrap)'
    BY <1>2, <2>3, <2>5, <2>6, KeptWrite, Numbers
  <2>8. Kept(1, file.entry)'
    <3>1. PICK e : e = file.entry
      OBVIOUS
    <3>2. Kept(1, e)'
      BY <1>2, <2>3, <2>5, <2>6, <3>1, KeptWrite, Numbers
    <3> QED BY <1>2, <3>1, <3>2
  <2>9. Slot(0)' = 0 /\ (Slot(0) + 1)' = 1 /\ Slot(edcl_max)' = Slot(edcl_max) /\ last' = last
    BY Numbers DEF Slot, last
  <2> QED BY <1>1, <1>2, <2>2, <2>3, <2>5, <2>6, <2>7, <2>8, <2>9 DEF SlotLoading
<1> QED BY <1>4, <1>5, <1>6, <1>7, <1>8, <1>9 DEF Tool

LEMMA SlotLoadingLand ==
  ASSUME Base, SlotLoading, Land, Busy'
  PROVE  SlotLoading'
<1>1. Busy
  BY LandBusy
<1>2. UNCHANGED <<file, tool, section, offset, stray>> /\ pend # <<>> /\ pend' = Tail(pend)
  BY LandIs DEF toolVars
<1>3. Len(pend) \in Nat /\ Len(pend') = Len(pend) - 1 /\ \A k \in 1 .. Len(pend) - 1 : pend'[k] = pend[k + 1]
  BY <1>2, HeadIs DEF Base, TypeOK
<1>4. \A k \in 1 .. Len(pend') : k + 1 \in 1 .. Len(pend) /\ pend'[k] = pend[k + 1]
  BY <1>3
<1>5. Slot(0)' = 0 /\ (Slot(0) + 1)' = 1 /\ Slot(edcl_max)' = Slot(edcl_max) /\ last' = last
      /\ Sections' = Sections /\ 0 \in 0 .. SHM - 1 /\ 1 \in 0 .. SHM - 1
  BY <1>2, Numbers DEF Slot, last, Sections
<1>6. CASE tool \in {"readback", "trigger", "done"}
  <2>1. section = Len(Sections) + 1 /\ Kept(0, edcl_mode_bootstrap) /\ Kept(1, file.entry)
    BY <1>1, <1>6, Numbers DEF SlotLoading
  <2>2. Kept(0, edcl_mode_bootstrap)'
    BY <1>5, <2>1, KeptLands DEF Base, TypeOK
  <2>3. Kept(1, file.entry)'
    <3>1. PICK e : e = file.entry
      OBVIOUS
    <3>2. Kept(1, e)'
      BY <1>5, <2>1, <3>1, KeptLands DEF Base, TypeOK
    <3> QED BY <1>2, <3>1, <3>2
  <2>4. tool = "done" => \A k \in 1 .. Len(pend') : pend'[k].a \in Slot(edcl_max) .. last
    BY <1>1, <1>4 DEF SlotLoading
  <2> QED BY <1>1, <1>2, <1>5, <2>1, <2>2, <2>3, <2>4 DEF SlotLoading
<1>7. CASE tool \notin {"readback", "trigger", "done"}
  BY <1>1, <1>2, <1>7 DEF SlotLoading
<1> QED BY <1>6, <1>7

LEMMA SlotLoadingStep ==
  ASSUME Clear, Base, Ghosts, SlotLoading, Next
  PROVE  SlotLoading'
<1> SUFFICES ASSUME Busy' PROVE SlotLoading'
  BY DEF SlotLoading
<1>1. CASE \E f \in Files : Run(f)
  <2>1. stray' = 0 /\ tool' \in {"load", "init"}
    BY <1>1 DEF Run
  <2> QED BY <2>1 DEF SlotLoading
<1> QED BY <1>1, BusyStep, SlotLoadingTool, SlotLoadingLand

-----------------------------------------------------------------------------
(* A pointer comes behind its mode *)

LEMMA OrderedTool ==
  ASSUME Clear, Base, Ordered, Tool
  PROVE  Ordered'
<1>1. Call /\ shm' = shm /\ Marks
  BY ToolCalls, ToolBase DEF Base, TypeOK, Elsewhere
<1> SUFFICES ASSUME ~crossed' PROVE Ordered'
  BY DEF Ordered
<1>2. ~crossed /\ \A k \in 1 .. Len(pend) : pend[k].a = 1 /\ pend[k].v # 0 => Behind(k)
  BY <1>1, Numbers DEF Marks, Ordered
<1>3. CASE \E ok \in BOOLEAN : CallRead(ok)
  <2>1. pend' = pend
    BY <1>3, CallReadKeeps DEF Base, TypeOK, WayOK
  <2> QED BY <1>1, <1>2, <2>1, Numbers DEF Ordered, Behind, Slot
<1>4. CASE \E ws \in Seq(Requests) : Paired(ws) /\ CallWrite(ws)
  <2>1. PICK ws \in Seq(Requests) : Paired(ws) /\ CallWrite(ws)
    BY <1>4
  <2>2. PICK n \in 0 .. Len(ws) : Appended(ws, n)
    BY <2>1, CallWriteAppends DEF Base, TypeOK, WayOK
  <2>3. Len(pend) \in Nat /\ Len(ws) \in Nat
    BY DEF Base, TypeOK, WayOK
  <2>4. /\ Len(pend') = Len(pend) + n
        /\ \A k \in 1 .. Len(pend) : pend'[k] = pend[k]
        /\ \A k \in 1 .. n : pend'[Len(pend) + k] = ws[k]
    BY <2>2 DEF Appended
  <2>5. \A k \in 1 .. Len(ws) : ws[k].a = 1 /\ ws[k].v # 0 =>
          k # 1 /\ ws[k - 1].a = 0 /\ ws[k - 1].v = edcl_mode_bootstrap
    BY <2>1, Numbers DEF Paired
  <2> SUFFICES ASSUME NEW k \in 1 .. Len(pend'), pend'[k].a = 1, pend'[k].v # 0
               PROVE  Behind(k)'
    BY Numbers DEF Ordered, Slot
  <2>6. CASE k <= Len(pend)
    <3>1. k \in 1 .. Len(pend) /\ pend'[k] = pend[k]
      BY <2>3, <2>4, <2>6
    <3>2. Behind(k)
      BY <1>2, <3>1
    <3>3. CASE k = 1
      BY <1>1, <3>2, <3>3, Numbers DEF Behind, Slot
    <3>4. CASE k # 1
      <4>1. k - 1 \in 1 .. Len(pend)
        BY <2>3, <3>1, <3>4
      <4> QED BY <2>4, <3>2, <3>4, <4>1, Numbers DEF Behind, Slot
    <3> QED BY <3>3, <3>4
  <2>7. CASE k > Len(pend)
    <3>1. PICK j : j = k - Len(pend)
      OBVIOUS
    <3>2. j \in 1 .. n /\ j \in 1 .. Len(ws) /\ k = Len(pend) + j
      BY <2>3, <2>4, <2>7, <3>1
    <3>3. pend'[k] = ws[j]
      BY <2>4, <3>2
    <3>4. j # 1 /\ ws[j - 1].a = 0 /\ ws[j - 1].v = edcl_mode_bootstrap
      BY <2>5, <3>2, <3>3
    <3>5. j - 1 \in 1 .. n /\ k - 1 = Len(pend) + (j - 1) /\ k # 1
      BY <2>3, <3>2, <3>4
    <3>6. pend'[k - 1] = ws[j - 1]
      BY <2>4, <3>5
    <3> QED BY <3>4, <3>5, <3>6, Numbers DEF Behind, Slot
  <2> QED BY <2>3, <2>4, <2>6, <2>7
<1> QED BY <1>1, <1>3, <1>4 DEF Call

LEMMA OrderedLand ==
  ASSUME Base, Ordered, Land
  PROVE  Ordered'
<1>1. /\ pend # <<>> /\ pend' = Tail(pend) /\ shm' = [shm EXCEPT ![Head(pend).a] = Head(pend).v]
      /\ Note(FALSE)
  BY LandIs
<1>2. /\ Head(pend) = pend[1] /\ Len(pend) \in Nat /\ Len(pend) >= 1
      /\ Len(pend') = Len(pend) - 1
      /\ \A k \in 1 .. Len(pend) - 1 : pend'[k] = pend[k + 1]
  BY <1>1, HeadIs DEF Base, TypeOK
<1> SUFFICES ASSUME ~crossed', NEW k \in 1 .. Len(pend'), pend'[k].a = 1, pend'[k].v # 0
             PROVE  Behind(k)'
  BY Numbers DEF Ordered, Slot
<1>3. ~crossed
  BY <1>1, NoteMarks DEF Base, TypeOK, Marks
<1>4. k + 1 \in 1 .. Len(pend) /\ pend'[k] = pend[k + 1] /\ (k + 1) - 1 = k /\ k + 1 # 1
  BY <1>2
<1>5. pend[k].a = 0 /\ pend[k].v = edcl_mode_bootstrap
  <2>1. Behind(k + 1)
    BY <1>3, <1>4, Numbers DEF Ordered
  <2> QED BY <1>4, <2>1, Numbers DEF Behind
<1>6. CASE k = 1
  <2>1. shm'[0] = edcl_mode_bootstrap
    BY <1>1, <1>2, <1>5, <1>6, Numbers, SMTT(40) DEF Base, TypeOK, MemoryOK
  <2> QED BY <1>6, <2>1, Numbers DEF Behind, Slot
<1>7. CASE k # 1
  <2>1. k - 1 \in 1 .. Len(pend) - 1 /\ pend'[k - 1] = pend[k]
    BY <1>2, <1>7
  <2> QED BY <1>5, <1>7, <2>1, Numbers DEF Behind, Slot
<1> QED BY <1>6, <1>7

LEMMA OrderedStep ==
  ASSUME Clear, Base, Ghosts, Ordered, Next
  PROVE  Ordered'
<1>1. CASE \E f \in Files : Run(f)
  <2>1. UNCHANGED <<shm, pend>> /\ Marks
    BY <1>1, RunBase DEF Run
  <2>2. ~crossed' => ~crossed
    BY <2>1 DEF Marks
  <2> QED BY <2>1, <2>2 DEF Ordered, Behind, Slot
<1>2. CASE Mailbox \/ ProgramReturns
  <2>1. ~crossed' => pend = <<>>
    BY <1>2, CoreAlone
  <2>2. pend' = pend
    BY <1>2 DEF Mailbox, ProgramReturns
  <2> QED BY <2>1, <2>2 DEF Ordered
<1>3. CASE BoardReset
  BY <1>3 DEF BoardReset, Ordered
<1> QED BY <1>1, <1>2, <1>3, OrderedTool, OrderedLand DEF Next

-----------------------------------------------------------------------------
(* A count in the place of a mode has no pointer *)

\* NoPointer with the numbers put in.
LEMMA NoPointerIs ==
  NoPointer <=> (~crossed => /\ pc # "clear" /\ shm[0] \notin {0, 4} => shm[1] = 0
                             /\ pc = "mode" /\ i = 0 /\ shm[0] \notin {0, 4} => addr2 = 0
                             /\ pc = "access" => addr2 = 0)
BY Numbers DEF NoPointer, AMode, edcl_mode_bootstrap

LEMMA NoPointerNext ==
  NoPointer' <=> (~crossed' => /\ pc' # "clear" /\ shm'[0] \notin {0, 4} => shm'[1] = 0
                               /\ pc' = "mode" /\ i' = 0 /\ shm'[0] \notin {0, 4} => addr2' = 0
                               /\ pc' = "access" => addr2' = 0)
BY Numbers DEF NoPointer, AMode, edcl_mode_bootstrap, Slot

LEMMA NoPointerLand ==
  ASSUME Base, Ghosts, Ordered, NoPointer, Land
  PROVE  NoPointer'
<1>1. /\ pend # <<>> /\ shm' = [shm EXCEPT ![Head(pend).a] = Head(pend).v]
      /\ UNCHANGED <<pc, i, addr2>> /\ Note(FALSE)
  BY LandIs DEF core
<1> SUFFICES ASSUME ~crossed' PROVE NoPointer'
  BY NoPointerNext
<1>2. ~crossed
  BY <1>1, NoteMarks DEF Base, TypeOK, Marks
<1>3. pc = "poll"
  BY <1>1, <1>2 DEF Ghosts, Alone
<1>4. PICK w : w = Head(pend)
  OBVIOUS
<1>5. w = pend[1] /\ w \in Requests /\ 1 \in 1 .. Len(pend)
  BY <1>1, <1>4, HeadIs DEF Base, TypeOK
<1>6. /\ w.a = 0 => w.v \in {0, 4}
      /\ w.a = 1 /\ w.v # 0 => shm[0] = 4
  <2>1. Fits(w.a, w.v)
    BY <1>5 DEF Requests
  <2>2. w.a = 1 /\ w.v # 0 => Behind(1)
    BY <1>2, <1>5, Numbers DEF Ordered
  <2> QED BY <2>1, <2>2, Numbers DEF Fits, Behind, edcl_mode_bootstrap
<1>7. \A n \in {0, 1} : shm'[n] = IF n = w.a THEN w.v ELSE shm[n]
  BY <1>1, <1>4, Numbers DEF Base, TypeOK, MemoryOK
<1>8. shm[0] \notin {0, 4} => shm[1] = 0
  BY <1>2, <1>3, NoPointerIs
<1>9. shm'[0] \notin {0, 4} => shm'[1] = 0
  BY <1>6, <1>7, <1>8
<1> QED BY <1>1, <1>3, <1>9, NoPointerNext

LEMMA NoPointerCore ==
  ASSUME Base, NoPointer, Mailbox, ~crossed'
  PROVE  NoPointer'
<1>1. Serve /\ ~crossed
  BY NoteMarks DEF Mailbox, Base, TypeOK, Marks
<1>2. /\ pc # "clear" /\ shm[0] \notin {0, 4} => shm[1] = 0
      /\ pc = "mode" /\ i = 0 /\ shm[0] \notin {0, 4} => addr2 = 0
      /\ pc = "access" => addr2 = 0
  BY <1>1, NoPointerIs
<1>3. CASE PollShm \/ Hello
  BY <1>2, <1>3, NoPointerNext DEF PollShm, Hello
<1>4. CASE ReadPtr
  <2>1. pc = "ptr" /\ pc' = "mode" /\ addr2' = shm[Slot(i) + 1] /\ UNCHANGED <<shm, i>>
    BY <1>4 DEF ReadPtr
  <2>2. i = 0 => addr2' = shm[1]
    BY <2>1, Numbers
  <2> QED BY <1>2, <2>1, <2>2, NoPointerNext
<1>5. CASE ReadMode
  <2>1. /\ pc = "mode" /\ mode' = shm[Slot(i)] /\ UNCHANGED <<shm, addr2>>
        /\ pc' \in {"count", "copy", "access"}
        /\ pc' = "access" => mode' # 0 /\ mode' # 4
    BY <1>5 DEF ReadMode, edcl_mode_bootstrap
  <2>2. pc' = "access" => i = 0 /\ shm[0] \notin {0, 4}
    <3>1. i = 0 \/ i = 1
      BY <2>1 DEF Base, List
    <3> QED BY <2>1, <3>1, Numbers DEF Base, Slots
  <2> QED BY <1>2, <2>1, <2>2, NoPointerNext
<1>6. CASE Read
  <2>1. pc = "access" /\ pc' = "ptr" /\ shm' = [shm EXCEPT ![Slot(i) + 3] = code[addr2]]
    BY <1>6 DEF Read, NextSlot
  <2>2. Slot(i) + 3 = 3
    BY <2>1, Numbers DEF Base, List
  <2>3. shm' = [shm EXCEPT ![3] = code[addr2]]
    BY <2>1, <2>2
  <2>4. shm'[0] = shm[0] /\ shm'[1] = shm[1]
    BY <2>3, Numbers DEF Base, TypeOK, MemoryOK
  <2> QED BY <1>2, <2>1, <2>4, NoPointerNext
<1>7. CASE Write \/ Copy
  <2>1. shm' = shm /\ pc \in {"access", "copy"} /\ pc' \in {"ptr", "run", "copy"}
    BY <1>7 DEF Write, Copy, NextSlot
  <2> QED BY <1>2, <2>1, NoPointerNext
<1>8. CASE WriteCount
  BY <1>8, NoPointerNext DEF WriteCount
<1>9. CASE ClearPtr
  <2>1. Slot(0) + 1 = 1
    BY Numbers
  <2>2. pc' = "end" /\ shm' = [shm EXCEPT ![1] = 0]
    BY <1>9, <2>1 DEF ClearPtr
  <2>3. shm'[1] = 0
    BY <2>2, Numbers DEF Base, TypeOK, MemoryOK
  <2> QED BY <2>2, <2>3, NoPointerNext
<1>10. CASE End
  <2>1. pc = "end" /\ pc' = "poll" /\ shm' = [shm EXCEPT ![last] = 0]
    BY <1>10 DEF End, ClearTrigger
  <2>2. shm'[0] = shm[0] /\ shm'[1] = shm[1]
    BY <2>1, Numbers DEF Base, TypeOK, MemoryOK
  <2> QED BY <1>2, <2>1, <2>2, NoPointerNext
<1> QED BY <1>1, <1>3, <1>4, <1>5, <1>6, <1>7, <1>8, <1>9, <1>10 DEF Serve

LEMMA NoPointerStep ==
  ASSUME Clear, Base, Ghosts, Ordered, NoPointer, Next
  PROVE  NoPointer'
<1>0. Marks
  BY BaseStep
<1> SUFFICES ASSUME ~crossed' PROVE NoPointer'
  BY NoPointerNext
<1>1. ~crossed
  BY <1>0 DEF Marks
<1>2. CASE UNCHANGED <<shm, code, core>>
  <2>1. UNCHANGED <<shm, pc, i, addr2>>
    BY <1>2 DEF core
  <2> QED BY <1>1, <2>1, NoPointerIs, NoPointerNext
<1>3. CASE Tool
  BY <1>2, <1>3, ToolCalls DEF Base, TypeOK, Elsewhere
<1>4. CASE \E f \in Files : Run(f)
  BY <1>2, <1>4 DEF Run
<1>5. CASE ProgramReturns
  <2>1. pc = "run" /\ pc' = "ptr" /\ shm' = shm
    BY <1>5 DEF ProgramReturns, Return, NextSlot
  <2> QED BY <1>1, <2>1, NoPointerIs, NoPointerNext
<1>6. CASE BoardReset
  <2>1. pc # "clear" /\ pc' = "poll" /\ shm' = shm
    BY <1>6 DEF BoardReset, Reset
  <2> QED BY <1>1, <2>1, NoPointerIs, NoPointerNext
<1> QED BY <1>3, <1>4, <1>5, <1>6, NoPointerLand, NoPointerCore DEF Next

-----------------------------------------------------------------------------
(* Without trouble the core finds the slot that was written *)

LEMMA WrittenIs ==
  Written <=> (~everTrouble =>
                 /\ tool = "done" /\ pend = <<>> /\ Triggered => shm[0] = edcl_mode_bootstrap
                 /\ pc # "access")
BY Numbers DEF Written

LEMMA WrittenNext ==
  Written' <=> (~everTrouble' =>
                  /\ tool' = "done" /\ pend' = <<>> /\ Triggered' => shm'[0] = edcl_mode_bootstrap
                  /\ pc' # "access")
BY Numbers DEF Written, Slot, edcl_mode_bootstrap

\* When the last word of the trigger lands, the slot is there.
LEMMA SlotThere ==
  ASSUME Base, SlotLoading, ~trouble, tool = "done", pend # <<>>
  PROVE  shm[0] = edcl_mode_bootstrap /\ \A k \in 1 .. Len(pend) : pend[k].a \in 4 * edcl_max .. last
<1>1. Busy
  BY DEF Busy
<1>2. /\ Kept(0, edcl_mode_bootstrap)
      /\ \A k \in 1 .. Len(pend) : pend[k].a \in 4 * edcl_max .. last
  BY <1>1, Numbers DEF SlotLoading
<1>3. \A k \in 1 .. Len(pend) : pend[k].a # 0
  BY <1>2, Numbers
<1> QED BY <1>2, <1>3, KeptThere

LEMMA WrittenTool ==
  ASSUME Clear, Base, Ghosts, SlotLoading, Written, Tool
  PROVE  Written'
<1> SUFFICES ASSUME ~everTrouble' PROVE Written'
  BY WrittenNext
<1>1. UNCHANGED <<shm, code, core>> /\ Marks /\ Base'
  BY ToolCalls, ToolBase DEF Base, TypeOK, Elsewhere
<1>2. ~everTrouble /\ ~trouble /\ ~trouble' /\ tool # "done"
  <2>1. tool # "done"
    BY DEF Tool, LoadMemory, Verify, InitMemory, WriteSlot, ReadBack, WriteTrigger
  <2> QED BY <1>1, <2>1 DEF Marks, Ghosts
<1>3. stray = 0
  BY <1>2 DEF SlotLoading, Busy
<1>4. pc # "access" /\ pc' = pc
  BY <1>1, <1>2 DEF Written, core
<1>5. tool' = "done" => pend' # <<>>
  <2> SUFFICES ASSUME tool' = "done" PROVE pend' # <<>>
    OBVIOUS
  <2>1. WriteTrigger
    BY DEF Tool, LoadMemory, Verify, InitMemory, WriteSlot, ReadBack, At
  <2>2. PICK ws : ws = Words(Slot(edcl_max), Etrans)
    OBVIOUS
  <2>3. pend' = ws
    BY <1>2, <1>3, <2>1, <2>2, CleanWrite DEF WriteTrigger
  <2>4. Len(ws) = 4
    BY <2>2, EtransWords DEF Base, TypeOK, ToolOK
  <2> QED BY <2>3, <2>4
<1> QED BY <1>4, <1>5, WrittenNext

LEMMA WrittenLand ==
  ASSUME Base, Ghosts, SlotLoading, Written, Land
  PROVE  Written'
<1>1. /\ pend # <<>> /\ shm' = [shm EXCEPT ![Head(pend).a] = Head(pend).v]
      /\ UNCHANGED <<pc, tool>> /\ Note(FALSE)
  BY LandIs DEF core, toolVars
<1> SUFFICES ASSUME ~everTrouble' PROVE Written'
  BY WrittenNext
<1>2. ~everTrouble /\ ~trouble
  BY <1>1, NoteMarks DEF Base, TypeOK, Marks, Ghosts
<1>3. pc # "access"
  BY <1>2 DEF Written
<1>4. CASE tool = "done"
  <2>1. Head(pend) = pend[1] /\ 1 \in 1 .. Len(pend)
    BY <1>1, HeadIs DEF Base, TypeOK
  <2>2. shm[0] = edcl_mode_bootstrap /\ pend[1].a \in 4 * edcl_max .. last
    BY <1>1, <1>2, <1>4, <2>1, SlotThere
  <2>3. shm'[0] = shm[0]
    <3>1. PICK a, v : a = Head(pend).a /\ v = Head(pend).v
      OBVIOUS
    <3>2. a = pend[1].a
      BY <2>1, <3>1
    <3>3. a # 0
      BY <2>2, <3>2, Numbers
    <3>4. shm' = [shm EXCEPT ![a] = v]
      BY <1>1, <3>1, Zenon
    <3> QED BY <3>3, <3>4, Numbers DEF Base, TypeOK, MemoryOK
  <2> QED BY <1>1, <1>3, <2>2, <2>3, WrittenNext
<1>5. CASE tool # "done"
  BY <1>1, <1>3, <1>5, WrittenNext
<1> QED BY <1>4, <1>5

LEMMA WrittenCore ==
  ASSUME Base, Ghosts, Written, Mailbox, ~everTrouble'
  PROVE  Written'
<1>1. Serve /\ ~everTrouble /\ UNCHANGED <<tool, pend>>
  BY NoteMarks DEF Mailbox, Base, TypeOK, Marks, toolVars
<1>2. tool = "done" /\ pend = <<>>
  BY CoreAlone
<1>3. (Triggered => shm[0] = edcl_mode_bootstrap) /\ pc # "access"
  BY <1>1, <1>2, WrittenIs
<1>4. Triggered' <=> \/ pc' = "poll" /\ shm'[last] = GO
                     \/ pc' = "hello"
                     \/ pc' \in {"ptr", "mode"} /\ i' = 0
  BY DEF Triggered, last, Slot, GO
<1>5. CASE PollShm
  <2>1. Triggered /\ pc' = "hello" /\ shm' = shm
    BY <1>5 DEF PollShm, Trigger, Triggered
  <2> QED BY <1>3, <2>1, WrittenNext
<1>6. CASE Hello
  <2>1. Triggered /\ pc' = "ptr" /\ shm' = shm
    BY <1>6 DEF Hello, Triggered
  <2> QED BY <1>3, <2>1, WrittenNext
<1>7. CASE ReadPtr
  <2>1. pc = "ptr" /\ pc' = "mode" /\ shm' = shm /\ i' = i
    BY <1>7 DEF ReadPtr
  <2>2. Triggered' => Triggered
    BY <1>4, <2>1 DEF Triggered
  <2> QED BY <1>3, <2>1, <2>2, WrittenNext
<1>8. CASE ReadMode
  <2>1. /\ pc = "mode" /\ mode' = shm[Slot(i)] /\ shm' = shm
        /\ pc' \in {"count", "copy", "access"}
        /\ pc' = "access" => mode' # 0 /\ mode' # edcl_mode_bootstrap
    BY <1>8 DEF ReadMode
  <2>2. i = 0 \/ i = 1
    BY <2>1 DEF Base, List
  <2>3. i = 0 => mode' = edcl_mode_bootstrap
    BY <1>3, <2>1, Numbers DEF Triggered
  <2>4. i = 1 => mode' = 0
    BY <2>1 DEF Base, Slots
  <2>5. pc' # "access"
    BY <2>1, <2>2, <2>3, <2>4
  <2>6. ~Triggered'
    BY <1>4, <2>1
  <2> QED BY <2>5, <2>6, WrittenNext
<1>9. CASE Copy
  <2>1. pc' \in {"run", "copy"}
    BY <1>9 DEF Copy
  <2>2. ~Triggered'
    BY <1>4, <2>1
  <2> QED BY <2>1, <2>2, WrittenNext
<1>10. CASE WriteCount \/ ClearPtr
  <2>1. pc' \in {"clear", "end"}
    BY <1>10 DEF WriteCount, ClearPtr
  <2>2. ~Triggered'
    BY <1>4, <2>1
  <2> QED BY <2>1, <2>2, WrittenNext
<1>11. CASE End
  <2>1. pc' = "poll" /\ shm' = [shm EXCEPT ![last] = 0]
    BY <1>11 DEF End, ClearTrigger
  <2>2. shm'[last] = 0 /\ GO # 0
    BY <2>1, Numbers DEF Base, TypeOK, MemoryOK, GO
  <2>3. ~Triggered'
    BY <1>4, <2>1, <2>2
  <2> QED BY <2>1, <2>3, WrittenNext
<1> QED BY <1>1, <1>3, <1>5, <1>6, <1>7, <1>8, <1>9, <1>10, <1>11 DEF Serve, Read, Write

LEMMA WrittenStep ==
  ASSUME Clear, Base, Ghosts, SlotLoading, Written, Next
  PROVE  Written'
<1>1. CASE \E f \in Files : Run(f)
  <2>1. tool' \in {"load", "init"} /\ pc' = pc /\ Marks
    BY <1>1, RunBase DEF Run, core
  <2>2. ~everTrouble' => ~everTrouble
    BY <2>1 DEF Marks
  <2> QED BY <2>1, <2>2, WrittenIs, WrittenNext
<1>2. CASE Mailbox
  BY <1>2, WrittenCore, WrittenNext
<1>3. CASE ProgramReturns
  <2>1. pc = "run" /\ pc' = "ptr" /\ i' = i + 1
    BY <1>3 DEF ProgramReturns, Return, NextSlot
  <2>2. i' = 1
    BY <2>1 DEF Base, List
  <2>3. ~Triggered'
    BY <2>1, <2>2 DEF Triggered
  <2> QED BY <2>1, <2>3, WrittenNext
<1>4. CASE BoardReset
  BY <1>4, WrittenNext DEF BoardReset
<1> QED BY <1>1, <1>2, <1>3, <1>4, WrittenTool, WrittenLand DEF Next

\* The invariant of the slots.
SInv == Base /\ Ghosts /\ Ordered /\ NoPointer /\ SlotLoading /\ Written

LEMMA InitSInv == Init => SInv
<1> SUFFICES ASSUME Init PROVE SInv
  OBVIOUS
<1>1. Base /\ Ghosts /\ SlotLoading
  BY InitBase, InitGhosts, InitSlotLoading
<1>2. pend = <<>> /\ pc = "poll" /\ shm = [a \in 0 .. SHM - 1 |-> 0]
  BY DEF Init, CoreInit
<1>3. Ordered
  <2>1. Len(pend) = 0
    BY <1>2
  <2> QED BY <2>1 DEF Ordered
<1>4. shm[0] = 0 /\ shm[last] # GO
  BY <1>2, Numbers DEF GO
<1>5. NoPointer
  BY <1>2, <1>4, NoPointerIs
<1>6. Written
  BY <1>2, <1>4, WrittenIs DEF Triggered
<1> QED BY <1>1, <1>3, <1>5, <1>6 DEF SInv

LEMMA StutterSInv ==
  ASSUME SInv, UNCHANGED vars
  PROVE  SInv'
<1>1. /\ UNCHANGED <<shm, code, pc, i, addr2, mode, copied>>
      /\ UNCHANGED <<file, tool, section, offset, pend, stray>>
      /\ UNCHANGED <<trouble, everTrouble, crossed, fresh, lists, triggers, resets>>
  BY StutterIs
<1>2. Base'
  <2>1. UNCHANGED Elsewhere
    BY <1>1 DEF Elsewhere, core, ghosts
  <2>2. ToolOK' /\ AtSection' /\ WayOK' /\ Booleans'
    BY <1>1 DEF SInv, Base, TypeOK, ToolOK, AtSection, Sections, Here, WayOK, Booleans
  <2> QED BY <2>1, <2>2, SameServed DEF SInv, Base, TypeOK
<1>3. Ghosts'
  BY <1>1 DEF SInv, Ghosts, Alone
<1>4. Ordered'
  BY <1>1 DEF SInv, Ordered, Behind, Slot
<1>5. NoPointer'
  BY <1>1, NoPointerIs, NoPointerNext DEF SInv
<1>6. Written'
  <2>1. Triggered' <=> Triggered
    BY <1>1 DEF Triggered, last, Slot
  <2> QED BY <1>1, <2>1, WrittenIs, WrittenNext DEF SInv
<1>7. SlotLoading'
  BY <1>1 DEF SInv, SlotLoading, Busy, Kept, Wanted, Sections, Slot, last
<1> QED BY <1>2, <1>3, <1>4, <1>5, <1>6, <1>7 DEF SInv

LEMMA SInvStep ==
  ASSUME Clear, SInv, Next
  PROVE  SInv'
<1>1. Base /\ Ghosts /\ Ordered /\ NoPointer /\ SlotLoading /\ Written
  BY DEF SInv
<1>2. Base' /\ Marks
  BY <1>1, BaseStep
<1>3. Ghosts'
  BY <1>1, <1>2, GhostsStep
<1>4. Ordered' /\ NoPointer' /\ SlotLoading' /\ Written'
  BY <1>1, OrderedStep, NoPointerStep, SlotLoadingStep, WrittenStep
<1> QED BY <1>2, <1>3, <1>4 DEF SInv

LEMMA SlotInvariant == Clear => (Spec => []SInv)
<1> SUFFICES ASSUME Clear PROVE Spec => []SInv
  OBVIOUS
<1>1. SInv /\ [Next]_vars => SInv'
  BY SInvStep, StutterSInv
<1> QED BY <1>1, InitSInv, PTL DEF Spec

\* What hello() takes for a slot was written as one, unless there was trouble; and even then it
\* reads or writes address 0, unless a list and a run of the tool, or a reset, crossed.
THEOREM SlotsWritten == Clear => (Spec => []OnlyWrittenSlots)
<1> SUFFICES ASSUME Clear PROVE Spec => []OnlyWrittenSlots
  OBVIOUS
<1>1. SInv => OnlyWrittenSlots
  BY NoPointerIs, WrittenIs DEF SInv, Base, TypeOK, Booleans, OnlyWrittenSlots
<1>2. Spec => []SInv
  BY SlotInvariant
<1> QED BY <1>1, <1>2, PTL

-----------------------------------------------------------------------------
(* The image on its way *)

\* The sections of a file agree where they overlap in the image.
Separate == \A f \in Files : Apart(f)

LEMMA ApartWords ==
  ASSUME Separate, file \in Files, NEW m \in 1 .. Len(Sections), NEW n \in 1 .. Len(Sections),
         NEW j \in 1 .. Len(Sections[m].data), NEW k \in 1 .. Len(Sections[n].data),
         Target(Sections[m], j) = Target(Sections[n], k), Target(Sections[n], k) \in Image
  PROVE  Sections[m].data[j] = Sections[n].data[k]
<1>1. Apart(file)
  BY DEF Separate
<1> QED BY <1>1 DEF Apart, Sections

LEMMA LoadWordsAre ==
  ASSUME Clear, ToolOK, section \in 1 .. Len(Sections), Here.load
  PROVE  /\ Len(Words(Here.addr, Here.data)) = Len(Here.data)
         /\ \A j \in 1 .. Len(Here.data) : /\ Words(Here.addr, Here.data)[j].a = Target(Here, j)
                                           /\ Words(Here.addr, Here.data)[j].v = Here.data[j]
<1>1. file \in Files /\ section \in 1 .. Len(file.sections) /\ Here = file.sections[section]
  BY DEF ToolOK, Sections, Here
<1>2. Here.addr \in Nat /\ Here.data \in Seq(Int)
  BY <1>1, FileShape, SectionShape
<1>3. \A j \in 1 .. Len(Here.data) : Fits(Place(Here.addr + j - 1), Here.data[j])
  BY <1>1, LoadWords
<1> QED BY <1>2, <1>3, WordsAre DEF Target

LEMMA InitWordIs ==
  ASSUME NEW a \in Nat
  PROVE  /\ Len(Words(a, << 0 >>)) = 1
         /\ Words(a, << 0 >>)[1].a = Place(a) /\ Words(a, << 0 >>)[1].v = 0
<1>1. PICK d : d = << 0 >>
  OBVIOUS
<1>2. d \in Seq(Int) /\ Len(d) = 1 /\ \A k \in 1 .. Len(d) : d[k] = 0 /\ Fits(Place(a + k - 1), d[k])
  BY <1>1, ZeroWords
<1>3. PICK ws : ws = Words(a, d)
  OBVIOUS
<1>4. Len(ws) = Len(d) /\ \A k \in 1 .. Len(d) : ws[k].a = Place(a + k - 1) /\ ws[k].v = d[k]
  BY <1>2, <1>3, WordsAre
<1>5. a + 1 - 1 = a /\ 1 \in 1 .. Len(d)
  BY <1>2
<1> QED BY <1>1, <1>2, <1>3, <1>4, <1>5

\* ImageLoading after a step that keeps the file.
LEMMA ImageLoads ==
  ASSUME Sections' = Sections,
         \A n \in 1 .. Len(Sections) : \A k \in 1 .. Len(Sections[n].data) : \A a, v :
           Due(n, k)' /\ a = Target(Sections[n], k) /\ a \in Image /\ v = Sections[n].data[k] =>
             Kept(a, v)'
  PROVE  ImageLoading'
<1> SUFFICES ASSUME NEW n \in 1 .. Len(Sections), NEW k \in 1 .. Len(Sections[n].data),
                    Due(n, k)', (Target(Sections[n], k) \in Image)'
             PROVE  Kept(Target(Sections[n], k), Sections[n].data[k])'
  BY DEF ImageLoading
<1>1. PICK a, v : a = Target(Sections[n], k) /\ v = Sections[n].data[k]
  OBVIOUS
<1>2. Target(Sections[n], k)' = a /\ Sections[n].data[k]' = v
  BY <1>1 DEF Target
<1>3. a \in Image
  BY <1>2 DEF Image
<1>4. Kept(a, v)'
  BY <1>1, <1>3
<1> QED BY <1>2, <1>4 DEF Kept, Wanted

\* What is due stays when the words of a call agree with it, or are below the image.
LEMMA ImageLoadingTool ==
  ASSUME Clear, Separate, Base, SlotLoading, ImageLoading, Tool, Busy'
  PROVE  ImageLoading'
<1>1. Busy /\ stray = 0 /\ ~trouble' /\ file \in Files /\ ToolOK /\ AtSection
  BY ToolBusy DEF SlotLoading, Base, TypeOK, ToolOK
<1>2. file' = file /\ shm' = shm /\ Sections' = Sections
  BY ToolCalls DEF Base, TypeOK, Elsewhere, Sections
<1> SUFFICES ASSUME NEW n \in 1 .. Len(Sections), NEW k \in 1 .. Len(Sections[n].data), NEW a, NEW v,
                    Due(n, k)', a = Target(Sections[n], k), a \in Image, v = Sections[n].data[k]
             PROVE  Kept(a, v)'
  BY <1>2, ImageLoads
<1>3. Due(n, k) => Kept(a, v)
  BY <1>1 DEF ImageLoading
<1>4. /\ Len(Sections) \in Nat /\ n \in Nat /\ section \in Nat /\ offset \in Nat
      /\ Len(Sections[n].data) \in Nat /\ k \in Nat /\ k >= 1
  <2>1. Sections[n] \in Section
    BY <1>1, FileShape DEF Sections
  <2> QED BY <1>1, <2>1, FileShape, SectionShape DEF Sections, ToolOK
<1>5. a >= IMAGE
  BY Numbers DEF Image
<1>6. CASE LoadMemory
  <2>1. PICK ws : ws = Words(Here.addr, Here.data)
    OBVIOUS
  <2>2. CallWrite(ws) /\ tool = "load" /\ tool' = "verify" /\ section' = section
    BY <1>6, <2>1 DEF LoadMemory
  <2>3. pend = <<>> /\ pend' = ws
    BY <1>1, <2>2, CleanWrite
  <2>4. section \in 1 .. Len(Sections) /\ Here.load /\ Here = Sections[section]
    BY <1>1, <2>2 DEF AtSection, Here
  <2>5. Len(ws) = Len(Here.data) /\ \A j \in 1 .. Len(Here.data) : ws[j].a = Target(Here, j) /\ ws[j].v = Here.data[j]
    BY <1>1, <2>1, <2>4, LoadWordsAre
  <2>6. \A j \in 1 .. Len(ws) : ws[j].a = a => ws[j].v = v
    <3> SUFFICES ASSUME NEW j \in 1 .. Len(Sections[section].data), Target(Sections[section], j) = a
                 PROVE  Sections[section].data[j] = v
      BY <2>4, <2>5
    <3> QED BY <1>1, <2>4, ApartWords
  <2>7. CASE n < section
    <3>1. Kept(a, v)
      BY <1>3, <2>7 DEF Due
    <3> QED BY <1>2, <2>3, <2>6, <3>1, KeptWrite
  <2>8. CASE ~(n < section)
    <3>1. n = section
      BY <1>4, <2>2, <2>8 DEF Due
    <3>2. \E j \in 1 .. Len(ws) : ws[j].a = a
      BY <2>4, <2>5, <3>1
    <3> QED BY <2>3, <2>6, <3>2, WriteKept
  <2> QED BY <2>7, <2>8
<1>7. CASE Verify
  <2>1. InMemory(Here) \in BOOLEAN
    BY DEF InMemory
  <2>2. /\ tool = "verify" /\ CallRead(InMemory(Here)) /\ section' = section + 1 /\ offset' = offset
        /\ tool' \in {"load", "init", "slot"}
    BY <1>7 DEF Verify, At
  <2>3. pend' = pend
    BY <1>1, <2>1, <2>2, CleanRead
  <2>4. offset' = 0
    BY <1>1, <2>2 DEF AtSection
  <2>5. n < section \/ n = section
    BY <1>4, <2>2, <2>4 DEF Due
  <2>6. Kept(a, v)
    BY <1>3, <2>2, <2>5 DEF Due
  <2> QED BY <1>2, <2>3, <2>6, KeptRead
<1>8. CASE InitMemory
  <2>0. tool = "init" /\ section \in 1 .. Len(Sections) /\ ~Here.load /\ offset < Len(Here.data) /\ Here = Sections[section]
    BY <1>1, <1>8 DEF InitMemory, AtSection, Here
  <2>1. Here \in Section /\ Here.addr \in Nat /\ Len(Here.data) \in Nat
    BY <1>1, <2>0, FileShape, SectionShape DEF Sections
  <2>2. PICK ws : ws = Words(Here.addr + offset, << 0 >>)
    OBVIOUS
  <2>3. CallWrite(ws)
    BY <1>8, <2>2 DEF InitMemory
  <2>4. pend = <<>> /\ pend' = ws
    BY <1>1, <2>3, CleanWrite
  <2>5. PICK o : o = offset + 1
    OBVIOUS
  <2>6. o \in 1 .. Len(Here.data) /\ Here.addr + offset \in Nat /\ Here.addr + o - 1 = Here.addr + offset
    BY <1>4, <2>0, <2>1, <2>5
  <2>7. Len(ws) = 1 /\ ws[1].a = Target(Here, o) /\ ws[1].v = 0
    BY <2>2, <2>6, InitWordIs DEF Target
  <2>8. Here.data[o] = 0
    BY <1>1, <2>0, <2>6, Zeroed DEF Sections
  <2>9. Target(Here, o) = a => v = 0
    BY <1>1, <2>0, <2>6, <2>8, ApartWords
  <2>10. \A j \in 1 .. Len(ws) : ws[j].a = a => ws[j].v = v
    BY <2>7, <2>9
  <2>11. Due(n, k) \/ (n = section /\ k = o)
    <3>1. CASE InitOver
      <4>1. section' = section + 1 /\ offset' = 0
        BY <1>8, <3>1 DEF InitMemory
      <4>2. o = Len(Here.data)
        BY <1>4, <2>0, <2>1, <2>5, <3>1 DEF InitOver
      <4>3. n < section \/ n = section
        BY <1>4, <4>1, <1>8 DEF Due, InitMemory, At
      <4>4. n = section => k <= o
        BY <2>0, <4>2
      <4> QED BY <1>4, <2>0, <2>5, <4>3, <4>4 DEF Due
    <3>2. CASE ~InitOver
      <4>1. section' = section /\ offset' = o /\ tool' = "init"
        BY <1>8, <2>0, <2>5, <3>2 DEF InitMemory
      <4> QED BY <1>4, <2>0, <2>5, <4>1 DEF Due
    <3> QED BY <3>1, <3>2
  <2>12. CASE Due(n, k)
    BY <1>2, <1>3, <2>4, <2>10, <2>12, KeptWrite
  <2>13. CASE n = section /\ k = o
    <3>1. \E j \in 1 .. Len(ws) : ws[j].a = a
      BY <2>0, <2>7, <2>13
    <3> QED BY <2>4, <2>10, <3>1, WriteKept
  <2> QED BY <2>11, <2>12, <2>13
<1>9. CASE WriteSlot \/ WriteTrigger
  <2>1. PICK b \in {0, edcl_max} : CallWrite(Words(Slot(b), Etrans))
    BY <1>9 DEF WriteSlot, WriteTrigger
  <2>2. PICK ws : ws = Words(Slot(b), Etrans)
    OBVIOUS
  <2>3. pend = <<>> /\ pend' = ws
    BY <1>1, <2>1, <2>2, CleanWrite
  <2>4. Len(ws) = 4 /\ \A j \in 1 .. 4 : ws[j].a = Slot(b) + j - 1
    BY <1>1, <2>2, EtransWords
  <2>5. Slot(b) \in Nat /\ Slot(b) + 3 < IMAGE
    BY Numbers DEF Slot
  <2>6. \A j \in 1 .. Len(ws) : ws[j].a # a
    <3>1. \A j \in 1 .. 4 : Slot(b) + j - 1 < IMAGE
      BY <2>5, Numbers
    <3> QED BY <1>5, <2>4, <3>1, Numbers DEF Image
  <2>7. section' = section /\ tool' \in {"readback", "done"}
    BY <1>9 DEF WriteSlot, WriteTrigger
  <2>8. Kept(a, v)
    BY <1>3, <2>7 DEF Due
  <2> QED BY <1>2, <2>3, <2>6, <2>8, KeptWrite
<1>10. CASE ReadBack
  <2>1. section' = section /\ tool' = "trigger" /\ CallRead(TRUE)
    BY <1>10 DEF ReadBack
  <2>2. pend' = pend
    BY <1>1, <2>1, CleanRead
  <2>3. Kept(a, v)
    BY <1>3, <2>1 DEF Due
  <2> QED BY <1>2, <2>2, <2>3, KeptRead
<1> QED BY <1>6, <1>7, <1>8, <1>9, <1>10 DEF Tool

LEMMA ImageLoadingLand ==
  ASSUME Base, ImageLoading, Land, Busy'
  PROVE  ImageLoading'
<1>1. Busy /\ UNCHANGED <<file, tool, section, offset>> /\ Sections' = Sections
  BY LandBusy, LandIs DEF toolVars, Sections
<1> SUFFICES ASSUME NEW n \in 1 .. Len(Sections), NEW k \in 1 .. Len(Sections[n].data), NEW a, NEW v,
                    Due(n, k)', a = Target(Sections[n], k), a \in Image, v = Sections[n].data[k]
             PROVE  Kept(a, v)'
  BY <1>1, ImageLoads
<1>2. Due(n, k)
  BY <1>1 DEF Due
<1>3. Kept(a, v)
  BY <1>1, <1>2 DEF ImageLoading
<1>4. a \in 0 .. SHM - 1
  BY Numbers DEF Image
<1> QED BY <1>3, <1>4, KeptLands DEF Base, TypeOK

LEMMA ImageLoadingStep ==
  ASSUME Clear, Separate, Base, Ghosts, SlotLoading, ImageLoading, Next
  PROVE  ImageLoading'
<1> SUFFICES ASSUME Busy' PROVE ImageLoading'
  BY DEF ImageLoading
<1>1. CASE \E f \in Files : Run(f)
  <2>1. section' = 1 /\ offset' = 0 /\ tool' \in {"load", "init"}
    BY <1>1 DEF Run
  <2>2. \A n, k \in Nat \ {0} : ~Due(n, k)'
    BY <2>1 DEF Due
  <2>3. Base'
    BY BaseStep
  <2>4. /\ Len(Sections') \in Nat
        /\ \A n \in 1 .. Len(Sections') : Len(Sections'[n].data) \in Nat
    <3>1. file' \in Files
      BY <2>3 DEF Base, TypeOK, ToolOK
    <3> QED BY <3>1, FileShape, SectionShape DEF Sections
  <2>5. \A n \in 1 .. Len(Sections') : n \in Nat \ {0} /\ \A k \in 1 .. Len(Sections'[n].data) : k \in Nat \ {0}
    BY <2>4
  <2> QED BY <2>2, <2>5 DEF ImageLoading
<1> QED BY <1>1, BusyStep, ImageLoadingTool, ImageLoadingLand

-----------------------------------------------------------------------------
(* From the trigger to the call of the program *)

\* Carried with the numbers put in, before and after a step.
LEMMA CarriedIs ==
  ASSUME NEW f
  PROVE  Carried(f) <=>
           /\ \A n \in 1 .. Len(f.sections) : Holds(shm, f.sections[n])
           /\ pc \in {"poll", "hello"} \/ (pc \in {"ptr", "mode"} /\ i = 0) =>
                shm[0] = 4 /\ shm[1] = f.entry
           /\ pc \in {"copy", "run"} \/ (pc = "mode" /\ i = 0) => addr2 = f.entry
           /\ pc = "copy" => \A a \in IMAGE .. copied - 1 : code[a] = shm[a]
           /\ pc = "run" => \A a \in Image : code[a] = shm[a]
           /\ pc # "access"
BY Numbers DEF Carried, edcl_mode_bootstrap

LEMMA CarriedNext ==
  ASSUME NEW f
  PROVE  Carried(f)' <=>
           /\ \A n \in 1 .. Len(f.sections) : Holds(shm', f.sections[n])
           /\ pc' \in {"poll", "hello"} \/ (pc' \in {"ptr", "mode"} /\ i' = 0) =>
                shm'[0] = 4 /\ shm'[1] = f.entry
           /\ pc' \in {"copy", "run"} \/ (pc' = "mode" /\ i' = 0) => addr2' = f.entry
           /\ pc' = "copy" => \A a \in IMAGE .. copied' - 1 : code'[a] = shm'[a]
           /\ pc' = "run" => \A a \in Image : code'[a] = shm'[a]
           /\ pc' # "access"
BY Numbers DEF Carried, edcl_mode_bootstrap, Slot, Holds, Target, Place, Image

\* A word below the image is no word of a section.
LEMMA HoldsBelow ==
  ASSUME NEW m, NEW memory, \A a \in Image : memory[a] = m[a], NEW s, Holds(m, s)
  PROVE  Holds(memory, s)
BY DEF Holds

\* When the last word of the trigger lands, the slot and the image are there.
LEMMA LandsCarried ==
  ASSUME Base, SlotLoading, ImageLoading, Land, ~trouble, tool = "done", pc = "poll"
  PROVE  Carried(file)'
<1>1. /\ pend # <<>> /\ shm' = [shm EXCEPT ![Head(pend).a] = Head(pend).v]
      /\ UNCHANGED <<pc, i>>
  BY LandIs DEF core
<1>2. /\ section = Len(Sections) + 1 /\ Kept(0, 4) /\ Kept(1, file.entry)
      /\ \A k \in 1 .. Len(pend) : pend[k].a \in Slot(edcl_max) .. last
  BY <1>1, Numbers DEF SlotLoading, Busy, edcl_mode_bootstrap
<1>3. \A k \in 1 .. Len(pend) : pend[k].a > 1 /\ pend[k].a < IMAGE
  BY <1>2, Numbers
<1>4. shm[0] = 4 /\ shm[1] = file.entry
  <2>1. shm[0] = 4
    BY <1>2, <1>3, KeptThere
  <2>2. PICK e : e = file.entry
    OBVIOUS
  <2>3. shm[1] = e
    BY <1>2, <1>3, <2>2, KeptThere
  <2> QED BY <2>1, <2>2, <2>3
<1>5. \A n \in 1 .. Len(Sections) : Holds(shm, Sections[n])
  <2> SUFFICES ASSUME NEW n \in 1 .. Len(Sections), NEW k \in 1 .. Len(Sections[n].data), NEW a, NEW v,
                      a = Target(Sections[n], k), a \in Image, v = Sections[n].data[k]
               PROVE  shm[a] = v
    BY DEF Holds
  <2>1. Len(Sections) \in Nat
    BY FileShape DEF Base, TypeOK, ToolOK, Sections
  <2>2. Due(n, k)
    BY <1>2, <2>1 DEF Due
  <2>3. Busy
    BY <1>1 DEF Busy
  <2>4. Kept(a, v)
    BY <2>2, <2>3 DEF ImageLoading
  <2>5. \A j \in 1 .. Len(pend) : pend[j].a # a
    BY <1>3, Numbers, SMTT(40) DEF Image
  <2> QED BY <2>4, <2>5, KeptThere
<1>6. PICK w : w = Head(pend)
  OBVIOUS
<1>7. w.a > 1 /\ w.a < IMAGE /\ w.a \in Int
  <2>1. w = pend[1] /\ 1 \in 1 .. Len(pend) /\ w \in Requests
    BY <1>1, <1>6, HeadIs DEF Base, TypeOK
  <2> QED BY <1>3, <2>1, Numbers DEF Requests
<1>8. \A a \in Image \cup {0, 1} : shm'[a] = shm[a]
  <2>1. shm' = [shm EXCEPT ![w.a] = w.v]
    BY <1>1, <1>6
  <2>2. \A a \in Image \cup {0, 1} : a # w.a /\ a \in 0 .. SHM - 1
    BY <1>7, Numbers DEF Image
  <2> QED BY <2>1, <2>2 DEF Base, TypeOK, MemoryOK
<1>9. \A n \in 1 .. Len(file.sections) : Holds(shm', file.sections[n])
  BY <1>5, <1>8, HoldsBelow DEF Sections
<1>10. file' = file
  BY LandIs DEF toolVars
<1>11. shm'[0] = 4 /\ shm'[1] = file.entry /\ pc' = "poll"
  BY <1>1, <1>4, <1>8
<1>12. \A f : f = file => Carried(f)'
  BY <1>9, <1>11, CarriedNext
<1>13. PICK f : f = file
  OBVIOUS
<1>14. Carried(f)'
  BY <1>12, <1>13
<1> QED BY <1>10, <1>13, <1>14 DEF Carried

LEMMA FreshLand ==
  ASSUME Base, SlotLoading, ImageLoading, Land
  PROVE  Fresh'
<1>1. fresh' # {} => fresh' = {file} /\ tool = "done" /\ pc = "poll" /\ ~trouble
  BY DEF Land
<1>2. file' = file
  BY LandIs DEF toolVars
<1>3. PICK f : f = file
  OBVIOUS
<1>4. fresh' # {} => Carried(f)'
  <2>1. Carried(file)' => Carried(f)'
    BY <1>2, <1>3 DEF Carried
  <2> QED BY <1>1, <2>1, LandsCarried
<1>5. \A g \in fresh' : g = f
  BY <1>1, <1>3
<1> QED BY <1>4, <1>5 DEF Fresh

\* The core walks its list.
LEMMA CarriedCore ==
  ASSUME Base, Serve, pc # "end", NEW f, Carried(f)
  PROVE  Carried(f)'
<1>1. /\ \A n \in 1 .. Len(f.sections) : Holds(shm, f.sections[n])
      /\ pc \in {"poll", "hello"} \/ (pc \in {"ptr", "mode"} /\ i = 0) => shm[0] = 4 /\ shm[1] = f.entry
      /\ pc \in {"copy", "run"} \/ (pc = "mode" /\ i = 0) => addr2 = f.entry
      /\ pc = "copy" => \A a \in IMAGE .. copied - 1 : code[a] = shm[a]
      /\ pc # "access"
  BY CarriedIs
<1>2. shm \in [0 .. SHM - 1 -> Int] /\ code \in [Entries -> Int] /\ copied \in IMAGE .. SHM
  BY DEF Base, TypeOK, MemoryOK
<1>3. CASE PollShm \/ Hello
  <2>1. /\ shm' = shm /\ pc \in {"poll", "hello"}
        /\ pc' = "hello" \/ (pc' = "ptr" /\ i' = 0)
    BY <1>3 DEF PollShm, Hello, FromZero
  <2> QED BY <1>1, <2>1, CarriedNext
<1>4. CASE ReadPtr
  <2>1. pc = "ptr" /\ pc' = "mode" /\ addr2' = shm[Slot(i) + 1] /\ UNCHANGED <<shm, i>>
    BY <1>4 DEF ReadPtr
  <2>2. i = 0 => addr2' = shm[1]
    BY <2>1, Numbers
  <2> QED BY <1>1, <2>1, <2>2, CarriedNext
<1>5. CASE ReadMode
  <2>1. /\ pc = "mode" /\ mode' = shm[Slot(i)] /\ UNCHANGED <<shm, code, addr2>>
        /\ \/ mode' = 0 /\ pc' = "count"
           \/ mode' = 4 /\ pc' = "copy" /\ copied' = IMAGE /\ i' = i
           \/ mode' \notin {0, 4} /\ pc' = "access"
    BY <1>5 DEF ReadMode, edcl_mode_bootstrap
  <2>2. i = 0 \/ i = 1
    BY <2>1 DEF Base, List
  <2>3. i = 0 => mode' = 4
    BY <1>1, <2>1, Numbers
  <2>4. i = 1 => mode' = 0
    BY <2>1 DEF Base, Slots
  <2>5. CASE i = 0
    <3>1. pc' = "copy" /\ copied' = IMAGE /\ addr2' = f.entry
      BY <1>1, <2>1, <2>3, <2>5
    <3>2. \A a \in IMAGE .. copied' - 1 : code'[a] = shm'[a]
      BY <3>1, Numbers
    <3> QED BY <1>1, <2>1, <3>1, <3>2, CarriedNext
  <2>6. CASE i = 1
    <3>1. pc' = "count"
      BY <2>1, <2>4, <2>6
    <3> QED BY <1>1, <2>1, <3>1, CarriedNext
  <2> QED BY <2>2, <2>5, <2>6
<1>6. CASE Copy
  <2>1. /\ pc = "copy" /\ copied' = copied + 1 /\ UNCHANGED <<shm, addr2>>
        /\ code' = [code EXCEPT ![copied] = shm[copied]]
        /\ pc' = IF copied + 1 = SHM THEN "run" ELSE "copy"
    BY <1>6 DEF Copy, CopyEnd
  <2>2. copied < SHM
    BY <2>1 DEF Base, List
  <2>3. \A a \in IMAGE .. copied' - 1 : a \in Entries /\ (a = copied \/ a \in IMAGE .. copied - 1)
    <3>1. \A c, s \in Int, m \in Nat : c \in m .. s /\ c < s =>
            \A a \in m .. (c + 1) - 1 : a \in m .. s - 1 /\ (a = c \/ a \in m .. c - 1)
      OBVIOUS
    <3>2. \A a \in IMAGE .. (copied + 1) - 1 : a \in IMAGE .. SHM - 1 /\ (a = copied \/ a \in IMAGE .. copied - 1)
      BY <1>2, <2>2, <3>1, Numbers
    <3> QED BY <2>1, <3>2 DEF Entries, Image
  <2>4. copied \in Entries
    BY <1>2, <2>2, Numbers DEF Entries, Image
  <2>5. code'[copied] = shm[copied] /\ \A a \in Entries : a # copied => code'[a] = code[a]
    BY <1>2, <2>1, <2>4
  <2>6. \A a \in IMAGE .. copied' - 1 : code'[a] = shm'[a]
    BY <1>1, <2>1, <2>3, <2>5
  <2>7. pc' = "run" => \A a \in Image : code'[a] = shm'[a]
    <3>1. pc' = "run" => copied' = SHM
      BY <2>1
    <3> QED BY <2>6, <3>1 DEF Image
  <2>8. addr2' = f.entry /\ pc' \in {"run", "copy"}
    BY <1>1, <2>1
  <2> QED BY <1>1, <2>1, <2>6, <2>7, <2>8, CarriedNext
<1>7. CASE WriteCount \/ ClearPtr
  <2>1. PICK b \in {0, 1} : \E v : shm' = [shm EXCEPT ![b] = v]
    BY <1>7, Numbers DEF WriteCount, ClearPtr
  <2>2. \A a \in Image : shm'[a] = shm[a]
    <3>1. \A a \in Image : a # b /\ a \in 0 .. SHM - 1
      BY Numbers DEF Image
    <3> QED BY <1>2, <2>1, <3>1
  <2>3. pc' \in {"clear", "end"}
    BY <1>7 DEF WriteCount, ClearPtr
  <2>4. \A n \in 1 .. Len(f.sections) : Holds(shm', f.sections[n])
    BY <1>1, <2>2, HoldsBelow
  <2> QED BY <2>3, <2>4, CarriedNext
<1> QED BY <1>1, <1>3, <1>4, <1>5, <1>6, <1>7 DEF Serve, Read, Write, End

LEMMA CarriedStays ==
  ASSUME UNCHANGED <<shm, code, core>>, NEW f, Carried(f)
  PROVE  Carried(f)'
<1>1. UNCHANGED <<shm, code, pc, i, addr2, copied>>
  BY DEF core
<1>2. \A a \in Image : pc = "run" => code[a] = shm[a]
  BY CarriedIs
<1> QED BY <1>1, <1>2, CarriedIs, CarriedNext

LEMMA FreshStep ==
  ASSUME Clear, Base, SlotLoading, ImageLoading, Fresh, Next
  PROVE  Fresh'
<1>1. CASE UNCHANGED <<shm, code, core, fresh>>
  BY <1>1, CarriedStays DEF Fresh
<1>2. CASE Tool
  <2>1. UNCHANGED <<shm, code, core, fresh>>
    BY <1>2, ToolCalls DEF Base, TypeOK, Elsewhere, ghosts
  <2> QED BY <1>1, <2>1
<1>3. CASE \E f \in Files : Run(f)
  <2>1. UNCHANGED <<shm, code, core, fresh>>
    BY <1>3 DEF Run, ghosts
  <2> QED BY <1>1, <2>1
<1>4. CASE Mailbox
  <2>1. Serve /\ fresh' = IF pc = "end" THEN {} ELSE fresh
    BY <1>4 DEF Mailbox
  <2>2. CASE pc = "end"
    BY <2>1, <2>2 DEF Fresh
  <2>3. CASE pc # "end"
    <3>1. fresh' = fresh
      BY <2>1, <2>3
    <3> QED BY <2>1, <2>3, <3>1, CarriedCore DEF Fresh
  <2> QED BY <2>2, <2>3
<1>5. CASE ProgramReturns
  <2>1. pc = "run" /\ pc' = "ptr" /\ i' = i + 1 /\ shm' = shm /\ fresh' = fresh
    BY <1>5 DEF ProgramReturns, Return, NextSlot, ghosts
  <2>2. i' = 1
    BY <2>1 DEF Base, List
  <2>3. \A f \in fresh : Carried(f)'
    BY <2>1, <2>2, CarriedIs, CarriedNext DEF Fresh
  <2> QED BY <2>1, <2>3 DEF Fresh
<1>6. CASE BoardReset
  BY <1>6 DEF BoardReset, Fresh
<1> QED BY <1>2, <1>3, <1>4, <1>5, <1>6, FreshLand DEF Next

\* The invariant of a boot.
BInv == SInv /\ ImageLoading /\ Fresh

LEMMA BootInvariant == Clear /\ Separate => (Spec => []BInv)
<1> SUFFICES ASSUME Clear, Separate PROVE Spec => []BInv
  OBVIOUS
<1>1. Init => BInv
  BY InitSInv DEF Init, ImageLoading, Busy, Fresh, BInv
<1>2. BInv /\ [Next]_vars => BInv'
  <2> SUFFICES ASSUME BInv, [Next]_vars PROVE BInv'
    OBVIOUS
  <2>1. CASE Next
    <3>1. Base /\ Ghosts /\ SlotLoading /\ ImageLoading /\ Fresh /\ SInv
      BY DEF BInv, SInv
    <3> QED BY <2>1, <3>1, SInvStep, ImageLoadingStep, FreshStep DEF BInv
  <2>2. CASE UNCHANGED vars
    <3>1. UNCHANGED <<shm, pend, file, tool, section, offset, trouble>>
      BY <2>2, StutterIs
    <3>2. UNCHANGED <<shm, code, core>> /\ fresh' = fresh
      BY <2>2 DEF vars, ghosts
    <3>3. SInv'
      BY <2>2, StutterSInv DEF BInv
    <3>4. ImageLoading'
      BY <3>1 DEF BInv, ImageLoading, Busy, Due, Kept, Wanted, Sections, Target, Place, Image
    <3>5. Fresh'
      BY <3>2, CarriedStays DEF BInv, Fresh
    <3> QED BY <3>3, <3>4, <3>5 DEF BInv
  <2> QED BY <2>1, <2>2
<1> QED BY <1>1, <1>2, PTL DEF Spec

\* What hello() calls on a trigger without trouble is the program that was asked for, whole and at
\* its entry, whatever runs, failures, resets and programs came before, if its sections leave the
\* slots alone and agree where they overlap.
THEOREM WholeProgram == Clear /\ Separate => (Spec => []BootExact)
<1> SUFFICES ASSUME Clear, Separate PROVE Spec => []BootExact
  OBVIOUS
<1>1. BInv => BootExact
  <2> SUFFICES ASSUME BInv, pc = "run", NEW f \in fresh
               PROVE  addr2 = f.entry /\ \A n \in 1 .. Len(f.sections) : Holds(code, f.sections[n])
    BY DEF BootExact
  <2>1. Carried(f)
    BY DEF BInv, Fresh
  <2>2. /\ addr2 = f.entry /\ \A a \in Image : code[a] = shm[a]
        /\ \A n \in 1 .. Len(f.sections) : Holds(shm, f.sections[n])
    BY <2>1, CarriedIs
  <2> QED BY <2>2, HoldsBelow
<1>2. Spec => []BInv
  BY BootInvariant
<1> QED BY <1>1, <1>2, PTL
=============================================================================
