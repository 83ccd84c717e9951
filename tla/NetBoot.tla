-------------------------------- MODULE NetBoot --------------------------------
(***************************************************************************)
(* A program booted over the network: the PC tool run with                 *)
(*   -loadelf file -bootstrap                                              *)
(* (stub_main.c, elfloader.cpp), the words of its calls on their way to    *)
(* shared memory, and the core that serves the mailbox.                    *)
(*                                                                         *)
(* A call is what EdclLink shows of one.  It returns a length: then all    *)
(* before it is done and its own words are on the bus (ReturnExact).  It   *)
(* returns -1: then any first part of it is done, now or later.  Once late,*)
(* a reply may be taken for that of a later call, which then returns a     *)
(* length all the same, once for each (MisledOncePerLate).                 *)
(***************************************************************************)
EXTENDS ShmMailbox, Sequences

CONSTANTS Files,       \* programs: [entry, sections], the sections in the order of the file
          MaxRuns,     \* bound: times the tool is run
          MaxFaults,   \* bound: calls that fail
          MaxResets    \* bound: resets of the board

\* A section: is it loaded, its address in words, its words (0 if it is not loaded).
Section == [load : BOOLEAN, addr : Nat, data : Seq(Int) \ {<<>>}]

ASSUME FilesAssumption ==
  /\ Files # {}
  /\ \A f \in Files : /\ f.entry \in Image /\ f.sections \in Seq(Section) \ {<<>>}
                      /\ \A n \in 1 .. Len(f.sections) : f.sections[n].load \/
                           \A k \in 1 .. Len(f.sections[n].data) : f.sections[n].data[k] = 0
ASSUME BoundsAssumption == MaxRuns \in Nat /\ MaxFaults \in Nat /\ MaxResets \in Nat

VARIABLES file,      \* the tool's file
          tool,      \* the tool's place
          section,   \* the section it is at ...
          offset,    \* ... and the word, in initMemory
          pend,      \* words accepted and not yet written, in order
          stray,     \* replies that may still be taken for another call's
          runs, faults, resets,
          trouble,     \* ghost: since the tool was run, an error was printed, the board reset, or
                       \* the core was at a list while the tool or its words were on their way
          everTrouble, \* ghost: ... ever
          crossed,     \* ghost: the core was at a list while the tool or its words were on their
                       \* way, or a reset cut the completion of one
          fresh,       \* ghost: the file, if any, for which a run without trouble has triggered the
                       \* polling core, its list not over and nothing written since
          lists, triggers   \* ghost: lists begun, triggers written

toolVars == <<file, tool, section, offset>>
bounds   == <<runs, faults, resets>>
ghosts   == <<fresh, lists, triggers>>
vars == <<shm, code, core, toolVars, pend, stray, bounds, trouble, everTrouble, crossed, ghosts>>

Sections == file.sections
Here == Sections[section]

\* Sixteen bits of an address reach the memory (eth_soc_nexys4.vhd, abits).
Place(a) == a % SHM

\* Where the n-th word of a section comes to be.
Target(s, n) == Place(s.addr + n - 1)

Words(addr, data) == [n \in 1 .. Len(data) |-> [a |-> Place(addr + n - 1), v |-> data[n]]]

-----------------------------------------------------------------------------
(* Calls *)

Crossing == pc' # "poll" /\ (tool' # "done" \/ pend' # <<>>)
Note(b) == /\ trouble' = (trouble \/ b \/ Crossing)
           /\ everTrouble' = (everTrouble \/ b \/ Crossing)
           /\ crossed' = (crossed \/ Crossing)

\* A section goes in any number of requests, an etrans in one.
Cuts(ws) == IF tool = "load" THEN 0 .. Len(ws) ELSE {0, Len(ws)}
FirstPart(ws) == \E n \in Cuts(ws) : pend' = pend \o SubSeq(ws, 1, n)

CallWrite(ws) ==
  \/ /\ pend = <<>> /\ pend' = ws
     /\ Note(FALSE)
     /\ UNCHANGED <<stray, faults>>
  \/ /\ faults < MaxFaults /\ faults' = faults + 1
     /\ FirstPart(ws)
     /\ stray' \in {stray, stray + 1}
     /\ Note(TRUE)
  \/ /\ stray > 0 /\ stray' = stray - 1
     /\ FirstPart(ws)
     /\ Note(FALSE)
     /\ UNCHANGED faults

\* ok is what the caller makes of the data if they are those it asked for.
CallRead(ok) ==
  /\ UNCHANGED pend
  /\ \/ /\ pend = <<>>
        /\ Note(~ok)
        /\ UNCHANGED <<stray, faults>>
     \/ /\ faults < MaxFaults /\ faults' = faults + 1
        /\ stray' \in {stray, stray + 1}
        /\ Note(TRUE)
     \/ /\ stray > 0 /\ stray' = stray - 1
        /\ \E b \in BOOLEAN : Note(b)
        /\ UNCHANGED faults

-----------------------------------------------------------------------------
(* The tool *)

Outside == <<shm, code, core, ghosts, runs, resets>>

\* A file that has no more sections is loaded.
At(n) == tool' = IF n > Len(Sections) THEN "slot"
                 ELSE IF Sections[n].load THEN "load" ELSE "init"

Run(f) == /\ tool = "done" /\ runs < MaxRuns
          /\ runs' = runs + 1
          /\ file' = f /\ section' = 1 /\ offset' = 0
          /\ tool' = IF f.sections[1].load THEN "load" ELSE "init"
          /\ stray' = 0            \* a socket of its own
          /\ UNCHANGED <<shm, code, core, pend, faults, resets, ghosts>>
          /\ trouble' = Crossing
          /\ everTrouble' = (everTrouble \/ Crossing)
          /\ crossed' = (crossed \/ Crossing)

LoadMemory == /\ tool = "load"
              /\ UNCHANGED <<Outside, file, section, offset>>
              /\ tool' = "verify"
              /\ CallWrite(Words(Here.addr, Here.data))

InMemory(s) == \A n \in 1 .. Len(s.data) : shm[Target(s, n)] = s.data[n]

Verify == /\ tool = "verify"
          /\ UNCHANGED <<Outside, file, offset>>
          /\ section' = section + 1 /\ At(section + 1)
          /\ CallRead(InMemory(Here))

InitOver == offset + 1 >= Len(Here.data)

InitMemory == /\ tool = "init"
              /\ UNCHANGED <<Outside, file>>
              /\ IF InitOver THEN section' = section + 1 /\ offset' = 0 /\ At(section + 1)
                             ELSE offset' = offset + 1 /\ UNCHANGED <<section, tool>>
              /\ CallWrite(Words(Here.addr + offset, <<0>>))

Etrans == <<edcl_mode_bootstrap, file.entry, 0, GO>>

WriteSlot == /\ tool = "slot" /\ tool' = "readback"
             /\ UNCHANGED <<Outside, file, section, offset>>
             /\ CallWrite(Words(Slot(0), Etrans))

\* What is read back is not looked at.
ReadBack == /\ tool = "readback" /\ tool' = "trigger"
            /\ UNCHANGED <<Outside, file, section, offset>>
            /\ CallRead(TRUE)

WriteTrigger == /\ tool = "trigger" /\ tool' = "done"
                /\ UNCHANGED <<Outside, file, section, offset>>
                /\ CallWrite(Words(Slot(edcl_max), Etrans))

Tool == LoadMemory \/ Verify \/ InitMemory \/ WriteSlot \/ ReadBack \/ WriteTrigger

-----------------------------------------------------------------------------
(* The bus, the core and the board *)

Land == /\ pend # <<>>
        /\ LET w == Head(pend)
               go == w.a = last /\ w.v = GO
           IN  /\ shm' = [shm EXCEPT ![w.a] = w.v]
               /\ fresh' = IF go /\ tool = "done" /\ pc = "poll" /\ ~trouble THEN {file} ELSE {}
               /\ triggers' = IF go THEN triggers + 1 ELSE triggers
        /\ pend' = Tail(pend)
        /\ UNCHANGED <<code, core, toolVars, stray, bounds, lists>>
        /\ Note(FALSE)

Mailbox == /\ Serve
           /\ lists' = IF pc = "hello" THEN lists + 1 ELSE lists
           /\ fresh' = IF pc = "end" THEN {} ELSE fresh
           /\ UNCHANGED <<toolVars, pend, stray, bounds, triggers>>
           /\ Note(FALSE)

ProgramReturns == /\ Return
                  /\ UNCHANGED <<toolVars, pend, stray, bounds, ghosts>>
                  /\ Note(FALSE)

\* The board's reset takes the core and the Ethernet core with its buffers.
BoardReset == /\ resets < MaxResets /\ resets' = resets + 1
              /\ Reset
              /\ pend' = <<>>
              /\ trouble' = TRUE /\ everTrouble' = TRUE
              /\ crossed' = (crossed \/ pc \in {"clear", "end"})
              /\ fresh' = {}
              /\ UNCHANGED <<toolVars, stray, runs, faults, lists, triggers>>

Init == /\ CoreInit
        /\ shm = [a \in 0 .. SHM - 1 |-> 0]
        /\ file = CHOOSE f \in Files : TRUE
        /\ tool = "done" /\ section = 1 /\ offset = 0
        /\ pend = <<>> /\ stray = 0
        /\ runs = 0 /\ faults = 0 /\ resets = 0
        /\ trouble = FALSE /\ everTrouble = FALSE
        /\ crossed = FALSE /\ fresh = {} /\ lists = 0 /\ triggers = 0

Next == \/ Tool \/ Land \/ Mailbox \/ ProgramReturns \/ BoardReset
        \/ \E f \in Files : Run(f)

Spec == Init /\ [][Next]_vars

\* The tool runs to its end, the bus takes its words, the core executes; nobody has to run the
\* tool or reset the board, and a program need not come back.
FairSpec == Spec /\ WF_vars(Tool) /\ WF_vars(Land) /\ WF_vars(Mailbox)

-----------------------------------------------------------------------------
(* Properties *)

(* Does the core's memory hold the words of a section that belong to the image. *)
Holds(memory, s) == \A n \in 1 .. Len(s.data) :
                      Target(s, n) \in Image => memory[Target(s, n)] = s.data[n]

(* No loaded section comes to the first two slots, and no two sections give one word of the image
   different contents. *)
ClearOfSlots(f) == \A n \in 1 .. Len(f.sections) : f.sections[n].load =>
                     \A k \in 1 .. Len(f.sections[n].data) : Target(f.sections[n], k) >= Slot(2)

Apart(f) == \A m, n \in 1 .. Len(f.sections) :
              LET s == f.sections[m]
                  t == f.sections[n]
              IN  \A j \in 1 .. Len(s.data), k \in 1 .. Len(t.data) :
                    Target(s, j) = Target(t, k) /\ Target(s, j) \in Image => s.data[j] = t.data[k]

(* The tool and hello(): a program that is called on a trigger without trouble, and with nothing
   written since, is the one that was asked for, whole, whatever an earlier run left behind. *)
BootExact == pc = "run" => \A f \in fresh :
               /\ addr2 = f.entry
               /\ \A n \in 1 .. Len(f.sections) : Holds(code, f.sections[n])

(* The slots: the core touches its memory for a slot nobody wrote, a count that a completed list
   left in the place of a mode, only after trouble; and unless a list was crossed, what it touches
   is address 0 and never the program. *)
OnlyWrittenSlots == pc = "access" => everTrouble /\ (crossed \/ addr2 = 0)

(* The trigger: no more lists are walked than there were triggers and resets, whatever repeats,
   crosses or cuts a list; that a trigger is not lost is BootHappens. *)
OneListPerTrigger == lists <= triggers + resets

(* The tool and hello(): a trigger of a run without trouble that finds the core at its poll gets the
   core to call the program this run loaded; only a reset, or the tool being run again, can come
   before that.  A list that comes to its end without a call does not do. *)
BootHappens == \A f \in Files :
  (pc = "poll" /\ f \in fresh) ~> (pc = "run" /\ f \in fresh) \/ tool # "done" \/ trouble

(* loadSections(), "load the corresponding section to memory": once a file is loaded and nothing
   was reported, each of its loaded sections is in memory. *)
SectionsLoaded ==
  tool = "slot" /\ pend = <<>> /\ ~trouble =>
    \A n \in 1 .. Len(Sections) : Sections[n].load => InMemory(Sections[n])
=============================================================================
