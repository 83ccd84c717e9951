------------------------------ MODULE ShmMailbox ------------------------------
(***************************************************************************)
(* The core's side of the bootstrap mailbox, software/bootstrap/hello.c:   *)
(* main() polls the trigger word in shared memory, hello() walks the list  *)
(* of slots and leaves its count where the list began.                     *)
(*                                                                         *)
(* Memory is counted in words of four bytes.  A slot is four: mode, the    *)
(* pointer and its unused upper half, and a value.  The modes block_read   *)
(* and unknown have no action: the client writes no such slot, and hello() *)
(* would wait for ever at one the core read, which BootHappens rules out.  *)
(***************************************************************************)
EXTENDS Integers

CONSTANTS edcl_max,    \* slots before the one that holds the trigger (256)
          IMAGE,       \* first word of an image, here and in the core's memory (0x2000)
          SHM          \* words of shared memory, and end of an image (0x10000)

ASSUME MailboxAssumption == /\ edcl_max \in Nat \ {0, 1} /\ IMAGE \in Nat /\ SHM \in Nat
                            /\ 4 * edcl_max + 3 < IMAGE /\ IMAGE < SHM

VARIABLES shm,      \* shared memory
          code,     \* the core's own memory: the image, and address 0
          pc,       \* the core's place in main() and hello()
          i,        \* the slot
          addr2,    \* its pointer
          mode,     \* its mode
          copied    \* words of the image copied

core == <<pc, i, addr2, mode, copied>>

GO == -559038737    \* 0xDEADBEEF as the core's long
edcl_mode_read == 1
edcl_mode_write == 2
edcl_mode_bootstrap == 4

Slot(n) == 4 * n
last == Slot(edcl_max) + 3
Image == IMAGE .. SHM - 1

\* Mutant: the mode of the slot, not its value.
LastMode == Slot(edcl_max)

Trigger == last

CoreInit == /\ pc = "poll" /\ i = 0 /\ addr2 = 0 /\ mode = 0 /\ copied = IMAGE
            /\ code = [a \in Image \cup {0} |-> 0]

-----------------------------------------------------------------------------
PollShm == /\ pc = "poll" /\ shm[Trigger] = GO
           /\ pc' = "hello"
           /\ UNCHANGED <<shm, code, i, addr2, mode, copied>>

FromZero == i' = 0

\* hello() waits for the trigger once more.
Hello == /\ pc = "hello" /\ shm[Trigger] = GO
         /\ pc' = "ptr" /\ FromZero
         /\ UNCHANGED <<shm, code, addr2, mode, copied>>

ReadPtr == /\ pc = "ptr"
           /\ addr2' = shm[Slot(i) + 1] /\ pc' = "mode"
           /\ UNCHANGED <<shm, code, i, mode, copied>>

\* The mode 0 ends the list; i counts that slot too.
ReadMode == /\ pc = "mode"
            /\ mode' = shm[Slot(i)]
            /\ IF mode' = 0 THEN pc' = "count" /\ i' = i + 1 /\ UNCHANGED copied
                            ELSE /\ pc' = IF mode' = edcl_mode_bootstrap THEN "copy" ELSE "access"
                                 /\ copied' = IMAGE /\ UNCHANGED i
            /\ UNCHANGED <<shm, code, addr2>>

NextSlot == pc' = "ptr" /\ i' = i + 1

Read == /\ pc = "access" /\ mode = edcl_mode_read
        /\ shm' = [shm EXCEPT ![Slot(i) + 3] = code[addr2]]
        /\ NextSlot
        /\ UNCHANGED <<code, addr2, mode, copied>>

Write == /\ pc = "access" /\ mode = edcl_mode_write
         /\ code' = [code EXCEPT ![addr2] = shm[Slot(i) + 3]]
         /\ NextSlot
         /\ UNCHANGED <<shm, addr2, mode, copied>>

\* Mutant: the last word is not copied.
AllButOne == copied + 2

CopyEnd == copied + 1

\* The memcpy of a bootstrap; then the image's first words are printed and it is called.
Copy == /\ pc = "copy"
        /\ code' = [code EXCEPT ![copied] = shm[copied]]
        /\ copied' = copied + 1
        /\ pc' = IF CopyEnd = SHM THEN "run" ELSE "copy"
        /\ UNCHANGED <<shm, i, addr2, mode>>

\* The program may come back; the list goes on.
Return == /\ pc = "run"
          /\ NextSlot
          /\ UNCHANGED <<shm, code, addr2, mode, copied>>

WriteCount == /\ pc = "count" /\ pc' = "clear"
              /\ shm' = [shm EXCEPT ![Slot(0)] = i]
              /\ UNCHANGED <<code, i, addr2, mode, copied>>

ClearPtr == /\ pc = "clear" /\ pc' = "end"
            /\ shm' = [shm EXCEPT ![Slot(0) + 1] = 0]
            /\ UNCHANGED <<code, i, addr2, mode, copied>>

\* Mutant: the trigger stays.
LeaveTrigger == UNCHANGED shm

ClearTrigger == shm' = [shm EXCEPT ![last] = 0]

End == /\ pc = "end" /\ pc' = "poll"
       /\ ClearTrigger
       /\ UNCHANGED <<code, i, addr2, mode, copied>>

\* What the core does by itself; Return is up to the program.
Serve == PollShm \/ Hello \/ ReadPtr \/ ReadMode \/ Read \/ Write \/ Copy
         \/ WriteCount \/ ClearPtr \/ End

\* A reset of the core: both memories keep their contents.
Reset == /\ pc' = "poll" /\ i' = 0 /\ addr2' = 0 /\ mode' = 0 /\ copied' = IMAGE
         /\ UNCHANGED <<shm, code>>
=============================================================================
