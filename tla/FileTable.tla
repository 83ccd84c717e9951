------------------------------ MODULE FileTable ------------------------------
(***************************************************************************)
(* The table of open files of the proxy kernel (software/hello/file.c).    *)
(* A slot counts its references from 2: one for the slot itself, one for   *)
(* whoever opened it, and one more for each mapping region that reads from *)
(* it.  The positions in the file are left out: file_pread, the one access *)
(* with a caller, seeks before it reads.  The locks of the code are empty  *)
(* functions: one hart runs it, in machine mode.  The operators take the   *)
(* table fs and return the new one.                                        *)
(***************************************************************************)
EXTENDS Integers, FiniteSetsExt

CONSTANTS
    MAX_FILES,  \* slots of the table
    FileSize    \* length of the file that is opened

ASSUME FileTableAssumption == MAX_FILES \in Nat \ {0} /\ FileSize \in Nat

FileIds == 1 .. MAX_FILES

file_init == [f \in FileIds |-> [refcnt |-> 0, open |-> FALSE]]

FreeFiles(fs) == {f \in FileIds : fs[f].refcnt = 0}

\* file_get_free takes the first free slot and panics when there is none.
file_get_free(fs) == Min(FreeFiles(fs))

file_open(fs) ==
    [fs EXCEPT ![file_get_free(fs)] = [refcnt |-> 2, open |-> TRUE]]

file_incref(fs, f) == [fs EXCEPT ![f].refcnt = @ + 1]

file_decref(fs, f) ==
    LET slot == fs[f]
    IN  [fs EXCEPT ![f] = IF slot.refcnt = 2 THEN [refcnt |-> 0, open |-> FALSE]
                          ELSE [slot EXCEPT !.refcnt = @ - 1]]

\* Mutant: the end of the file is not seen.
file_pread_whole(size, pos) == size

\* How many units file_pread returns: it seeks, which stops at the end of a
\* file that is only read, and reads what is left.
file_pread(size, pos) == Min({size, FileSize - Min({pos, FileSize})})

=============================================================================
