---------------------------- MODULE AddressSpace ----------------------------
(***************************************************************************)
(* What the memory calls of the proxy kernel promise a program: every      *)
(* address holds what was mapped or stored there last, from the moment of  *)
(* the call.  That pages are filled on the first touch cannot be seen.     *)
(***************************************************************************)
EXTENDS Integers, FiniteSets

CONSTANTS
    PGSIZE,     \* addresses of a page
    User,       \* the addresses a program may have mapped
    FileIds, FileSize

VARIABLES
    space,  \* what each address holds
    client  \* what the client has asked for so far

Nothing == <<>>
Zero == <<0, 0>>
Stored == <<0, 1>>
FileUnit(f, i) == <<f, i>>

Starts == {u \in User : u % PGSIZE = 0}

\* The addresses of the n pages from a on.
Range(a, n) == {u \in User : a <= u /\ u < a + n * PGSIZE}

\* What address u of a mapping at a shows: len addresses of the file from
\* off on, as far as the file goes, but zero before skip and after them.
Content(a, f, off, len, skip, u) ==
    LET i == u - a
    IN  IF skip <= i /\ i < len /\ off + i < FileSize THEN FileUnit(f, off + i) ELSE Zero

Init == space = [u \in User |-> Nothing]

Elsewhere(U) == \A u \in User \ U : space'[u] = space[u]

\* A program stores to an address that is mapped.
Store(u) ==
    /\ space[u] # Nothing
    /\ space'[u] = Stored
    /\ Elsewhere({u})

Unmap(a, n) ==
    /\ Elsewhere(Range(a, n))
    /\ \A u \in Range(a, n) : space'[u] = Nothing

MapZero(a, n) ==
    /\ Elsewhere(Range(a, n))
    /\ \A u \in Range(a, n) : space'[u] = Zero

MapFile(a, n, f) ==
    /\ Elsewhere(Range(a, n))
    /\ \E off \in 0 .. FileSize, skip \in 0 .. PGSIZE - 1,
          len \in (n - 1) * PGSIZE + 1 .. n * PGSIZE :
           \A u \in Range(a, n) : space'[u] = Content(a, f, off, len, skip, u)

\* Only a call maps or unmaps; between calls only stores change anything.
Next ==
    /\ DOMAIN space' = User
    /\ \/ client' = client /\ \E u \in User : Store(u)
       \/ client' # client /\ \E a \in Starts, n \in 1 .. Cardinality(Starts) :
              \/ Unmap(a, n)
              \/ MapZero(a, n)
              \/ \E f \in FileIds : MapFile(a, n, f)

Spec == Init /\ [][Next]_space

=============================================================================
