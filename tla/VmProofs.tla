------------------------------ MODULE VmProofs ------------------------------
(***************************************************************************)
(* The supervisor's memory management and its table of files, for every    *)
(* size of a page, every memory, every list of segments, every length up   *)
(* to the memory's, offset and right of a call: what is mapped is counted  *)
(* (VmrCounts, FileCounts), no page has a right its region does not give   *)
(* (NoRightGained), the asserts of vm.c hold where the program and its     *)
(* calls fit (AssertsHold), the break never moves over what is mapped      *)
(* (BrkGrowsClear), and demand paging cannot be seen: Vm implements        *)
(* AddressSpace (Implements).                                              *)
(***************************************************************************)
EXTENDS Vm, FiniteSetTheorems, NaturalsInduction, WellFoundedInduction, TLAPS

-----------------------------------------------------------------------------
(* Numbers *)

\* Every set of numbers that is not empty has a least one.
LEMMA Least ==
    ASSUME NEW T, T \subseteq Nat, T # {}
    PROVE  Min(T) \in T /\ \A y \in T : Min(T) <= y
<1>1. PICK R : R = OpToRel(<, Nat)
  OBVIOUS
<1>2. IsWellFoundedOn(R, Nat)
  BY <1>1, NatLessThanWellFounded, Zenon
<1>3. \A x \in Nat, y \in Nat : y < x => <<y, x>> \in R
  BY <1>1, Zenon DEF OpToRel
<1>4. PICK x \in T : \A y \in T : ~(<<y, x>> \in R)
  BY <1>2, WFMin, Zenon
<1>5. ASSUME NEW y \in T PROVE x <= y
  <2>1. ~(y < x)
    BY <1>3, <1>4, Zenon
  <2>2. x \in Nat /\ y \in Nat
    OBVIOUS
  <2> QED
    BY <2>1, <2>2
<1> QED
  BY <1>5, Zenon DEF Min

\* A set of numbers up to c that has 0, and each number after one it has.
LEMMA Upwards ==
    ASSUME NEW c \in Nat, NEW T, 0 \in T,
           \A n \in 1 .. c : n - 1 \in T => n \in T
    PROVE  \A n \in 0 .. c : n \in T
<1> SUFFICES ASSUME NEW n \in 0 .. c, n \notin T PROVE FALSE
  OBVIOUS
<1> DEFINE Bad == {k \in 0 .. c : k \notin T}
<1>1. n \in Bad /\ Bad \subseteq Nat
  OBVIOUS
<1> HIDE DEF Bad
<1>2. PICK k \in Bad : \A j \in Bad : k <= j
  BY <1>1, Least, Zenon
<1>3. k \in 0 .. c /\ k \notin T
  BY DEF Bad
<1>4. k - 1 \in 0 .. c /\ k \in 1 .. c
  BY <1>3
<1>5. k - 1 \notin Bad
  <2>1. k - 1 \in Bad => k <= k - 1
    BY <1>2, Zenon
  <2> QED
    BY <2>1, <1>3
<1>6. k - 1 \in T
  BY <1>4, <1>5 DEF Bad
<1> QED
  BY <1>3, <1>4, <1>6

-----------------------------------------------------------------------------
(* Loops *)

\* f takes n steps of F from s, through the sets of G.
Walks(f, n, s, F, G) ==
    /\ f = [i \in 0 .. n |-> IF i = 0 THEN s ELSE F[<<f[i - 1], i>>]]
    /\ \A i \in 0 .. n : f[i] \in G[i]

\* A step that leads from each set of a row to the next one can be taken n
\* times.
LEMMA StepsExist ==
    ASSUME NEW n \in Nat, NEW G, NEW s, s \in G[0], NEW F,
           \A i \in 1 .. n : \A t \in G[i - 1] : F[<<t, i>>] \in G[i]
    PROVE  \E f : Walks(f, n, s, F, G)
<1> DEFINE Is(f, k) == f = [i \in 0 .. k |-> IF i = 0 THEN s ELSE F[<<f[i - 1], i>>]]
           T == {k \in 0 .. n : \E f : Is(f, k)}
<1>1. 0 \in T
  <2> PICK f : f = [i \in 0 .. 0 |-> s]
    OBVIOUS
  <2>1. \A i \in 0 .. 0 : i = 0
    OBVIOUS
  <2>2. Is(f, 0)
    BY <2>1
  <2> QED
    BY <2>2
<1>2. ASSUME NEW k \in 1 .. n, k - 1 \in T PROVE k \in T
  <2>1. PICK f : Is(f, k - 1)
    BY <1>2
  <2>2. PICK g : g = [i \in 0 .. k |-> IF i = k THEN F[<<f[k - 1], k>>] ELSE f[i]]
    OBVIOUS
  <2>3. ASSUME NEW i \in 0 .. k
        PROVE  g[i] = IF i = 0 THEN s ELSE F[<<g[i - 1], i>>]
    <3>1. CASE i = k
      <4>1. i # 0 /\ g[i] = F[<<f[i - 1], i>>] /\ g[i - 1] = f[i - 1]
        BY <3>1, <2>2
      <4> QED
        BY <4>1, Zenon
    <3>2. CASE i # k /\ i = 0
      <4>1. g[i] = f[i] /\ f[i] = s
        BY <3>2, <2>1, <2>2
      <4> QED
        BY <3>2, <4>1, Zenon
    <3>3. CASE i # k /\ i # 0
      <4>1. g[i] = f[i] /\ g[i - 1] = f[i - 1] /\ f[i] = F[<<f[i - 1], i>>]
        BY <3>3, <2>1, <2>2
      <4> QED
        BY <3>3, <4>1, Zenon
    <3> QED
      BY <3>1, <3>2, <3>3
  <2>4. Is(g, k)
    BY <2>2, <2>3
  <2> QED
    BY <2>4
<1> HIDE DEF T
<1>3. n \in T
  BY <1>1, <1>2, Upwards
<1>4. PICK f : Is(f, n)
  BY <1>3 DEF T
<1> DEFINE U == {i \in 0 .. n : f[i] \in G[i]}
<1>5. 0 \in U
  BY <1>4
<1>6. ASSUME NEW i \in 1 .. n, i - 1 \in U PROVE i \in U
  <2>1. f[i] = F[<<f[i - 1], i>>]
    BY <1>4
  <2>2. f[i - 1] \in G[i - 1]
    BY <1>6
  <2>3. f[i] \in G[i]
    BY <2>1, <2>2, Zenon
  <2> QED
    BY <2>3
<1> HIDE DEF U
<1>7. \A i \in 0 .. n : i \in U
  BY <1>5, <1>6, Upwards
<1>8. \A i \in 0 .. n : f[i] \in G[i]
  BY <1>7 DEF U
<1> QED
  BY <1>4, <1>8 DEF Walks

\* The loop of __do_munmap.
LEMMA UnmapLoop ==
    ASSUME NEW s, NEW first, NEW n \in Nat, NEW G, s \in G[0],
           \A i \in 1 .. n : \A t \in G[i - 1] : unmap_page(t, first + i - 1) \in G[i]
    PROVE  PageLoop(unmap_page, s, first, n) \in G[n]
<1> PICK F : F = [x \in (UNION {G[i] : i \in 0 .. n}) \X (1 .. n)
                          |-> unmap_page(x[1], first + x[2] - 1)]
  OBVIOUS
<1>1. ASSUME NEW i \in 1 .. n, NEW t \in G[i - 1] PROVE F[<<t, i>>] = unmap_page(t, first + i - 1)
  <2>1. i - 1 \in 0 .. n
    OBVIOUS
  <2> QED
    BY <2>1
<1>2. PICK f : Walks(f, n, s, F, G)
  <2>1. \A i \in 1 .. n : \A t \in G[i - 1] : F[<<t, i>>] \in G[i]
    BY <1>1, ZenonT(60)
  <2> QED
    BY <2>1, StepsExist, Zenon
<1> DEFINE Is(h) == h = [i \in 0 .. n |-> IF i = 0 THEN s ELSE unmap_page(h[i - 1], first + i - 1)]
<1>3. Is(f)
  <2>1. ASSUME NEW i \in 0 .. n, i # 0 PROVE f[i] = unmap_page(f[i - 1], first + i - 1)
    <3>1. i \in 1 .. n /\ i - 1 \in 0 .. n
      BY <2>1
    <3>2. f[i - 1] \in G[i - 1] /\ f[i] = F[<<f[i - 1], i>>]
      BY <1>2, <2>1, <3>1 DEF Walks
    <3> QED
      BY <1>1, <3>1, <3>2, Zenon
  <2>2. f[0] = s
    BY <1>2 DEF Walks
  <2> QED
    BY <1>2, <2>1, <2>2 DEF Walks
<1>4. PICK g : g = CHOOSE h : Is(h)
  OBVIOUS
<1>5. Is(g)
  BY <1>3, <1>4, Zenon
<1>6. PageLoop(unmap_page, s, first, n) = g[n]
  BY <1>4, Zenon DEF PageLoop
<1> DEFINE U == {i \in 0 .. n : g[i] \in G[i]}
<1>7. 0 \in U
  BY <1>5
<1>8. ASSUME NEW i \in 1 .. n, i - 1 \in U PROVE i \in U
  <2>1. g[i] = unmap_page(g[i - 1], first + i - 1)
    BY <1>5
  <2>2. g[i - 1] \in G[i - 1]
    BY <1>8
  <2>3. g[i] \in G[i]
    BY <2>1, <2>2, Zenon
  <2> QED
    BY <2>3
<1> HIDE DEF U
<1>9. \A i \in 0 .. n : i \in U
  BY <1>7, <1>8, Upwards
<1> QED
  BY <1>6, <1>9 DEF U

\* The loop of __do_mmap that maps.
LEMMA MapLoop ==
    ASSUME NEW s, NEW first, NEW n \in Nat, NEW v, NEW G, s \in G[0],
           \A i \in 1 .. n : \A t \in G[i - 1] : map_page(t, v, first + i - 1) \in G[i]
    PROVE  map_range(s, v, first, n) \in G[n]
<1> PICK F : F = [x \in (UNION {G[i] : i \in 0 .. n}) \X (1 .. n)
                          |-> map_page(x[1], v, first + x[2] - 1)]
  OBVIOUS
<1>1. ASSUME NEW i \in 1 .. n, NEW t \in G[i - 1] PROVE F[<<t, i>>] = map_page(t, v, first + i - 1)
  <2>1. i - 1 \in 0 .. n
    OBVIOUS
  <2> QED
    BY <2>1
<1>2. PICK f : Walks(f, n, s, F, G)
  <2>1. \A i \in 1 .. n : \A t \in G[i - 1] : F[<<t, i>>] \in G[i]
    BY <1>1, ZenonT(60)
  <2> QED
    BY <2>1, StepsExist, Zenon
<1> DEFINE Is(h) == h = [i \in 0 .. n |-> IF i = 0 THEN s ELSE map_page(h[i - 1], v, first + i - 1)]
<1>3. Is(f)
  <2>1. ASSUME NEW i \in 0 .. n, i # 0 PROVE f[i] = map_page(f[i - 1], v, first + i - 1)
    <3>1. i \in 1 .. n /\ i - 1 \in 0 .. n
      BY <2>1
    <3>2. f[i - 1] \in G[i - 1] /\ f[i] = F[<<f[i - 1], i>>]
      BY <1>2, <2>1, <3>1 DEF Walks
    <3> QED
      BY <1>1, <3>1, <3>2, Zenon
  <2>2. f[0] = s
    BY <1>2 DEF Walks
  <2> QED
    BY <1>2, <2>1, <2>2 DEF Walks
<1>4. PICK g : g = CHOOSE h : Is(h)
  OBVIOUS
<1>5. Is(g)
  BY <1>3, <1>4, Zenon
<1>6. map_range(s, v, first, n) = g[n]
  BY <1>4, Zenon DEF PageLoop, map_range
<1> DEFINE U == {i \in 0 .. n : g[i] \in G[i]}
<1>7. 0 \in U
  BY <1>5
<1>8. ASSUME NEW i \in 1 .. n, i - 1 \in U PROVE i \in U
  <2>1. g[i] = map_page(g[i - 1], v, first + i - 1)
    BY <1>5
  <2>2. g[i - 1] \in G[i - 1]
    BY <1>8
  <2>3. g[i] \in G[i]
    BY <2>1, <2>2, Zenon
  <2> QED
    BY <2>3
<1> HIDE DEF U
<1>9. \A i \in 0 .. n : i \in U
  BY <1>7, <1>8, Upwards
<1> QED
  BY <1>6, <1>9 DEF U

\* The loop of __do_mmap that populates.
LEMMA PopulateLoop ==
    ASSUME NEW s, NEW first, NEW n \in Nat, NEW prot, NEW G, s \in G[0],
           \A i \in 1 .. n : \A t \in G[i - 1] : populate_page(t, first + i - 1, prot) \in G[i]
    PROVE  populate_range(s, first, n, prot) \in G[n]
<1> PICK F : F = [x \in (UNION {G[i] : i \in 0 .. n}) \X (1 .. n)
                          |-> populate_page(x[1], first + x[2] - 1, prot)]
  OBVIOUS
<1>1. ASSUME NEW i \in 1 .. n, NEW t \in G[i - 1]
              PROVE F[<<t, i>>] = populate_page(t, first + i - 1, prot)
  <2>1. i - 1 \in 0 .. n
    OBVIOUS
  <2> QED
    BY <2>1
<1>2. PICK f : Walks(f, n, s, F, G)
  <2>1. \A i \in 1 .. n : \A t \in G[i - 1] : F[<<t, i>>] \in G[i]
    BY <1>1, ZenonT(60)
  <2> QED
    BY <2>1, StepsExist, Zenon
<1> DEFINE Is(h) == h = [i \in 0 .. n |-> IF i = 0 THEN s
                                                    ELSE populate_page(h[i - 1], first + i - 1, prot)]
<1>3. Is(f)
  <2>1. ASSUME NEW i \in 0 .. n, i # 0 PROVE f[i] = populate_page(f[i - 1], first + i - 1, prot)
    <3>1. i \in 1 .. n /\ i - 1 \in 0 .. n
      BY <2>1
    <3>2. f[i - 1] \in G[i - 1] /\ f[i] = F[<<f[i - 1], i>>]
      BY <1>2, <2>1, <3>1 DEF Walks
    <3> QED
      BY <1>1, <3>1, <3>2, Zenon
  <2>2. f[0] = s
    BY <1>2 DEF Walks
  <2> QED
    BY <1>2, <2>1, <2>2 DEF Walks
<1>4. PICK g : g = CHOOSE h : Is(h)
  OBVIOUS
<1>5. Is(g)
  BY <1>3, <1>4, Zenon
<1>6. populate_range(s, first, n, prot) = g[n]
  BY <1>4, Zenon DEF PageLoop, populate_range
<1> DEFINE U == {i \in 0 .. n : g[i] \in G[i]}
<1>7. 0 \in U
  BY <1>5
<1>8. ASSUME NEW i \in 1 .. n, i - 1 \in U PROVE i \in U
  <2>1. g[i] = populate_page(g[i - 1], first + i - 1, prot)
    BY <1>5
  <2>2. g[i - 1] \in G[i - 1]
    BY <1>8
  <2>3. g[i] \in G[i]
    BY <2>1, <2>2, Zenon
  <2> QED
    BY <2>3
<1> HIDE DEF U
<1>9. \A i \in 0 .. n : i \in U
  BY <1>7, <1>8, Upwards
<1> QED
  BY <1>6, <1>9 DEF U

\* The loop of __map_kernel_range.
LEMMA KernelLoop ==
    ASSUME NEW s, NEW first, NEW n \in Nat, NEW prot, NEW G, s \in G[0],
           \A i \in 1 .. n : \A t \in G[i - 1] : kernel_page(t, first + i - 1, prot) \in G[i]
    PROVE  map_kernel_range(s, first, n, prot) \in G[n]
<1> PICK F : F = [x \in (UNION {G[i] : i \in 0 .. n}) \X (1 .. n)
                          |-> kernel_page(x[1], first + x[2] - 1, prot)]
  OBVIOUS
<1>1. ASSUME NEW i \in 1 .. n, NEW t \in G[i - 1]
              PROVE F[<<t, i>>] = kernel_page(t, first + i - 1, prot)
  <2>1. i - 1 \in 0 .. n
    OBVIOUS
  <2> QED
    BY <2>1
<1>2. PICK f : Walks(f, n, s, F, G)
  <2>1. \A i \in 1 .. n : \A t \in G[i - 1] : F[<<t, i>>] \in G[i]
    BY <1>1, ZenonT(60)
  <2> QED
    BY <2>1, StepsExist, Zenon
<1> DEFINE Is(h) == h = [i \in 0 .. n |-> IF i = 0 THEN s
                                                    ELSE kernel_page(h[i - 1], first + i - 1, prot)]
<1>3. Is(f)
  <2>1. ASSUME NEW i \in 0 .. n, i # 0 PROVE f[i] = kernel_page(f[i - 1], first + i - 1, prot)
    <3>1. i \in 1 .. n /\ i - 1 \in 0 .. n
      BY <2>1
    <3>2. f[i - 1] \in G[i - 1] /\ f[i] = F[<<f[i - 1], i>>]
      BY <1>2, <2>1, <3>1 DEF Walks
    <3> QED
      BY <1>1, <3>1, <3>2, Zenon
  <2>2. f[0] = s
    BY <1>2 DEF Walks
  <2> QED
    BY <1>2, <2>1, <2>2 DEF Walks
<1>4. PICK g : g = CHOOSE h : Is(h)
  OBVIOUS
<1>5. Is(g)
  BY <1>3, <1>4, Zenon
<1>6. map_kernel_range(s, first, n, prot) = g[n]
  BY <1>4, Zenon DEF PageLoop, map_kernel_range
<1> DEFINE U == {i \in 0 .. n : g[i] \in G[i]}
<1>7. 0 \in U
  BY <1>5
<1>8. ASSUME NEW i \in 1 .. n, i - 1 \in U PROVE i \in U
  <2>1. g[i] = kernel_page(g[i - 1], first + i - 1, prot)
    BY <1>5
  <2>2. g[i - 1] \in G[i - 1]
    BY <1>8
  <2>3. g[i] \in G[i]
    BY <2>1, <2>2, Zenon
  <2> QED
    BY <2>3
<1> HIDE DEF U
<1>9. \A i \in 0 .. n : i \in U
  BY <1>7, <1>8, Upwards
<1> QED
  BY <1>6, <1>9 DEF U

\* The loop of do_mprotect.
LEMMA ProtectLoop ==
    ASSUME NEW s, NEW first, NEW n \in Nat, NEW prot, NEW G, s \in G[0],
           \A i \in 1 .. n : \A t \in G[i - 1] : protect_page(t, first + i - 1, prot) \in G[i]
    PROVE  protect_range(s, first, n, prot) \in G[n]
<1> PICK F : F = [x \in (UNION {G[i] : i \in 0 .. n}) \X (1 .. n)
                          |-> protect_page(x[1], first + x[2] - 1, prot)]
  OBVIOUS
<1>1. ASSUME NEW i \in 1 .. n, NEW t \in G[i - 1]
              PROVE F[<<t, i>>] = protect_page(t, first + i - 1, prot)
  <2>1. i - 1 \in 0 .. n
    OBVIOUS
  <2> QED
    BY <2>1
<1>2. PICK f : Walks(f, n, s, F, G)
  <2>1. \A i \in 1 .. n : \A t \in G[i - 1] : F[<<t, i>>] \in G[i]
    BY <1>1, ZenonT(60)
  <2> QED
    BY <2>1, StepsExist, Zenon
<1> DEFINE Is(h) == h = [i \in 0 .. n |-> IF i = 0 THEN s
                                                    ELSE protect_page(h[i - 1], first + i - 1, prot)]
<1>3. Is(f)
  <2>1. ASSUME NEW i \in 0 .. n, i # 0 PROVE f[i] = protect_page(f[i - 1], first + i - 1, prot)
    <3>1. i \in 1 .. n /\ i - 1 \in 0 .. n
      BY <2>1
    <3>2. f[i - 1] \in G[i - 1] /\ f[i] = F[<<f[i - 1], i>>]
      BY <1>2, <2>1, <3>1 DEF Walks
    <3> QED
      BY <1>1, <3>1, <3>2, Zenon
  <2>2. f[0] = s
    BY <1>2 DEF Walks
  <2> QED
    BY <1>2, <2>1, <2>2 DEF Walks
<1>4. PICK g : g = CHOOSE h : Is(h)
  OBVIOUS
<1>5. Is(g)
  BY <1>3, <1>4, Zenon
<1>6. protect_range(s, first, n, prot) = g[n]
  BY <1>4, Zenon DEF PageLoop, protect_range
<1> DEFINE U == {i \in 0 .. n : g[i] \in G[i]}
<1>7. 0 \in U
  BY <1>5
<1>8. ASSUME NEW i \in 1 .. n, i - 1 \in U PROVE i \in U
  <2>1. g[i] = protect_page(g[i - 1], first + i - 1, prot)
    BY <1>5
  <2>2. g[i - 1] \in G[i - 1]
    BY <1>8
  <2>3. g[i] \in G[i]
    BY <2>1, <2>2, Zenon
  <2> QED
    BY <2>3
<1> HIDE DEF U
<1>9. \A i \in 0 .. n : i \in U
  BY <1>7, <1>8, Upwards
<1> QED
  BY <1>6, <1>9 DEF U

-----------------------------------------------------------------------------
(* Division *)

\* Multiples of a page's size.
LEMMA Multiples ==
    ASSUME NEW a \in Nat, a > 0, NEW x \in Int, NEW y \in Int
    PROVE  /\ a * x \in Int /\ a * x = x * a
           /\ a * x <= a * y <=> x <= y
           /\ a * x < a * y <=> x < y
           /\ a * (x + y) = a * x + a * y /\ a * (x - y) = a * x - a * y
           /\ (a * x) \div a = x /\ (a * x) % a = 0
  OBVIOUS

\* The page of an address, and what is left of it.
LEMMA Divides ==
    ASSUME NEW a \in Nat, a > 0, NEW x \in Int
    PROVE  /\ x \div a \in Int /\ a * (x \div a) \in Int
           /\ a * (x \div a) <= x /\ x < a * (x \div a) + a
           /\ x % a \in Int /\ x % a = x - a * (x \div a)
  OBVIOUS

\* What a quotient is, from the multiples about it.
LEMMA DivIs ==
    ASSUME NEW a \in Nat, a > 0, NEW x \in Int, NEW q \in Int,
           a * q <= x, x < a * q + a
    PROVE  x \div a = q
<1>1. PICK d \in Int : d = x \div a /\ a * d <= x /\ x < a * d + a
  BY Divides
<1>2. a * (d + 1) = a * d + a /\ a * (q + 1) = a * q + a
  OBVIOUS
<1>3. a * q < a * (d + 1) /\ a * d < a * (q + 1)
  <2>1. a * q \in Int /\ a * d \in Int
    OBVIOUS
  <2> QED
    BY <1>1, <1>2, <2>1
<1>4. q < d + 1 /\ d < q + 1
  BY <1>3, Multiples
<1> QED
  BY <1>1, <1>4

-----------------------------------------------------------------------------
(* The machine *)

Kinds == {"none", "page", "lazy"}
Last == MmapMax \div PGSIZE + FREE_PAGES - 1
Tables == 0 .. Last \div PTES
Entries == [kind : Kinds, v : Vmrs, prot : SUBSET All, user : BOOLEAN]
Regions == [addr : Nat, length : Nat, file : 0 .. MAX_FILES, offset : Nat,
            refcnt : Nat, prot : SUBSET All]
Slots == [refcnt : Nat, open : BOOLEAN]
Units == Int \X Int
Labels == {"none", "page_alloc", "page past the end of the file", "populate",
           "fail to memory map a section header", "fail to memory map a section",
           "stack_bottom", "__do_mmap == current.brk", "fail to get a free file"}

Machines ==
    [pt : [Pages -> Entries], vmr : [Vmrs -> Regions], files : [FileIds -> Slots],
     mem : [User -> Units], root : BOOLEAN, vmrs : BOOLEAN, tables : SUBSET Tables,
     next : Nat, panic : Labels]

\* The pages that wait for region v, and the regions that read from file f.
Waits(pt, v) == {p \in Pages : pt[p].kind = "lazy" /\ pt[p].v = v}
Readers(vmr, f) == {v \in Vmrs : vmr[v].refcnt > 0 /\ vmr[v].file = f}

\* Each region counts its pages; region v is still to get k.
RegionsAgree(pt, vmr, v, k) ==
    \A w \in Vmrs : vmr[w].refcnt = Cardinality(Waits(pt, w)) + (IF w = v THEN k ELSE 0)

Slot(n) == IF n = 0 THEN [refcnt |-> 0, open |-> FALSE] ELSE [refcnt |-> n + 1, open |-> TRUE]

\* Each file counts the regions that read from it and who has it open.
FilesAgree(vmr, files, H) ==
    \A f \in FileIds :
        files[f] = Slot(Cardinality(Readers(vmr, f)) + (IF f \in H THEN 1 ELSE 0))

Sound(s, H, v, k) ==
    /\ s \in Machines
    /\ RegionsAgree(s.pt, s.vmr, v, k)
    /\ FilesAgree(s.vmr, s.files, H)

\* The constants, as numbers.
LEMMA Sizes ==
    /\ PGSIZE \in Nat /\ PGSIZE > 0 /\ FREE_PAGES \in Nat /\ FREE_PAGES > 0
    /\ PTES \in Nat /\ PTES > 0 /\ MAX_VMR \in Nat /\ MAX_VMR > 0
    /\ MAX_FILES \in Nat /\ MAX_FILES > 0 /\ FileSize \in Nat
    /\ FirstFree \in Nat /\ MmapMax \in Nat /\ StackSize \in Nat
    /\ FirstFree + StackSize <= MmapMax /\ 0 < StackSize
<1>1. /\ PGSIZE \in Nat /\ PGSIZE > 0 /\ FREE_PAGES \in Nat /\ FREE_PAGES > 0
      /\ PTES \in Nat /\ PTES > 0 /\ MAX_VMR \in Nat /\ MAX_VMR > 0
  BY VmAssumption
<1>2. MAX_FILES \in Nat /\ MAX_FILES > 0 /\ FileSize \in Nat
  BY FileTableAssumption
<1>3. \A x \in {FirstFree, MmapMax, StackSize} : \E p \in Nat : x = PGSIZE * p
  BY VmAssumption DEF Pages
<1>4. \A p \in Nat : PGSIZE * p \in Nat
  BY <1>1
<1>5. FirstFree \in Nat /\ MmapMax \in Nat /\ StackSize \in Nat
  BY <1>3, <1>4
<1>6. FirstFree + StackSize <= MmapMax /\ 0 < StackSize
  BY VmAssumption
<1> QED
  BY <1>1, <1>2, <1>5, <1>6

\* The first page and the number of pages that the program has.
LEMMA Bounds ==
    \E a \in Nat, z \in Nat, k \in Nat :
        /\ FirstFree = PGSIZE * a /\ MmapMax = PGSIZE * z /\ StackSize = PGSIZE * k
        /\ FirstFree \div PGSIZE = a /\ MmapMax \div PGSIZE = z
        /\ StackSize \div PGSIZE = k /\ a + k <= z
        /\ UserPages = a .. z - 1 /\ Pages = 0 .. z + FREE_PAGES - 1
<1>1. \A x \in {FirstFree, MmapMax, StackSize} : \E p \in Nat : x = PGSIZE * p
  BY VmAssumption DEF Pages
<1>2. PICK a \in Nat : FirstFree = PGSIZE * a
  BY <1>1
<1>3. PICK z \in Nat : MmapMax = PGSIZE * z
  BY <1>1
<1>4. PICK k \in Nat : StackSize = PGSIZE * k
  BY <1>1
<1>5. \A p \in Nat : (PGSIZE * p) \div PGSIZE = p
  BY Sizes, Multiples
<1>6. a + k <= z
  <2>1. PGSIZE * (a + k) <= PGSIZE * z
    <3>1. PGSIZE * (a + k) = PGSIZE * a + PGSIZE * k
      BY Sizes
    <3> QED
      BY Sizes, <1>2, <1>3, <1>4, <3>1
  <2>2. a + k \in Int /\ z \in Int
    OBVIOUS
  <2> QED
    BY <2>1, <2>2, Sizes, Multiples
<1>7. FirstFree \div PGSIZE = a /\ MmapMax \div PGSIZE = z /\ StackSize \div PGSIZE = k
  BY <1>2, <1>3, <1>4, <1>5, Zenon
<1>8. UserPages = a .. z - 1 /\ Pages = 0 .. z + FREE_PAGES - 1
  BY <1>7 DEF UserPages, Pages
<1> QED
  BY <1>2, <1>3, <1>4, <1>6, <1>7, <1>8

\* The pages, regions, files and tables: numbers, and finitely many.
LEMMA PageFacts ==
    /\ Pages \subseteq Nat /\ UserPages \subseteq Pages /\ IsFiniteSet(Pages)
    /\ Vmrs \subseteq Nat /\ IsFiniteSet(Vmrs) /\ FileIds \subseteq Nat /\ IsFiniteSet(FileIds)
    /\ IsFiniteSet(Tables) /\ Tables \subseteq Nat /\ 1 \in Vmrs
    /\ \A p \in Pages : p \div PTES \in Tables
    /\ Last \div PTES \in Nat
<1>1. PICK a \in Nat, z \in Nat :
        UserPages = a .. z - 1 /\ Pages = 0 .. z + FREE_PAGES - 1 /\ Last = z + FREE_PAGES - 1
  BY Bounds DEF Last
<1>2. \A i, j \in Int : IsFiniteSet(i .. j)
  BY FS_Interval, Zenon
<1>3. Last \in Nat /\ Pages = 0 .. Last /\ UserPages \subseteq Pages
  BY <1>1, Sizes
<1>4. Last \div PTES \in Nat
  <2>1. \A x \in Nat, c \in Nat : c > 0 => x \div c \in Nat
    OBVIOUS
  <2> QED
    BY <2>1, <1>3, Sizes
<1>5. ASSUME NEW p \in Pages PROVE p \div PTES \in Tables
  <2>1. p \in Nat /\ p <= Last
    BY <1>3
  <2>2. PICK x \in Int, y \in Int : /\ x = p \div PTES /\ y = Last \div PTES
                  /\ PTES * x <= p /\ Last < PTES * y + PTES /\ p < PTES * x + PTES
    BY <2>1, <1>3, Sizes, Divides
  <2>3. PTES * x < PTES * (y + 1)
    <3>1. PTES * (y + 1) = PTES * y + PTES /\ PTES * x \in Int /\ PTES * y \in Int
      BY Sizes
    <3> QED
      BY <2>1, <2>2, <3>1, Sizes, <1>3
  <2>4. x < y + 1
    BY <2>3, Sizes, Multiples
  <2>5. 0 <= x
    <3>1. PTES * (0 - 1) < PTES * x
      <4>1. PTES * (0 - 1) = 0 - PTES /\ PTES * x \in Int
        BY Sizes
      <4> QED
        BY <2>1, <2>2, <4>1, Sizes
    <3>2. 0 - 1 < x
      BY <3>1, Sizes, Multiples
    <3> QED
      BY <3>2
  <2> QED
    BY <1>4, <2>2, <2>4, <2>5 DEF Tables
<1> QED
  <2>1. IsFiniteSet(Pages)
    BY <1>2, <1>3
  <2>2. IsFiniteSet(Vmrs) /\ Vmrs \subseteq Nat /\ 1 \in Vmrs
    BY <1>2, Sizes DEF Vmrs
  <2>3. IsFiniteSet(FileIds) /\ FileIds \subseteq Nat
    BY <1>2, Sizes DEF FileIds
  <2>4. IsFiniteSet(Tables) /\ Tables \subseteq Nat
    BY <1>2, <1>4 DEF Tables
  <2> QED
    BY <1>3, <1>4, <1>5, <2>1, <2>2, <2>3, <2>4

\* Counts of pages and of regions are numbers.
LEMMA Counting ==
    /\ \A S \in SUBSET Pages : IsFiniteSet(S) /\ Cardinality(S) \in Nat
    /\ \A S \in SUBSET Vmrs : IsFiniteSet(S) /\ Cardinality(S) \in Nat
    /\ \A S \in SUBSET Tables : IsFiniteSet(S) /\ Cardinality(S) \in Nat
  BY PageFacts, FS_Subset, FS_CardinalityType, Zenon

\* A set with one more.
LEMMA AddOne ==
    ASSUME NEW S, IsFiniteSet(S), NEW x, x \notin S
    PROVE  Cardinality(S \cup {x}) = Cardinality(S) + 1
  BY FS_AddElement

\* A set with one less.
LEMMA TakeOne ==
    ASSUME NEW S, IsFiniteSet(S), NEW x \in S
    PROVE  Cardinality(S \ {x}) = Cardinality(S) - 1 /\ Cardinality(S) > 0
<1>1. Cardinality(S \ {x}) = Cardinality(S) - 1
  BY FS_RemoveElement
<1>2. S # {} /\ Cardinality(S) \in Nat /\ (Cardinality(S) = 0 <=> S = {})
  BY FS_EmptySet, FS_CardinalityType
<1> QED
  BY <1>1, <1>2

-----------------------------------------------------------------------------
(* Counts *)

\* Regions that may have lost pages and are the same but for that.
SameRegion(q, r) ==
    /\ q.addr = r.addr /\ q.length = r.length /\ q.prot = r.prot
    /\ q.file = r.file /\ q.offset = r.offset

Lowered(vmr, low) ==
    /\ low \in [Vmrs -> Regions]
    /\ \A w \in Vmrs : SameRegion(low[w], vmr[w]) /\ low[w].refcnt <= vmr[w].refcnt

\* What a count makes of a file's slot.
LEMMA SlotTyped == \A n \in Int : n >= 0 => Slot(n) \in Slots
  BY DEF Slot, Slots

\* A slot whose count alone is written.
LEMMA Recount ==
    ASSUME NEW r \in Slots, NEW k \in Nat, NEW y, y = [r EXCEPT !.refcnt = k]
    PROVE  y = [refcnt |-> k, open |-> r.open] /\ y \in Slots
<1>1. y \in Slots
  BY DEF Slots
<1>2. y = [refcnt |-> y.refcnt, open |-> y.open]
  BY <1>1 DEF Slots
<1>3. y.refcnt = k /\ y.open = r.open
  BY DEF Slots
<1> QED
  BY <1>1, <1>2, <1>3, Zenon

\* file_decref takes one user off the count of a file.
LEMMA DecrefSlot ==
    ASSUME NEW fs \in [FileIds -> Slots], NEW f \in FileIds, NEW n \in Nat, n > 0,
           fs[f] = Slot(n)
    PROVE  /\ file_decref(fs, f) \in [FileIds -> Slots]
           /\ file_decref(fs, f)[f] = Slot(n - 1)
           /\ \A g \in FileIds : g # f => file_decref(fs, f)[g] = fs[g]
<1>1. fs[f].refcnt = n + 1 /\ fs[f].open = TRUE
  BY DEF Slot
<1>2. Slot(n - 1) \in Slots
  <2>1. n - 1 \in Int /\ n - 1 >= 0
    OBVIOUS
  <2> QED
    BY <2>1, SlotTyped
<1>3. file_decref(fs, f) = [fs EXCEPT ![f] = Slot(n - 1)]
  <2>1. CASE n = 1
    <3>1. fs[f].refcnt = 2 /\ n - 1 = 0
      BY <2>1, <1>1
    <3>2. Slot(n - 1) = [refcnt |-> 0, open |-> FALSE]
      BY <3>1 DEF Slot
    <3> QED
      BY <3>1, <3>2 DEF file_decref
  <2>2. CASE n > 1
    <3> PICK y : y = [fs[f] EXCEPT !.refcnt = fs[f].refcnt - 1]
      OBVIOUS
    <3>1. fs[f].refcnt # 2 /\ fs[f].refcnt - 1 = n /\ n - 1 # 0 /\ n - 1 + 1 = n
      BY <2>2, <1>1
    <3>2. file_decref(fs, f) = [fs EXCEPT ![f] = y]
      BY <3>1 DEF file_decref
    <3>3. y = [fs[f] EXCEPT !.refcnt = n] /\ fs[f] \in Slots
      BY <3>1
    <3>4. y = [refcnt |-> n, open |-> TRUE]
      BY <1>1, <3>3, Recount
    <3>5. Slot(n - 1) = [refcnt |-> n, open |-> TRUE]
      BY <3>1 DEF Slot
    <3> QED
      BY <3>2, <3>4, <3>5
  <2> QED
    BY <2>1, <2>2
<1> QED
  BY <1>2, <1>3

\* file_incref counts one user more.
LEMMA IncrefSlot ==
    ASSUME NEW fs \in [FileIds -> Slots], NEW f \in FileIds, NEW n \in Nat, n > 0,
           fs[f] = Slot(n)
    PROVE  /\ file_incref(fs, f) \in [FileIds -> Slots]
           /\ file_incref(fs, f)[f] = Slot(n + 1)
           /\ \A g \in FileIds : g # f => file_incref(fs, f)[g] = fs[g]
<1> PICK y : y = [fs[f] EXCEPT !.refcnt = fs[f].refcnt + 1]
  OBVIOUS
<1>1. fs[f].refcnt = n + 1 /\ fs[f].open = TRUE
  BY DEF Slot
<1>2. y = [fs[f] EXCEPT !.refcnt = n + 2] /\ fs[f] \in Slots /\ n + 2 \in Nat
  BY <1>1
<1>3. y = [refcnt |-> n + 2, open |-> TRUE] /\ y \in Slots
  BY <1>1, <1>2, Recount, ZenonT(40)
<1>4. Slot(n + 1) = y
  <2>1. n + 1 # 0 /\ n + 1 + 1 = n + 2
    OBVIOUS
  <2> QED
    BY <1>3, <2>1, Zenon DEF Slot
<1>5. file_incref(fs, f) = [fs EXCEPT ![f] = y]
  BY DEF file_incref
<1> QED
  BY <1>3, <1>4, <1>5

\* Region w counts one page less, and gives its file back with the last.
TakenOff(vmr, files, w, low, fs) ==
    /\ low = [vmr EXCEPT ![w].refcnt = vmr[w].refcnt - 1]
    /\ fs = IF vmr[w].refcnt - 1 = 0 /\ vmr[w].file # 0
            THEN file_decref(files, vmr[w].file) ELSE files

\* A page that waits stops to: its region counts one page less, and gives its
\* file back when it was the last.
LeavesPage(s, u, p) ==
    /\ p \in Pages /\ s.pt[p].kind = "lazy"
    /\ u.pt \in [Pages -> Entries] /\ u.pt[p].kind # "lazy"
    /\ \A q \in Pages : q # p => u.pt[q] = s.pt[q]
    /\ TakenOff(s.vmr, s.files, s.pt[p].v, u.vmr, u.files)

\* A page that stops to wait leaves the counts of vmr_t and of file_t right.
LEMMA Leave ==
    ASSUME NEW s, NEW H, NEW v, NEW k \in Nat, Sound(s, H, v, k),
           NEW u, NEW p, LeavesPage(s, u, p)
    PROVE  /\ s.pt[p].v \in Vmrs /\ u.files \in [FileIds -> Slots]
           /\ RegionsAgree(u.pt, u.vmr, v, k) /\ FilesAgree(u.vmr, u.files, H)
           /\ Lowered(s.vmr, u.vmr)
<1> PICK pt, vmr, files : pt = s.pt /\ vmr = s.vmr /\ files = s.files
  OBVIOUS
<1> PICK to, low, fs : to = u.pt /\ low = u.vmr /\ fs = u.files
  OBVIOUS
<1> PICK w : w = pt[p].v
  OBVIOUS
<1>t. /\ pt \in [Pages -> Entries] /\ vmr \in [Vmrs -> Regions]
      /\ files \in [FileIds -> Slots]
      /\ RegionsAgree(pt, vmr, v, k) /\ FilesAgree(vmr, files, H)
  BY DEF Sound, Machines
<1>u. /\ p \in Pages /\ pt[p].kind = "lazy"
      /\ to \in [Pages -> Entries] /\ to[p].kind # "lazy"
      /\ \A q \in Pages : q # p => to[q] = pt[q]
      /\ TakenOff(vmr, files, w, low, fs)
  BY DEF LeavesPage
<1> PICK left : left = vmr[w].refcnt - 1
  OBVIOUS
<1>l. left = vmr[w].refcnt - 1
  OBVIOUS
<1>0. /\ low = [vmr EXCEPT ![w].refcnt = left]
      /\ fs = IF left = 0 /\ vmr[w].file # 0
              THEN file_decref(files, vmr[w].file) ELSE files
  BY <1>u, Zenon DEF TakenOff
<1>1. w \in Vmrs
  BY <1>t, <1>u DEF Entries
<1>2. p \in Waits(pt, w)
  BY <1>u DEF Waits
<1>3. \A x \in Vmrs : Waits(to, x) = IF x = w THEN Waits(pt, w) \ {p} ELSE Waits(pt, x)
  BY <1>u DEF Waits
<1>4. \A x \in Vmrs : Waits(pt, x) \in SUBSET Pages
  BY DEF Waits
<1>5. /\ Cardinality(Waits(to, w)) = Cardinality(Waits(pt, w)) - 1
      /\ Cardinality(Waits(pt, w)) > 0
      /\ \A x \in Vmrs : Cardinality(Waits(pt, x)) \in Nat
  <2>1. \A x \in Vmrs : IsFiniteSet(Waits(pt, x)) /\ Cardinality(Waits(pt, x)) \in Nat
    BY <1>4, Counting
  <2>2. Waits(to, w) = Waits(pt, w) \ {p}
    BY <1>1, <1>3
  <2>3. IsFiniteSet(Waits(pt, w))
    BY <1>1, <2>1
  <2> QED
    BY <2>1, <2>2, <2>3, <1>2, TakeOne
<1>6. left \in Nat /\ (left # 0 => left > 0)
  <2>1. vmr[w].refcnt = Cardinality(Waits(pt, w)) + (IF w = v THEN k ELSE 0)
    BY <1>t, <1>1 DEF RegionsAgree
  <2> QED
    BY <1>0, <1>t, <1>1, <1>5, <2>1
<1>7. RegionsAgree(to, low, v, k)
  <2> SUFFICES ASSUME NEW x \in Vmrs
               PROVE low[x].refcnt = Cardinality(Waits(to, x)) + (IF x = v THEN k ELSE 0)
    BY DEF RegionsAgree
  <2>1. vmr[x].refcnt = Cardinality(Waits(pt, x)) + (IF x = v THEN k ELSE 0)
    BY <1>t DEF RegionsAgree
  <2>2. CASE x = w
    <3>1. low[x].refcnt = left
      BY <1>0, <1>t, <1>1, <1>6, <2>2 DEF Regions
    <3> QED
      BY <3>1, <2>1, <2>2, <1>5, <1>l
  <2>3. CASE x # w
    <3>1. low[x] = vmr[x] /\ Waits(to, x) = Waits(pt, x)
      BY <1>0, <1>t, <2>3, <1>3
    <3> QED
      BY <3>1, <2>1
  <2> QED
    BY <2>2, <2>3
<1>8. Lowered(vmr, low)
  <2>1. low \in [Vmrs -> Regions]
    <3>1. [vmr[w] EXCEPT !.refcnt = left] \in Regions
      BY <1>t, <1>1, <1>6 DEF Regions
    <3>2. low = [vmr EXCEPT ![w] = [vmr[w] EXCEPT !.refcnt = left]]
      BY <1>0, Zenon
    <3> QED
      BY <3>1, <3>2, <1>t, Zenon
  <2>2. ASSUME NEW x \in Vmrs
        PROVE  SameRegion(low[x], vmr[x]) /\ low[x].refcnt <= vmr[x].refcnt
    <3>1. CASE x = w
      <4>1. low[x] = [vmr[x] EXCEPT !.refcnt = left] /\ vmr[x] \in Regions
        BY <1>0, <1>t, <3>1
      <4>2. low[x].refcnt = left
        BY <1>6, <4>1 DEF Regions
      <4>3. left <= vmr[x].refcnt
        BY <3>1, <4>1, <1>l DEF Regions
      <4>4. SameRegion(low[x], vmr[x])
        BY <4>1 DEF Regions, SameRegion
      <4> QED
        BY <4>2, <4>3, <4>4, Zenon
    <3>2. CASE x # w
      <4>1. low[x] = vmr[x] /\ vmr[x] \in Regions
        BY <1>0, <1>t, <3>2
      <4> QED
        BY <4>1 DEF Regions, SameRegion
    <3> QED
      BY <3>1, <3>2
  <2> QED
    BY <2>1, <2>2 DEF Lowered
<1>9. \A x \in Vmrs : x # w => low[x] = vmr[x]
  BY <1>0, <1>t
<1>10. low[w].refcnt = left /\ low[w].file = vmr[w].file /\ vmr[w].refcnt > 0
  BY <1>0, <1>t, <1>1, <1>6 DEF Regions
<1>11. \A f \in FileIds : Readers(vmr, f) \in SUBSET Vmrs
  BY DEF Readers
<1>12. fs \in [FileIds -> Slots] /\ FilesAgree(low, fs, H)
  <2>1. CASE left = 0 /\ vmr[w].file # 0
    <3> PICK f : f = vmr[w].file
      OBVIOUS
    <3>1. f \in FileIds
      BY <1>t, <1>1, <2>1, Sizes DEF Regions, FileIds
    <3>2. Readers(low, f) = Readers(vmr, f) \ {w} /\ w \in Readers(vmr, f)
      BY <1>1, <1>9, <1>10, <2>1 DEF Readers
    <3>3. \A g \in FileIds : g # f => Readers(low, g) = Readers(vmr, g)
      BY <1>1, <1>9, <1>10, <2>1 DEF Readers
    <3>4. /\ Cardinality(Readers(low, f)) = Cardinality(Readers(vmr, f)) - 1
          /\ Cardinality(Readers(vmr, f)) > 0 /\ Cardinality(Readers(vmr, f)) \in Nat
      <4>1. IsFiniteSet(Readers(vmr, f)) /\ Cardinality(Readers(vmr, f)) \in Nat
        BY <3>1, <1>11, Counting
      <4>2. /\ Cardinality(Readers(vmr, f) \ {w}) = Cardinality(Readers(vmr, f)) - 1
            /\ Cardinality(Readers(vmr, f)) > 0
        BY <4>1, <3>2, TakeOne, Zenon
      <4> QED
        BY <4>1, <4>2, <3>2, ZenonT(40)
    <3>5. PICK n \in Nat :
            /\ n > 0 /\ n = Cardinality(Readers(vmr, f)) + (IF f \in H THEN 1 ELSE 0)
            /\ n - 1 = Cardinality(Readers(low, f)) + (IF f \in H THEN 1 ELSE 0)
      <4>1. CASE f \in H
        <5>1. Cardinality(Readers(vmr, f)) + 1 \in Nat
          BY <3>4
        <5> WITNESS Cardinality(Readers(vmr, f)) + 1 \in Nat
        <5> QED
          BY <4>1, <3>4
      <4>2. CASE f \notin H
        <5>1. Cardinality(Readers(vmr, f)) \in Nat
          BY <3>4
        <5> WITNESS Cardinality(Readers(vmr, f)) \in Nat
        <5> QED
          BY <4>2, <3>4
      <4> QED
        BY <4>1, <4>2
    <3>6. files[f] = Slot(n)
      BY <1>t, <3>1, <3>5, ZenonT(40) DEF FilesAgree
    <3>7. fs = file_decref(files, f)
      BY <1>0, <2>1
    <3>t. files \in [FileIds -> Slots]
      BY <1>t, Zenon
    <3>d. /\ file_decref(files, f) \in [FileIds -> Slots]
          /\ file_decref(files, f)[f] = Slot(n - 1)
          /\ \A g \in FileIds : g # f => file_decref(files, f)[g] = files[g]
      BY <3>1, <3>5, <3>6, <3>t, DecrefSlot, ZenonT(40)
    <3>8. /\ fs \in [FileIds -> Slots] /\ fs[f] = Slot(n - 1)
          /\ \A g \in FileIds : g # f => fs[g] = files[g]
      BY <3>7, <3>d, Zenon
    <3>9. ASSUME NEW g \in FileIds
          PROVE fs[g] = Slot(Cardinality(Readers(low, g)) + (IF g \in H THEN 1 ELSE 0))
      <4>1. CASE g = f
        BY <4>1, <3>5, <3>8, Zenon
      <4>2. CASE g # f
        <5>1. files[g] = Slot(Cardinality(Readers(vmr, g)) + (IF g \in H THEN 1 ELSE 0))
          BY <1>t DEF FilesAgree
        <5>2. fs[g] = files[g] /\ Readers(low, g) = Readers(vmr, g)
          BY <4>2, <3>3, <3>8, Zenon
        <5> QED
          BY <5>1, <5>2, Zenon
      <4> QED
        BY <4>1, <4>2
    <3> QED
      BY <3>8, <3>9 DEF FilesAgree
  <2>2. CASE ~(left = 0 /\ vmr[w].file # 0)
    <3>1. fs = files
      BY <1>0, <2>2, Zenon
    <3>2. ASSUME NEW f \in FileIds PROVE Readers(low, f) = Readers(vmr, f)
      <4>1. ASSUME NEW x \in Vmrs PROVE x \in Readers(low, f) <=> x \in Readers(vmr, f)
        <5>1. CASE x # w
          BY <5>1, <1>9 DEF Readers
        <5>2. CASE x = w /\ left # 0
          BY <5>2, <1>6, <1>10 DEF Readers
        <5>3. CASE x = w /\ vmr[w].file = 0
          <6>1. f # 0
            BY Sizes DEF FileIds
          <6> QED
            BY <5>3, <6>1, <1>10 DEF Readers
        <5> QED
          BY <5>1, <5>2, <5>3, <2>2
      <4> QED
        BY <4>1, <1>11 DEF Readers
    <3> QED
      BY <1>t, <3>1, <3>2 DEF FilesAgree
  <2> QED
    BY <2>1, <2>2
<1> QED
  BY <1>1, <1>7, <1>8, <1>12

-----------------------------------------------------------------------------
(* Pages *)

\* What the allocator has.
SameBooks(s, t) ==
    t.root = s.root /\ t.vmrs = s.vmrs /\ t.tables = s.tables /\ t.next = s.next

\* The parts of a machine.
LEMMA MachineFields ==
    ASSUME NEW s \in Machines
    PROVE  /\ s.pt \in [Pages -> Entries] /\ s.vmr \in [Vmrs -> Regions]
           /\ s.files \in [FileIds -> Slots] /\ s.mem \in [User -> Units]
           /\ s.root \in BOOLEAN /\ s.vmrs \in BOOLEAN /\ s.tables \in SUBSET Tables
           /\ s.next \in Nat /\ s.panic \in Labels
  BY DEF Machines

\* What pte_create and the lazy entries give.
LEMMA EntryTypes ==
    /\ Free \in Entries /\ Free.kind = "none"
    /\ \A v \in Vmrs : Lazy(v) \in Entries /\ Lazy(v).kind = "lazy" /\ Lazy(v).v = v
    /\ \A prot \in SUBSET All, user \in BOOLEAN :
         LET e == pte_create(prot, user)
         IN  /\ e \in Entries /\ e.kind = "page" /\ e.prot = Rights(prot)
             /\ e.user = (user /\ prot # {})
<1>1. Free \in Entries /\ Free.kind = "none"
  BY PageFacts DEF Free, Entries, Kinds
<1>2. ASSUME NEW v \in Vmrs PROVE Lazy(v) \in Entries /\ Lazy(v).kind = "lazy" /\ Lazy(v).v = v
  BY DEF Lazy, Free, Entries, Kinds
<1>3. ASSUME NEW prot \in SUBSET All, NEW user \in BOOLEAN
      PROVE  LET e == pte_create(prot, user)
             IN  /\ e \in Entries /\ e.kind = "page" /\ e.prot = Rights(prot)
                 /\ e.user = (user /\ prot # {})
  <2>1. Rights(prot) \in SUBSET All /\ (user /\ prot # {}) \in BOOLEAN
    BY DEF Rights, All
  <2> QED
    BY <2>1, PageFacts DEF pte_create, Free, Entries, Kinds, All
<1> QED
  BY <1>1, <1>2, <1>3

\* Taking a page off the count of its region changes the region and its file.
LEMMA Decref ==
    ASSUME NEW s \in Machines, NEW w \in Vmrs, NEW d, d = vmr_decref(s, w)
    PROVE  /\ TakenOff(s.vmr, s.files, w, d.vmr, d.files)
           /\ d.pt = s.pt /\ d.mem = s.mem /\ d.panic = s.panic /\ SameBooks(s, d)
           /\ d.vmr \in [Vmrs -> Regions] /\ d.files \in [FileIds -> Slots] => d \in Machines
<1> PICK vmr, files : TakenOff(s.vmr, s.files, w, vmr, files)
  BY DEF TakenOff
<1>1. d = [s EXCEPT !.vmr = vmr, !.files = files]
  BY DEF vmr_decref, TakenOff, Machines
<1>2. d.vmr = vmr /\ d.files = files
  BY <1>1 DEF Machines
<1> QED
  BY <1>1, <1>2 DEF Machines, SameBooks

SetEntry(d, p, e) == [d EXCEPT !.pt[p] = e]

\* A page that waits gets an entry that does not: what the machine keeps
\* agrees again once its region has counted it off.
LEMMA LeaveStep ==
    ASSUME NEW s, NEW H, NEW v, NEW k \in Nat, Sound(s, H, v, k),
           NEW p, p \in Pages, s.pt[p].kind = "lazy",
           NEW d, d = vmr_decref(s, s.pt[p].v),
           NEW e, e \in Entries, e.kind # "lazy", NEW u, u = SetEntry(d, p, e)
    PROVE  /\ Sound(u, H, v, k) /\ Lowered(s.vmr, u.vmr)
           /\ u.mem = s.mem /\ u.panic = s.panic /\ SameBooks(s, u)
           /\ u.pt[p] = e /\ \A q \in Pages : q # p => u.pt[q] = s.pt[q]
           /\ \A w \in Vmrs : p \notin Waits(s.pt, w) => u.vmr[w] = s.vmr[w]
<1>0. s \in Machines /\ s.pt \in [Pages -> Entries] /\ s.vmr \in [Vmrs -> Regions]
  BY MachineFields DEF Sound
<1> PICK w : w = s.pt[p].v
  OBVIOUS
<1>2. w \in Vmrs
  BY <1>0 DEF Entries
<1>3. /\ TakenOff(s.vmr, s.files, w, d.vmr, d.files)
      /\ d.pt = s.pt /\ d.mem = s.mem /\ d.panic = s.panic /\ SameBooks(s, d)
      /\ d.vmr \in [Vmrs -> Regions] /\ d.files \in [FileIds -> Slots] => d \in Machines
  BY <1>0, <1>2, Decref
<1> PICK to : to = [s.pt EXCEPT ![p] = e]
  OBVIOUS
<1>4. u = [d EXCEPT !.pt = to]
  BY <1>3 DEF SetEntry
<1>5. d.pt = s.pt /\ DOMAIN d = DOMAIN s
  BY <1>0, <1>3, ZenonT(40) DEF vmr_decref, Machines
<1>6. /\ u.pt = to /\ u.vmr = d.vmr /\ u.files = d.files /\ u.mem = d.mem
      /\ u.panic = d.panic /\ SameBooks(d, u)
  BY <1>0, <1>4, <1>5 DEF SameBooks, Machines
<1>7. LeavesPage(s, u, p)
  <2>1. to \in [Pages -> Entries] /\ to[p] = e /\ \A q \in Pages : q # p => to[q] = s.pt[q]
    BY <1>0
  <2>2. TakenOff(s.vmr, s.files, s.pt[p].v, u.vmr, u.files)
    BY <1>3, <1>6
  <2> QED
    BY <2>1, <2>2, <1>6 DEF LeavesPage
<1>8. /\ u.files \in [FileIds -> Slots]
      /\ RegionsAgree(u.pt, u.vmr, v, k) /\ FilesAgree(u.vmr, u.files, H)
      /\ Lowered(s.vmr, u.vmr)
  BY <1>7, Leave
<1>9. u.vmr \in [Vmrs -> Regions]
  BY <1>8 DEF Lowered
<1>10. d \in Machines
  BY <1>3, <1>6, <1>8, <1>9
<1>11. u \in Machines
  <2>1. to \in [Pages -> Entries]
    BY <1>0
  <2> QED
    BY <1>4, <1>10, <2>1 DEF Machines
<1>12. \A x \in Vmrs : p \notin Waits(s.pt, x) => u.vmr[x] = s.vmr[x]
  <2>1. \A x \in Vmrs : p \notin Waits(s.pt, x) => x # w
    BY DEF Waits
  <2>2. d.vmr = [s.vmr EXCEPT ![w].refcnt = s.vmr[w].refcnt - 1]
    BY <1>3, ZenonT(40) DEF TakenOff
  <2>3. \A x \in Vmrs : x # w => d.vmr[x] = s.vmr[x]
    BY <1>0, <2>2
  <2> QED
    BY <1>6, <2>1, <2>3
<1>13. u.mem = s.mem /\ u.panic = s.panic /\ SameBooks(s, u)
  BY <1>3, <1>6 DEF SameBooks
<1>14. u.pt[p] = e /\ \A q \in Pages : q # p => u.pt[q] = s.pt[q]
  BY <1>0, <1>6
<1> QED
  BY <1>8, <1>11, <1>12, <1>13, <1>14 DEF Sound

\* __do_munmap's step: one page, whatever it was.
LEMMA UnmapPage ==
    ASSUME NEW s, NEW H, NEW v, NEW k \in Nat, Sound(s, H, v, k),
           NEW p, NEW u, u = unmap_page(s, p)
    PROVE  /\ Sound(u, H, v, k) /\ Lowered(s.vmr, u.vmr)
           /\ u.mem = s.mem /\ u.panic = s.panic /\ SameBooks(s, u)
           /\ p \in Pages => u.pt[p].kind = "none"
           /\ \A q \in Pages : q # p => u.pt[q] = s.pt[q]
           /\ \A w \in Vmrs : p \notin Waits(s.pt, w) => u.vmr[w] = s.vmr[w]
<1>0. s \in Machines /\ RegionsAgree(s.pt, s.vmr, v, k) /\ FilesAgree(s.vmr, s.files, H)
  BY DEF Sound
<1>f. /\ s.pt \in [Pages -> Entries] /\ s.vmr \in [Vmrs -> Regions]
      /\ s.files \in [FileIds -> Slots] /\ s.mem \in [User -> Units]
  BY <1>0, MachineFields
<1>s. Lowered(s.vmr, s.vmr)
  BY <1>f DEF Lowered, SameRegion, Regions
<1>1. CASE va_avail(s, p)
  <2>1. u = s
    BY <1>1 DEF unmap_page
  <2> QED
    BY <1>1, <1>s, <2>1 DEF va_avail, SameBooks
<1>2. CASE ~va_avail(s, p) /\ s.pt[p].kind # "lazy"
  <2>1. u = [s EXCEPT !.pt[p] = Free] /\ p \in Pages
    BY <1>2 DEF unmap_page, va_avail
  <2>2. u \in Machines
    BY <1>0, <2>1, EntryTypes DEF Machines
  <2>3. u.pt = [s.pt EXCEPT ![p] = Free] /\ u.vmr = s.vmr /\ u.files = s.files /\ u.mem = s.mem
        /\ u.panic = s.panic /\ SameBooks(s, u)
    BY <1>0, <2>1 DEF Machines, SameBooks
  <2>4. \A w \in Vmrs : Waits(u.pt, w) = Waits(s.pt, w)
    BY <1>2, <1>f, <2>1, <2>3, EntryTypes DEF Waits
  <2>5. RegionsAgree(u.pt, u.vmr, v, k) /\ FilesAgree(u.vmr, u.files, H)
    BY <1>0, <2>3, <2>4 DEF RegionsAgree
  <2> QED
    BY <1>f, <1>s, <2>1, <2>2, <2>3, <2>5, EntryTypes DEF Sound
<1>3. CASE ~va_avail(s, p) /\ s.pt[p].kind = "lazy"
  <2>1. p \in Pages
    BY <1>3 DEF va_avail
  <2> PICK d : d = vmr_decref(s, s.pt[p].v)
    OBVIOUS
  <2>2. u = SetEntry(d, p, Free)
    BY <1>3 DEF unmap_page, SetEntry
  <2>3. s.pt[p].kind = "lazy" /\ Free \in Entries /\ Free.kind # "lazy"
    BY <1>3, EntryTypes
  <2>4. /\ Sound(u, H, v, k) /\ Lowered(s.vmr, u.vmr)
        /\ u.mem = s.mem /\ u.panic = s.panic /\ SameBooks(s, u)
        /\ u.pt[p] = Free /\ \A q \in Pages : q # p => u.pt[q] = s.pt[q]
        /\ \A w \in Vmrs : p \notin Waits(s.pt, w) => u.vmr[w] = s.vmr[w]
    BY <2>1, <2>2, <2>3, LeaveStep
  <2> QED
    BY <1>f, <2>1, <2>4, EntryTypes
<1> QED
  BY <1>1, <1>2, <1>3

-----------------------------------------------------------------------------
(* The page allocator *)

\* vm_init puts aside two pages for each page of the page table, and eight at
\* least: enough for the tables, their root, the regions and the kernel's stack.
EnoughPages == Last \div PTES + 4 <= FREE_PAGES

One(b) == IF b THEN 1 ELSE 0

\* What was allocated: the root and the pages below it, the regions, x more.
Ledger(s, x) == s.next = One(s.root) + One(s.vmrs) + Cardinality(s.tables) + x

\* Only the allocator moved, and it did not run out.
Grown(s, t, x) ==
    /\ t \in Machines
    /\ t.pt = s.pt /\ t.vmr = s.vmr /\ t.files = s.files /\ t.mem = s.mem
    /\ Ledger(s, x) => Ledger(t, x)
    /\ Ledger(s, x) /\ EnoughPages => t.panic = s.panic

\* What only the allocator does, done twice.
LEMMA GrownTwice ==
    ASSUME NEW s, NEW t, NEW u, NEW x, Grown(s, t, x), Grown(t, u, x)
    PROVE  Grown(s, u, x)
  BY Zenon DEF Grown

\* And not at all.
LEMMA GrownNone ==
    ASSUME NEW s \in Machines, NEW x
    PROVE  Grown(s, s, x)
  BY Zenon DEF Grown

\* __page_alloc takes the next page while there is one.
LEMMA PageAlloc ==
    ASSUME NEW s \in Machines, NEW t, t = page_alloc(s)
    PROVE  /\ t \in Machines /\ DOMAIN t = DOMAIN s
           /\ t.pt = s.pt /\ t.vmr = s.vmr /\ t.files = s.files /\ t.mem = s.mem
           /\ t.root = s.root /\ t.vmrs = s.vmrs /\ t.tables = s.tables
           /\ t.next = s.next + 1
           /\ s.next # FREE_PAGES => t.panic = s.panic
<1>1. CASE s.next # FREE_PAGES \/ s.panic # "none"
  <2>1. t = [s EXCEPT !.next = s.next + 1]
    BY <1>1 DEF page_alloc, kassert
  <2> QED
    BY <2>1 DEF Machines
<1>2. CASE ~(s.next # FREE_PAGES \/ s.panic # "none")
  <2>0. PICK q : q = [s EXCEPT !.panic = "page_alloc"]
    OBVIOUS
  <2>1. q \in Machines
    BY <2>0 DEF Machines, Labels
  <2>2. /\ q.pt = s.pt /\ q.vmr = s.vmr /\ q.files = s.files /\ q.mem = s.mem
        /\ q.root = s.root /\ q.vmrs = s.vmrs /\ q.tables = s.tables /\ q.next = s.next
        /\ DOMAIN q = DOMAIN s
    BY <2>0 DEF Machines
  <2>3. t = [q EXCEPT !.next = q.next + 1]
    BY <1>2, <2>0 DEF page_alloc, kassert
  <2>4. /\ t \in Machines /\ DOMAIN t = DOMAIN q
        /\ t.pt = q.pt /\ t.vmr = q.vmr /\ t.files = q.files /\ t.mem = q.mem
        /\ t.root = q.root /\ t.vmrs = q.vmrs /\ t.tables = q.tables /\ t.next = q.next + 1
    BY <2>1, <2>3 DEF Machines
  <2> QED
    BY <1>2, <2>2, <2>4
<1> QED
  BY <1>1, <1>2

\* Before the last of them is allocated there is a page left.
LEMMA PagesLeft ==
    ASSUME NEW s \in Machines, NEW x \in {0, 1}, Ledger(s, x), EnoughPages,
           ~s.root \/ ~s.vmrs \/ s.tables # Tables
    PROVE  s.next # FREE_PAGES
<1>1. PICK d \in Nat : d = Last \div PTES
  BY PageFacts
<1>2. Tables = 0 .. d /\ Cardinality(Tables) = d + 1 /\ IsFiniteSet(Tables)
  <2>1. Tables = 0 .. d /\ 0 <= d /\ 0 \in Int /\ d \in Int
    BY <1>1 DEF Tables
  <2>2. Cardinality(0 .. d) = d - 0 + 1 /\ IsFiniteSet(0 .. d)
    BY <2>1, FS_Interval
  <2> QED
    BY <1>1, <2>1, <2>2
<1>3. PICK c \in Nat : c = Cardinality(s.tables) /\ c <= d + 1 /\ (s.tables # Tables => c < d + 1)
  <2>1. s.tables \subseteq Tables
    BY DEF Machines
  <2>2. /\ Cardinality(s.tables) \in Nat /\ Cardinality(s.tables) <= Cardinality(Tables)
        /\ s.tables # Tables => Cardinality(s.tables) < Cardinality(Tables)
    BY <1>2, <2>1, FS_Subset, FS_CardinalityType
  <2> QED
    BY <1>2, <2>2
<1>4. One(s.root) \in {0, 1} /\ One(s.vmrs) \in {0, 1} /\ (~s.root => One(s.root) = 0)
      /\ (~s.vmrs => One(s.vmrs) = 0)
  BY DEF One
<1>5. s.next = One(s.root) + One(s.vmrs) + c + x
  BY <1>3, Zenon DEF Ledger
<1>6. d + 4 <= FREE_PAGES /\ FREE_PAGES \in Nat
  BY <1>1, Sizes DEF EnoughPages
<1>7. ~s.root \/ ~s.vmrs \/ c < d + 1
  BY <1>3, Zenon
<1>8. \A r, q \in {0, 1} : (r = 0 \/ q = 0 \/ c < d + 1) => r + q + c + x < FREE_PAGES
  BY <1>3, <1>6
<1>9. One(s.root) + One(s.vmrs) + c + x < FREE_PAGES
  BY <1>4, <1>7, <1>8, Zenon
<1>10. s.next < FREE_PAGES
  BY <1>5, <1>9, Zenon
<1> QED
  BY <1>10, <1>6

\* __maybe_create_root takes one page at most.
LEMMA WithRoot ==
    ASSUME NEW s \in Machines, NEW x \in {0, 1}, NEW t, t = maybe_create_root(s)
    PROVE  Grown(s, t, x)
<1>1. CASE s.root
  <2>1. t = s
    BY <1>1 DEF maybe_create_root
  <2> QED
    BY <2>1, GrownNone
<1>2. CASE ~s.root
  <2> PICK a : a = page_alloc(s)
    OBVIOUS
  <2>1. t = [a EXCEPT !.root = TRUE]
    BY <1>2 DEF maybe_create_root
  <2>2. /\ a \in Machines /\ a.pt = s.pt /\ a.vmr = s.vmr /\ a.files = s.files /\ a.mem = s.mem
        /\ a.root = s.root /\ a.vmrs = s.vmrs /\ a.tables = s.tables /\ a.next = s.next + 1
        /\ s.next # FREE_PAGES => a.panic = s.panic
    BY PageAlloc
  <2>3. /\ t \in Machines /\ t.pt = a.pt /\ t.vmr = a.vmr /\ t.files = a.files /\ t.mem = a.mem
        /\ t.root = TRUE /\ t.vmrs = a.vmrs /\ t.tables = a.tables /\ t.next = a.next
        /\ t.panic = a.panic
    BY <2>1, <2>2 DEF Machines
  <2>4. ASSUME Ledger(s, x) PROVE Ledger(t, x)
    <3>1. One(s.root) = 0 /\ One(t.root) = 1 /\ One(s.vmrs) \in Nat /\ One(t.vmrs) = One(s.vmrs)
      BY <1>2, <2>2, <2>3 DEF One
    <3>2. Cardinality(s.tables) \in Nat /\ t.tables = s.tables
      BY <2>2, <2>3, Counting DEF Machines
    <3>3. s.next = 0 + One(s.vmrs) + Cardinality(s.tables) + x /\ t.next = s.next + 1
      BY <2>2, <2>3, <2>4, <3>1 DEF Ledger
    <3>4. t.next = 1 + One(s.vmrs) + Cardinality(s.tables) + x
      BY <3>1, <3>2, <3>3
    <3> QED
      BY <3>1, <3>2, <3>4, Zenon DEF Ledger
  <2>5. ASSUME Ledger(s, x), EnoughPages PROVE t.panic = s.panic
    BY <1>2, <2>2, <2>3, <2>5, PagesLeft
  <2> QED
    BY <2>2, <2>3, <2>4, <2>5 DEF Grown
<1> QED
  BY <1>1, <1>2

\* __vmr_alloc's first call takes the page of the regions.
LEMMA WithVmrs ==
    ASSUME NEW s \in Machines, NEW x \in {0, 1}, NEW t, t = with_vmrs(s)
    PROVE  Grown(s, t, x)
<1>1. CASE s.vmrs
  <2>1. t = s
    BY <1>1 DEF with_vmrs
  <2> QED
    BY <2>1, GrownNone
<1>2. CASE ~s.vmrs
  <2> PICK a : a = page_alloc(s)
    OBVIOUS
  <2>1. t = [a EXCEPT !.vmrs = TRUE]
    BY <1>2 DEF with_vmrs
  <2>2. /\ a \in Machines /\ a.pt = s.pt /\ a.vmr = s.vmr /\ a.files = s.files /\ a.mem = s.mem
        /\ a.root = s.root /\ a.vmrs = s.vmrs /\ a.tables = s.tables /\ a.next = s.next + 1
        /\ s.next # FREE_PAGES => a.panic = s.panic
    BY PageAlloc
  <2>3. /\ t \in Machines /\ t.pt = a.pt /\ t.vmr = a.vmr /\ t.files = a.files /\ t.mem = a.mem
        /\ t.vmrs = TRUE /\ t.root = a.root /\ t.tables = a.tables /\ t.next = a.next
        /\ t.panic = a.panic
    BY <2>1, <2>2 DEF Machines
  <2>4. ASSUME Ledger(s, x) PROVE Ledger(t, x)
    <3>1. One(s.vmrs) = 0 /\ One(t.vmrs) = 1 /\ One(s.root) \in Nat /\ One(t.root) = One(s.root)
      BY <1>2, <2>2, <2>3 DEF One
    <3>2. Cardinality(s.tables) \in Nat /\ t.tables = s.tables
      BY <2>2, <2>3, Counting DEF Machines
    <3>3. s.next = One(s.root) + 0 + Cardinality(s.tables) + x /\ t.next = s.next + 1
      BY <2>2, <2>3, <2>4, <3>1 DEF Ledger
    <3>4. t.next = One(s.root) + 1 + Cardinality(s.tables) + x
      BY <3>1, <3>2, <3>3
    <3> QED
      BY <3>1, <3>2, <3>4, Zenon DEF Ledger
  <2>5. ASSUME Ledger(s, x), EnoughPages PROVE t.panic = s.panic
    BY <1>2, <2>2, <2>3, <2>5, PagesLeft
  <2> QED
    BY <2>2, <2>3, <2>4, <2>5 DEF Grown
<1> QED
  BY <1>1, <1>2

\* __walk_internal takes a page for each table that is not there.
LEMMA Walked ==
    ASSUME NEW s \in Machines, NEW x \in {0, 1}, NEW p \in Pages, NEW t, t = walk_create(s, p)
    PROVE  Grown(s, t, x)
<1> PICK r : r = maybe_create_root(s)
  OBVIOUS
<1> PICK d : d = p \div PTES
  OBVIOUS
<1>0. Grown(s, r, x) /\ r \in Machines /\ d \in Tables
  BY WithRoot, PageFacts DEF Grown
<1>1. CASE d \in r.tables
  <2>1. t = r
    BY <1>1 DEF walk_create
  <2> QED
    BY <2>1, <1>0
<1>2. CASE d \notin r.tables
  <2> PICK a : a = page_alloc(r)
    OBVIOUS
  <2>1. t = [a EXCEPT !.tables = a.tables \cup {d}]
    BY <1>2 DEF walk_create
  <2>2. /\ a \in Machines /\ a.pt = r.pt /\ a.vmr = r.vmr /\ a.files = r.files /\ a.mem = r.mem
        /\ a.root = r.root /\ a.vmrs = r.vmrs /\ a.tables = r.tables /\ a.next = r.next + 1
        /\ r.next # FREE_PAGES => a.panic = r.panic
    BY <1>0, PageAlloc
  <2>3. /\ t \in Machines /\ t.pt = a.pt /\ t.vmr = a.vmr /\ t.files = a.files /\ t.mem = a.mem
        /\ t.vmrs = a.vmrs /\ t.root = a.root /\ t.tables = a.tables \cup {d} /\ t.next = a.next
        /\ t.panic = a.panic
    BY <1>0, <2>1, <2>2 DEF Machines
  <2>4. ASSUME Ledger(r, x) PROVE Ledger(t, x)
    <3>1. /\ One(r.vmrs) \in Nat /\ One(r.root) \in Nat
          /\ One(t.root) = One(r.root) /\ One(t.vmrs) = One(r.vmrs)
      BY <2>2, <2>3 DEF One
    <3>2. Cardinality(r.tables) \in Nat /\ IsFiniteSet(r.tables)
      BY <1>0, Counting DEF Machines
    <3>3. t.tables = r.tables \cup {d}
      BY <2>2, <2>3
    <3>4. Cardinality(t.tables) = Cardinality(r.tables) + 1
      BY <1>2, <3>2, <3>3, AddOne
    <3>5. r.next = One(r.root) + One(r.vmrs) + Cardinality(r.tables) + x /\ t.next = r.next + 1
      BY <2>2, <2>3, <2>4 DEF Ledger
    <3>6. t.next = One(r.root) + One(r.vmrs) + (Cardinality(r.tables) + 1) + x
      BY <3>1, <3>2, <3>5
    <3> QED
      BY <3>1, <3>4, <3>6, Zenon DEF Ledger
  <2>5. ASSUME Ledger(r, x), EnoughPages PROVE t.panic = r.panic
    <3>1. r.tables # Tables
      BY <1>0, <1>2
    <3> QED
      BY <1>0, <2>2, <2>3, <2>5, <3>1, PagesLeft
  <2>6. Grown(r, t, x)
    BY <2>2, <2>3, <2>4, <2>5 DEF Grown
  <2> QED
    BY <1>0, <2>6, GrownTwice
<1> QED
  BY <1>1, <1>2

-----------------------------------------------------------------------------
(* A page is mapped *)

\* The allocator's account still holds, and it did not run out.
Steady(s, u, x) ==
    Ledger(s, x) => Ledger(u, x) /\ (EnoughPages => u.panic = s.panic)

\* The allocator's account, kept twice.
LEMMA SteadyTwice ==
    ASSUME NEW s, NEW t, NEW u, NEW x, Steady(s, t, x), Steady(t, u, x)
    PROVE  Steady(s, u, x)
  BY Zenon DEF Steady

\* A step that leaves the allocator alone keeps its account.
LEMMA BooksSteady ==
    ASSUME NEW s, NEW u, NEW x, SameBooks(s, u), u.panic = s.panic
    PROVE  Steady(s, u, x)
<1>1. Ledger(s, x) => Ledger(u, x)
  BY Zenon DEF SameBooks, Ledger
<1> QED
  BY <1>1, Zenon DEF Steady

\* The allocator keeps its own account.
LEMMA GrownSteady ==
    ASSUME NEW s, NEW u, NEW x, Grown(s, u, x)
    PROVE  Steady(s, u, x)
  BY Zenon DEF Grown, Steady

\* The allocator leaves the counts alone.
LEMMA GrownSound ==
    ASSUME NEW s, NEW u, NEW x, Grown(s, u, x), NEW H, NEW v, NEW k, Sound(s, H, v, k)
    PROVE  Sound(u, H, v, k)
  BY Zenon DEF Grown, Sound

\* Regions that lose pages twice.
LEMMA LoweredTwice ==
    ASSUME NEW r, NEW s, NEW t, r \in [Vmrs -> Regions], Lowered(r, s), Lowered(s, t)
    PROVE  Lowered(r, t)
<1>1. ASSUME NEW w \in Vmrs PROVE SameRegion(t[w], r[w])
  <2>1. SameRegion(t[w], s[w]) /\ SameRegion(s[w], r[w])
    BY Zenon DEF Lowered
  <2> QED
    BY <2>1, Zenon DEF SameRegion
<1>2. ASSUME NEW w \in Vmrs PROVE t[w].refcnt <= r[w].refcnt
  <2>1. t[w].refcnt <= s[w].refcnt /\ s[w].refcnt <= r[w].refcnt
    BY Zenon DEF Lowered
  <2>2. t[w] \in Regions /\ s[w] \in Regions /\ r[w] \in Regions
    BY DEF Lowered
  <2>3. t[w].refcnt \in Nat /\ s[w].refcnt \in Nat /\ r[w].refcnt \in Nat
    BY <2>2 DEF Regions
  <2> QED
    BY <2>1, <2>3
<1>3. t \in [Vmrs -> Regions]
  BY Zenon DEF Lowered
<1> QED
  BY <1>1, <1>2, <1>3, Zenon DEF Lowered

\* And not at all.
LEMMA LoweredNone ==
    ASSUME NEW r, r \in [Vmrs -> Regions]
    PROVE  Lowered(r, r)
<1>1. ASSUME NEW w \in Vmrs PROVE r[w].refcnt <= r[w].refcnt
  BY DEF Regions
<1> QED
  BY <1>1, Zenon DEF Lowered, SameRegion

\* Page p stops to be what it was and waits for region v.
PageMapped(s, u, v, p, x) ==
    /\ Lowered(s.vmr, u.vmr) /\ u.vmr[v] = s.vmr[v] /\ u.mem = s.mem /\ Steady(s, u, x)
    /\ u.pt[p] = Lazy(v) /\ \A q \in Pages : q # p => u.pt[q] = s.pt[q]

\* __do_mmap's step: one page waits for the new region, and leaves what it
\* was.
LEMMA MapPage ==
    ASSUME NEW s, NEW H, NEW v \in Vmrs, NEW k \in Nat, k > 0, Sound(s, H, v, k),
           NEW p \in Pages, p \notin Waits(s.pt, v), NEW x \in {0, 1},
           NEW u, u = map_page(s, v, p)
    PROVE  Sound(u, H, v, k - 1) /\ PageMapped(s, u, v, p, x)
<1>1. PICK w : w = walk_create(s, p)
  OBVIOUS
<1>2. PICK n : n = unmap_page(w, p)
  OBVIOUS
<1>3. u = SetEntry(n, p, Lazy(v))
  BY <1>1, <1>2 DEF map_page, SetEntry
<1>4. Grown(s, w, x) /\ Sound(w, H, v, k) /\ Steady(s, w, x)
  <2>1. s \in Machines
    BY DEF Sound
  <2>2. Grown(s, w, x)
    BY <1>1, <2>1, Walked
  <2> QED
    BY <2>2, GrownSound, GrownSteady
<1>5. w.pt = s.pt /\ w.vmr = s.vmr /\ w.mem = s.mem
  BY <1>4, Zenon DEF Grown
<1>6. /\ Sound(n, H, v, k) /\ Lowered(w.vmr, n.vmr)
      /\ n.mem = w.mem /\ n.panic = w.panic /\ SameBooks(w, n)
      /\ p \in Pages => n.pt[p].kind = "none"
      /\ \A q \in Pages : q # p => n.pt[q] = w.pt[q]
      /\ \A r \in Vmrs : p \notin Waits(w.pt, r) => n.vmr[r] = w.vmr[r]
  BY <1>2, <1>4, UnmapPage, SMTT(40)
<1>7. /\ n \in Machines /\ n.pt \in [Pages -> Entries] /\ n.vmr \in [Vmrs -> Regions]
      /\ RegionsAgree(n.pt, n.vmr, v, k) /\ FilesAgree(n.vmr, n.files, H)
  BY <1>6, MachineFields DEF Sound
<1>8. Lazy(v) \in Entries /\ Lazy(v).kind = "lazy" /\ Lazy(v).v = v
  BY EntryTypes
<1>9. PICK to : to = [n.pt EXCEPT ![p] = Lazy(v)]
  OBVIOUS
<1>10. /\ to \in [Pages -> Entries] /\ to[p] = Lazy(v)
       /\ \A q \in Pages : q # p => to[q] = n.pt[q]
  BY <1>7, <1>8, <1>9
<1>11. u = [n EXCEPT !.pt = to]
  BY <1>3, <1>9 DEF SetEntry
<1>12. /\ u \in Machines /\ u.pt = to /\ u.vmr = n.vmr /\ u.files = n.files /\ u.mem = n.mem
       /\ u.panic = n.panic /\ SameBooks(n, u)
  BY <1>7, <1>10, <1>11 DEF Machines, SameBooks
<1>13. \A r \in Vmrs : Waits(to, r) = IF r = v THEN Waits(n.pt, r) \cup {p} ELSE Waits(n.pt, r)
  <2>1. n.pt[p].kind = "none"
    BY <1>6
  <2> QED
    BY <1>8, <1>10, <2>1 DEF Waits
<1>14. RegionsAgree(to, n.vmr, v, k - 1)
  <2> SUFFICES ASSUME NEW r \in Vmrs
               PROVE n.vmr[r].refcnt = Cardinality(Waits(to, r)) + (IF r = v THEN k - 1 ELSE 0)
    BY DEF RegionsAgree
  <2>1. n.vmr[r].refcnt = Cardinality(Waits(n.pt, r)) + (IF r = v THEN k ELSE 0)
    BY <1>7 DEF RegionsAgree
  <2>2. CASE r = v
    <3>1. p \notin Waits(n.pt, v)
      BY <1>6 DEF Waits
    <3>2. Waits(n.pt, v) \in SUBSET Pages
      BY DEF Waits
    <3>3. IsFiniteSet(Waits(n.pt, v)) /\ Cardinality(Waits(n.pt, v)) \in Nat
      BY <3>2, Counting
    <3>4. Cardinality(Waits(n.pt, v) \cup {p}) = Cardinality(Waits(n.pt, v)) + 1
      BY <3>1, <3>3, AddOne
    <3>5. Cardinality(Waits(to, r)) = Cardinality(Waits(n.pt, v)) + 1
      BY <2>2, <3>4, <1>13
    <3> QED
      BY <2>1, <2>2, <3>3, <3>5
  <2>3. CASE r # v
    BY <2>1, <2>3, <1>13
  <2> QED
    BY <2>2, <2>3
<1>15. Sound(u, H, v, k - 1)
  BY <1>7, <1>12, <1>14 DEF Sound
<1>16. Lowered(s.vmr, u.vmr) /\ u.vmr[v] = s.vmr[v] /\ u.mem = s.mem
  BY <1>5, <1>6, <1>12
<1>17. Steady(s, u, x)
  <2>1. Steady(w, n, x) /\ Steady(n, u, x)
    BY <1>6, <1>12, BooksSteady
  <2> QED
    BY <2>1, <1>4, SteadyTwice
<1> QED
  BY <1>5, <1>6, <1>10, <1>12, <1>15, <1>16, <1>17 DEF PageMapped

-----------------------------------------------------------------------------
(* A page is filled *)

\* The lesser of two numbers.
LEMMA MinOfTwo == \A a, b \in Int : Min({a, b}) = IF a <= b THEN a ELSE b
<1> SUFFICES ASSUME NEW a \in Int, NEW b \in Int
             PROVE  Min({a, b}) = IF a <= b THEN a ELSE b
  OBVIOUS
<1>1. PICK c : c = IF a <= b THEN a ELSE b
  OBVIOUS
<1>2. c \in {a, b} /\ \A y \in {a, b} : c <= y
  BY <1>1
<1>3. Min({a, b}) \in {a, b} /\ \A y \in {a, b} : Min({a, b}) <= y
  BY <1>2, Zenon DEF Min
<1>4. Min({a, b}) = c
  BY <1>2, <1>3
<1> QED
  BY <1>1, <1>4

\* What the read of a page gives, unit i of it.
LEMMA PreadGives ==
    ASSUME NEW done \in Int, NEW length \in Int, NEW pos \in Int,
           NEW i \in Nat, i < PGSIZE
    PROVE  /\ file_pread(Min({PGSIZE, length - done}), pos) \in Int
           /\ i < file_pread(Min({PGSIZE, length - done}), pos)
              <=> done + i < length /\ pos + i < FileSize
<1>1. PICK flen \in Int : /\ flen = Min({PGSIZE, length - done})
                          /\ flen = IF PGSIZE <= length - done THEN PGSIZE ELSE length - done
  BY Sizes, MinOfTwo
<1>2. PICK at \in Int : /\ at = Min({pos, FileSize})
                        /\ at = IF pos <= FileSize THEN pos ELSE FileSize
  BY Sizes, MinOfTwo
<1>3. PICK ret \in Int : /\ ret = Min({flen, FileSize - at})
                         /\ ret = IF flen <= FileSize - at THEN flen ELSE FileSize - at
  BY <1>1, <1>2, Sizes, MinOfTwo
<1>4. file_pread(Min({PGSIZE, length - done}), pos) = ret
  BY <1>1, <1>2, <1>3, Zenon DEF file_pread
<1>5. i < ret <=> done + i < length /\ pos + i < FileSize
  <2>1. PGSIZE \in Int /\ FileSize \in Int
    BY Sizes
  <2>2. i < flen <=> done + i < length
    BY <1>1, <2>1
  <2>3. i < FileSize - at <=> pos + i < FileSize
    BY <1>2, <2>1
  <2>4. i < ret <=> i < flen /\ i < FileSize - at
    BY <1>3, <2>1
  <2> QED
    BY <2>2, <2>3, <2>4
<1> QED
  BY <1>4, <1>5

\* Page p holds what it showed, and the others what they held.
FilledAt(s, u, p) ==
    \A a \in User :
        u.mem[a] = IF a \div PGSIZE = p THEN Shows(s.vmr[s.pt[p].v], a) ELSE s.mem[a]

\* Filling a page puts there what it showed; all else is the same, unless
\* there was nothing to read.
LEMMA Fill ==
    ASSUME NEW s \in Machines, NEW p \in Pages, NEW f, f = fill(s, p)
    PROVE  /\ f \in Machines /\ f.pt = s.pt /\ f.vmr = s.vmr /\ f.files = s.files
           /\ SameBooks(s, f)
           /\ f.panic \in {s.panic, "page past the end of the file"}
           /\ FilledAt(s, f, p)
<1>1. PICK r : r = s.vmr[s.pt[p].v]
  OBVIOUS
<1>2. /\ r.addr \in Nat /\ r.length \in Nat /\ r.file \in Nat /\ r.offset \in Nat
  <2>1. s.pt[p].v \in Vmrs
    BY MachineFields DEF Entries
  <2>2. r \in Regions
    BY <1>1, <2>1, MachineFields
  <2> QED
    BY <2>2, Sizes DEF Regions
<1>3. p \in Nat /\ User \subseteq Nat
  BY PageFacts, Sizes DEF User
<1>4. PICK done \in Int, pos \in Int, ret \in Int :
        /\ done = p * PGSIZE - r.addr /\ pos = done + r.offset
        /\ ret = file_pread(Min({PGSIZE, r.length - done}), pos)
  <2>1. p * PGSIZE - r.addr \in Int /\ p * PGSIZE - r.addr + r.offset \in Int
    BY <1>2, <1>3, Sizes
  <2>2. PICK done \in Int, pos \in Int : done = p * PGSIZE - r.addr /\ pos = done + r.offset
    BY <2>1
  <2>3. 0 \in Nat /\ 0 < PGSIZE /\ r.length \in Int
    BY <1>2, Sizes
  <2>4. file_pread(Min({PGSIZE, r.length - done}), pos) \in Int
    BY <2>3, PreadGives
  <2> QED
    BY <2>2, <2>4
<1>5. PICK mem : mem = [a \in User |-> IF a \div PGSIZE = p THEN Shows(r, a) ELSE s.mem[a]]
  OBVIOUS
<1>6. mem \in [User -> Units]
  <2>1. ASSUME NEW a \in User PROVE Shows(r, a) \in Units
    <3>1. r.file \in Int /\ a - r.addr + r.offset \in Int
      BY <1>2, <1>3
    <3> QED
      BY <3>1 DEF Shows, Units, Zero
  <2>2. \A a \in User : s.mem[a] \in Units
    BY MachineFields
  <2> QED
    BY <1>5, <2>1, <2>2
<1>7. CASE r.file = 0
  <2>1. \A a \in User : Shows(r, a) = Zero
    BY <1>7 DEF Shows
  <2>2. f = [s EXCEPT !.mem = [a \in DOMAIN s.mem |-> IF a \div PGSIZE = p THEN Zero ELSE s.mem[a]]]
    BY <1>1, <1>7 DEF fill, Write
  <2>3. mem = [a \in DOMAIN s.mem |-> IF a \div PGSIZE = p THEN Zero ELSE s.mem[a]]
    BY <1>5, <2>1, MachineFields
  <2>4. f = [s EXCEPT !.mem = mem]
    BY <2>2, <2>3, Zenon
  <2> QED
    BY <1>1, <1>5, <1>6, <2>4 DEF Machines, SameBooks, FilledAt
<1>8. CASE r.file # 0
  <2>1. ASSUME NEW a \in User, a \div PGSIZE = p
        PROVE  Shows(r, a) = IF a - p * PGSIZE < ret
                             THEN <<r.file, pos + a - p * PGSIZE>> ELSE Zero
    <3>1. PICK i \in Nat : i = a - p * PGSIZE /\ i < PGSIZE
      <4>1. /\ PGSIZE * (a \div PGSIZE) <= a /\ a < PGSIZE * (a \div PGSIZE) + PGSIZE
        BY <1>3, Sizes, Divides
      <4>2. PGSIZE * p \in Int /\ PGSIZE * p = p * PGSIZE
        BY <1>3, Sizes
      <4> QED
        BY <1>3, <2>1, <4>1, <4>2, Sizes
    <3>2. i < ret <=> done + i < r.length /\ pos + i < FileSize
      <4>1. r.length \in Int
        BY <1>2
      <4>2. i < PGSIZE
        BY <3>1
      <4>3. i < file_pread(Min({PGSIZE, r.length - done}), pos)
            <=> done + i < r.length /\ pos + i < FileSize
        BY <4>1, <4>2, PreadGives
      <4> QED
        BY <1>4, <4>3, Zenon
    <3>3. done + i = a - r.addr /\ pos + i = a - r.addr + r.offset /\ pos + a - p * PGSIZE = pos + i
      <4>1. p * PGSIZE \in Int
        BY <1>3, Sizes
      <4> QED
        BY <1>2, <1>3, <1>4, <3>1, <4>1
    <3> QED
      BY <1>8, <3>1, <3>2, <3>3, Zenon DEF Shows
  <2>2. PICK g : g = kassert(s, ret > 0, "page past the end of the file")
    OBVIOUS
  <2>3. /\ g \in Machines /\ g.pt = s.pt /\ g.vmr = s.vmr /\ g.files = s.files /\ g.mem = s.mem
        /\ SameBooks(s, g) /\ g.panic \in {s.panic, "page past the end of the file"}
    BY <2>2 DEF kassert, Machines, SameBooks, Labels
  <2>4. f = [g EXCEPT !.mem = [a \in DOMAIN g.mem |-> IF a \div PGSIZE = p
               THEN (IF a - p * PGSIZE < ret THEN <<r.file, pos + a - p * PGSIZE>> ELSE Zero)
               ELSE g.mem[a]]]
    BY <1>1, <1>4, <1>8, <2>2, ZenonT(40) DEF fill, Write
  <2>5. mem = [a \in DOMAIN g.mem |-> IF a \div PGSIZE = p
               THEN (IF a - p * PGSIZE < ret THEN <<r.file, pos + a - p * PGSIZE>> ELSE Zero)
               ELSE g.mem[a]]
    BY <1>5, <2>1, <2>3, MachineFields
  <2>6. f = [g EXCEPT !.mem = mem]
    BY <2>4, <2>5, Zenon
  <2>7. /\ f \in Machines /\ f.pt = g.pt /\ f.vmr = g.vmr /\ f.files = g.files /\ f.mem = mem
        /\ SameBooks(g, f) /\ f.panic = g.panic
    BY <1>6, <2>3, <2>6 DEF Machines, SameBooks
  <2>8. SameBooks(s, f)
    BY <2>3, <2>7, Zenon DEF SameBooks
  <2> QED
    BY <1>1, <1>5, <2>3, <2>7, <2>8 DEF FilledAt
<1> QED
  BY <1>7, <1>8

\* Page p is there.
Touched(s, u, p) ==
    /\ Lowered(s.vmr, u.vmr) /\ SameBooks(s, u)
    /\ u.panic \in {s.panic, "page past the end of the file"}
    /\ u.pt[p] = pte_create(s.vmr[s.pt[p].v].prot, TRUE)
    /\ \A q \in Pages : q # p => u.pt[q] = s.pt[q]
    /\ FilledAt(s, u, p)

\* The first access to a page that waits: it is there with the rights of its
\* region and holds what it showed.
LEMMA Touch ==
    ASSUME NEW s, NEW H, NEW v, NEW k \in Nat, Sound(s, H, v, k),
           NEW p \in Pages, s.pt[p].kind = "lazy", NEW u, u = touch(s, p)
    PROVE  Sound(u, H, v, k) /\ Touched(s, u, p)
<1>1. PICK f : f = fill(s, p)
  OBVIOUS
<1>2. PICK w : w = s.pt[p].v
  OBVIOUS
<1>3. s \in Machines /\ RegionsAgree(s.pt, s.vmr, v, k) /\ FilesAgree(s.vmr, s.files, H)
  BY DEF Sound
<1>4. /\ f \in Machines /\ f.pt = s.pt /\ f.vmr = s.vmr /\ f.files = s.files
      /\ SameBooks(s, f)
      /\ f.panic \in {s.panic, "page past the end of the file"}
      /\ FilledAt(s, f, p)
  BY <1>1, <1>3, Fill
<1>5. Sound(f, H, v, k)
  BY <1>3, <1>4 DEF Sound
<1>6. PICK d : d = vmr_decref(f, w)
  OBVIOUS
<1>7. PICK e : e = pte_create(d.vmr[w].prot, TRUE)
  OBVIOUS
<1>8. u = SetEntry(d, p, e)
  <2>1. u = [d EXCEPT !.pt[p] = e]
    BY <1>1, <1>2, <1>6, <1>7 DEF touch
  <2> QED
    BY <2>1, Zenon DEF SetEntry
<1>9. w \in Vmrs /\ f.pt[p].v = w /\ f.pt[p].kind = "lazy"
  BY <1>2, <1>3, <1>4, MachineFields DEF Entries
<1>10. d.vmr[w].prot = s.vmr[w].prot /\ s.vmr[w].prot \in SUBSET All
  <2>1. TakenOff(f.vmr, f.files, w, d.vmr, d.files)
    BY <1>4, <1>6, <1>9, Decref
  <2>2. d.vmr = [s.vmr EXCEPT ![w].refcnt = s.vmr[w].refcnt - 1]
    BY <1>4, <2>1 DEF TakenOff
  <2>3. s.vmr \in [Vmrs -> Regions]
    BY <1>3, MachineFields
  <2> QED
    BY <1>9, <2>2, <2>3 DEF Regions
<1>11. e \in Entries /\ e.kind # "lazy" /\ e = pte_create(s.vmr[s.pt[p].v].prot, TRUE)
  BY <1>2, <1>7, <1>10, EntryTypes
<1>12. d = vmr_decref(f, f.pt[p].v)
  BY <1>6, <1>9
<1>15. e \in Entries /\ e.kind # "lazy" /\ f.pt[p].kind = "lazy" /\ p \in Pages
  BY <1>9, <1>11
<1>13. /\ Sound(u, H, v, k) /\ Lowered(f.vmr, u.vmr)
       /\ u.mem = f.mem /\ u.panic = f.panic /\ SameBooks(f, u)
       /\ u.pt[p] = e /\ \A q \in Pages : q # p => u.pt[q] = f.pt[q]
  BY <1>5, <1>8, <1>15, <1>12, LeaveStep
<1>14. SameBooks(s, u)
  BY <1>4, <1>13, Zenon DEF SameBooks
<1>16. FilledAt(s, u, p)
  BY <1>4, <1>13 DEF FilledAt
<1> QED
  BY <1>4, <1>11, <1>13, <1>14, <1>16 DEF Touched

\* Page p is the kernel's.
KernelsOwn(s, u, p, prot, x) ==
    /\ u.vmr = s.vmr /\ u.mem = s.mem /\ u.files = s.files /\ Steady(s, u, x)
    /\ u.pt[p] = pte_create(prot, FALSE) /\ \A q \in Pages : q # p => u.pt[q] = s.pt[q]

\* A page of the kernel gets its entry, where nothing waited.
LEMMA KernelPage ==
    ASSUME NEW s, NEW H, NEW v, NEW k \in Nat, Sound(s, H, v, k), NEW x \in {0, 1},
           NEW p \in Pages, s.pt[p].kind # "lazy", NEW prot \in SUBSET All,
           NEW u, u = kernel_page(s, p, prot)
    PROVE  Sound(u, H, v, k) /\ KernelsOwn(s, u, p, prot, x)
<1>1. PICK w : w = walk_create(s, p)
  OBVIOUS
<1>2. PICK e : e = pte_create(prot, FALSE)
  OBVIOUS
<1>3. e \in Entries /\ e.kind # "lazy"
  BY <1>2, EntryTypes
<1>4. Grown(s, w, x) /\ Sound(w, H, v, k) /\ Steady(s, w, x)
  <2>1. s \in Machines
    BY DEF Sound
  <2>2. Grown(s, w, x)
    BY <1>1, <2>1, Walked
  <2> QED
    BY <2>2, GrownSound, GrownSteady
<1>5. w.pt = s.pt /\ w.vmr = s.vmr /\ w.mem = s.mem /\ w.files = s.files
  BY <1>4, Zenon DEF Grown
<1>6. /\ w \in Machines /\ w.pt \in [Pages -> Entries]
      /\ RegionsAgree(w.pt, w.vmr, v, k) /\ FilesAgree(w.vmr, w.files, H)
  BY <1>4, MachineFields DEF Sound
<1>7. PICK to : to = [w.pt EXCEPT ![p] = e]
  OBVIOUS
<1>8. /\ to \in [Pages -> Entries] /\ to[p] = e
      /\ \A q \in Pages : q # p => to[q] = w.pt[q]
  BY <1>3, <1>6, <1>7
<1>9. u = [w EXCEPT !.pt = to]
  BY <1>1, <1>2, <1>7 DEF kernel_page
<1>10. /\ u \in Machines /\ u.pt = to /\ u.vmr = w.vmr /\ u.files = w.files /\ u.mem = w.mem
       /\ u.panic = w.panic /\ SameBooks(w, u)
  BY <1>6, <1>8, <1>9 DEF Machines, SameBooks
<1>11. \A r \in Vmrs : Waits(to, r) = Waits(w.pt, r)
  BY <1>3, <1>5, <1>8 DEF Waits
<1>12. Sound(u, H, v, k)
  <2>1. RegionsAgree(to, w.vmr, v, k)
    BY <1>6, <1>11 DEF RegionsAgree
  <2> QED
    BY <1>6, <1>10, <2>1 DEF Sound
<1>13. Steady(s, u, x)
  <2>1. Steady(w, u, x)
    BY <1>10, BooksSteady
  <2> QED
    BY <2>1, <1>4, SteadyTwice
<1> QED
  BY <1>2, <1>5, <1>8, <1>10, <1>12, <1>13 DEF KernelsOwn

\* do_mprotect takes rights away and does nothing else.
Restricted(s, u) ==
    /\ u.files = s.files /\ u.mem = s.mem /\ u.panic = s.panic /\ SameBooks(s, u)
    /\ \A q \in Pages : /\ u.pt[q].kind = s.pt[q].kind
                        /\ s.pt[q].kind # "page" => u.pt[q] = s.pt[q]
                        /\ u.pt[q].prot \cap {"w", "x"} \subseteq s.pt[q].prot
    /\ \A w \in Vmrs : /\ u.vmr[w].addr = s.vmr[w].addr /\ u.vmr[w].length = s.vmr[w].length
                       /\ u.vmr[w].file = s.vmr[w].file /\ u.vmr[w].offset = s.vmr[w].offset
                       /\ u.vmr[w].refcnt = s.vmr[w].refcnt
                       /\ u.vmr[w].prot \subseteq s.vmr[w].prot

\* No right taken.
LEMMA RestrictedNone == \A s : Restricted(s, s)
  BY DEF Restricted, SameBooks

\* Rights taken twice.
LEMMA RestrictedTwice ==
    ASSUME NEW s, NEW t, NEW u, Restricted(s, t), Restricted(t, u)
    PROVE  Restricted(s, u)
<1>1. u.files = s.files /\ u.mem = s.mem /\ u.panic = s.panic /\ SameBooks(s, u)
  BY Zenon DEF Restricted, SameBooks
<1>2. ASSUME NEW q \in Pages
      PROVE /\ u.pt[q].kind = s.pt[q].kind
            /\ s.pt[q].kind # "page" => u.pt[q] = s.pt[q]
            /\ u.pt[q].prot \cap {"w", "x"} \subseteq s.pt[q].prot
  <2>1. /\ u.pt[q].kind = t.pt[q].kind
        /\ t.pt[q].kind # "page" => u.pt[q] = t.pt[q]
        /\ u.pt[q].prot \cap {"w", "x"} \subseteq t.pt[q].prot
    BY Zenon DEF Restricted
  <2>2. /\ t.pt[q].kind = s.pt[q].kind
        /\ s.pt[q].kind # "page" => t.pt[q] = s.pt[q]
        /\ t.pt[q].prot \cap {"w", "x"} \subseteq s.pt[q].prot
    BY Zenon DEF Restricted
  <2> QED
    BY <2>1, <2>2
<1>3. ASSUME NEW w \in Vmrs
      PROVE /\ u.vmr[w].addr = s.vmr[w].addr /\ u.vmr[w].length = s.vmr[w].length
            /\ u.vmr[w].file = s.vmr[w].file /\ u.vmr[w].offset = s.vmr[w].offset
            /\ u.vmr[w].refcnt = s.vmr[w].refcnt
            /\ u.vmr[w].prot \subseteq s.vmr[w].prot
  BY DEF Restricted
<1> QED
  BY <1>1, <1>2, <1>3 DEF Restricted

\* What agreed agrees when only rights have changed.
LEMMA RestrictedSound ==
    ASSUME NEW s, NEW H, NEW v, NEW k, Sound(s, H, v, k),
           NEW u \in Machines, Restricted(s, u)
    PROVE  Sound(u, H, v, k)
<1>1. s \in Machines /\ RegionsAgree(s.pt, s.vmr, v, k) /\ FilesAgree(s.vmr, s.files, H)
  BY DEF Sound
<1>2. /\ \A q \in Pages : /\ u.pt[q].kind = s.pt[q].kind
                          /\ s.pt[q].kind = "lazy" => u.pt[q] = s.pt[q]
      /\ \A w \in Vmrs : u.vmr[w].file = s.vmr[w].file /\ u.vmr[w].refcnt = s.vmr[w].refcnt
      /\ u.files = s.files
  BY DEF Restricted
<1>3. \A w \in Vmrs : Waits(u.pt, w) = Waits(s.pt, w)
  BY <1>2 DEF Waits
<1>4. \A f \in FileIds : Readers(u.vmr, f) = Readers(s.vmr, f)
  BY <1>2 DEF Readers
<1>5. RegionsAgree(u.pt, u.vmr, v, k)
  BY <1>1, <1>2, <1>3 DEF RegionsAgree
<1>6. FilesAgree(u.vmr, u.files, H)
  BY <1>1, <1>2, <1>4 DEF FilesAgree
<1> QED
  BY <1>5, <1>6, Zenon DEF Sound

Tries == [s : Machines, ok : BOOLEAN]

\* do_mprotect's step: it takes rights and does nothing else.
LEMMA ProtectPage ==
    ASSUME NEW t \in Tries, NEW prot \in SUBSET All, NEW p, NEW u, u = protect_page(t, p, prot)
    PROVE  u \in Tries /\ Restricted(t.s, u.s)
<1>1. t.s \in Machines /\ t.ok \in BOOLEAN
  BY DEF Tries
<1>2. CASE u = t
  BY <1>2, RestrictedNone
<1>3. CASE u = [t EXCEPT !.ok = FALSE]
  <2>1. u \in Tries /\ u.s = t.s
    BY <1>3 DEF Tries
  <2> QED
    BY <2>1, RestrictedNone
<1>4. PICK e : e = t.s.pt[p]
  OBVIOUS
<1>5. CASE /\ ~va_avail(t.s, p) /\ e.kind = "lazy" /\ prot \subseteq t.s.vmr[e.v].prot
           /\ u = [t EXCEPT !.s.vmr[e.v].prot = prot]
  <2>1. p \in Pages
    BY <1>5 DEF va_avail
  <2>2. e \in Entries /\ e.v \in Vmrs /\ t.s.vmr \in [Vmrs -> Regions]
    BY <1>1, <1>4, <2>1, MachineFields DEF Entries
  <2>3. PICK r : r = [t.s.vmr[e.v] EXCEPT !.prot = prot]
    OBVIOUS
  <2>4. /\ r \in Regions /\ r.addr = t.s.vmr[e.v].addr /\ r.length = t.s.vmr[e.v].length
        /\ r.file = t.s.vmr[e.v].file /\ r.offset = t.s.vmr[e.v].offset
        /\ r.refcnt = t.s.vmr[e.v].refcnt /\ r.prot = prot
    BY <2>2, <2>3 DEF Regions
  <2>5. PICK vmr : vmr = [t.s.vmr EXCEPT ![e.v] = r]
    OBVIOUS
  <2>6. vmr \in [Vmrs -> Regions] /\ vmr[e.v] = r /\ \A w \in Vmrs : w # e.v => vmr[w] = t.s.vmr[w]
    BY <2>2, <2>4, <2>5
  <2>7. PICK x : x = [t.s EXCEPT !.vmr = vmr]
    OBVIOUS
  <2>8. /\ x \in Machines /\ x.vmr = vmr /\ x.pt = t.s.pt /\ x.files = t.s.files
        /\ x.mem = t.s.mem /\ x.panic = t.s.panic /\ SameBooks(t.s, x)
    BY <1>1, <2>6, <2>7 DEF Machines, SameBooks
  <2>9. u = [t EXCEPT !.s = x]
    BY <1>5, <2>3, <2>5, <2>7
  <2>10. u \in Tries /\ u.s = x
    BY <2>8, <2>9 DEF Tries
  <2>11. Restricted(t.s, x)
    BY <1>5, <2>4, <2>6, <2>8 DEF Restricted
  <2> QED
    BY <2>10, <2>11
<1>6. CASE /\ ~va_avail(t.s, p) /\ e.kind # "lazy"
           /\ prot \cap {"w", "x"} \subseteq (IF e.user THEN e.prot ELSE {})
           /\ u = [t EXCEPT !.s.pt[p] = pte_create(prot, TRUE)]
  <2>1. p \in Pages /\ e.kind # "none"
    BY <1>4, <1>6 DEF va_avail
  <2>2. e \in Entries /\ e.kind = "page" /\ t.s.pt \in [Pages -> Entries]
    BY <1>1, <1>4, <1>6, <2>1, MachineFields DEF Entries, Kinds
  <2>3. PICK g : g = pte_create(prot, TRUE)
    OBVIOUS
  <2>4. g \in Entries /\ g.kind = "page" /\ g.prot \cap {"w", "x"} \subseteq e.prot
    <3>1. g \in Entries /\ g.kind = "page" /\ g.prot = Rights(prot)
      BY <2>3, EntryTypes
    <3>2. Rights(prot) \cap {"w", "x"} \subseteq prot \cap {"w", "x"}
      BY DEF Rights
    <3>3. prot \cap {"w", "x"} \subseteq e.prot
      BY <1>6
    <3> QED
      BY <3>1, <3>2, <3>3
  <2>5. PICK pt : pt = [t.s.pt EXCEPT ![p] = g]
    OBVIOUS
  <2>6. pt \in [Pages -> Entries] /\ pt[p] = g /\ \A q \in Pages : q # p => pt[q] = t.s.pt[q]
    BY <2>1, <2>2, <2>4, <2>5
  <2>7. PICK x : x = [t.s EXCEPT !.pt = pt]
    OBVIOUS
  <2>8. /\ x \in Machines /\ x.pt = pt /\ x.vmr = t.s.vmr /\ x.files = t.s.files
        /\ x.mem = t.s.mem /\ x.panic = t.s.panic /\ SameBooks(t.s, x)
    BY <1>1, <2>6, <2>7 DEF Machines, SameBooks
  <2>9. u = [t EXCEPT !.s = x]
    BY <1>6, <2>3, <2>5, <2>7
  <2>10. u \in Tries /\ u.s = x
    BY <2>8, <2>9 DEF Tries
  <2>11. Restricted(t.s, x)
    BY <1>4, <2>2, <2>4, <2>6, <2>8 DEF Restricted
  <2> QED
    BY <2>10, <2>11
<1> QED
  BY <1>2, <1>3, <1>4, <1>5, <1>6, ZenonT(40) DEF protect_page

-----------------------------------------------------------------------------
(* Ranges of pages *)

\* Pages first .. first + i - 1 are taken away.
Unmapped(s, t, first, i) ==
    /\ Lowered(s.vmr, t.vmr) /\ t.mem = s.mem /\ t.panic = s.panic /\ SameBooks(s, t)
    /\ \A q \in Pages :
           IF q \in first .. first + i - 1 THEN t.pt[q].kind = "none" ELSE t.pt[q] = s.pt[q]

\* __do_munmap, all its pages.
LEMMA UnmapRange ==
    ASSUME NEW s, NEW H, NEW v, NEW k \in Nat, Sound(s, H, v, k),
           NEW first \in Int, NEW n \in Nat, NEW u, u = PageLoop(unmap_page, s, first, n)
    PROVE  Sound(u, H, v, k) /\ Unmapped(s, u, first, n)
<1> DEFINE Ok(t, i) == Sound(t, H, v, k) /\ Unmapped(s, t, first, i)
<1>1. PICK G : G = [i \in Nat |-> {t \in Machines : Ok(t, i)}]
  OBVIOUS
<1>2. s \in G[0]
  <2>1. s \in Machines /\ Lowered(s.vmr, s.vmr) /\ SameBooks(s, s)
    BY LoweredNone, MachineFields DEF Sound, SameBooks
  <2>2. \A q : q \notin first .. first + 0 - 1
    OBVIOUS
  <2>3. Unmapped(s, s, first, 0)
    BY <2>1, <2>2 DEF Unmapped
  <2> QED
    BY <1>1, <2>1, <2>3
<1>3. ASSUME NEW i \in 1 .. n, NEW t \in G[i - 1]
      PROVE  unmap_page(t, first + i - 1) \in G[i]
  <2>1. PICK p \in Int : p = first + i - 1
    OBVIOUS
  <2>2. PICK w : w = unmap_page(t, p)
    OBVIOUS
  <2>3. i - 1 \in Nat /\ i \in Nat
    OBVIOUS
  <2>4. Sound(t, H, v, k) /\ Unmapped(s, t, first, i - 1)
    BY <1>1, <2>3
  <2>5. /\ Sound(w, H, v, k) /\ Lowered(t.vmr, w.vmr)
        /\ w.mem = t.mem /\ w.panic = t.panic /\ SameBooks(t, w)
        /\ p \in Pages => w.pt[p].kind = "none"
        /\ \A q \in Pages : q # p => w.pt[q] = t.pt[q]
    BY <2>2, <2>4, UnmapPage
  <2>6. Lowered(s.vmr, w.vmr)
    <3>1. s.vmr \in [Vmrs -> Regions] /\ Lowered(s.vmr, t.vmr)
      BY <2>4, MachineFields DEF Sound, Unmapped
    <3> QED
      BY <3>1, <2>5, LoweredTwice
  <2>7. w.mem = s.mem /\ w.panic = s.panic /\ SameBooks(s, w)
    BY <2>4, <2>5, Zenon DEF Unmapped, SameBooks
  <2>8. ASSUME NEW q \in Pages
        PROVE  IF q \in first .. first + i - 1 THEN w.pt[q].kind = "none" ELSE w.pt[q] = s.pt[q]
    <3>1. q \in Int
      BY PageFacts
    <3>2. q \in first .. first + i - 1 <=> (q = p \/ q \in first .. first + (i - 1) - 1)
      BY <3>1, <2>1
    <3>3. q # p => w.pt[q] = t.pt[q]
      BY <2>5
    <3>4. q = p => w.pt[q].kind = "none"
      BY <2>5
    <3>5. IF q \in first .. first + (i - 1) - 1 THEN t.pt[q].kind = "none" ELSE t.pt[q] = s.pt[q]
      BY <2>4 DEF Unmapped
    <3> QED
      BY <3>2, <3>3, <3>4, <3>5, Zenon
  <2>9. Unmapped(s, w, first, i)
    BY <2>6, <2>7, <2>8 DEF Unmapped
  <2> QED
    BY <1>1, <2>1, <2>2, <2>3, <2>5, <2>9 DEF Sound
<1>4. u \in G[n]
  BY <1>2, <1>3, UnmapLoop
<1> QED
  BY <1>1, <1>4

\* Pages first .. first + i - 1 wait for region v.
Mapped(s, t, v, first, i, x) ==
    /\ Lowered(s.vmr, t.vmr) /\ t.vmr[v] = s.vmr[v] /\ t.mem = s.mem /\ Steady(s, t, x)
    /\ \A q \in Pages :
           IF q \in first .. first + i - 1 THEN t.pt[q] = Lazy(v) ELSE t.pt[q] = s.pt[q]

\* __do_mmap's first loop: every page of the region waits, and it counts
\* them all.
LEMMA MapRange ==
    ASSUME NEW s, NEW H, NEW v \in Vmrs, NEW n \in Nat, Sound(s, H, v, n), Waits(s.pt, v) = {},
           NEW first \in Int, first .. first + n - 1 \subseteq Pages, NEW x \in {0, 1},
           NEW u, u = map_range(s, v, first, n)
    PROVE  Sound(u, H, v, 0) /\ Mapped(s, u, v, first, n, x)
<1> DEFINE Ok(t, i) == Sound(t, H, v, n - i) /\ Mapped(s, t, v, first, i, x)
<1>1. PICK G : G = [i \in Nat |-> {t \in Machines : Ok(t, i)}]
  OBVIOUS
<1>2. s \in G[0]
  <2>1. s \in Machines /\ Lowered(s.vmr, s.vmr) /\ Steady(s, s, x)
    BY LoweredNone, MachineFields DEF Sound, Steady
  <2>2. \A q : q \notin first .. first + 0 - 1
    OBVIOUS
  <2>3. Mapped(s, s, v, first, 0, x)
    BY <2>1, <2>2 DEF Mapped
  <2>4. Sound(s, H, v, n - 0)
    OBVIOUS
  <2> QED
    BY <1>1, <2>1, <2>3, <2>4
<1>3. ASSUME NEW i \in 1 .. n, NEW t \in G[i - 1]
      PROVE  map_page(t, v, first + i - 1) \in G[i]
  <2>1. PICK p \in Int : p = first + i - 1
    OBVIOUS
  <2>2. PICK w : w = map_page(t, v, p)
    OBVIOUS
  <2>3. i - 1 \in Nat /\ i \in Nat
    OBVIOUS
  <2>k. PICK k \in Nat : k = n - (i - 1) /\ k > 0 /\ k - 1 = n - i
    <3>1. n - (i - 1) \in Nat /\ n - (i - 1) > 0 /\ n - (i - 1) - 1 = n - i
      OBVIOUS
    <3> QED
      BY <3>1
  <2>4. Sound(t, H, v, k) /\ Mapped(s, t, v, first, i - 1, x)
    BY <1>1, <2>3, <2>k
  <2>p. p \in Pages
    BY <2>1
  <2>n. p \notin Waits(t.pt, v)
    <3>1. p \notin first .. first + (i - 1) - 1
      BY <2>1
    <3>2. t.pt[p] = s.pt[p]
      BY <2>4, <2>p, <3>1 DEF Mapped
    <3> QED
      BY <3>2 DEF Waits
  <2>m. Sound(w, H, v, k - 1) /\ PageMapped(t, w, v, p, x)
    <3>1. k > 0
      BY <2>k
    <3>2. Sound(t, H, v, k)
      BY <2>4
    <3> QED
      BY <2>2, <2>p, <2>n, <3>1, <3>2, MapPage
  <2>5. /\ Sound(w, H, v, k - 1) /\ Lowered(t.vmr, w.vmr)
        /\ w.vmr[v] = t.vmr[v] /\ w.mem = t.mem /\ Steady(t, w, x)
        /\ w.pt[p] = Lazy(v) /\ \A q \in Pages : q # p => w.pt[q] = t.pt[q]
    BY <2>m, Zenon DEF PageMapped
  <2>6. Lowered(s.vmr, w.vmr)
    <3>1. s.vmr \in [Vmrs -> Regions] /\ Lowered(s.vmr, t.vmr)
      BY <2>4, MachineFields DEF Sound, Mapped
    <3> QED
      BY <3>1, <2>5, LoweredTwice
  <2>7. w.vmr[v] = s.vmr[v] /\ w.mem = s.mem /\ Steady(s, w, x)
    BY <2>4, <2>5, SteadyTwice DEF Mapped
  <2>8. ASSUME NEW q \in Pages
        PROVE  IF q \in first .. first + i - 1 THEN w.pt[q] = Lazy(v) ELSE w.pt[q] = s.pt[q]
    <3>1. q \in Int
      BY PageFacts
    <3>2. q \in first .. first + i - 1 <=> (q = p \/ q \in first .. first + (i - 1) - 1)
      BY <3>1, <2>1
    <3>3. q # p => w.pt[q] = t.pt[q]
      BY <2>5
    <3>4. q = p => w.pt[q] = Lazy(v)
      BY <2>5
    <3>5. IF q \in first .. first + (i - 1) - 1 THEN t.pt[q] = Lazy(v) ELSE t.pt[q] = s.pt[q]
      BY <2>4 DEF Mapped
    <3> QED
      BY <3>2, <3>3, <3>4, <3>5, Zenon
  <2>9. Mapped(s, w, v, first, i, x)
    BY <2>6, <2>7, <2>8 DEF Mapped
  <2>10. Sound(w, H, v, n - i)
    BY <2>5, <2>k, Zenon
  <2> QED
    BY <1>1, <2>1, <2>2, <2>3, <2>10, <2>9 DEF Sound
<1>4. u \in G[n]
  BY <1>2, <1>3, MapLoop
<1>5. n - n = 0
  OBVIOUS
<1> QED
  BY <1>1, <1>4, <1>5

\* What a region shows is of its place and its file alone.
LEMMA ShowsSame ==
    ASSUME NEW q, NEW r, SameRegion(q, r), NEW a
    PROVE  Shows(q, a) = Shows(r, a)
  BY Zenon DEF SameRegion, Shows

\* What page a call touches can be used as it asked when its region says so.
LEMMA PermitsOwn ==
    ASSUME NEW prot \in SUBSET All
    PROVE  Permits(pte_create(prot, TRUE), prot)
  BY DEF Permits

\* Pages first .. first + i - 1, which waited for region v, are there.
Populated(s, t, v, first, i) ==
    /\ Lowered(s.vmr, t.vmr) /\ SameBooks(s, t)
    /\ t.panic \in {s.panic, "page past the end of the file"}
    /\ \A q \in Pages :
           IF q \in first .. first + i - 1 THEN t.pt[q] = pte_create(s.vmr[v].prot, TRUE)
           ELSE t.pt[q] = s.pt[q]
    /\ \A a \in User :
           t.mem[a] = IF a \div PGSIZE \in first .. first + i - 1 THEN Shows(s.vmr[v], a)
                      ELSE s.mem[a]

\* One more page of them.
LEMMA PopulateNext ==
    ASSUME NEW s, NEW H, NEW v \in Vmrs, Sound(s, H, v, 0), NEW first \in Int, NEW i \in Nat,
           first + i \in Pages, s.pt[first + i] = Lazy(v),
           NEW t, Sound(t, H, v, 0), Populated(s, t, v, first, i),
           NEW w, w = populate_page(t, first + i, s.vmr[v].prot)
    PROVE  Sound(w, H, v, 0) /\ Populated(s, w, v, first, i + 1)
<1>1. PICK p \in Pages : p = first + i
  OBVIOUS
<1>2. PICK y : y = touch(t, p)
  OBVIOUS
<1>3. s \in Machines /\ s.vmr \in [Vmrs -> Regions] /\ s.vmr[v].prot \in SUBSET All
      /\ Lazy(v).kind = "lazy" /\ Lazy(v).v = v
  BY MachineFields, EntryTypes DEF Sound, Regions
<1>4. p \notin first .. first + i - 1
  BY <1>1
<1>5. t.pt[p] = Lazy(v) /\ t.pt[p].kind = "lazy" /\ t.pt[p].v = v
  <2>1. t.pt[p] = s.pt[p]
    BY <1>4, Zenon DEF Populated
  <2>2. s.pt[p] = Lazy(v)
    BY <1>1
  <2> QED
    BY <1>3, <2>1, <2>2, Zenon
<1>6. SameRegion(t.vmr[v], s.vmr[v])
  BY Zenon DEF Populated, Lowered
<1>7. t.vmr[v].prot = s.vmr[v].prot
  BY <1>6, Zenon DEF SameRegion
<1>t. Sound(y, H, v, 0) /\ Touched(t, y, p)
  BY <1>2, <1>5, Touch
<1>8. /\ Sound(y, H, v, 0) /\ Lowered(t.vmr, y.vmr) /\ SameBooks(t, y)
      /\ y.panic \in {t.panic, "page past the end of the file"}
      /\ y.pt[p] = pte_create(t.vmr[t.pt[p].v].prot, TRUE)
      /\ \A q \in Pages : q # p => y.pt[q] = t.pt[q]
      /\ FilledAt(t, y, p)
  BY <1>t, Zenon DEF Touched
<1>9. y.pt[p] = pte_create(s.vmr[v].prot, TRUE)
  BY <1>5, <1>7, <1>8, Zenon
<1>10. w = y
  <2>1. Permits(y.pt[p], s.vmr[v].prot)
    BY <1>3, <1>9, PermitsOwn, Zenon
  <2>2. w = kassert(y, Permits(y.pt[p], s.vmr[v].prot), "populate")
    BY <1>1, <1>2 DEF populate_page
  <2> QED
    BY <2>1, <2>2, Zenon DEF kassert
<1>11. Lowered(s.vmr, y.vmr)
  <2>1. Lowered(s.vmr, t.vmr)
    BY Zenon DEF Populated
  <2> QED
    BY <1>3, <1>8, <2>1, LoweredTwice
<1>12. SameBooks(s, y) /\ y.panic \in {s.panic, "page past the end of the file"}
  <2>1. SameBooks(s, t) /\ t.panic \in {s.panic, "page past the end of the file"}
    BY Zenon DEF Populated
  <2> QED
    BY <1>8, <2>1 DEF SameBooks
<1>13. \A q \in Int : q \in first .. first + (i + 1) - 1 <=> (q = p \/ q \in first .. first + i - 1)
  <2>1. p \in Int
    BY PageFacts
  <2> QED
    BY <1>1, <2>1
<1>14. ASSUME NEW q \in Pages
       PROVE  IF q \in first .. first + (i + 1) - 1 THEN y.pt[q] = pte_create(s.vmr[v].prot, TRUE)
              ELSE y.pt[q] = s.pt[q]
  <2>1. q \in first .. first + (i + 1) - 1 <=> (q = p \/ q \in first .. first + i - 1)
    BY <1>13, PageFacts
  <2>2. q # p => y.pt[q] = t.pt[q]
    BY <1>8
  <2>3. IF q \in first .. first + i - 1 THEN t.pt[q] = pte_create(s.vmr[v].prot, TRUE)
        ELSE t.pt[q] = s.pt[q]
    BY DEF Populated
  <2> QED
    BY <1>9, <2>1, <2>2, <2>3, Zenon
<1>15. ASSUME NEW a \in User
       PROVE  y.mem[a] = IF a \div PGSIZE \in first .. first + (i + 1) - 1 THEN Shows(s.vmr[v], a)
                         ELSE s.mem[a]
  <2>1. a \div PGSIZE \in first .. first + (i + 1) - 1
        <=> (a \div PGSIZE = p \/ a \div PGSIZE \in first .. first + i - 1)
    <3>1. a \in Int
      BY Sizes DEF User
    <3>2. a \div PGSIZE \in Int
      BY <3>1, Sizes, Divides
    <3> QED
      BY <1>13, <3>2, Zenon
  <2>2. CASE a \div PGSIZE = p
    <3>1. y.mem[a] = Shows(t.vmr[t.pt[p].v], a)
      BY <1>8, <2>2 DEF FilledAt
    <3>2. Shows(t.vmr[v], a) = Shows(s.vmr[v], a)
      BY <1>6, ShowsSame, Zenon
    <3> QED
      BY <2>1, <2>2, <3>1, <3>2, <1>5, Zenon
  <2>3. CASE a \div PGSIZE # p
    <3>1. y.mem[a] = t.mem[a]
      BY <1>8, <2>3, Zenon DEF FilledAt
    <3>2. t.mem[a] = IF a \div PGSIZE \in first .. first + i - 1 THEN Shows(s.vmr[v], a)
                     ELSE s.mem[a]
      BY Zenon DEF Populated
    <3> QED
      BY <2>1, <2>3, <3>1, <3>2, Zenon
  <2> QED
    BY <2>2, <2>3
<1>16. Populated(s, y, v, first, i + 1)
  BY <1>11, <1>12, <1>14, <1>15 DEF Populated
<1> QED
  BY <1>8, <1>10, <1>16, Zenon

\* __do_mmap's second loop: with MAP_POPULATE each page is read at once.
LEMMA PopulateRange ==
    ASSUME NEW s, NEW H, NEW v \in Vmrs, Sound(s, H, v, 0), NEW first \in Int, NEW n \in Nat,
           first .. first + n - 1 \subseteq Pages,
           \A q \in first .. first + n - 1 : s.pt[q] = Lazy(v),
           NEW u, u = populate_range(s, first, n, s.vmr[v].prot)
    PROVE  Sound(u, H, v, 0) /\ Populated(s, u, v, first, n)
<1>1. PICK G : G = [i \in Nat |->
                     {t \in Machines : Sound(t, H, v, 0) /\ Populated(s, t, v, first, i)}]
  OBVIOUS
<1>2. s \in G[0]
  <2>1. s \in Machines /\ Lowered(s.vmr, s.vmr) /\ SameBooks(s, s)
    BY LoweredNone, MachineFields DEF Sound, SameBooks
  <2>2. \A q : q \notin first .. first + 0 - 1
    OBVIOUS
  <2>3. Populated(s, s, v, first, 0)
    BY <2>1, <2>2 DEF Populated
  <2> QED
    BY <1>1, <2>1, <2>3
<1>3. ASSUME NEW i \in 1 .. n, NEW t \in G[i - 1]
      PROVE  populate_page(t, first + i - 1, s.vmr[v].prot) \in G[i]
  <2>1. PICK j \in Nat : j = i - 1 /\ j + 1 = i /\ first + j = first + i - 1
    <3>1. i - 1 \in Nat /\ i - 1 + 1 = i /\ first + (i - 1) = first + i - 1
      OBVIOUS
    <3> QED
      BY <3>1
  <2>2. PICK w : w = populate_page(t, first + j, s.vmr[v].prot)
    OBVIOUS
  <2>3. Sound(t, H, v, 0) /\ Populated(s, t, v, first, j)
    BY <1>1, <2>1
  <2>4. first + j \in first .. first + n - 1
    BY <2>1
  <2>5. first + j \in Pages /\ s.pt[first + j] = Lazy(v)
    BY <2>4, Zenon
  <2>6. Sound(w, H, v, 0) /\ Populated(s, w, v, first, j + 1)
    BY <2>2, <2>3, <2>5, PopulateNext
  <2>7. w \in Machines /\ i \in Nat
    BY <2>6 DEF Sound
  <2> QED
    BY <1>1, <2>1, <2>2, <2>6, <2>7
<1>4. PICK prot : prot = s.vmr[v].prot
  OBVIOUS
<1>5. \A i \in 1 .. n : \A t \in G[i - 1] : populate_page(t, first + i - 1, prot) \in G[i]
  BY <1>3, <1>4, Zenon
<1>6. populate_range(s, first, n, prot) \in G[n]
  BY <1>2, <1>5, PopulateLoop
<1>7. u \in G[n]
  BY <1>4, <1>6, Zenon
<1> QED
  BY <1>1, <1>7

\* Pages first .. first + i - 1 are the kernel's.
KernelMapped(s, t, first, i, prot, x) ==
    /\ t.vmr = s.vmr /\ t.mem = s.mem /\ t.files = s.files /\ Steady(s, t, x)
    /\ \A q \in Pages :
           IF q \in first .. first + i - 1 THEN t.pt[q] = pte_create(prot, FALSE)
           ELSE t.pt[q] = s.pt[q]

\* One more of __map_kernel_range's pages.
LEMMA KernelNext ==
    ASSUME NEW s, NEW H, NEW v, NEW first \in Int, NEW i \in Nat, NEW prot \in SUBSET All,
           first + i \in Pages, s.pt[first + i].kind # "lazy", NEW x \in {0, 1},
           NEW t, Sound(t, H, v, 0), KernelMapped(s, t, first, i, prot, x),
           NEW w, w = kernel_page(t, first + i, prot)
    PROVE  Sound(w, H, v, 0) /\ KernelMapped(s, w, first, i + 1, prot, x)
<1>1. PICK p \in Pages : p = first + i
  OBVIOUS
<1>2. p \notin first .. first + i - 1
  BY <1>1
<1>3. t.pt[p].kind # "lazy"
  <2>1. t.pt[p] = s.pt[p]
    BY <1>2, Zenon DEF KernelMapped
  <2> QED
    BY <1>1, <2>1, Zenon
<1>4. w = kernel_page(t, p, prot)
  BY <1>1, Zenon
<1>k. Sound(w, H, v, 0) /\ KernelsOwn(t, w, p, prot, x)
  BY <1>3, <1>4, KernelPage
<1>5. /\ Sound(w, H, v, 0) /\ w.vmr = t.vmr /\ w.mem = t.mem /\ w.files = t.files
      /\ Steady(t, w, x)
      /\ w.pt[p] = pte_create(prot, FALSE) /\ \A q \in Pages : q # p => w.pt[q] = t.pt[q]
  BY <1>k, Zenon DEF KernelsOwn
<1>6. w.vmr = s.vmr /\ w.mem = s.mem /\ w.files = s.files /\ Steady(s, w, x)
  BY <1>5, SteadyTwice DEF KernelMapped
<1>7. ASSUME NEW q \in Pages
      PROVE  IF q \in first .. first + (i + 1) - 1 THEN w.pt[q] = pte_create(prot, FALSE)
             ELSE w.pt[q] = s.pt[q]
  <2>1. q \in first .. first + (i + 1) - 1 <=> (q = p \/ q \in first .. first + i - 1)
    <3>1. q \in Int /\ p \in Int
      BY PageFacts
    <3> QED
      BY <1>1, <3>1
  <2>2. q # p => w.pt[q] = t.pt[q]
    BY <1>5
  <2>3. IF q \in first .. first + i - 1 THEN t.pt[q] = pte_create(prot, FALSE)
        ELSE t.pt[q] = s.pt[q]
    BY DEF KernelMapped
  <2>4. q = p => w.pt[q] = pte_create(prot, FALSE)
    BY <1>5
  <2> QED
    BY <2>1, <2>2, <2>3, <2>4, Zenon
<1> QED
  BY <1>5, <1>6, <1>7 DEF KernelMapped

\* __map_kernel_range, all its pages.
LEMMA KernelRange ==
    ASSUME NEW s, NEW H, NEW v, Sound(s, H, v, 0), NEW first \in Int, NEW n \in Nat,
           first .. first + n - 1 \subseteq Pages, NEW x \in {0, 1},
           \A q \in first .. first + n - 1 : s.pt[q].kind # "lazy", NEW prot \in SUBSET All,
           NEW u, u = map_kernel_range(s, first, n, prot)
    PROVE  Sound(u, H, v, 0) /\ KernelMapped(s, u, first, n, prot, x)
<1>1. PICK G : G = [i \in Nat |-> {t \in Machines :
                      Sound(t, H, v, 0) /\ KernelMapped(s, t, first, i, prot, x)}]
  OBVIOUS
<1>2. s \in G[0]
  <2>1. s \in Machines /\ Steady(s, s, x)
    BY DEF Sound, Steady
  <2>2. \A q : q \notin first .. first + 0 - 1
    OBVIOUS
  <2>3. KernelMapped(s, s, first, 0, prot, x)
    BY <2>1, <2>2 DEF KernelMapped
  <2> QED
    BY <1>1, <2>1, <2>3
<1>3. ASSUME NEW i \in 1 .. n, NEW t \in G[i - 1]
      PROVE  kernel_page(t, first + i - 1, prot) \in G[i]
  <2>1. PICK j \in Nat : j = i - 1 /\ j + 1 = i /\ first + j = first + i - 1
    <3>1. i - 1 \in Nat /\ i - 1 + 1 = i /\ first + (i - 1) = first + i - 1
      OBVIOUS
    <3> QED
      BY <3>1
  <2>2. PICK w : w = kernel_page(t, first + j, prot)
    OBVIOUS
  <2>3. Sound(t, H, v, 0) /\ KernelMapped(s, t, first, j, prot, x)
    BY <1>1, <2>1
  <2>4. first + j \in first .. first + n - 1
    BY <2>1
  <2>5. first + j \in Pages /\ s.pt[first + j].kind # "lazy"
    BY <2>4, Zenon
  <2>6. Sound(w, H, v, 0) /\ KernelMapped(s, w, first, j + 1, prot, x)
    BY <2>2, <2>3, <2>5, KernelNext
  <2>7. w \in Machines /\ i \in Nat
    BY <2>6 DEF Sound
  <2> QED
    BY <1>1, <2>1, <2>2, <2>6, <2>7
<1>4. u \in G[n]
  BY <1>2, <1>3, KernelLoop
<1> QED
  BY <1>1, <1>4

\* do_mprotect, all its pages, also when it stops at one.
LEMMA ProtectRange ==
    ASSUME NEW s, NEW H, NEW v, Sound(s, H, v, 0), NEW first \in Int, NEW n \in Nat,
           NEW prot \in SUBSET All,
           NEW u, u = protect_range([s |-> s, ok |-> TRUE], first, n, prot).s
    PROVE  Sound(u, H, v, 0) /\ Restricted(s, u)
<1>1. PICK G : G = [i \in Nat |-> {t \in Tries : Restricted(s, t.s)}]
  OBVIOUS
<1>2. PICK t0 : t0 = [s |-> s, ok |-> TRUE]
  OBVIOUS
<1>3. t0 \in G[0]
  BY <1>1, <1>2, RestrictedNone DEF Tries, Sound
<1>4. ASSUME NEW i \in 1 .. n, NEW t \in G[i - 1]
      PROVE  protect_page(t, first + i - 1, prot) \in G[i]
  <2>1. i - 1 \in Nat /\ i \in Nat
    OBVIOUS
  <2>2. t \in Tries /\ Restricted(s, t.s)
    BY <1>1, <2>1
  <2>3. PICK w : w = protect_page(t, first + i - 1, prot)
    OBVIOUS
  <2>4. w \in Tries /\ Restricted(t.s, w.s)
    BY <2>2, <2>3, ProtectPage
  <2>5. Restricted(s, w.s)
    BY <2>2, <2>4, RestrictedTwice
  <2> QED
    BY <1>1, <2>1, <2>3, <2>4, <2>5
<1>5. protect_range(t0, first, n, prot) \in G[n]
  BY <1>3, <1>4, ProtectLoop
<1>6. protect_range(t0, first, n, prot) \in Tries /\ Restricted(s, u)
  BY <1>1, <1>2, <1>5
<1>7. u \in Machines
  BY <1>2, <1>6 DEF Tries
<1> QED
  BY <1>6, <1>7, RestrictedSound

-----------------------------------------------------------------------------
(* Lengths *)

\* The pages a length takes.
LEMMA NPages ==
    ASSUME NEW length \in Nat
    PROVE  /\ NPage(length) \in Nat /\ ROUNDUP(length) = PGSIZE * NPage(length)
           /\ length <= PGSIZE * NPage(length) /\ PGSIZE * NPage(length) < length + PGSIZE
           /\ length > 0 => NPage(length) > 0
<1>1. PICK y \in Int : y = length + PGSIZE - 1
  BY Sizes
<1>2. PICK n \in Int : n = y \div PGSIZE /\ PGSIZE * n <= y /\ y < PGSIZE * n + PGSIZE
                       /\ PGSIZE * n \in Int
  BY <1>1, Sizes, Divides
<1>3. ROUNDUP(length) = n * PGSIZE
  BY <1>1, <1>2 DEF ROUNDUP
<1>4. n * PGSIZE = PGSIZE * n /\ (PGSIZE * n) \div PGSIZE = n
  BY <1>2, Sizes, Multiples
<1>5. NPage(length) = n /\ ROUNDUP(length) = PGSIZE * n
  BY <1>3, <1>4 DEF NPage
<1>6. length <= PGSIZE * n /\ PGSIZE * n < length + PGSIZE
  BY <1>1, <1>2, Sizes
<1>7. n >= 0 /\ (length > 0 => n > 0)
  <2>1. PGSIZE * (0 - 1) < PGSIZE * n
    <3>1. PGSIZE * (0 - 1) = 0 - PGSIZE
      BY Sizes
    <3> QED
      BY <1>1, <1>2, <3>1, Sizes
  <2>2. 0 - 1 < n
    BY <2>1, Sizes, Multiples
  <2>3. n = 0 => PGSIZE * n = 0
    BY Sizes
  <2> QED
    BY <1>2, <1>6, <2>2, <2>3, Sizes
<1> QED
  BY <1>2, <1>5, <1>6, <1>7

\* A range of addresses within bounds is a range of pages within bounds.
LEMMA PagesWithin ==
    ASSUME NEW f \in Int, NEW length \in Nat, NEW z \in Int, PGSIZE * f + length <= PGSIZE * z
    PROVE  f + NPage(length) <= z
<1>1. PICK n \in Nat : n = NPage(length) /\ PGSIZE * n < length + PGSIZE
  BY NPages
<1>2. PGSIZE * (f + n) < PGSIZE * (z + 1)
  <2>1. PGSIZE * (f + n) = PGSIZE * f + PGSIZE * n /\ PGSIZE * (z + 1) = PGSIZE * z + PGSIZE
    BY Sizes
  <2>2. PGSIZE * f \in Int /\ PGSIZE * n \in Int /\ PGSIZE * z \in Int
    BY Sizes
  <2> QED
    BY <1>1, <2>1, <2>2, Sizes
<1>3. f + n < z + 1
  <2>1. f + n \in Int /\ z + 1 \in Int
    OBVIOUS
  <2> QED
    BY <1>2, <2>1, Sizes, Multiples
<1> QED
  BY <1>1, <1>3

\* The pages of an aligned range that the program may have.
LEMMA UserRange ==
    ASSUME NEW a \in Int, NEW length \in Nat, a % PGSIZE = 0, valid_user_range(a, length)
    PROVE  /\ a \div PGSIZE \in Nat /\ a = PGSIZE * (a \div PGSIZE)
           /\ a \div PGSIZE .. a \div PGSIZE + NPage(length) - 1 \subseteq UserPages
           /\ a \div PGSIZE + NPage(length) <= MmapMax \div PGSIZE
           /\ FirstFree \div PGSIZE <= a \div PGSIZE
<1>1. PICK f \in Int : f = a \div PGSIZE /\ a = PGSIZE * f
  <2>1. a \div PGSIZE \in Int /\ PGSIZE * (a \div PGSIZE) \in Int
        /\ a % PGSIZE = a - PGSIZE * (a \div PGSIZE)
    BY Sizes, Divides
  <2> QED
    BY <2>1
<1>2. PICK b \in Nat, z \in Nat : /\ FirstFree = PGSIZE * b /\ MmapMax = PGSIZE * z
                                  /\ UserPages = b .. z - 1
                                  /\ FirstFree \div PGSIZE = b /\ MmapMax \div PGSIZE = z
  BY Bounds
<1>3. b <= f
  <2>1. PGSIZE * b <= PGSIZE * f
    BY <1>1, <1>2 DEF valid_user_range
  <2> QED
    BY <2>1, Sizes, Multiples
<1>4. f + NPage(length) <= z
  <2>1. PGSIZE * f + length <= PGSIZE * z
    BY <1>1, <1>2 DEF valid_user_range
  <2> QED
    BY <2>1, PagesWithin
<1>5. NPage(length) \in Nat
  BY NPages
<1>6. f .. f + NPage(length) - 1 \subseteq UserPages
  BY <1>2, <1>3, <1>4, <1>5
<1> QED
  BY <1>1, <1>2, <1>3, <1>4, <1>6

-----------------------------------------------------------------------------
(* Regions *)

\* No region is about to get pages: any may be named.
LEMMA SoundAny ==
    ASSUME NEW s, NEW H, NEW v, NEW w, Sound(s, H, v, 0)
    PROVE  Sound(s, H, w, 0)
  BY DEF Sound, RegionsAgree

Region(addr, length, file, offset, refcnt, prot) ==
    [addr |-> addr, length |-> length, file |-> file,
     offset |-> offset, refcnt |-> refcnt, prot |-> prot]

\* A free region is given out: nothing waits for it, and it counts on k pages.
Allocated(s, u, v, r) ==
    /\ v \in FreeVmrs(s) /\ Waits(s.pt, v) = {}
    /\ u.pt = s.pt /\ u.mem = s.mem /\ u.panic = s.panic /\ SameBooks(s, u)
    /\ u.vmr[v] = r /\ \A w \in Vmrs : w # v => u.vmr[w] = s.vmr[w]

\* __vmr_alloc: the region counts the pages to come, and its file counts it.
LEMMA VmrAlloc ==
    ASSUME NEW s, NEW H \in SUBSET FileIds, Sound(s, H, 1, 0), FreeVmrs(s) # {},
           NEW addr \in Nat, NEW length \in Nat, NEW file \in {0} \cup H, NEW offset \in Nat,
           NEW k \in Nat, k > 0, NEW prot \in SUBSET All,
           NEW v, v = Min(FreeVmrs(s)),
           NEW u, u = vmr_alloc(s, addr, length, file, offset, k, prot)
    PROVE  Sound(u, H, v, k) /\ Allocated(s, u, v, Region(addr, length, file, offset, k, prot))
<1>1. FreeVmrs(s) \subseteq Nat /\ FreeVmrs(s) \subseteq Vmrs
  BY PageFacts DEF FreeVmrs
<1>2. v \in FreeVmrs(s)
  BY <1>1, Least, Zenon
<1>3. v \in Vmrs /\ s.vmr[v].refcnt = 0
  BY <1>1, <1>2 DEF FreeVmrs
<1>4. /\ s \in Machines /\ s.pt \in [Pages -> Entries] /\ s.vmr \in [Vmrs -> Regions]
      /\ s.files \in [FileIds -> Slots]
      /\ RegionsAgree(s.pt, s.vmr, 1, 0) /\ FilesAgree(s.vmr, s.files, H)
  BY MachineFields DEF Sound
<1>5. PICK r : r = Region(addr, length, file, offset, k, prot)
  OBVIOUS
<1>6. /\ r \in Regions /\ r.refcnt = k /\ r.file = file
  <2>1. file \in 0 .. MAX_FILES
    BY Sizes DEF FileIds
  <2> QED
    BY <1>5, <2>1 DEF Regions, Region
<1>7. PICK vmr : vmr = [s.vmr EXCEPT ![v] = r]
  OBVIOUS
<1>8. vmr \in [Vmrs -> Regions] /\ vmr[v] = r /\ \A w \in Vmrs : w # v => vmr[w] = s.vmr[w]
  BY <1>3, <1>4, <1>6, <1>7
<1>9. PICK files : files = IF file = 0 THEN s.files ELSE file_incref(s.files, file)
  OBVIOUS
<1>10. u = [s EXCEPT !.files = files, !.vmr = vmr]
  BY <1>5, <1>7, <1>9 DEF vmr_alloc, Region
<1>11. Waits(s.pt, v) = {}
  <2>1. s.vmr[v].refcnt = Cardinality(Waits(s.pt, v)) + 0
    BY <1>3, <1>4 DEF RegionsAgree
  <2>2. Waits(s.pt, v) \in SUBSET Pages
    BY DEF Waits
  <2>3. IsFiniteSet(Waits(s.pt, v)) /\ Cardinality(Waits(s.pt, v)) \in Nat
    BY <2>2, Counting
  <2>4. Cardinality(Waits(s.pt, v)) = 0
    BY <1>3, <2>1, <2>3
  <2> QED
    BY <2>3, <2>4, FS_EmptySet
<1>12. RegionsAgree(s.pt, vmr, v, k)
  <2> SUFFICES ASSUME NEW w \in Vmrs
               PROVE vmr[w].refcnt = Cardinality(Waits(s.pt, w)) + (IF w = v THEN k ELSE 0)
    BY DEF RegionsAgree
  <2>1. CASE w = v
    <3>1. Cardinality(Waits(s.pt, w)) = 0
      BY <1>11, <2>1, FS_EmptySet
    <3> QED
      BY <1>6, <1>8, <2>1, <3>1
  <2>2. CASE w # v
    BY <1>4, <1>8, <2>2 DEF RegionsAgree
  <2> QED
    BY <2>1, <2>2
<1>13. \A f \in FileIds : Readers(s.vmr, f) \in SUBSET Vmrs /\ v \notin Readers(s.vmr, f)
  BY <1>3 DEF Readers
<1>14. \A f \in FileIds : f # file => Readers(vmr, f) = Readers(s.vmr, f)
  BY <1>3, <1>6, <1>8 DEF Readers
<1>15. files \in [FileIds -> Slots] /\ FilesAgree(vmr, files, H)
  <2>1. CASE file = 0
    <3>1. \A f \in FileIds : f # file
      BY <2>1, Sizes DEF FileIds
    <3>2. files = s.files /\ \A f \in FileIds : Readers(vmr, f) = Readers(s.vmr, f)
      BY <1>9, <1>14, <2>1, <3>1
    <3> QED
      BY <1>4, <3>2 DEF FilesAgree
  <2>2. CASE file # 0
    <3>1. file \in FileIds /\ file \in H
      BY <2>2
    <3>2. Readers(vmr, file) = Readers(s.vmr, file) \cup {v}
      BY <1>3, <1>6, <1>8 DEF Readers
    <3>3. /\ Cardinality(Readers(vmr, file)) = Cardinality(Readers(s.vmr, file)) + 1
          /\ Cardinality(Readers(s.vmr, file)) \in Nat
      <4>1. IsFiniteSet(Readers(s.vmr, file)) /\ Cardinality(Readers(s.vmr, file)) \in Nat
        BY <1>13, <3>1, Counting
      <4>2. v \notin Readers(s.vmr, file)
        BY <1>13, <3>1
      <4>3. Cardinality(Readers(s.vmr, file) \cup {v}) = Cardinality(Readers(s.vmr, file)) + 1
        BY <4>1, <4>2, AddOne
      <4> QED
        BY <3>2, <4>1, <4>3
    <3>4. PICK n \in Nat : /\ n > 0 /\ n = Cardinality(Readers(s.vmr, file)) + 1
                           /\ n + 1 = Cardinality(Readers(vmr, file)) + 1
      BY <3>3
    <3>5. s.files[file] = Slot(n)
      BY <1>4, <3>1, <3>4 DEF FilesAgree
    <3>6. files = file_incref(s.files, file)
      BY <1>9, <2>2
    <3>7. /\ file_incref(s.files, file) \in [FileIds -> Slots]
          /\ file_incref(s.files, file)[file] = Slot(n + 1)
          /\ \A g \in FileIds : g # file => file_incref(s.files, file)[g] = s.files[g]
      BY <1>4, <3>1, <3>4, <3>5, IncrefSlot, Zenon
    <3>8. /\ files \in [FileIds -> Slots] /\ files[file] = Slot(n + 1)
          /\ \A g \in FileIds : g # file => files[g] = s.files[g]
      BY <3>6, <3>7, Zenon
    <3>9. ASSUME NEW g \in FileIds
          PROVE  files[g] = Slot(Cardinality(Readers(vmr, g)) + (IF g \in H THEN 1 ELSE 0))
      <4>1. CASE g = file
        <5>1. files[g] = Slot(Cardinality(Readers(vmr, g)) + 1)
          BY <3>4, <3>8, <4>1
        <5> QED
          BY <3>1, <4>1, <5>1
      <4>2. CASE g # file
        BY <1>4, <1>14, <3>8, <4>2 DEF FilesAgree
      <4> QED
        BY <4>1, <4>2
    <3> QED
      BY <3>8, <3>9 DEF FilesAgree
  <2> QED
    BY <2>1, <2>2
<1>16. /\ u \in Machines /\ u.pt = s.pt /\ u.vmr = vmr /\ u.files = files /\ u.mem = s.mem
       /\ u.panic = s.panic /\ SameBooks(s, u)
  BY <1>4, <1>8, <1>10, <1>15 DEF Machines, SameBooks
<1>17. Sound(u, H, v, k)
  BY <1>12, <1>15, <1>16 DEF Sound
<1> QED
  BY <1>2, <1>5, <1>8, <1>11, <1>16, <1>17 DEF Allocated

\* What a mapping call leaves: pages first .. first + n - 1 are of region r,
\* and nothing else has changed but for the pages it took from others.
Placed(s, u, v, r, first, n, populate) ==
    /\ v \in FreeVmrs(s) /\ u.vmr \in [Vmrs -> Regions] /\ SameRegion(u.vmr[v], r)
    /\ \A w \in Vmrs : w # v =>
           SameRegion(u.vmr[w], s.vmr[w]) /\ u.vmr[w].refcnt <= s.vmr[w].refcnt
    /\ \A q \in Pages :
           IF q \in first .. first + n - 1
           THEN u.pt[q] = IF populate THEN pte_create(r.prot, TRUE) ELSE Lazy(v)
           ELSE u.pt[q] = s.pt[q]
    /\ \A a \in User :
           u.mem[a] = IF populate /\ a \div PGSIZE \in first .. first + n - 1
                      THEN Shows(r, a) ELSE s.mem[a]

PlacedSome(s, u, r, first, n, populate) == \E v : Placed(s, u, v, r, first, n, populate)

\* The allocator did not run out, and a page could be used as the call asked.
Served(s, u, x) ==
    Ledger(s, x) =>
        /\ Ledger(u, x)
        /\ EnoughPages => u.panic \in {s.panic, "page past the end of the file"}

\* Pages first .. first + n - 1 are mapped, and the machine is sound.
MmapDone(s, u, H, x, r, first, n, populate) ==
    Sound(u, H, 1, 0) /\ Served(s, u, x) /\ PlacedSome(s, u, r, first, n, populate)

\* __do_mmap, once its place is found: the counts are right when it is done.
LEMMA DoMmapAt ==
    ASSUME NEW s, NEW H \in SUBSET FileIds, Sound(s, H, 1, 0), FreeVmrs(s) # {},
           NEW a \in Nat, NEW length \in Nat, length > 0, NEW file \in {0} \cup H,
           NEW offset \in Nat, NEW prot \in SUBSET All, NEW populate \in BOOLEAN,
           NEW first \in Nat, first = a \div PGSIZE, NEW n, n = NPage(length),
           first .. first + n - 1 \subseteq Pages, NEW x \in {0, 1},
           NEW u, u = do_mmap_at(s, a, length, prot, populate, file, offset)
    PROVE  MmapDone(s, u, H, x, Region(a, length, file, offset, n, prot), first, n, populate)
<1>1. n \in Nat /\ n > 0
  BY NPages
<1>2. PICK b : b = with_vmrs(s)
  OBVIOUS
<1>3. Grown(s, b, x) /\ Sound(b, H, 1, 0) /\ Steady(s, b, x)
  <2>1. s \in Machines
    BY DEF Sound
  <2>2. Grown(s, b, x)
    BY <1>2, <2>1, WithVmrs
  <2> QED
    BY <2>2, GrownSound, GrownSteady
<1>4. b.pt = s.pt /\ b.vmr = s.vmr /\ b.mem = s.mem /\ FreeVmrs(b) = FreeVmrs(s)
  BY <1>3 DEF Grown, FreeVmrs
<1>5. PICK v : v = Min(FreeVmrs(b))
  OBVIOUS
<1>6. PICK r : r = Region(a, length, file, offset, n, prot)
  OBVIOUS
<1>7. PICK c : c = vmr_alloc(b, a, length, file, offset, n, prot)
  OBVIOUS
<1>8. Sound(c, H, v, n) /\ Allocated(b, c, v, r)
  <2>1. FreeVmrs(b) # {}
    BY <1>4
  <2>2. Sound(b, H, 1, 0)
    BY <1>3
  <2> QED
    BY <1>1, <1>5, <1>6, <1>7, <2>1, <2>2, VmrAlloc
<1>9. /\ v \in FreeVmrs(b) /\ v \in Vmrs /\ Waits(c.pt, v) = {}
      /\ c.pt = b.pt /\ c.mem = b.mem /\ c.panic = b.panic /\ SameBooks(b, c)
      /\ c.vmr[v] = r /\ \A w \in Vmrs : w # v => c.vmr[w] = b.vmr[w]
  BY <1>8 DEF Allocated, FreeVmrs
<1>10. PICK d : d = map_range(c, v, first, n)
  OBVIOUS
<1>11. Sound(d, H, v, 0) /\ Mapped(c, d, v, first, n, x)
  <2>1. v \in Vmrs /\ Waits(c.pt, v) = {} /\ Sound(c, H, v, n) /\ first \in Int
    BY <1>8, <1>9
  <2> QED
    BY <1>1, <1>10, <2>1, MapRange
<1>12. Steady(s, d, x)
  <2>1. Steady(b, c, x)
    BY <1>9, BooksSteady
  <2>2. Steady(c, d, x)
    BY <1>11, Zenon DEF Mapped
  <2> QED
    BY <1>3, <2>1, <2>2, SteadyTwice
<1>13. /\ d.vmr[v] = r /\ d.mem = s.mem /\ d.vmr \in [Vmrs -> Regions]
       /\ \A w \in Vmrs : SameRegion(d.vmr[w], c.vmr[w]) /\ d.vmr[w].refcnt <= c.vmr[w].refcnt
       /\ \A q \in Pages :
            IF q \in first .. first + n - 1 THEN d.pt[q] = Lazy(v) ELSE d.pt[q] = s.pt[q]
  BY <1>4, <1>9, <1>11, Zenon DEF Mapped, Lowered
<1>14. \A w \in Vmrs : w # v => c.vmr[w] = s.vmr[w]
  BY <1>4, <1>9, Zenon
<1>15. v \in FreeVmrs(s)
  BY <1>4, <1>9, Zenon
<1>16. CASE ~populate
  <2>1. u = d
    BY <1>2, <1>5, <1>7, <1>10, <1>16 DEF do_mmap_at, have_vm
  <2>2. Placed(s, d, v, r, first, n, populate)
    BY <1>13, <1>14, <1>15, <1>16, ZenonT(40) DEF Placed, SameRegion
  <2>3. Served(s, d, x)
    BY <1>12 DEF Steady, Served
  <2>4. Sound(d, H, 1, 0)
    BY <1>11, SoundAny
  <2> QED
    BY <1>6, <2>1, <2>2, <2>3, <2>4, Zenon DEF PlacedSome, MmapDone
<1>17. CASE populate
  <2>0. d.vmr[v].prot = prot /\ r.prot = prot
    BY <1>6, <1>13 DEF Region
  <2>1. u = populate_range(d, first, n, d.vmr[v].prot)
    BY <1>2, <1>5, <1>7, <1>10, <1>17, <2>0 DEF do_mmap_at
  <2>2. \A q \in first .. first + n - 1 : d.pt[q] = Lazy(v)
    BY <1>13
  <2>3. Sound(u, H, v, 0) /\ Populated(d, u, v, first, n)
    <3>1. v \in Vmrs /\ first \in Int /\ Sound(d, H, v, 0)
      BY <1>9, <1>11
    <3> QED
      BY <1>1, <2>1, <2>2, <3>1, PopulateRange
  <2>4. /\ Lowered(d.vmr, u.vmr) /\ SameBooks(d, u)
        /\ u.panic \in {d.panic, "page past the end of the file"}
        /\ \A q \in Pages :
             IF q \in first .. first + n - 1 THEN u.pt[q] = pte_create(d.vmr[v].prot, TRUE)
             ELSE u.pt[q] = d.pt[q]
        /\ \A y \in User :
             u.mem[y] = IF y \div PGSIZE \in first .. first + n - 1 THEN Shows(d.vmr[v], y)
                        ELSE d.mem[y]
    BY <2>3, Zenon DEF Populated
  <2>5. Served(s, u, x)
    <3>1. Ledger(d, x) => Ledger(u, x)
      BY <2>4, Zenon DEF SameBooks, Ledger
    <3> QED
      BY <1>12, <2>4, <3>1, Zenon DEF Steady, Served
  <2>6. u.vmr \in [Vmrs -> Regions] /\ SameRegion(u.vmr[v], r)
    BY <1>9, <1>13, <2>4 DEF Lowered
  <2>7. ASSUME NEW w \in Vmrs, w # v
        PROVE SameRegion(u.vmr[w], s.vmr[w]) /\ u.vmr[w].refcnt <= s.vmr[w].refcnt
    <3>1. c.vmr[w] = s.vmr[w]
      BY <1>14, <2>7
    <3>2. s.vmr \in [Vmrs -> Regions]
      BY MachineFields DEF Sound
    <3>4. SameRegion(u.vmr[w], d.vmr[w]) /\ u.vmr[w].refcnt <= d.vmr[w].refcnt
          /\ SameRegion(d.vmr[w], s.vmr[w]) /\ d.vmr[w].refcnt <= s.vmr[w].refcnt
      BY <1>13, <2>4, <3>1, Zenon DEF Lowered
    <3>5. u.vmr[w].refcnt \in Nat /\ d.vmr[w].refcnt \in Nat /\ s.vmr[w].refcnt \in Nat
      BY <1>13, <2>6, <3>2 DEF Regions
    <3>6. u.vmr[w].refcnt <= s.vmr[w].refcnt
      BY <3>4, <3>5
    <3> QED
      BY <3>4, <3>6, Zenon DEF SameRegion
  <2>8. ASSUME NEW q \in Pages
        PROVE IF q \in first .. first + n - 1
              THEN u.pt[q] = IF populate THEN pte_create(r.prot, TRUE) ELSE Lazy(v)
              ELSE u.pt[q] = s.pt[q]
    BY <1>13, <1>17, <2>0, <2>4, Zenon
  <2>9. ASSUME NEW y \in User
        PROVE u.mem[y] = IF populate /\ y \div PGSIZE \in first .. first + n - 1
                         THEN Shows(r, y) ELSE s.mem[y]
    BY <1>13, <1>17, <2>4, Zenon
  <2>10. Placed(s, u, v, r, first, n, populate)
    BY <1>15, <2>6, <2>7, <2>8, <2>9 DEF Placed
  <2>11. Sound(u, H, 1, 0)
    BY <2>3, SoundAny
  <2> QED
    BY <1>6, <2>5, <2>10, <2>11, Zenon DEF PlacedSome, MmapDone
<1> QED
  BY <1>16, <1>17

-----------------------------------------------------------------------------
(* The invariant *)

Base(seg) == seg.vaddr - (seg.vaddr % PGSIZE)
InFile(seg) == seg.filesz + (seg.vaddr % PGSIZE)

\* How far the start has come: a segment of the program, of which the part in
\* the file is mapped when it is the turn of the rest.
StageFine(st) ==
    /\ st[1] \in {"open", "map", "bss", "close", "stack", "run", "off"}
    /\ st[1] \in {"map", "bss"} => st[2] \in 1 .. Len(Segments)
    /\ st[1] = "bss" => valid_user_range(Base(Segments[st[2]]), InFile(Segments[st[2]]))

\* The loader has one file open, and none before and after it.
HandlesFine(H, st) ==
    /\ H \in SUBSET FileIds
    /\ st[1] \in {"open", "stack"} => H = {}
    /\ st[1] \in {"map", "bss", "close"} => \E f \in FileIds : H = {f}

\* The break lies in the program's part of the memory.
Breaks == [brk_min : 0 .. MmapMax, brk : {0} \cup (FirstFree .. MmapMax),
           brk_max : FirstFree .. MmapMax]

BreakFine(cur, st) ==
    /\ cur \in Breaks /\ cur.brk % PGSIZE = 0
    /\ st[1] # "run" => cur.brk = 0
    /\ st[1] \in {"close", "stack", "run"} => FirstFree <= cur.brk_min

\* Only the program's pages wait, and the kernel's are there once it runs.
KernelFine(pt, st) ==
    /\ \A p \in Pages \ UserPages : pt[p].kind # "lazy"
    /\ st[1] = "run" => \A p \in Pages : p < FirstFree \div PGSIZE => pt[p].kind = "page"

CoreOf(s, st, cur, H, ask) ==
    /\ StageFine(st) /\ HandlesFine(H, st) /\ BreakFine(cur, st)
    /\ ask \in [UserPages -> SUBSET All]
    /\ IF st[1] = "off"
       THEN s.panic \in Labels \ {"none"} /\ s = [PowerOn EXCEPT !.panic = s.panic]
       ELSE /\ s.panic = "none" /\ (st[1] = "open" => s = PowerOn)
            /\ Sound(s, H, 1, 0) /\ KernelFine(s.pt, st) /\ Ledger(s, One(st[1] = "run"))

CoreInv == CoreOf(m, stage, current, handles, asked)

-----------------------------------------------------------------------------
(* What a call leaves *)

\* The machine before vm_init, also when a call has ended in a panic.
LEMMA PowerOnFine ==
    ASSUME NEW label \in Labels, NEW s,
           s = [PowerOn EXCEPT !.panic = label] \/ (label = "none" /\ s = PowerOn)
    PROVE  /\ Sound(s, {}, 1, 0) /\ s.panic = label /\ Ledger(s, 0)
           /\ \A p \in Pages : s.pt[p] = Free
           /\ \A v \in Vmrs : s.vmr[v] = NoVmr
<1>1. NoVmr \in Regions /\ NoVmr.refcnt = 0
  BY Sizes DEF NoVmr, Regions
<1>2. Free \in Entries /\ Free.kind = "none"
  BY EntryTypes
<1>3. PICK pt : pt = [p \in Pages |-> Free]
  OBVIOUS
<1>4. PICK vmr : vmr = [v \in Vmrs |-> NoVmr]
  OBVIOUS
<1>5. PICK mem : mem = [u \in User |-> Stale]
  OBVIOUS
<1>6. pt \in [Pages -> Entries] /\ vmr \in [Vmrs -> Regions] /\ mem \in [User -> Units]
      /\ file_init \in [FileIds -> Slots]
  BY <1>1, <1>2, <1>3, <1>4, <1>5 DEF Units, Stale, file_init, Slots
<1>7. s = [pt |-> pt, vmr |-> vmr, files |-> file_init, mem |-> mem, root |-> FALSE,
           vmrs |-> FALSE, tables |-> {}, next |-> 0, panic |-> label]
  BY <1>3, <1>4, <1>5 DEF PowerOn
<1>8. s \in Machines
  <2>1. {} \in SUBSET Tables /\ FALSE \in BOOLEAN /\ 0 \in Nat
    OBVIOUS
  <2> QED
    BY <1>6, <1>7, <2>1, Zenon DEF Machines
<1>9. /\ s.pt = pt /\ s.vmr = vmr /\ s.files = file_init /\ s.panic = label
      /\ s.root = FALSE /\ s.vmrs = FALSE /\ s.tables = {} /\ s.next = 0
  BY <1>7
<1>10. RegionsAgree(pt, vmr, 1, 0)
  <2>1. \A w : Waits(pt, w) = {}
    BY <1>2, <1>3 DEF Waits
  <2>2. Cardinality({}) = 0
    BY FS_EmptySet
  <2> QED
    BY <1>1, <1>4, <2>1, <2>2 DEF RegionsAgree
<1>11. FilesAgree(vmr, file_init, {})
  <2>1. \A f : Readers(vmr, f) = {}
    BY <1>1, <1>4 DEF Readers
  <2>2. Cardinality({}) = 0
    BY FS_EmptySet
  <2>3. \A f : Cardinality(Readers(vmr, f)) + (IF f \in {} THEN 1 ELSE 0) = 0
    BY <2>1, <2>2
  <2>4. Slot(0) = [refcnt |-> 0, open |-> FALSE]
    BY DEF Slot
  <2>5. \A f \in FileIds : file_init[f] = Slot(0)
    BY <2>4 DEF file_init
  <2> QED
    BY <2>3, <2>5 DEF FilesAgree
<1>12. Ledger(s, 0)
  <2>1. Cardinality({}) = 0
    BY FS_EmptySet
  <2> QED
    BY <1>9, <2>1 DEF Ledger, One
<1> QED
  BY <1>3, <1>4, <1>8, <1>9, <1>10, <1>11, <1>12 DEF Sound

\* A region without pages is no region any more; all else stays.
SettledFrom(r, s) ==
    /\ s.pt = r.pt /\ s.files = r.files /\ s.panic = r.panic /\ SameBooks(r, s)
    /\ \A v \in Vmrs : s.vmr[v] = IF r.vmr[v].refcnt = 0 THEN NoVmr ELSE r.vmr[v]
    /\ \A u \in User : s.mem[u] = IF r.pt[u \div PGSIZE].kind = "page" THEN r.mem[u] ELSE Stale

\* A region without pages is forgotten and no count changes.
LEMMA SettledSound ==
    ASSUME NEW r, NEW H, Sound(r, H, 1, 0), NEW s, s = Settled(r)
    PROVE  Sound(s, H, 1, 0) /\ SettledFrom(r, s)
<1>1. /\ r \in Machines /\ r.vmr \in [Vmrs -> Regions] /\ r.mem \in [User -> Units]
      /\ RegionsAgree(r.pt, r.vmr, 1, 0) /\ FilesAgree(r.vmr, r.files, H)
  BY MachineFields DEF Sound
<1>2. PICK vmr : vmr = [v \in Vmrs |-> IF r.vmr[v].refcnt = 0 THEN NoVmr ELSE r.vmr[v]]
  OBVIOUS
<1>3. PICK mem : mem = [u \in User |-> IF r.pt[u \div PGSIZE].kind = "page" THEN r.mem[u] ELSE Stale]
  OBVIOUS
<1>4. s = [r EXCEPT !.vmr = vmr, !.mem = mem]
  BY <1>2, <1>3 DEF Settled
<1>5. NoVmr \in Regions /\ NoVmr.refcnt = 0
  BY Sizes DEF NoVmr, Regions
<1>6. vmr \in [Vmrs -> Regions] /\ mem \in [User -> Units]
  BY <1>1, <1>2, <1>3, <1>5 DEF Stale, Units
<1>7. /\ s \in Machines /\ s.pt = r.pt /\ s.files = r.files /\ s.panic = r.panic
      /\ SameBooks(r, s) /\ s.vmr = vmr /\ s.mem = mem
  BY <1>1, <1>4, <1>6 DEF Machines, SameBooks
<1>8. \A v \in Vmrs : vmr[v].refcnt = r.vmr[v].refcnt
  BY <1>2, <1>5
<1>9. RegionsAgree(r.pt, vmr, 1, 0)
  BY <1>1, <1>8 DEF RegionsAgree
<1>10. \A f \in FileIds : Readers(vmr, f) = Readers(r.vmr, f)
  <2>1. \A v \in Vmrs : r.vmr[v].refcnt > 0 => vmr[v] = r.vmr[v]
    BY <1>2
  <2> QED
    BY <1>8, <2>1 DEF Readers
<1>11. FilesAgree(vmr, r.files, H)
  BY <1>1, <1>10 DEF FilesAgree
<1> QED
  BY <1>2, <1>3, <1>7, <1>9, <1>11 DEF Sound, SettledFrom

\* The next state of a call that leaves the machine sound.
LEMMA EffectCore ==
    ASSUME NEW r, NEW next, NEW cur, NEW ask, Effect(next, r, cur, ask),
           StageFine(next), next[1] \notin {"off", "open"}, HandlesFine(handles', next), BreakFine(cur, next),
           ask \in [UserPages -> SUBSET All],
           Sound(r, handles', 1, 0), KernelFine(r.pt, next), Ledger(r, One(next[1] = "run"))
    PROVE  CoreInv'
<1>1. CASE r.panic = "none"
  <2>1. stage' = next /\ m' = Settled(r) /\ current' = cur /\ asked' = ask
    BY <1>1 DEF Effect
  <2>2. Sound(m', handles', 1, 0) /\ SettledFrom(r, m')
    BY <2>1, SettledSound
  <2>3. m'.pt = r.pt /\ m'.panic = "none" /\ SameBooks(r, m')
    BY <1>1, <2>2 DEF SettledFrom
  <2>4. Ledger(m', One(next[1] = "run"))
    BY <2>3, Zenon DEF Ledger, SameBooks
  <2> QED
    BY <2>1, <2>2, <2>3, <2>4 DEF CoreInv, CoreOf
<1>2. CASE r.panic # "none"
  <2>1. stage' = <<"off", 0>> /\ m' = [PowerOn EXCEPT !.panic = r.panic]
        /\ current' = vm_init /\ asked' = NothingAsked
    BY <1>2 DEF Effect
  <2>2. r.panic \in Labels \ {"none"}
    BY <1>2, MachineFields DEF Sound
  <2>3. m'.panic = r.panic
    BY <2>1, <2>2, PowerOnFine
  <2>4. stage'[1] = "off"
    BY <2>1
  <2>5. StageFine(stage') /\ HandlesFine(handles', stage')
    BY <2>4 DEF StageFine, HandlesFine
  <2>6. BreakFine(current', stage')
    <3>1. MmapMax \in FirstFree .. MmapMax /\ 0 % PGSIZE = 0
      BY Sizes
    <3> QED
      BY <2>1, <2>4, <3>1, Sizes DEF BreakFine, Breaks, vm_init
  <2>7. asked' \in [UserPages -> SUBSET All]
    BY <2>1 DEF NothingAsked
  <2> QED
    BY <2>1, <2>2, <2>3, <2>4, <2>5, <2>6, <2>7, Zenon DEF CoreInv, CoreOf
<1> QED
  BY <1>1, <1>2

\* The start.
LEMMA InitCore == Init => CoreInv
<1> SUFFICES ASSUME Init PROVE CoreInv
  OBVIOUS
<1>1. m = PowerOn
  BY DEF Init
<1>2. Sound(m, {}, 1, 0) /\ m.panic = "none" /\ Ledger(m, 0) /\ \A p \in Pages : m.pt[p] = Free
  <2>1. "none" \in Labels
    BY DEF Labels
  <2> QED
    BY <1>1, <2>1, PowerOnFine
<1>3. stage[1] = "open" /\ handles = {} /\ current = vm_init
  BY DEF Init
<1>4. StageFine(stage) /\ HandlesFine(handles, stage)
  BY <1>3 DEF StageFine, HandlesFine
<1>5. BreakFine(current, stage)
  <2>1. MmapMax \in FirstFree .. MmapMax /\ 0 % PGSIZE = 0
    BY Sizes
  <2> QED
    BY <1>3, <2>1, Sizes DEF BreakFine, Breaks, vm_init
<1>6. asked \in [UserPages -> SUBSET All]
  BY DEF Init, NothingAsked
<1>7. KernelFine(m.pt, stage)
  BY <1>2, <1>3, EntryTypes DEF KernelFine
<1>8. One(stage[1] = "run") = 0
  BY <1>3 DEF One
<1>9. Ledger(m, One(stage[1] = "run"))
  BY <1>2, <1>8, Zenon
<1>10. Sound(m, handles, 1, 0) /\ stage[1] # "off"
  BY <1>2, <1>3
<1> QED
  BY <1>1, <1>2, <1>4, <1>5, <1>6, <1>7, <1>9, <1>10, Zenon DEF CoreInv, CoreOf

-----------------------------------------------------------------------------
(* Files *)

\* A slot is free when nobody counts on it: file_get_free takes it.
LEMMA SlotFree ==
    \A n \in Nat : /\ Slot(n).refcnt = 0 <=> n = 0
                   /\ Slot(n) = IF n = 0 THEN [refcnt |-> 0, open |-> FALSE]
                                ELSE [refcnt |-> n + 1, open |-> TRUE]
  BY DEF Slot

\* Only the files have changed.
FilesOnly(s, u) ==
    /\ u.pt = s.pt /\ u.vmr = s.vmr /\ u.mem = s.mem /\ u.panic = s.panic /\ SameBooks(s, u)

\* A new file counts the one who opened it.
LEMMA FileOpen ==
    ASSUME NEW s, NEW H \in SUBSET FileIds, Sound(s, H, 1, 0), FreeFiles(s.files) # {},
           NEW f, f = file_get_free(s.files), NEW u, u = [s EXCEPT !.files = file_open(s.files)]
    PROVE  f \in FileIds /\ Sound(u, H \cup {f}, 1, 0) /\ FilesOnly(s, u)
<1>1. FreeFiles(s.files) \subseteq Nat /\ FreeFiles(s.files) \subseteq FileIds
  BY PageFacts DEF FreeFiles
<1>2. f \in FreeFiles(s.files)
  BY <1>1, Least, Zenon DEF file_get_free
<1>3. f \in FileIds /\ s.files[f].refcnt = 0
  BY <1>1, <1>2 DEF FreeFiles
<1>4. /\ s \in Machines /\ s.files \in [FileIds -> Slots]
      /\ RegionsAgree(s.pt, s.vmr, 1, 0) /\ FilesAgree(s.vmr, s.files, H)
  BY MachineFields DEF Sound
<1>5. Readers(s.vmr, f) \in SUBSET Vmrs
  BY DEF Readers
<1>6. Cardinality(Readers(s.vmr, f)) \in Nat
  BY <1>5, Counting
<1>7. Cardinality(Readers(s.vmr, f)) = 0 /\ f \notin H
  <2>1. PICK n \in Nat : n = Cardinality(Readers(s.vmr, f)) + (IF f \in H THEN 1 ELSE 0)
    BY <1>6
  <2>2. s.files[f] = Slot(n)
    BY <1>3, <1>4, <2>1 DEF FilesAgree
  <2>3. n = 0
    BY <1>3, <2>2, SlotFree
  <2> QED
    BY <1>6, <2>1, <2>3
<1>8. PICK files : files = [s.files EXCEPT ![f] = [refcnt |-> 2, open |-> TRUE]]
  OBVIOUS
<1>9. files = file_open(s.files)
  BY <1>8 DEF file_open
<1>10. u = [s EXCEPT !.files = files]
  BY <1>9
<1>11. /\ files \in [FileIds -> Slots] /\ files[f] = Slot(1)
       /\ \A g \in FileIds : g # f => files[g] = s.files[g]
  <2>1. [refcnt |-> 2, open |-> TRUE] \in Slots /\ Slot(1) = [refcnt |-> 2, open |-> TRUE]
    BY DEF Slots, Slot
  <2> QED
    BY <1>3, <1>4, <1>8, <2>1
<1>12. FilesAgree(s.vmr, files, H \cup {f})
  <2> SUFFICES ASSUME NEW g \in FileIds
               PROVE files[g] = Slot(Cardinality(Readers(s.vmr, g)) + (IF g \in H \cup {f} THEN 1 ELSE 0))
    BY DEF FilesAgree
  <2>1. CASE g = f
    <3>1. Cardinality(Readers(s.vmr, g)) + (IF g \in H \cup {f} THEN 1 ELSE 0) = 1
      BY <1>7, <2>1
    <3> QED
      BY <1>11, <2>1, <3>1
  <2>2. CASE g # f
    BY <1>4, <1>11, <2>2 DEF FilesAgree
  <2> QED
    BY <2>1, <2>2
<1>13. /\ u \in Machines /\ u.pt = s.pt /\ u.vmr = s.vmr /\ u.files = files /\ u.mem = s.mem
       /\ u.panic = s.panic /\ SameBooks(s, u)
  BY <1>4, <1>10, <1>11 DEF Machines, SameBooks
<1> QED
  BY <1>3, <1>4, <1>12, <1>13 DEF Sound, FilesOnly

\* A file that is closed counts one user less.
LEMMA FileClose ==
    ASSUME NEW s, NEW H \in SUBSET FileIds, Sound(s, H, 1, 0), NEW f \in H,
           NEW u, u = [s EXCEPT !.files = file_decref(s.files, f)]
    PROVE  Sound(u, H \ {f}, 1, 0) /\ FilesOnly(s, u)
<1>1. f \in FileIds
  OBVIOUS
<1>2. /\ s \in Machines /\ s.files \in [FileIds -> Slots]
      /\ RegionsAgree(s.pt, s.vmr, 1, 0) /\ FilesAgree(s.vmr, s.files, H)
  BY MachineFields DEF Sound
<1>3. Readers(s.vmr, f) \in SUBSET Vmrs
  BY DEF Readers
<1>4. PICK n \in Nat : /\ n > 0 /\ n = Cardinality(Readers(s.vmr, f)) + 1
                       /\ n - 1 = Cardinality(Readers(s.vmr, f))
  <2>1. Cardinality(Readers(s.vmr, f)) \in Nat
    BY <1>3, Counting
  <2>2. Cardinality(Readers(s.vmr, f)) + 1 \in Nat
    BY <2>1
  <2> WITNESS Cardinality(Readers(s.vmr, f)) + 1 \in Nat
  <2> QED
    BY <2>1
<1>5. s.files[f] = Slot(n)
  BY <1>1, <1>2, <1>4 DEF FilesAgree
<1>6. PICK files : files = file_decref(s.files, f)
  OBVIOUS
<1>7. /\ file_decref(s.files, f) \in [FileIds -> Slots]
      /\ file_decref(s.files, f)[f] = Slot(n - 1)
      /\ \A g \in FileIds : g # f => file_decref(s.files, f)[g] = s.files[g]
  BY <1>1, <1>2, <1>4, <1>5, DecrefSlot, Zenon
<1>8. /\ files \in [FileIds -> Slots] /\ files[f] = Slot(n - 1)
      /\ \A g \in FileIds : g # f => files[g] = s.files[g]
  BY <1>6, <1>7, Zenon
<1>9. FilesAgree(s.vmr, files, H \ {f})
  <2> SUFFICES ASSUME NEW g \in FileIds
               PROVE files[g] = Slot(Cardinality(Readers(s.vmr, g)) + (IF g \in H \ {f} THEN 1 ELSE 0))
    BY DEF FilesAgree
  <2>1. CASE g = f
    <3>1. Cardinality(Readers(s.vmr, g)) + (IF g \in H \ {f} THEN 1 ELSE 0) = n - 1
      BY <1>4, <2>1
    <3> QED
      BY <1>8, <2>1, <3>1
  <2>2. CASE g # f
    BY <1>2, <1>8, <2>2 DEF FilesAgree
  <2> QED
    BY <2>1, <2>2
<1>10. u = [s EXCEPT !.files = files]
  BY <1>6
<1>11. /\ u \in Machines /\ u.pt = s.pt /\ u.vmr = s.vmr /\ u.files = files /\ u.mem = s.mem
       /\ u.panic = s.panic /\ SameBooks(s, u)
  BY <1>2, <1>8, <1>10 DEF Machines, SameBooks
<1> QED
  BY <1>2, <1>9, <1>11 DEF Sound, FilesOnly

-----------------------------------------------------------------------------
(* Calls *)

\* A range the program may map, at the start of a page, and a free region.
Granted(s, a, length) ==
    FreeVmrs(s) # {} /\ a \in Nat /\ a % PGSIZE = 0 /\ valid_user_range(a, length)

\* __do_mmap with MAP_FIXED: the range is the program's.
LEMMA GrantedFixed ==
    ASSUME NEW s, NEW a \in Nat, NEW length \in Nat, mmap_result(s, a, length, TRUE) = a
    PROVE  Granted(s, a, length)
<1>1. a # -1
  OBVIOUS
<1> QED
  BY <1>1 DEF mmap_result, mmap_addr, Granted

\* __do_mmap without: the range is the program's, and above the break.
LEMMA GrantedGap ==
    ASSUME NEW s, NEW st, KernelFine(s.pt, st), st[1] = "run", NEW length \in Nat, length > 0,
           BreakFine(current, st),
           NEW a, a = mmap_result(s, 0, length, FALSE), a # -1
    PROVE  Granted(s, a, length) /\ current.brk <= a
<1>1. PICK n \in Nat : n = NPage(length) /\ n > 0 /\ length <= PGSIZE * n
  BY NPages
<1>2. FreeVmrs(s) # {} /\ Gaps(s, n) # {} /\ a = Min(Gaps(s, n)) * PGSIZE
  BY <1>1 DEF mmap_result, mmap_addr
<1>3. Gaps(s, n) \subseteq Nat
  BY PageFacts DEF Gaps
<1>4. PICK p : p = Min(Gaps(s, n))
  OBVIOUS
<1>5. p \in Gaps(s, n)
  BY <1>2, <1>3, <1>4, Least, Zenon
<1>6. /\ p \in Pages /\ current.brk <= p * PGSIZE
      /\ p * PGSIZE <= MmapMax - n * PGSIZE /\ \A q \in p .. p + n - 1 : va_avail(s, q)
  BY <1>5 DEF Gaps
<1>7. p \in Nat
  BY <1>6, PageFacts
<1>8. a = p * PGSIZE /\ a = PGSIZE * p /\ a \in Nat /\ a % PGSIZE = 0
  <2>1. p * PGSIZE = PGSIZE * p /\ PGSIZE * p \in Nat /\ (PGSIZE * p) % PGSIZE = 0
    BY <1>7, Sizes, Multiples
  <2> QED
    BY <1>2, <1>4, <2>1
<1>9. PICK b \in Nat : FirstFree = PGSIZE * b /\ FirstFree \div PGSIZE = b
  BY Bounds
<1>10. b <= p
  <2>1. p \in p .. p + n - 1
    BY <1>1, <1>7
  <2>2. s.pt[p].kind = "none"
    BY <1>6, <2>1 DEF va_avail
  <2>3. p < FirstFree \div PGSIZE => s.pt[p].kind = "page"
    BY <1>6 DEF KernelFine
  <2>4. ~(p < b)
    BY <1>9, <2>2, <2>3
  <2> QED
    BY <2>4, <1>7
<1>11. FirstFree <= a
  <2>1. PGSIZE * b <= PGSIZE * p
    BY <1>7, <1>10, Sizes, Multiples
  <2> QED
    BY <1>8, <1>9, <2>1
<1>12. a + length <= MmapMax
  <2>1. n * PGSIZE = PGSIZE * n /\ n * PGSIZE \in Nat
    BY <1>1, Sizes
  <2>2. a <= MmapMax - n * PGSIZE
    BY <1>6, <1>8
  <2>3. \A w, l, y, z \in Int : l <= y /\ w <= z - y => w + l <= z
    OBVIOUS
  <2>3a. \A y \in Nat : y \in Int
    OBVIOUS
  <2>4. length \in Int /\ a \in Int /\ n * PGSIZE \in Int /\ MmapMax \in Int
    BY <1>8, <2>1, <2>3a, Sizes, Zenon
  <2>5. length <= n * PGSIZE
    BY <1>1, <2>1, Zenon
  <2> QED
    BY <2>2, <2>3, <2>4, <2>5
<1> QED
  BY <1>2, <1>6, <1>8, <1>11, <1>12 DEF Granted, valid_user_range

\* A call that leaves the kernel's pages as they were.
LEMMA KernelSame ==
    ASSUME NEW pt, NEW st, KernelFine(pt, st), NEW to,
           \A p \in Pages \ UserPages : to[p].kind = pt[p].kind
    PROVE  KernelFine(to, st)
<1>1. \A p \in Pages : p < FirstFree \div PGSIZE => p \notin UserPages
  <2>1. PICK b \in Nat, z \in Nat : FirstFree \div PGSIZE = b /\ UserPages = b .. z - 1
    BY Bounds
  <2> QED
    BY <2>1, PageFacts
<1> QED
  BY <1>1 DEF KernelFine

\* A call maps pages of the program.
MapsAt(s, u, a, length, prot, populate, file, offset) ==
    /\ a \div PGSIZE \in Nat /\ a = PGSIZE * (a \div PGSIZE) /\ NPage(length) \in Nat
    /\ PagesOf(a, length) \subseteq UserPages
    /\ \E v : Placed(s, u, v, Region(a, length, file, offset, NPage(length), prot),
                     a \div PGSIZE, NPage(length), populate)

\* A call of __do_mmap on a granted range.
LEMMA MapCall ==
    ASSUME NEW s, NEW H \in SUBSET FileIds, Sound(s, H, 1, 0), NEW st, KernelFine(s.pt, st),
           NEW a, NEW length \in Nat, length > 0, Granted(s, a, length),
           NEW file \in {0} \cup H, NEW offset \in Nat, NEW prot \in SUBSET All,
           NEW populate \in BOOLEAN, NEW x \in {0, 1},
           NEW u, u = do_mmap_at(s, a, length, prot, populate, file, offset)
    PROVE  /\ Sound(u, H, 1, 0) /\ Served(s, u, x) /\ KernelFine(u.pt, st)
           /\ MapsAt(s, u, a, length, prot, populate, file, offset)
<1>1. FreeVmrs(s) # {} /\ a \in Nat /\ a % PGSIZE = 0 /\ valid_user_range(a, length)
  BY Zenon DEF Granted
<1>2. PICK first \in Nat : /\ first = a \div PGSIZE /\ a = PGSIZE * (a \div PGSIZE)
                           /\ first .. first + NPage(length) - 1 \subseteq UserPages
  BY <1>1, UserRange
<1>3. PICK n \in Nat : n = NPage(length)
  BY NPages
<1>4. first .. first + n - 1 \subseteq Pages
  BY <1>2, <1>3, PageFacts
<1>5. PICK r : r = Region(a, length, file, offset, n, prot)
  OBVIOUS
<1>6. MmapDone(s, u, H, x, Region(a, length, file, offset, n, prot), first, n, populate)
  <2>1. first = a \div PGSIZE /\ n = NPage(length)
    BY <1>2, <1>3
  <2>2. FreeVmrs(s) # {} /\ a \in Nat
    BY <1>1
  <2> QED
    BY <1>4, <2>1, <2>2, DoMmapAt
<1>7. PICK v : Placed(s, u, v, Region(a, length, file, offset, n, prot), first, n, populate)
  BY <1>6 DEF PlacedSome, MmapDone
<1>8. KernelFine(u.pt, st)
  <2>1. \A p \in Pages \ UserPages : u.pt[p] = s.pt[p]
    BY <1>2, <1>3, <1>7 DEF Placed
  <2> QED
    BY <2>1, KernelSame
<1>9. MapsAt(s, u, a, length, prot, populate, file, offset)
  BY <1>2, <1>3, <1>7 DEF MapsAt, PagesOf
<1> QED
  BY <1>6, <1>8, <1>9 DEF MmapDone

\* A call takes pages of the program away.
LEMMA UnmapCall ==
    ASSUME NEW s, NEW H, Sound(s, H, 1, 0), NEW st, KernelFine(s.pt, st),
           NEW a \in Int, NEW length \in Nat, a % PGSIZE = 0, valid_user_range(a, length),
           NEW u, u = munmap(s, a, length)
    PROVE  /\ Sound(u, H, 1, 0) /\ KernelFine(u.pt, st)
           /\ Unmapped(s, u, a \div PGSIZE, NPage(length))
           /\ PagesOf(a, length) \subseteq UserPages
<1>1. PICK first \in Nat : /\ first = a \div PGSIZE
                           /\ first .. first + NPage(length) - 1 \subseteq UserPages
  BY UserRange
<1>2. PICK n \in Nat : n = NPage(length)
  BY NPages
<1>3. u = PageLoop(unmap_page, s, first, n)
  BY <1>1, <1>2 DEF munmap
<1>4. Sound(u, H, 1, 0) /\ Unmapped(s, u, first, n)
  BY <1>3, UnmapRange
<1>5. \A p \in Pages \ UserPages : u.pt[p] = s.pt[p]
  BY <1>1, <1>2, <1>4 DEF Unmapped
<1>6. KernelFine(u.pt, st)
  BY <1>5, KernelSame
<1> QED
  BY <1>1, <1>2, <1>4, <1>6 DEF PagesOf

-----------------------------------------------------------------------------
(* What else holds *)

\* No page gives a right that was not asked for.
RightsOf(s, ask) ==
    \A p \in UserPages :
        /\ s.pt[p].kind = "page" => s.pt[p].prot \cap {"w", "x"} \subseteq ask[p]
        /\ s.pt[p].kind = "lazy" => s.vmr[s.pt[p].v].prot \cap {"w", "x"} \subseteq ask[p]

Oldbrk(cur) == IF cur.brk = 0 THEN ROUNDUP(cur.brk_min) ELSE cur.brk

\* What the loader has mapped lies below the end of the program; from the
\* break to the stack only what do_mmap gave out is mapped.
EndOf(pt, st, cur) ==
    /\ st[1] \in {"map", "bss", "close", "stack"} =>
           \A p \in UserPages : pt[p].kind # "none" =>
               \/ PGSIZE * p < cur.brk_min
               \/ st[1] = "bss" /\ LET seg == Segments[st[2]]
                                   IN  PGSIZE * p < Base(seg) + InFile(seg)
    /\ st[1] = "run" =>
           \A p \in UserPages :
               /\ pt[p].kind # "none"
               /\ PGSIZE * (p + 1) <= MmapMax - StackSize
               => PGSIZE * p < Oldbrk(cur) \/ cur.brk_max <= PGSIZE * p

\* The segments of the program lie where it may have them, and there are
\* regions for both parts of each and for the stack.
SegmentsFit ==
    /\ 2 * Len(Segments) < MAX_VMR
    /\ \A i \in 1 .. Len(Segments) :
           /\ FirstFree <= Base(Segments[i])
           /\ Segments[i].vaddr + Segments[i].memsz <= MmapMax

Used(vmr) == {v \in Vmrs : vmr[v].refcnt > 0}

\* The loader takes two regions for each segment at most.
UsedOf(vmr, st) ==
    LET c == Cardinality(Used(vmr))
    IN  /\ st[1] = "map" => c <= 2 * (Len(Segments) - st[2])
        /\ st[1] = "bss" => c <= 2 * (Len(Segments) - st[2]) + 1
        /\ st[1] \in {"close", "stack"} => c <= 2 * Len(Segments)

NoAssert(panic) ==
    panic \notin {"page_alloc", "populate", "fail to memory map a section header",
                  "fail to memory map a section", "stack_bottom"}

MoreOf(s, st, cur, ask) ==
    /\ RightsOf(s, ask) /\ EndOf(s.pt, st, cur)
    /\ EnoughPages /\ SegmentsFit => UsedOf(s.vmr, st) /\ NoAssert(s.panic)

MoreInv == MoreOf(m, stage, current, asked)

\* What a step shows of rights, the break and the asserts, brought to the
\* next state.
LEMMA EffectMore ==
    ASSUME NEW r, NEW next, NEW cur, NEW ask, Effect(next, r, cur, ask),
           NEW H, Sound(r, H, 1, 0), RightsOf(r, ask), EndOf(r.pt, next, cur),
           EnoughPages /\ SegmentsFit => UsedOf(r.vmr, next) /\ NoAssert(r.panic)
    PROVE  MoreInv'
<1>0. UserPages \subseteq Pages
  BY PageFacts
<1>1. CASE r.panic = "none"
  <2>1. stage' = next /\ m' = Settled(r) /\ current' = cur /\ asked' = ask
    BY <1>1 DEF Effect
  <2>2. SettledFrom(r, m')
    BY <2>1, SettledSound
  <2>3. /\ m'.pt = r.pt /\ m'.panic = r.panic
        /\ \A v \in Vmrs : m'.vmr[v] = IF r.vmr[v].refcnt = 0 THEN NoVmr ELSE r.vmr[v]
    BY <2>2 DEF SettledFrom
  <2>4. ASSUME NEW p \in UserPages, m'.pt[p].kind = "lazy"
        PROVE  m'.vmr[m'.pt[p].v].prot \cap {"w", "x"} \subseteq ask[p]
    <3>1. PICK v : v = r.pt[p].v
      OBVIOUS
    <3>2. v \in Vmrs
      BY <1>0, <3>1, MachineFields DEF Sound, Entries
    <3>3. r.vmr[v].prot \cap {"w", "x"} \subseteq ask[p]
      BY <2>3, <2>4, <3>1 DEF RightsOf
    <3>4. m'.vmr[v].prot \subseteq r.vmr[v].prot
      <4>1. NoVmr.prot = {}
        BY DEF NoVmr
      <4>2. m'.vmr[v] = NoVmr \/ m'.vmr[v] = r.vmr[v]
        BY <2>3, <3>2
      <4> QED
        BY <4>1, <4>2
    <3> QED
      BY <2>3, <3>1, <3>3, <3>4
  <2>5. RightsOf(m', ask)
    BY <2>3, <2>4 DEF RightsOf
  <2>6. Used(m'.vmr) = Used(r.vmr)
    <3>1. NoVmr.refcnt = 0
      BY DEF NoVmr
    <3>2. \A v \in Vmrs : m'.vmr[v].refcnt = r.vmr[v].refcnt
      BY <2>3, <3>1
    <3> QED
      BY <3>2 DEF Used
  <2>7. EnoughPages /\ SegmentsFit => UsedOf(m'.vmr, next) /\ NoAssert(m'.panic)
    BY <2>3, <2>6, Zenon DEF UsedOf
  <2> QED
    BY <2>1, <2>3, <2>5, <2>7, Zenon DEF MoreInv, MoreOf
<1>2. CASE r.panic # "none"
  <2>1. stage' = <<"off", 0>> /\ m' = [PowerOn EXCEPT !.panic = r.panic]
    BY <1>2 DEF Effect
  <2>2. r.panic \in Labels
    BY MachineFields DEF Sound
  <2>3. m'.panic = r.panic /\ \A p \in Pages : m'.pt[p] = Free
    <3>1. m'.panic = r.panic
      BY <2>1, <2>2, PowerOnFine
    <3>2. m'.pt = [p \in Pages |-> Free]
      BY <2>1 DEF PowerOn
    <3> QED
      BY <3>1, <3>2
  <2>4. RightsOf(m', asked')
    BY <1>0, <2>3, EntryTypes DEF RightsOf
  <2>5. stage'[1] = "off"
    BY <2>1
  <2>6. EndOf(m'.pt, stage', current') /\ UsedOf(m'.vmr, stage')
    BY <2>5 DEF EndOf, UsedOf
  <2> QED
    BY <2>3, <2>4, <2>6, Zenon DEF MoreInv, MoreOf
<1> QED
  BY <1>1, <1>2

\* The start.
LEMMA InitMore == Init => MoreInv
<1> SUFFICES ASSUME Init PROVE MoreInv
  OBVIOUS
<1>1. m = PowerOn /\ stage[1] = "open" /\ asked = NothingAsked
  BY DEF Init
<1>2. "none" \in Labels
  BY DEF Labels
<1>3. m.panic = "none" /\ \A p \in Pages : m.pt[p] = Free
  BY <1>1, <1>2, PowerOnFine
<1>4. RightsOf(m, asked)
  BY <1>3, PageFacts, EntryTypes DEF RightsOf
<1>5. EndOf(m.pt, stage, current) /\ UsedOf(m.vmr, stage)
  BY <1>1 DEF EndOf, UsedOf
<1> QED
  BY <1>3, <1>4, <1>5 DEF MoreInv, MoreOf, NoAssert

-----------------------------------------------------------------------------
(* Rights *)

\* pte_create gives no right but those it is given.
LEMMA RightsOfProt ==
    ASSUME NEW prot \in SUBSET All, NEW user \in BOOLEAN
    PROVE  pte_create(prot, user).prot \cap {"w", "x"} \subseteq prot
<1>1. pte_create(prot, user).prot = Rights(prot)
  BY EntryTypes
<1> QED
  BY <1>1 DEF Rights

\* A call of __do_mmap gives the rights it was asked for.
LEMMA RightsMapped ==
    ASSUME NEW s, NEW H, Sound(s, H, 1, 0), NEW ask, RightsOf(s, ask), NEW u, NEW a,
           NEW length, NEW prot \in SUBSET All, NEW populate, NEW file, NEW offset,
           MapsAt(s, u, a, length, prot, populate, file, offset), NEW new,
           \A p \in UserPages : new[p] = IF p \in PagesOf(a, length) THEN prot ELSE ask[p]
    PROVE  RightsOf(u, new)
<1>1. PICK r : r = Region(a, length, file, offset, NPage(length), prot)
  OBVIOUS
<1>2. PICK v : Placed(s, u, v, r, a \div PGSIZE, NPage(length), populate)
  BY <1>1 DEF MapsAt
<1>3. r.prot = prot
  BY <1>1 DEF Region
<1>4. v \in Vmrs /\ s.vmr[v].refcnt = 0 /\ SameRegion(u.vmr[v], r)
  BY <1>2 DEF Placed, FreeVmrs
<1>5. u.vmr[v].prot = prot
  BY <1>3, <1>4, Zenon DEF SameRegion
<1>6. s.pt \in [Pages -> Entries] /\ UserPages \subseteq Pages
  BY PageFacts, MachineFields DEF Sound
<1>7. Waits(s.pt, v) = {}
  <2>1. Waits(s.pt, v) \in SUBSET Pages
    BY DEF Waits
  <2>2. IsFiniteSet(Waits(s.pt, v)) /\ Cardinality(Waits(s.pt, v)) \in Nat
    BY <2>1, Counting
  <2>3. 0 = Cardinality(Waits(s.pt, v)) + (IF v = 1 THEN 0 ELSE 0)
    BY <1>4 DEF Sound, RegionsAgree
  <2> QED
    BY <2>2, <2>3, FS_EmptySet
<1>8. PICK e : e = pte_create(prot, TRUE)
  OBVIOUS
<1>9. e.kind = "page" /\ e.prot \cap {"w", "x"} \subseteq prot
  BY <1>8, EntryTypes, RightsOfProt
<1> SUFFICES ASSUME NEW p \in UserPages
             PROVE /\ u.pt[p].kind = "page" => u.pt[p].prot \cap {"w", "x"} \subseteq new[p]
                   /\ u.pt[p].kind = "lazy" => u.vmr[u.pt[p].v].prot \cap {"w", "x"} \subseteq new[p]
  BY DEF RightsOf
<1>10. IF p \in PagesOf(a, length)
       THEN u.pt[p] = IF populate THEN pte_create(r.prot, TRUE) ELSE Lazy(v)
       ELSE u.pt[p] = s.pt[p]
  BY <1>2, <1>6 DEF Placed, PagesOf
<1>11. CASE p \in PagesOf(a, length)
  <2>1. new[p] = prot
    BY <1>11
  <2>2. CASE populate
    BY <1>3, <1>8, <1>9, <1>10, <1>11, <2>1, <2>2
  <2>3. CASE ~populate
    <3>1. u.pt[p].kind = "lazy" /\ u.pt[p].v = v
      BY <1>4, <1>10, <1>11, <2>3, EntryTypes
    <3> QED
      BY <1>5, <2>1, <3>1
  <2> QED
    BY <2>2, <2>3
<1>12. CASE p \notin PagesOf(a, length)
  <2>1. u.pt[p] = s.pt[p] /\ new[p] = ask[p]
    BY <1>10, <1>12
  <2>2. /\ s.pt[p].kind = "page" => s.pt[p].prot \cap {"w", "x"} \subseteq ask[p]
        /\ s.pt[p].kind = "lazy" => s.vmr[s.pt[p].v].prot \cap {"w", "x"} \subseteq ask[p]
    BY DEF RightsOf
  <2>3. ASSUME s.pt[p].kind = "lazy" PROVE u.vmr[s.pt[p].v].prot = s.vmr[s.pt[p].v].prot
    <3>1. s.pt[p].v \in Vmrs /\ s.pt[p].v # v
      BY <1>6, <1>7, <2>3 DEF Waits, Entries
    <3>2. SameRegion(u.vmr[s.pt[p].v], s.vmr[s.pt[p].v])
      BY <1>2, <3>1 DEF Placed
    <3> QED
      BY <3>2, Zenon DEF SameRegion
  <2> QED
    BY <2>1, <2>2, <2>3
<1> QED
  BY <1>11, <1>12

\* Rights stay when entries go or stay and regions lose rights or pages.
LEMMA RightsKept ==
    ASSUME NEW s, s \in Machines, NEW ask, RightsOf(s, ask), NEW u, NEW new,
           \A p \in UserPages : u.pt[p].kind = "none" \/ (u.pt[p] = s.pt[p] /\ new[p] = ask[p]),
           \A v \in Vmrs : u.vmr[v].prot \subseteq s.vmr[v].prot
    PROVE  RightsOf(u, new)
<1> SUFFICES ASSUME NEW p \in UserPages
             PROVE /\ u.pt[p].kind = "page" => u.pt[p].prot \cap {"w", "x"} \subseteq new[p]
                   /\ u.pt[p].kind = "lazy" => u.vmr[u.pt[p].v].prot \cap {"w", "x"} \subseteq new[p]
  BY DEF RightsOf
<1>1. s.pt[p].v \in Vmrs
  BY PageFacts, MachineFields DEF Entries
<1>2. /\ s.pt[p].kind = "page" => s.pt[p].prot \cap {"w", "x"} \subseteq ask[p]
      /\ s.pt[p].kind = "lazy" => s.vmr[s.pt[p].v].prot \cap {"w", "x"} \subseteq ask[p]
  BY DEF RightsOf
<1> QED
  BY <1>1, <1>2

\* A page fault gives the rights of the page's region.
LEMMA RightsTouched ==
    ASSUME NEW s, s \in Machines, NEW ask, RightsOf(s, ask), NEW u, NEW p \in Pages,
           s.pt[p].kind = "lazy", Touched(s, u, p)
    PROVE  RightsOf(u, ask)
<1>1. s.pt[p].v \in Vmrs /\ s.vmr[s.pt[p].v].prot \in SUBSET All
  BY MachineFields DEF Entries, Regions
<1>2. /\ u.pt[p] = pte_create(s.vmr[s.pt[p].v].prot, TRUE)
      /\ \A q \in Pages : q # p => u.pt[q] = s.pt[q]
      /\ \A v \in Vmrs : SameRegion(u.vmr[v], s.vmr[v])
  BY DEF Touched, Lowered
<1>3. u.pt[p].kind = "page" /\ u.pt[p].prot \cap {"w", "x"} \subseteq s.vmr[s.pt[p].v].prot
  <2>1. PICK prot \in SUBSET All : prot = s.vmr[s.pt[p].v].prot
    BY <1>1
  <2>2. PICK e : e = pte_create(prot, TRUE)
    OBVIOUS
  <2>3. e.kind = "page" /\ e.prot \cap {"w", "x"} \subseteq prot
    BY <2>2, EntryTypes, RightsOfProt
  <2> QED
    BY <1>2, <2>1, <2>2, <2>3, ZenonT(40)
<1>4. \A v \in Vmrs : u.vmr[v].prot = s.vmr[v].prot
  BY <1>2 DEF SameRegion
<1> SUFFICES ASSUME NEW q \in UserPages
             PROVE /\ u.pt[q].kind = "page" => u.pt[q].prot \cap {"w", "x"} \subseteq ask[q]
                   /\ u.pt[q].kind = "lazy" => u.vmr[u.pt[q].v].prot \cap {"w", "x"} \subseteq ask[q]
  BY DEF RightsOf
<1>5. /\ s.pt[q].kind = "page" => s.pt[q].prot \cap {"w", "x"} \subseteq ask[q]
      /\ s.pt[q].kind = "lazy" => s.vmr[s.pt[q].v].prot \cap {"w", "x"} \subseteq ask[q]
  BY DEF RightsOf
<1>6. CASE q = p
  BY <1>3, <1>5, <1>6
<1>7. CASE q # p
  <2>1. u.pt[q] = s.pt[q] /\ s.pt[q].v \in Vmrs
    BY <1>2, <1>7, PageFacts, MachineFields DEF Entries
  <2> QED
    BY <1>4, <1>5, <2>1
<1> QED
  BY <1>6, <1>7

\* do_mprotect gives no right.
LEMMA RightsRestricted ==
    ASSUME NEW s, s \in Machines, NEW ask, RightsOf(s, ask), NEW u, Restricted(s, u)
    PROVE  RightsOf(u, ask)
<1> SUFFICES ASSUME NEW q \in UserPages
             PROVE /\ u.pt[q].kind = "page" => u.pt[q].prot \cap {"w", "x"} \subseteq ask[q]
                   /\ u.pt[q].kind = "lazy" => u.vmr[u.pt[q].v].prot \cap {"w", "x"} \subseteq ask[q]
  BY DEF RightsOf
<1>1. /\ s.pt[q].kind = "page" => s.pt[q].prot \cap {"w", "x"} \subseteq ask[q]
      /\ s.pt[q].kind = "lazy" => s.vmr[s.pt[q].v].prot \cap {"w", "x"} \subseteq ask[q]
  BY DEF RightsOf
<1>2. q \in Pages /\ s.pt[q].v \in Vmrs
  BY PageFacts, MachineFields DEF Entries
<1>3. /\ u.pt[q].kind = s.pt[q].kind
      /\ s.pt[q].kind # "page" => u.pt[q] = s.pt[q]
      /\ u.pt[q].prot \cap {"w", "x"} \subseteq s.pt[q].prot
      /\ u.vmr[s.pt[q].v].prot \subseteq s.vmr[s.pt[q].v].prot
  BY <1>2 DEF Restricted
<1> QED
  BY <1>1, <1>3

-----------------------------------------------------------------------------
(* One step of the program *)

IInv == CoreInv /\ MoreInv

\* A call that stops the machine.
LEMMA EffectOff ==
    ASSUME NEW r, NEW next, NEW cur, NEW ask, Effect(next, r, cur, ask),
           r.panic \in Labels \ {"none"}, handles' \in SUBSET FileIds,
           EnoughPages /\ SegmentsFit => NoAssert(r.panic)
    PROVE  IInv'
<1>1. stage' = <<"off", 0>> /\ m' = [PowerOn EXCEPT !.panic = r.panic]
      /\ current' = vm_init /\ asked' = NothingAsked
  BY DEF Effect
<1>2. m'.panic = r.panic
  BY <1>1, PowerOnFine
<1>3. m'.pt = [p \in Pages |-> Free]
  BY <1>1 DEF PowerOn
<1>4. stage'[1] = "off"
  BY <1>1
<1>5. StageFine(stage') /\ HandlesFine(handles', stage')
  BY <1>4 DEF StageFine, HandlesFine
<1>6. BreakFine(current', stage')
  <2>1. MmapMax \in FirstFree .. MmapMax /\ 0 % PGSIZE = 0
    BY Sizes
  <2> QED
    BY <1>1, <1>4, <2>1, Sizes DEF BreakFine, Breaks, vm_init
<1>7. asked' \in [UserPages -> SUBSET All]
  BY <1>1 DEF NothingAsked
<1>8. CoreInv'
  BY <1>1, <1>2, <1>4, <1>5, <1>6, <1>7, Zenon DEF CoreInv, CoreOf
<1>9. RightsOf(m', asked')
  BY <1>3, PageFacts, EntryTypes DEF RightsOf
<1>10. EndOf(m'.pt, stage', current') /\ UsedOf(m'.vmr, stage')
  BY <1>4 DEF EndOf, UsedOf
<1>11. MoreInv'
  BY <1>2, <1>9, <1>10, Zenon DEF MoreInv, MoreOf
<1> QED
  BY <1>8, <1>11 DEF IInv

\* What a panic leaves.
LEMMA PanicFine ==
    ASSUME NEW s, NEW H, Sound(s, H, 1, 0), s.panic = "none", NEW label \in Labels,
           NEW u, u = kassert(s, FALSE, label)
    PROVE  u.panic = label
<1>1. u = [s EXCEPT !.panic = label] /\ s \in Machines
  BY DEF kassert, Sound
<1> QED
  BY <1>1 DEF Machines

\* The machine of a program that runs.
LEMMA RunReady ==
    ASSUME IInv, Running
    PROVE  /\ Sound(m, handles, 1, 0) /\ KernelFine(m.pt, stage) /\ Ledger(m, 1)
           /\ m.panic = "none" /\ handles \in SUBSET FileIds /\ BreakFine(current, stage)
           /\ asked \in [UserPages -> SUBSET All]
           /\ RightsOf(m, asked) /\ EndOf(m.pt, stage, current)
<1>1. stage[1] = "run" /\ stage[1] # "off"
  BY DEF Running
<1>2. One(stage[1] = "run") = 1
  BY <1>1 DEF One
<1>3. CoreOf(m, stage, current, handles, asked) /\ MoreOf(m, stage, current, asked)
  BY DEF IInv, CoreInv, MoreInv
<1>4. Ledger(m, 1)
  BY <1>1, <1>2, <1>3, Zenon DEF CoreOf
<1> QED
  BY <1>1, <1>3, <1>4, Zenon DEF CoreOf, MoreOf, HandlesFine

\* A step of a program that goes on running.
LEMMA RunStep ==
    ASSUME NEW r, NEW next, NEW cur, NEW ask, Effect(next, r, cur, ask),
           stage[1] = "run", next[1] = "run",
           handles' \in SUBSET FileIds, BreakFine(cur, stage),
           ask \in [UserPages -> SUBSET All],
           Sound(r, handles', 1, 0), KernelFine(r.pt, stage), Ledger(r, 1),
           RightsOf(r, ask), EndOf(r.pt, next, cur), EnoughPages => NoAssert(r.panic)
    PROVE  IInv'
<1>1. StageFine(next) /\ HandlesFine(handles', next)
  BY DEF StageFine, HandlesFine
<1>2. BreakFine(cur, next) /\ KernelFine(r.pt, next)
  BY DEF BreakFine, KernelFine
<1>3. One(next[1] = "run") = 1
  BY DEF One
<1>4. Ledger(r, One(next[1] = "run")) /\ next[1] \notin {"off", "open"}
  BY <1>3, Zenon
<1>5. CoreInv'
  BY <1>1, <1>2, <1>4, EffectCore
<1>6. EnoughPages /\ SegmentsFit => UsedOf(r.vmr, next) /\ NoAssert(r.panic)
  BY DEF UsedOf
<1>7. MoreInv'
  BY <1>6, EffectMore
<1> QED
  BY <1>5, <1>7 DEF IInv

\* A call that maps nothing keeps the break clear.
LEMMA EndKept ==
    ASSUME NEW pt, NEW to, NEW next, NEW cur, stage[1] = "run", next[1] = "run",
           EndOf(pt, stage, cur),
           \A p \in UserPages : to[p].kind # "none" => pt[p].kind # "none"
    PROVE  EndOf(to, next, cur)
  BY DEF EndOf

\* Labels that no theorem has to exclude.
LEMMA PanicLabels ==
    /\ "none" \in Labels /\ "page_alloc" \in Labels /\ "page past the end of the file" \in Labels
    /\ "fail to memory map a section header" \in Labels /\ "stack_bottom" \in Labels
    /\ "fail to memory map a section" \in Labels /\ "__do_mmap == current.brk" \in Labels
    /\ "fail to get a free file" \in Labels
    /\ NoAssert("none") /\ NoAssert("page past the end of the file")
    /\ NoAssert("__do_mmap == current.brk") /\ NoAssert("fail to get a free file")
  BY DEF Labels, NoAssert

-----------------------------------------------------------------------------
(* Accesses, rights and files *)

\* A page fault keeps the invariant.
LEMMA handle_page_faultStep ==
    ASSUME IInv, NEW p \in UserPages, handle_page_fault(p)
    PROVE  IInv'
<1>1. /\ stage[1] = "run" /\ Running /\ m.pt[p].kind = "lazy" /\ handles' = handles
      /\ Effect(stage, touch(m, p), current, asked)
  BY DEF handle_page_fault, Running
<1>2. /\ Sound(m, handles, 1, 0) /\ KernelFine(m.pt, stage) /\ Ledger(m, 1)
      /\ m.panic = "none" /\ handles \in SUBSET FileIds /\ BreakFine(current, stage)
      /\ asked \in [UserPages -> SUBSET All]
      /\ RightsOf(m, asked) /\ EndOf(m.pt, stage, current)
  BY <1>1, RunReady
<1>3. PICK u : u = touch(m, p)
  OBVIOUS
<1>4. p \in Pages /\ m \in Machines
  BY <1>2, PageFacts DEF Sound
<1>5. Sound(u, handles, 1, 0) /\ Touched(m, u, p)
  BY <1>1, <1>2, <1>3, <1>4, Touch
<1>6. /\ SameBooks(m, u) /\ u.panic \in {m.panic, "page past the end of the file"}
      /\ \A q \in Pages : q # p => u.pt[q] = m.pt[q]
  BY <1>5 DEF Touched
<1>7. KernelFine(u.pt, stage)
  <2>1. \A q \in Pages \ UserPages : u.pt[q].kind = m.pt[q].kind
    BY <1>6
  <2> QED
    BY <1>2, <2>1, KernelSame
<1>8. Ledger(u, 1)
  BY <1>2, <1>6, Zenon DEF Ledger, SameBooks
<1>9. RightsOf(u, asked)
  BY <1>1, <1>2, <1>4, <1>5, RightsTouched
<1>10. EndOf(u.pt, stage, current)
  <2>1. \A q \in UserPages : u.pt[q].kind # "none" => m.pt[q].kind # "none"
    BY <1>1, <1>6, PageFacts
  <2> QED
    BY <1>1, <1>2, <2>1, EndKept
<1>11. NoAssert(u.panic)
  BY <1>2, <1>6, PanicLabels, Zenon
<1>12. Effect(stage, u, current, asked)
  BY <1>1, <1>3
<1>13. Sound(u, handles', 1, 0) /\ handles' \in SUBSET FileIds
  BY <1>1, <1>2, <1>5
<1> QED
  BY <1>1, <1>2, <1>7, <1>8, <1>9, <1>10, <1>11, <1>12, <1>13, RunStep

\* do_munmap keeps the invariant.
LEMMA do_munmapStep ==
    ASSUME IInv, NEW addr \in UserAddrs, NEW length \in Lengths, do_munmap(addr, length)
    PROVE  IInv'
<1>1. /\ stage[1] = "run" /\ Running /\ handles' = handles /\ Called[1] = "run"
      /\ addr % PGSIZE = 0 /\ valid_user_range(addr, length)
      /\ Effect(Called, munmap(m, addr, length), current, Asked(addr, length, {}))
  BY DEF do_munmap, Call, Running, Called
<1>2. /\ Sound(m, handles, 1, 0) /\ KernelFine(m.pt, stage) /\ Ledger(m, 1)
      /\ m.panic = "none" /\ handles \in SUBSET FileIds /\ BreakFine(current, stage)
      /\ asked \in [UserPages -> SUBSET All]
      /\ RightsOf(m, asked) /\ EndOf(m.pt, stage, current)
  BY <1>1, RunReady
<1>3. PICK u : u = munmap(m, addr, length)
  OBVIOUS
<1>4. PICK new : new = Asked(addr, length, {})
  OBVIOUS
<1>5. new \in [UserPages -> SUBSET All]
      /\ \A p \in UserPages : new[p] = IF p \in PagesOf(addr, length) THEN {} ELSE asked[p]
  BY <1>2, <1>4 DEF Asked
<1>6. addr \in Int /\ length \in Nat
  <2>1. addr \in Int
    BY Sizes, PageFacts DEF UserAddrs
  <2> QED
    BY <2>1, VmAssumption
<1>7. /\ Sound(u, handles, 1, 0) /\ KernelFine(u.pt, stage)
      /\ Unmapped(m, u, addr \div PGSIZE, NPage(length)) /\ PagesOf(addr, length) \subseteq UserPages
  BY <1>1, <1>2, <1>3, <1>6, UnmapCall
<1>8. /\ Lowered(m.vmr, u.vmr) /\ u.panic = m.panic /\ SameBooks(m, u)
      /\ \A q \in Pages : IF q \in PagesOf(addr, length) THEN u.pt[q].kind = "none"
                          ELSE u.pt[q] = m.pt[q]
  BY <1>7 DEF Unmapped, PagesOf
<1>9. Ledger(u, 1)
  BY <1>2, <1>8, Zenon DEF Ledger, SameBooks
<1>10. RightsOf(u, new)
  <2>1. \A p \in UserPages : u.pt[p].kind = "none" \/ (u.pt[p] = m.pt[p] /\ new[p] = asked[p])
    BY <1>5, <1>8, PageFacts
  <2>2. \A v \in Vmrs : u.vmr[v].prot \subseteq m.vmr[v].prot
    BY <1>8 DEF Lowered, SameRegion
  <2>3. m \in Machines
    BY <1>2 DEF Sound
  <2> QED
    BY <1>2, <2>1, <2>2, <2>3, RightsKept
<1>11. EndOf(u.pt, Called, current)
  <2>1. \A q \in UserPages : u.pt[q].kind # "none" => m.pt[q].kind # "none"
    BY <1>8, PageFacts
  <2> QED
    BY <1>1, <1>2, <2>1, EndKept
<1>12. NoAssert(u.panic)
  BY <1>2, <1>8, PanicLabels
<1>13. Effect(Called, u, current, new)
  BY <1>1, <1>3, <1>4
<1>14. Sound(u, handles', 1, 0) /\ handles' \in SUBSET FileIds
  BY <1>1, <1>2, <1>7
<1> QED
  BY <1>1, <1>2, <1>5, <1>7, <1>9, <1>10, <1>11, <1>12, <1>13, <1>14, RunStep

\* do_mprotect keeps the invariant, also when it stops halfway.
LEMMA do_mprotectStep ==
    ASSUME IInv, NEW addr \in UserAddrs, NEW length \in Lengths, NEW prot \in Prots,
           do_mprotect(addr, length, prot)
    PROVE  IInv'
<1>1. /\ stage[1] = "run" /\ Running /\ handles' = handles /\ Called[1] = "run"
  BY DEF do_mprotect, Call, Running, Called
<1>2. /\ Sound(m, handles, 1, 0) /\ KernelFine(m.pt, stage) /\ Ledger(m, 1)
      /\ m.panic = "none" /\ handles \in SUBSET FileIds /\ BreakFine(current, stage)
      /\ asked \in [UserPages -> SUBSET All]
      /\ RightsOf(m, asked) /\ EndOf(m.pt, stage, current)
  BY <1>1, RunReady
<1>3. PICK first \in Int : first = addr \div PGSIZE
  <2>1. addr \in Int
    BY Sizes, PageFacts DEF UserAddrs
  <2> QED
    BY <2>1, Sizes, Divides
<1>4. PICK n \in Nat : n = NPage(length)
  <2>1. length \in Nat
    BY VmAssumption
  <2> QED
    BY <2>1, NPages
<1>5. PICK u : u = protect_range([s |-> m, ok |-> TRUE], first, n, prot).s
  OBVIOUS
<1>6. Effect(Called, u, current, asked)
  BY <1>3, <1>4, <1>5 DEF do_mprotect
<1>7. Sound(u, handles, 1, 0) /\ Restricted(m, u)
  <2>1. prot \in SUBSET All
    BY VmAssumption DEF All
  <2> QED
    BY <1>2, <1>3, <1>4, <1>5, <2>1, ProtectRange
<1>8. /\ u.panic = m.panic /\ SameBooks(m, u) /\ \A q \in Pages : u.pt[q].kind = m.pt[q].kind
  BY <1>7 DEF Restricted
<1>9. KernelFine(u.pt, stage)
  BY <1>2, <1>8, KernelSame
<1>10. Ledger(u, 1)
  BY <1>2, <1>8, Zenon DEF Ledger, SameBooks
<1>11. RightsOf(u, asked)
  <2>1. m \in Machines
    BY <1>2 DEF Sound
  <2> QED
    BY <1>2, <1>7, <2>1, RightsRestricted
<1>12. EndOf(u.pt, Called, current)
  <2>1. \A q \in UserPages : u.pt[q].kind # "none" => m.pt[q].kind # "none"
    BY <1>8, PageFacts
  <2> QED
    BY <1>1, <1>2, <2>1, EndKept
<1>13. NoAssert(u.panic)
  BY <1>2, <1>8, PanicLabels
<1>14. Sound(u, handles', 1, 0) /\ handles' \in SUBSET FileIds
  BY <1>1, <1>2, <1>7
<1> QED
  BY <1>1, <1>2, <1>6, <1>9, <1>10, <1>11, <1>12, <1>13, <1>14, RunStep

\* A step of a running program that changes no page.
LEMMA FilesStep ==
    ASSUME IInv, Running, NEW u, FilesOnly(m, u), NEW H \in SUBSET FileIds, Sound(u, H, 1, 0),
           handles' = H, NEW next, next[1] = "run", NEW ask, ask = asked
    PROVE  /\ stage[1] = "run" /\ Sound(u, handles', 1, 0) /\ KernelFine(u.pt, stage)
           /\ Ledger(u, 1) /\ RightsOf(u, ask) /\ EndOf(u.pt, next, current) /\ u.panic = "none"
           /\ BreakFine(current, stage) /\ ask \in [UserPages -> SUBSET All]
<1>1. /\ Sound(m, handles, 1, 0) /\ KernelFine(m.pt, stage) /\ Ledger(m, 1)
      /\ m.panic = "none" /\ BreakFine(current, stage)
      /\ asked \in [UserPages -> SUBSET All]
      /\ RightsOf(m, asked) /\ EndOf(m.pt, stage, current)
  BY RunReady
<1>2. u.pt = m.pt /\ u.vmr = m.vmr /\ u.panic = m.panic /\ SameBooks(m, u)
  BY DEF FilesOnly
<1>3. Ledger(u, 1)
  BY <1>1, <1>2, Zenon DEF Ledger, SameBooks
<1>4. RightsOf(u, asked)
  BY <1>1, <1>2 DEF RightsOf
<1>5. stage[1] = "run"
  BY DEF Running
<1>6. EndOf(u.pt, next, current)
  BY <1>1, <1>2, <1>5, EndKept
<1> QED
  BY <1>1, <1>2, <1>3, <1>4, <1>5, <1>6, Zenon

\* sys_open keeps the invariant.
LEMMA open_fileStep == IInv /\ open_file => IInv'
<1> SUFFICES ASSUME IInv, open_file PROVE IInv'
  OBVIOUS
<1>1. Running /\ stage[1] = "run" /\ Called[1] = "run"
  BY DEF open_file, Call, Running, Called
<1>2. Sound(m, handles, 1, 0) /\ m.panic = "none" /\ handles \in SUBSET FileIds
  BY <1>1, RunReady
<1>3. CASE FreeFiles(m.files) = {}
  <2>1. PICK u : u = Panic("fail to get a free file")
    OBVIOUS
  <2>2. Effect(Called, u, current, asked) /\ handles' = {}
    BY <1>3, <2>1 DEF open_file
  <2>3. u.panic = "fail to get a free file"
    BY <1>2, <2>1, PanicFine, PanicLabels DEF Panic
  <2>4. u.panic \in Labels \ {"none"} /\ NoAssert(u.panic) /\ handles' \in SUBSET FileIds
    BY <2>2, <2>3, PanicLabels
  <2> QED
    BY <2>2, <2>4, EffectOff
<1>4. CASE FreeFiles(m.files) # {}
  <2>1. PICK u : u = [m EXCEPT !.files = file_open(m.files)]
    OBVIOUS
  <2>2. PICK f : f = file_get_free(m.files)
    OBVIOUS
  <2>3. Effect(Called, u, current, asked) /\ handles' = handles \cup {f}
    BY <1>4, <2>1, <2>2 DEF open_file
  <2>4. f \in FileIds /\ Sound(u, handles \cup {f}, 1, 0) /\ FilesOnly(m, u)
    BY <1>2, <1>4, <2>1, <2>2, FileOpen
  <2>5. PICK H \in SUBSET FileIds : H = handles \cup {f}
    BY <1>2, <2>4
  <2>6. handles' = H /\ Sound(u, H, 1, 0) /\ handles' \in SUBSET FileIds
    BY <2>3, <2>4, <2>5
  <2>7. /\ stage[1] = "run" /\ Sound(u, handles', 1, 0) /\ KernelFine(u.pt, stage)
        /\ Ledger(u, 1) /\ RightsOf(u, asked) /\ EndOf(u.pt, Called, current) /\ u.panic = "none"
        /\ BreakFine(current, stage) /\ asked \in [UserPages -> SUBSET All]
    BY <1>1, <2>4, <2>5, <2>6, FilesStep
  <2>8. NoAssert(u.panic)
    BY <2>7, PanicLabels
  <2> QED
    BY <1>1, <2>3, <2>6, <2>7, <2>8, RunStep
<1> QED
  BY <1>3, <1>4

\* A step that leaves the machine as it is to be.
LEMMA RunPlain ==
    ASSUME IInv, Running, stage' = stage, current' = current, asked' = asked,
           handles' \in SUBSET FileIds, NEW u, m' = u, Sound(u, handles', 1, 0),
           KernelFine(u.pt, stage), Ledger(u, 1), RightsOf(u, asked),
           EndOf(u.pt, stage, current), u.panic = "none"
    PROVE  IInv'
<1>1. CoreOf(m, stage, current, handles, asked) /\ MoreOf(m, stage, current, asked)
  BY DEF IInv, CoreInv, MoreInv
<1>2. stage[1] = "run"
  BY DEF Running
<1>3. One(stage[1] = "run") = 1
  BY <1>2 DEF One
<1>4. HandlesFine(handles', stage) /\ UsedOf(u.vmr, stage)
  BY <1>2 DEF HandlesFine, UsedOf
<1>5. /\ StageFine(stage) /\ BreakFine(current, stage) /\ asked \in [UserPages -> SUBSET All]
  BY <1>1 DEF CoreOf
<1>6. Ledger(u, One(stage[1] = "run"))
  BY <1>3, Zenon
<1>7. stage[1] # "off" /\ stage[1] # "open"
  BY <1>2
<1>8. CoreOf(u, stage, current, handles', asked)
  BY <1>4, <1>5, <1>6, <1>7, Zenon DEF CoreOf
<1>9. NoAssert(u.panic)
  BY PanicLabels
<1>10. MoreOf(u, stage, current, asked)
  BY <1>4, <1>9, Zenon DEF MoreOf
<1> QED
  BY <1>8, <1>10 DEF IInv, CoreInv, MoreInv

\* sys_close keeps the invariant.
LEMMA close_fileStep ==
    ASSUME IInv, NEW f \in handles, close_file(f)
    PROVE  IInv'
<1>1. /\ Running /\ stage[1] = "run" /\ stage' = stage /\ current' = current /\ asked' = asked
      /\ m' = [m EXCEPT !.files = file_decref(m.files, f)] /\ handles' = handles \ {f}
  BY DEF close_file, Running
<1>2. Sound(m, handles, 1, 0) /\ handles \in SUBSET FileIds
  BY <1>1, RunReady
<1>3. PICK u : u = [m EXCEPT !.files = file_decref(m.files, f)]
  OBVIOUS
<1>4. Sound(u, handles \ {f}, 1, 0) /\ FilesOnly(m, u)
  BY <1>2, <1>3, FileClose
<1>5. PICK H \in SUBSET FileIds : H = handles \ {f}
  BY <1>2
<1>6. handles' = H /\ Sound(u, H, 1, 0) /\ handles' \in SUBSET FileIds
  BY <1>1, <1>4, <1>5
<1>7. /\ Sound(u, handles', 1, 0) /\ KernelFine(u.pt, stage)
      /\ Ledger(u, 1) /\ RightsOf(u, asked) /\ EndOf(u.pt, stage, current) /\ u.panic = "none"
  BY <1>1, <1>4, <1>5, <1>6, FilesStep
<1>8. m' = u
  BY <1>1, <1>3
<1> QED
  BY <1>1, <1>6, <1>7, <1>8, RunPlain

\* The program's store keeps the invariant.
LEMMA StoreToStep ==
    ASSUME IInv, NEW w \in User, StoreTo(w)
    PROVE  IInv'
<1>1. /\ Running /\ stage[1] = "run" /\ stage' = stage /\ current' = current /\ asked' = asked
      /\ handles' = handles /\ m' = [m EXCEPT !.mem[w] = Stored]
  BY DEF StoreTo, Running
<1>2. /\ Sound(m, handles, 1, 0) /\ KernelFine(m.pt, stage) /\ Ledger(m, 1)
      /\ m.panic = "none" /\ handles \in SUBSET FileIds
      /\ RightsOf(m, asked) /\ EndOf(m.pt, stage, current)
  BY <1>1, RunReady
<1>3. PICK mem : mem = [m.mem EXCEPT ![w] = Stored]
  OBVIOUS
<1>4. PICK u : u = [m EXCEPT !.mem = mem]
  OBVIOUS
<1>5. m \in Machines /\ mem \in [User -> Units]
  BY <1>2, <1>3, MachineFields DEF Sound, Units, Stored
<1>6. m' = u
  BY <1>1, <1>3, <1>4
<1>7. /\ u \in Machines /\ u.pt = m.pt /\ u.vmr = m.vmr /\ u.files = m.files
      /\ u.panic = m.panic /\ SameBooks(m, u)
  BY <1>4, <1>5 DEF Machines, SameBooks
<1>8. Sound(u, handles', 1, 0)
  BY <1>1, <1>2, <1>7 DEF Sound
<1>9. Ledger(u, 1)
  BY <1>2, <1>7, Zenon DEF Ledger, SameBooks
<1>10. RightsOf(u, asked)
  BY <1>2, <1>7 DEF RightsOf
<1>11. /\ KernelFine(u.pt, stage) /\ EndOf(u.pt, stage, current) /\ u.panic = "none"
       /\ handles' \in SUBSET FileIds
  BY <1>1, <1>2, <1>7
<1> QED
  BY <1>1, <1>6, <1>8, <1>9, <1>10, <1>11, RunPlain

-----------------------------------------------------------------------------
(* do_mmap and do_brk *)

\* The running program got pages: the machine is sound, only the pages of the
\* range have changed, and no right is there that was not asked for.
MapRan(u, new, a, length) ==
    /\ Sound(u, handles, 1, 0) /\ KernelFine(u.pt, stage) /\ Ledger(u, 1)
    /\ RightsOf(u, new) /\ new \in [UserPages -> SUBSET All]
    /\ EnoughPages => NoAssert(u.panic)
    /\ \A p \in UserPages : p \notin PagesOf(a, length) => u.pt[p] = m.pt[p]

\* What a mapping call of the running program leaves.
LEMMA MapRun ==
    ASSUME IInv, Running, NEW a, NEW length \in Nat, length > 0, Granted(m, a, length),
           NEW file \in {0} \cup handles, NEW offset \in Nat, NEW prot \in SUBSET All,
           NEW populate \in BOOLEAN, NEW new, new = Asked(a, length, prot),
           NEW u, u = do_mmap_at(m, a, length, prot, populate, file, offset)
    PROVE  MapRan(u, new, a, length)
<1>1. /\ Sound(m, handles, 1, 0) /\ KernelFine(m.pt, stage) /\ Ledger(m, 1)
      /\ m.panic = "none" /\ handles \in SUBSET FileIds
      /\ asked \in [UserPages -> SUBSET All] /\ RightsOf(m, asked)
  BY RunReady
<1>2. PICK x \in {0, 1} : x = 1
  OBVIOUS
<1>3. /\ Sound(u, handles, 1, 0) /\ Served(m, u, x) /\ KernelFine(u.pt, stage)
      /\ MapsAt(m, u, a, length, prot, populate, file, offset)
  BY <1>1, MapCall
<1>4. Ledger(u, 1) /\ (EnoughPages => u.panic \in {m.panic, "page past the end of the file"})
  BY <1>1, <1>2, <1>3 DEF Served
<1>5. EnoughPages => NoAssert(u.panic)
  BY <1>1, <1>4, PanicLabels, Zenon
<1>6. /\ new \in [UserPages -> SUBSET All]
      /\ \A p \in UserPages : new[p] = IF p \in PagesOf(a, length) THEN prot ELSE asked[p]
  BY <1>1 DEF Asked
<1>7. RightsOf(u, new)
  BY <1>1, <1>3, <1>6, RightsMapped
<1>8. ASSUME NEW p \in UserPages, p \notin PagesOf(a, length) PROVE u.pt[p] = m.pt[p]
  <2>1. PICK v : Placed(m, u, v, Region(a, length, file, offset, NPage(length), prot),
                        a \div PGSIZE, NPage(length), populate)
    BY <1>3 DEF MapsAt
  <2>2. p \in Pages
    BY PageFacts
  <2> QED
    BY <1>8, <2>1, <2>2 DEF Placed, PagesOf
<1> QED
  BY <1>3, <1>4, <1>5, <1>6, <1>7, <1>8 DEF MapRan

\* The pages of a range lie in it.
LEMMA InRange ==
    ASSUME NEW a \in Nat, a % PGSIZE = 0, NEW length \in Nat, NEW p \in Nat
    PROVE  p \in PagesOf(a, length) <=> a <= PGSIZE * p /\ PGSIZE * p < a + length
<1>1. PICK f \in Int : f = a \div PGSIZE /\ a = PGSIZE * f
  <2>1. a \div PGSIZE \in Int /\ PGSIZE * (a \div PGSIZE) \in Int
        /\ a % PGSIZE = a - PGSIZE * (a \div PGSIZE)
    BY Sizes, Divides
  <2> QED
    BY <2>1
<1>2. PICK n \in Nat : /\ n = NPage(length)
                       /\ length <= PGSIZE * n /\ PGSIZE * n < length + PGSIZE
  BY NPages
<1>3. p \in PagesOf(a, length) <=> f <= p /\ p < f + n
  BY <1>1, <1>2 DEF PagesOf
<1>4. a <= PGSIZE * p <=> f <= p
  BY <1>1, Sizes, Multiples
<1>5. /\ PGSIZE * p < PGSIZE * (f + n) <=> p < f + n
      /\ PGSIZE * (p + 1) <= PGSIZE * (f + n) <=> p + 1 <= f + n
      /\ PGSIZE * (f + n) = a + PGSIZE * n
      /\ PGSIZE * (p + 1) = PGSIZE * p + PGSIZE /\ PGSIZE * p \in Int /\ PGSIZE * n \in Int
  <2>1. f + n \in Int /\ p + 1 \in Int /\ p \in Int
    OBVIOUS
  <2>2. PGSIZE * p < PGSIZE * (f + n) <=> p < f + n
    BY <2>1, Sizes, Multiples
  <2>3. PGSIZE * (p + 1) <= PGSIZE * (f + n) <=> p + 1 <= f + n
    BY <2>1, Sizes, Multiples
  <2>4. PGSIZE * (f + n) = a + PGSIZE * n
    BY <1>1, Sizes
  <2>5. PGSIZE * (p + 1) = PGSIZE * p + PGSIZE /\ PGSIZE * p \in Int /\ PGSIZE * n \in Int
    BY Sizes
  <2> QED
    BY <2>2, <2>3, <2>4, <2>5
<1>6. p < f + n <=> PGSIZE * p < a + length
  <2>1. ASSUME p < f + n PROVE PGSIZE * p < a + length
    <3>1. PGSIZE * p + PGSIZE <= a + PGSIZE * n
      BY <1>5, <2>1
    <3> QED
      BY <1>2, <1>5, <3>1, Sizes
  <2>2. ASSUME PGSIZE * p < a + length PROVE p < f + n
    <3>1. PGSIZE * p < a + PGSIZE * n
      BY <1>2, <1>5, <2>2, Sizes
    <3> QED
      BY <1>5, <3>1
  <2> QED
    BY <2>1, <2>2
<1> QED
  BY <1>3, <1>4, <1>6

\* do_mmap keeps the invariant.
LEMMA do_mmapStep ==
    ASSUME IInv, NEW addr \in {0} \cup UserAddrs, NEW length \in Lengths, NEW prot \in Prots,
           NEW populate \in BOOLEAN, NEW fixed \in BOOLEAN, fixed \/ addr = 0,
           NEW file \in {0} \cup handles, NEW offset \in Nat,
           do_mmap(addr, length, prot, fixed, populate, file, offset)
    PROVE  IInv'
<1>1. PICK a : a = mmap_result(m, addr, length, fixed)
  OBVIOUS
<1>2. PICK u : u = do_mmap_at(m, a, length, prot, populate, file, offset)
  OBVIOUS
<1>3. PICK new : new = Asked(a, length, prot)
  OBVIOUS
<1>4. PICK cur : cur = [current EXCEPT !.brk_max = Min({current.brk_max, a})]
  OBVIOUS
<1>5. /\ stage[1] = "run" /\ Running /\ handles' = handles /\ Called[1] = "run"
      /\ a # -1 /\ Effect(Called, u, cur, new)
  BY <1>1, <1>2, <1>3, <1>4 DEF do_mmap, Call, Running, Called
<1>6. /\ Sound(m, handles, 1, 0) /\ KernelFine(m.pt, stage)
      /\ handles \in SUBSET FileIds /\ BreakFine(current, stage)
      /\ EndOf(m.pt, stage, current)
  BY <1>5, RunReady
<1>7. length \in Nat /\ length > 0 /\ prot \in SUBSET All
  BY VmAssumption DEF All
<1>8. Granted(m, a, length)
  <2>1. CASE fixed
    <3>1. addr \in Nat
      BY Sizes, PageFacts DEF UserAddrs
    <3>2. a = addr
      BY <1>1, <1>5, <2>1 DEF mmap_result, mmap_addr
    <3>3. mmap_result(m, a, length, TRUE) = a
      BY <1>1, <2>1, <3>2
    <3> QED
      BY <1>7, <3>1, <3>2, <3>3, GrantedFixed
  <2>2. CASE ~fixed
    <3>1. a = mmap_result(m, 0, length, FALSE)
      BY <1>1, <2>2
    <3> QED
      BY <1>5, <1>6, <1>7, <3>1, GrantedGap
  <2> QED
    BY <2>1, <2>2
<1>9. MapRan(u, new, a, length)
  BY <1>2, <1>3, <1>5, <1>7, <1>8, MapRun
<1>10. /\ Sound(u, handles, 1, 0) /\ KernelFine(u.pt, stage) /\ Ledger(u, 1)
       /\ RightsOf(u, new) /\ new \in [UserPages -> SUBSET All]
       /\ EnoughPages => NoAssert(u.panic)
       /\ \A p \in UserPages : p \notin PagesOf(a, length) => u.pt[p] = m.pt[p]
  BY <1>9, Zenon DEF MapRan
<1>11. a \in Nat /\ a % PGSIZE = 0 /\ FirstFree <= a
  BY <1>8 DEF Granted, valid_user_range
<1>12. PICK max \in Int : max = Min({current.brk_max, a}) /\ max <= current.brk_max /\ max <= a
                          /\ max \in FirstFree .. MmapMax
  <2>1. current.brk_max \in Int /\ FirstFree <= current.brk_max /\ current.brk_max <= MmapMax
    BY <1>6, Sizes DEF BreakFine, Breaks
  <2>2. Min({current.brk_max, a}) = IF current.brk_max <= a THEN current.brk_max ELSE a
    BY <1>11, <2>1, MinOfTwo
  <2> QED
    BY <1>11, <2>1, <2>2, Sizes
<1>13. /\ cur.brk_min = current.brk_min /\ cur.brk = current.brk /\ cur.brk_max = max
       /\ cur \in Breaks
  <2>1. current \in Breaks
    BY <1>6 DEF BreakFine
  <2>2. cur = [current EXCEPT !.brk_max = max]
    BY <1>4, <1>12
  <2> QED
    BY <1>12, <2>1, <2>2 DEF Breaks
<1>14. BreakFine(cur, stage)
  BY <1>6, <1>13 DEF BreakFine
<1>15. EndOf(u.pt, Called, cur)
  <2>1. Oldbrk(cur) = Oldbrk(current)
    BY <1>13 DEF Oldbrk
  <2> SUFFICES ASSUME NEW p \in UserPages, u.pt[p].kind # "none",
                      PGSIZE * (p + 1) <= MmapMax - StackSize
               PROVE  PGSIZE * p < Oldbrk(cur) \/ cur.brk_max <= PGSIZE * p
    BY <1>5 DEF EndOf
  <2>2. p \in Nat /\ PGSIZE * p \in Int
    BY PageFacts, Sizes
  <2>3. CASE p \in PagesOf(a, length)
    <3>1. a <= PGSIZE * p
      BY <1>7, <1>11, <2>2, <2>3, InRange
    <3> QED
      BY <1>11, <1>12, <1>13, <2>2, <3>1
  <2>4. CASE p \notin PagesOf(a, length)
    <3>1. PGSIZE * p < Oldbrk(current) \/ current.brk_max <= PGSIZE * p
      BY <1>5, <1>6, <1>10, <2>4 DEF EndOf
    <3>2. current.brk_max \in Int
      BY <1>6, Sizes DEF BreakFine, Breaks
    <3> QED
      BY <1>12, <1>13, <2>1, <2>2, <3>1, <3>2
  <2> QED
    BY <2>3, <2>4
<1>16. Sound(u, handles', 1, 0) /\ handles' \in SUBSET FileIds
  BY <1>5, <1>6, <1>10
<1> QED
  BY <1>5, <1>10, <1>14, <1>15, <1>16, RunStep

\* The break rounded up to a page is still in the program's part.
LEMMA RoundUpIn ==
    ASSUME NEW x \in FirstFree .. MmapMax
    PROVE  /\ ROUNDUP(x) \in FirstFree .. MmapMax /\ ROUNDUP(x) % PGSIZE = 0
           /\ x <= ROUNDUP(x) /\ x \in Nat
<1>1. x \in Nat /\ FirstFree <= x /\ x <= MmapMax
  BY Sizes
<1>2. PICK z \in Nat : MmapMax = PGSIZE * z
  BY Bounds
<1>3. PICK n \in Nat : n = NPage(x) /\ ROUNDUP(x) = PGSIZE * n /\ x <= PGSIZE * n
  BY <1>1, NPages
<1>4. n <= z
  <2>1. PGSIZE * 0 + x <= PGSIZE * z
    BY <1>1, <1>2, Sizes
  <2>2. 0 + NPage(x) <= z
    BY <1>1, <2>1, PagesWithin
  <2> QED
    BY <1>3, <2>2
<1>5. PGSIZE * n <= PGSIZE * z /\ PGSIZE * n \in Int /\ (PGSIZE * n) % PGSIZE = 0
  BY <1>4, Sizes, Multiples
<1> QED
  BY <1>1, <1>2, <1>3, <1>5, Sizes

\* The break that __do_brk starts from.
LEMMA OldbrkIn ==
    ASSUME BreakFine(current, stage), stage[1] = "run"
    PROVE  /\ oldbrk = Oldbrk(current) /\ oldbrk \in FirstFree .. MmapMax
           /\ oldbrk % PGSIZE = 0
<1>1. /\ current.brk_min \in FirstFree .. MmapMax /\ current.brk \in {0} \cup (FirstFree .. MmapMax)
      /\ current.brk % PGSIZE = 0
  BY Sizes DEF BreakFine, Breaks
<1>2. oldbrk = IF current.brk = 0 THEN ROUNDUP(current.brk_min) ELSE current.brk
  BY DEF oldbrk
<1>3. ROUNDUP(current.brk_min) \in FirstFree .. MmapMax /\ ROUNDUP(current.brk_min) % PGSIZE = 0
  BY <1>1, RoundUpIn
<1> QED
  BY <1>1, <1>2, <1>3 DEF Oldbrk

\* The break stays above the program's end, and above the lowest mapping only
\* when that lies below the end.
LEMMA NewbrkIn ==
    ASSUME BreakFine(current, stage), stage[1] = "run", NEW addr \in 0 .. MmapMax
    PROVE  /\ newbrk(addr) \in FirstFree .. MmapMax
           /\ newbrk(addr) <= current.brk_max \/ newbrk(addr) = current.brk_min
           /\ newbrk(addr) = 0 => current.brk_min = 0 \/ current.brk_max = 0
<1>1. /\ current.brk_min \in FirstFree .. MmapMax /\ current.brk_max \in FirstFree .. MmapMax
      /\ current.brk_min \in Int /\ current.brk_max \in Int /\ addr \in Int /\ 0 <= addr
      /\ 0 <= current.brk_min
  BY Sizes DEF BreakFine, Breaks
<1>2. CASE addr < current.brk_min
  <2>1. newbrk(addr) = current.brk_min
    BY <1>2 DEF newbrk
  <2> QED
    BY <1>1, <2>1
<1>3. CASE ~(addr < current.brk_min)
  <2>1. newbrk(addr) = Min({addr, current.brk_max})
    BY <1>3 DEF newbrk
  <2>2. newbrk(addr) = IF addr <= current.brk_max THEN addr ELSE current.brk_max
    BY <1>1, <2>1, MinOfTwo
  <2> QED
    BY <1>1, <1>3, <2>2, Sizes
<1> QED
  BY <1>2, <1>3

\* The break moves to a page's start: where it stands, and what is mapped
\* below it.
BreakMoved(cur, new) ==
    /\ cur.brk_min = current.brk_min /\ cur.brk_max = current.brk_max /\ cur.brk = new
    /\ cur \in Breaks

\* Nothing is mapped above the break once it has moved.
LEMMA EndMoved ==
    ASSUME stage[1] = "run", NEW next, next[1] = "run", BreakFine(current, stage),
           EndOf(m.pt, stage, current),
           NEW new \in Nat, NEW cur, BreakMoved(cur, new), NEW pt,
           \A p \in UserPages :
               pt[p].kind # "none" =>
                   \/ PGSIZE * p < new
                   \/ (pt[p] = m.pt[p] /\ Oldbrk(current) <= PGSIZE * p)
                   \/ (pt[p] = m.pt[p] /\ Oldbrk(current) <= new),
           new = 0 => current.brk_max = 0 \/ Oldbrk(cur) = 0
    PROVE  EndOf(pt, next, cur)
<1> SUFFICES ASSUME NEW p \in UserPages, pt[p].kind # "none",
                    PGSIZE * (p + 1) <= MmapMax - StackSize
             PROVE  PGSIZE * p < Oldbrk(cur) \/ cur.brk_max <= PGSIZE * p
  BY DEF EndOf
<1>1. p \in Nat /\ PGSIZE * p \in Int /\ 0 <= PGSIZE * p
  BY PageFacts, Sizes
<1>2. Oldbrk(cur) = new \/ current.brk_max = 0
  BY DEF Oldbrk, BreakMoved
<1>3. cur.brk_max = current.brk_max
  BY DEF BreakMoved
<1>4. CASE current.brk_max = 0
  BY <1>1, <1>3, <1>4
<1>5. CASE Oldbrk(cur) = new
  <2>1. CASE PGSIZE * p < new
    BY <1>5, <2>1
  <2>2. CASE pt[p] = m.pt[p]
    <3>1. PGSIZE * p < Oldbrk(current) \/ current.brk_max <= PGSIZE * p
      BY <2>2 DEF EndOf
    <3>2. PGSIZE * p < new \/ Oldbrk(current) <= PGSIZE * p \/ Oldbrk(current) <= new
      OBVIOUS
    <3>3. Oldbrk(current) \in Int
      BY OldbrkIn, Sizes
    <3> QED
      BY <1>1, <1>3, <1>5, <3>1, <3>2, <3>3
  <2> QED
    BY <2>1, <2>2
<1> QED
  BY <1>2, <1>4, <1>5

\* do_brk keeps the invariant, also when the mapping fails.
LEMMA do_brkStep ==
    ASSUME IInv, NEW addr \in 0 .. MmapMax, do_brk(addr)
    PROVE  IInv'
<1>1. PICK new : new = ROUNDUP(newbrk(addr))
  OBVIOUS
<1>2. PICK old : old = oldbrk
  OBVIOUS
<1>3. PICK cur : cur = [current EXCEPT !.brk = new]
  OBVIOUS
<1>4. /\ stage[1] = "run" /\ Running /\ handles' = handles /\ Called[1] = "run"
  BY DEF do_brk, Call, Running, Called
<1>5. /\ Sound(m, handles, 1, 0) /\ KernelFine(m.pt, stage) /\ Ledger(m, 1)
      /\ m.panic = "none" /\ handles \in SUBSET FileIds /\ BreakFine(current, stage)
      /\ asked \in [UserPages -> SUBSET All]
      /\ RightsOf(m, asked) /\ EndOf(m.pt, stage, current)
  BY <1>4, RunReady
<1>6. /\ old = Oldbrk(current) /\ old \in FirstFree .. MmapMax /\ old % PGSIZE = 0
  BY <1>2, <1>4, <1>5, OldbrkIn
<1>7. /\ new \in FirstFree .. MmapMax /\ new % PGSIZE = 0
      /\ newbrk(addr) <= new /\ newbrk(addr) \in Nat
  <2>1. newbrk(addr) \in FirstFree .. MmapMax
    BY <1>4, <1>5, NewbrkIn
  <2> QED
    BY <1>1, <2>1, RoundUpIn
<1>8. old \in Nat /\ new \in Nat /\ old <= MmapMax /\ new <= MmapMax
      /\ FirstFree <= old /\ FirstFree <= new
  BY <1>6, <1>7, Sizes
<1>9. BreakMoved(cur, new) /\ BreakFine(cur, stage)
  <2>1. current \in Breaks
    BY <1>5 DEF BreakFine
  <2>2. /\ cur \in Breaks /\ cur.brk_min = current.brk_min
        /\ cur.brk_max = current.brk_max /\ cur.brk = new
    BY <1>3, <1>7, <2>1 DEF Breaks
  <2> QED
    BY <1>4, <1>5, <1>7, <2>2 DEF BreakMoved, BreakFine
<1>10. new = 0 => current.brk_max = 0 \/ Oldbrk(cur) = 0
  <2> SUFFICES ASSUME new = 0, current.brk_max # 0 PROVE Oldbrk(cur) = 0
    OBVIOUS
  <2>1. newbrk(addr) = 0
    BY <1>7
  <2>2. current.brk_min = 0
    BY <1>4, <1>5, <2>1, NewbrkIn
  <2>3. cur.brk = 0 /\ cur.brk_min = 0
    BY <1>9, <2>2 DEF BreakMoved
  <2>4. ROUNDUP(0) = 0
    BY <1>1, <2>1
  <2> QED
    BY <2>3, <2>4 DEF Oldbrk
<1>11. \/ old > new /\ Effect(Called, munmap(m, new, old - new), cur, Asked(new, old - new, {}))
       \/ old < new /\ Effect(Called, IF mmap_result(m, old, new - old, TRUE) = old
                                      THEN do_mmap_at(m, old, new - old, All, FALSE, 0, 0)
                                      ELSE Panic("__do_mmap == current.brk"),
                              cur, Asked(old, new - old, All))
       \/ old = new /\ Effect(Called, m, cur, asked)
  BY <1>1, <1>2, <1>3 DEF do_brk
<1>12. CASE old > new /\ Effect(Called, munmap(m, new, old - new), cur, Asked(new, old - new, {}))
  <2>1. PICK u : u = munmap(m, new, old - new)
    OBVIOUS
  <2>2. PICK ask : ask = Asked(new, old - new, {})
    OBVIOUS
  <2>3. PICK len \in Nat : len = old - new /\ new + len = old
    BY <1>8, <1>12
  <2>4. ask \in [UserPages -> SUBSET All]
        /\ \A p \in UserPages : ask[p] = IF p \in PagesOf(new, len) THEN {} ELSE asked[p]
    BY <1>5, <2>2, <2>3 DEF Asked
  <2>5. new \in Int /\ valid_user_range(new, len) /\ u = munmap(m, new, len)
    BY <1>8, <2>1, <2>3 DEF valid_user_range
  <2>6. /\ Sound(u, handles, 1, 0) /\ KernelFine(u.pt, stage)
        /\ Unmapped(m, u, new \div PGSIZE, NPage(len))
    BY <1>5, <1>7, <2>3, <2>5, UnmapCall
  <2>7. /\ Lowered(m.vmr, u.vmr) /\ u.panic = m.panic /\ SameBooks(m, u)
        /\ \A q \in Pages : IF q \in PagesOf(new, len) THEN u.pt[q].kind = "none"
                            ELSE u.pt[q] = m.pt[q]
    BY <2>6 DEF Unmapped, PagesOf
  <2>8. Ledger(u, 1)
    BY <1>5, <2>7, Zenon DEF Ledger, SameBooks
  <2>9. RightsOf(u, ask)
    <3>1. \A p \in UserPages : u.pt[p].kind = "none" \/ (u.pt[p] = m.pt[p] /\ ask[p] = asked[p])
      BY <2>4, <2>7, PageFacts
    <3>2. \A v \in Vmrs : u.vmr[v].prot \subseteq m.vmr[v].prot
      BY <2>7 DEF Lowered, SameRegion
    <3>3. m \in Machines
      BY <1>5 DEF Sound
    <3> QED
      BY <1>5, <3>1, <3>2, <3>3, RightsKept
  <2>10. EndOf(u.pt, Called, cur)
    <3>1. ASSUME NEW p \in UserPages, u.pt[p].kind # "none"
          PROVE  PGSIZE * p < new \/ (u.pt[p] = m.pt[p] /\ old <= PGSIZE * p)
                                  \/ (u.pt[p] = m.pt[p] /\ old <= new)
      <4>1. p \in Nat /\ p \in Pages /\ PGSIZE * p \in Int
        BY PageFacts, Sizes
      <4>2. p \notin PagesOf(new, len) /\ u.pt[p] = m.pt[p]
        BY <2>7, <3>1, <4>1
      <4>3. p \in PagesOf(new, len) <=> new <= PGSIZE * p /\ PGSIZE * p < new + len
        BY <1>7, <1>8, <2>3, <4>1, InRange
      <4> QED
        BY <1>8, <2>3, <4>1, <4>2, <4>3
    <3> QED
      BY <1>4, <1>5, <1>6, <1>8, <1>9, <1>10, <3>1, EndMoved
  <2>11. Effect(Called, u, cur, ask) /\ NoAssert(u.panic)
    BY <1>5, <1>12, <2>1, <2>2, <2>7, PanicLabels
  <2>12. Sound(u, handles', 1, 0) /\ handles' \in SUBSET FileIds
    BY <1>4, <1>5, <2>6
  <2> QED
    BY <1>4, <1>9, <2>4, <2>6, <2>8, <2>9, <2>10, <2>11, <2>12, RunStep
<1>13. CASE old < new /\ Effect(Called, IF mmap_result(m, old, new - old, TRUE) = old
                                       THEN do_mmap_at(m, old, new - old, All, FALSE, 0, 0)
                                       ELSE Panic("__do_mmap == current.brk"),
                               cur, Asked(old, new - old, All))
  <2>0. old < new
    BY <1>13, Zenon
  <2>1. PICK len \in Nat : len = new - old /\ old + len = new /\ len > 0
    BY <1>8, <2>0
  <2>2. PICK ask : ask = Asked(old, len, All)
    OBVIOUS
  <2>3. CASE mmap_result(m, old, len, TRUE) = old
    <3>1. PICK u : u = do_mmap_at(m, old, len, All, FALSE, 0, 0)
      OBVIOUS
    <3>2. Effect(Called, u, cur, ask)
      BY <1>13, <2>1, <2>2, <2>3, <3>1
    <3>3. Granted(m, old, len)
      BY <1>8, <2>1, <2>3, GrantedFixed
    <3>4. MapRan(u, ask, old, len)
      <4>1. 0 \in {0} \cup handles /\ 0 \in Nat /\ All \in SUBSET All /\ FALSE \in BOOLEAN
        OBVIOUS
      <4> QED
        BY <1>4, <2>1, <2>2, <3>1, <3>3, <4>1, MapRun
    <3>5. /\ Sound(u, handles, 1, 0) /\ KernelFine(u.pt, stage) /\ Ledger(u, 1)
          /\ RightsOf(u, ask) /\ ask \in [UserPages -> SUBSET All]
          /\ EnoughPages => NoAssert(u.panic)
          /\ \A p \in UserPages : p \notin PagesOf(old, len) => u.pt[p] = m.pt[p]
      BY <3>4, Zenon DEF MapRan
    <3>6. EndOf(u.pt, Called, cur)
      <4>1. ASSUME NEW p \in UserPages, u.pt[p].kind # "none"
            PROVE  PGSIZE * p < new \/ (u.pt[p] = m.pt[p] /\ old <= PGSIZE * p)
                                    \/ (u.pt[p] = m.pt[p] /\ old <= new)
        <5>1. p \in Nat /\ p \in Pages /\ PGSIZE * p \in Int
          BY PageFacts, Sizes
        <5>2. p \in PagesOf(old, len) \/ u.pt[p] = m.pt[p]
          BY <3>5
        <5>3. p \in PagesOf(old, len) <=> old <= PGSIZE * p /\ PGSIZE * p < old + len
          BY <1>6, <1>8, <2>1, <5>1, InRange
        <5> QED
          BY <1>8, <2>0, <2>1, <5>1, <5>2, <5>3
      <4> QED
        BY <1>4, <1>5, <1>6, <1>8, <1>9, <1>10, <4>1, EndMoved
    <3>7. Sound(u, handles', 1, 0) /\ handles' \in SUBSET FileIds
      BY <1>4, <1>5, <3>5
    <3> QED
      BY <1>4, <1>9, <3>2, <3>5, <3>6, <3>7, RunStep
  <2>4. CASE mmap_result(m, old, len, TRUE) # old
    <3>1. PICK u : u = Panic("__do_mmap == current.brk")
      OBVIOUS
    <3>2. Effect(Called, u, cur, ask)
      BY <1>13, <2>1, <2>2, <2>4, <3>1
    <3>3. u.panic = "__do_mmap == current.brk"
      BY <1>5, <3>1, PanicFine, PanicLabels DEF Panic
    <3>4. u.panic \in Labels \ {"none"} /\ NoAssert(u.panic) /\ handles' \in SUBSET FileIds
      BY <1>4, <1>5, <3>3, PanicLabels
    <3> QED
      BY <3>2, <3>4, EffectOff
  <2> QED
    BY <2>3, <2>4
<1>14. CASE old = new /\ Effect(Called, m, cur, asked)
  <2>1. EndOf(m.pt, Called, cur)
    <3>1. \A p \in UserPages :
            m.pt[p].kind # "none" => PGSIZE * p < new \/ (m.pt[p] = m.pt[p] /\ old <= PGSIZE * p)
                                                      \/ (m.pt[p] = m.pt[p] /\ old <= new)
      BY <1>8, <1>14
    <3> QED
      BY <1>4, <1>5, <1>6, <1>8, <1>9, <1>10, <3>1, EndMoved
  <2>2. Sound(m, handles', 1, 0) /\ handles' \in SUBSET FileIds /\ NoAssert(m.panic)
    BY <1>4, <1>5, PanicLabels
  <2> QED
    BY <1>4, <1>5, <1>9, <1>14, <2>1, <2>2, RunStep
<1> QED
  BY <1>11, <1>12, <1>13, <1>14

-----------------------------------------------------------------------------
(* The loader *)

\* The numbers of a segment.
LEMMA SegmentFacts ==
    ASSUME NEW i \in 1 .. Len(Segments), NEW seg, seg = Segments[i]
    PROVE  /\ Len(Segments) \in Nat
           /\ seg.vaddr \in Nat /\ seg.filesz \in Nat /\ seg.memsz \in Nat
           /\ seg.vaddr % PGSIZE \in Nat /\ seg.offset - (seg.vaddr % PGSIZE) \in Nat
           /\ Base(seg) \in Nat /\ Base(seg) % PGSIZE = 0
           /\ InFile(seg) \in Nat /\ InFile(seg) > 0
           /\ Base(seg) + InFile(seg) = seg.vaddr + seg.filesz /\ seg.filesz <= seg.memsz
<1>1. /\ Len(Segments) \in Nat /\ seg \in [vaddr : Nat, filesz : Nat, memsz : Nat, offset : Nat]
      /\ seg.filesz <= seg.memsz /\ seg.vaddr % PGSIZE <= seg.offset
      /\ 0 < seg.filesz + (seg.vaddr % PGSIZE)
  <2>1. Len(Segments) \in Nat /\ seg \in [vaddr : Nat, filesz : Nat, memsz : Nat, offset : Nat]
    <3>1. PICK S : S = [vaddr : Nat, filesz : Nat, memsz : Nat, offset : Nat]
      OBVIOUS
    <3>2. Segments \in Seq(S)
      BY <3>1, SegmentsAssumption, Zenon
    <3>3. Len(Segments) \in Nat /\ Segments[i] \in S
      BY <3>2
    <3> QED
      BY <3>1, <3>3, Zenon
  <2>2. \A j \in 1 .. Len(Segments) : /\ Segments[j].filesz <= Segments[j].memsz
                                     /\ Segments[j].vaddr % PGSIZE <= Segments[j].offset
                                     /\ 0 < Segments[j].filesz + (Segments[j].vaddr % PGSIZE)
    BY SegmentsAssumption, Zenon
  <2> QED
    BY <2>1, <2>2, Zenon
<1>2. seg.vaddr \in Nat /\ seg.filesz \in Nat /\ seg.memsz \in Nat /\ seg.offset \in Nat
  BY <1>1
<1>3. PICK f \in Int : /\ PGSIZE * f \in Int /\ seg.vaddr % PGSIZE = seg.vaddr - PGSIZE * f
                       /\ PGSIZE * f <= seg.vaddr /\ seg.vaddr < PGSIZE * f + PGSIZE
  <2>1. PICK x \in Int : x = seg.vaddr
    BY <1>2
  <2>2. /\ x \div PGSIZE \in Int /\ PGSIZE * (x \div PGSIZE) \in Int
        /\ PGSIZE * (x \div PGSIZE) <= x /\ x < PGSIZE * (x \div PGSIZE) + PGSIZE
        /\ x % PGSIZE = x - PGSIZE * (x \div PGSIZE)
    BY <2>1, Sizes, Divides
  <2>3. x \div PGSIZE \in Int
    BY <2>2
  <2> WITNESS x \div PGSIZE \in Int
  <2> QED
    BY <2>1, <2>2
<1>4. 0 <= f
  <2>1. PGSIZE * (0 - 1) < PGSIZE * f
    <3>1. PGSIZE * (0 - 1) = 0 - PGSIZE
      BY Sizes
    <3>2. seg.vaddr \in Int /\ 0 <= seg.vaddr
      BY <1>2
    <3>3. \A a, b, c \in Int : 0 <= a /\ a < b + c => 0 - c < b
      OBVIOUS
    <3>4. PGSIZE \in Int
      BY Sizes
    <3> QED
      BY <1>3, <3>1, <3>2, <3>3, <3>4
  <2>2. 0 - 1 < f
    BY <2>1, Sizes, Multiples
  <2> QED
    BY <2>2
<1>5. PGSIZE * f \in Nat /\ (PGSIZE * f) % PGSIZE = 0
  BY <1>4, Sizes, Multiples
<1>6. PICK d \in Nat : d = seg.vaddr % PGSIZE /\ d = seg.vaddr - PGSIZE * f
  BY <1>2, <1>3
<1>7. Base(seg) = PGSIZE * f
  BY <1>2, <1>3, <1>6 DEF Base
<1>8. InFile(seg) = seg.filesz + d
  BY <1>6 DEF InFile
<1>9. /\ Base(seg) \in Nat /\ Base(seg) % PGSIZE = 0
  BY <1>5, <1>7
<1>10. /\ InFile(seg) \in Nat /\ InFile(seg) > 0
       /\ Base(seg) + InFile(seg) = seg.vaddr + seg.filesz
  <2>1. 0 < seg.filesz + d
    BY <1>1, <1>6
  <2> QED
    BY <1>2, <1>3, <1>6, <1>7, <1>8, <2>1, SMTT(40)
<1>11. seg.vaddr % PGSIZE \in Nat /\ seg.offset - (seg.vaddr % PGSIZE) \in Nat
  <2>1. d <= seg.offset
    BY <1>1, <1>6
  <2> QED
    BY <1>2, <1>6, <2>1
<1> QED
  BY <1>1, <1>2, <1>9, <1>10, <1>11

\* The machine of a program that is loaded.
LEMMA LoadReady ==
    ASSUME IInv, stage[1] \in {"map", "bss", "close", "stack"}
    PROVE  /\ Sound(m, handles, 1, 0) /\ KernelFine(m.pt, stage) /\ Ledger(m, 0)
           /\ m.panic = "none" /\ StageFine(stage) /\ HandlesFine(handles, stage)
           /\ BreakFine(current, stage) /\ asked \in [UserPages -> SUBSET All]
           /\ RightsOf(m, asked) /\ EndOf(m.pt, stage, current)
           /\ EnoughPages /\ SegmentsFit => UsedOf(m.vmr, stage)
<1>1. stage[1] # "run" /\ stage[1] # "off"
  OBVIOUS
<1>2. One(stage[1] = "run") = 0
  BY <1>1 DEF One
<1>3. CoreOf(m, stage, current, handles, asked) /\ MoreOf(m, stage, current, asked)
  BY DEF IInv, CoreInv, MoreInv
<1>4. Ledger(m, 0)
  BY <1>1, <1>2, <1>3, Zenon DEF CoreOf
<1> QED
  BY <1>1, <1>3, <1>4, Zenon DEF CoreOf, MoreOf

\* While fewer than MAX_VMR regions are used, __vmr_alloc finds one.
LEMMA UsedCount ==
    ASSUME NEW s, s \in Machines
    PROVE  /\ Cardinality(Used(s.vmr)) \in Nat
           /\ Cardinality(Used(s.vmr)) < MAX_VMR => FreeVmrs(s) # {}
<1>1. Used(s.vmr) \in SUBSET Vmrs
  BY DEF Used
<1>2. Cardinality(Used(s.vmr)) \in Nat
  BY <1>1, Counting
<1>3. ASSUME FreeVmrs(s) = {} PROVE Cardinality(Used(s.vmr)) = MAX_VMR
  <2>1. \A v \in Vmrs : s.vmr[v].refcnt \in Nat /\ s.vmr[v].refcnt # 0
    BY <1>3, MachineFields DEF FreeVmrs, Regions
  <2>2. Used(s.vmr) = 1 .. MAX_VMR
    BY <2>1 DEF Used, Vmrs
  <2>3. Cardinality(1 .. MAX_VMR) = MAX_VMR
    <3>1. Cardinality(1 .. MAX_VMR) = IF 1 > MAX_VMR THEN 0 ELSE MAX_VMR - 1 + 1
      BY Sizes, FS_Interval
    <3> QED
      BY <3>1, Sizes
  <2> QED
    BY <2>2, <2>3
<1> QED
  BY <1>2, <1>3, Sizes

\* A mapping takes one region at most.
LEMMA UsedPlaced ==
    ASSUME NEW s, s \in Machines, NEW u, NEW v, NEW r, NEW first, NEW n, NEW populate,
           Placed(s, u, v, r, first, n, populate)
    PROVE  Cardinality(Used(u.vmr)) <= Cardinality(Used(s.vmr)) + 1
<1>1. /\ v \in Vmrs /\ s.vmr[v].refcnt = 0 /\ u.vmr \in [Vmrs -> Regions]
      /\ s.vmr \in [Vmrs -> Regions]
      /\ \A w \in Vmrs : w # v => u.vmr[w].refcnt <= s.vmr[w].refcnt
  BY MachineFields DEF Placed, FreeVmrs
<1>2. Used(s.vmr) \in SUBSET Vmrs /\ Used(u.vmr) \in SUBSET Vmrs /\ v \notin Used(s.vmr)
  BY <1>1 DEF Used
<1>3. \A w \in Vmrs : s.vmr[w].refcnt \in Nat /\ u.vmr[w].refcnt \in Nat
  BY <1>1 DEF Regions
<1>4. Used(u.vmr) \subseteq Used(s.vmr) \cup {v}
  BY <1>1, <1>3 DEF Used
<1>5. IsFiniteSet(Used(s.vmr)) /\ Cardinality(Used(s.vmr)) \in Nat
  BY <1>2, Counting
<1>6. Cardinality(Used(s.vmr) \cup {v}) = Cardinality(Used(s.vmr)) + 1
  BY <1>2, <1>5, AddOne
<1>7. Used(s.vmr) \cup {v} \in SUBSET Vmrs
  BY <1>1, <1>2
<1>8. IsFiniteSet(Used(s.vmr) \cup {v})
  BY <1>7, Counting
<1>9. Cardinality(Used(u.vmr)) <= Cardinality(Used(s.vmr) \cup {v})
  BY <1>4, <1>8, FS_Subset, Zenon
<1> QED
  BY <1>6, <1>9

\* A call that the loader makes.
Loaded(s, u, H, next, new, a, length) ==
    /\ Sound(u, H, 1, 0) /\ KernelFine(u.pt, next) /\ Ledger(u, 0)
    /\ RightsOf(u, new) /\ new \in [UserPages -> SUBSET All]
    /\ EnoughPages => NoAssert(u.panic)
    /\ \A p \in UserPages : p \notin PagesOf(a, length) => u.pt[p] = s.pt[p]
    /\ Cardinality(Used(u.vmr)) <= Cardinality(Used(s.vmr)) + 1

\* A mapping that the loader makes.
LEMMA LoadCall ==
    ASSUME NEW s, NEW H \in SUBSET FileIds, Sound(s, H, 1, 0), NEW st, KernelFine(s.pt, st),
           Ledger(s, 0), EnoughPages => s.panic = "none",
           asked \in [UserPages -> SUBSET All], RightsOf(s, asked),
           NEW a, NEW length \in Nat, length > 0, Granted(s, a, length),
           NEW file \in {0} \cup H, NEW offset \in Nat, NEW populate \in BOOLEAN,
           NEW new, new = Asked(a, length, All),
           NEW u, u = do_mmap_at(s, a, length, All, populate, file, offset)
    PROVE  Loaded(s, u, H, st, new, a, length)
<1>1. PICK x \in {0, 1} : x = 0
  OBVIOUS
<1>2. PICK prot \in SUBSET All : prot = All
  OBVIOUS
<1>3. u = do_mmap_at(s, a, length, prot, populate, file, offset)
  BY <1>2
<1>4. /\ Sound(u, H, 1, 0) /\ Served(s, u, x) /\ KernelFine(u.pt, st)
      /\ MapsAt(s, u, a, length, prot, populate, file, offset)
  BY <1>3, MapCall
<1>5. Ledger(u, 0) /\ (EnoughPages => u.panic \in {s.panic, "page past the end of the file"})
  BY <1>1, <1>4 DEF Served
<1>6. EnoughPages => NoAssert(u.panic)
  BY <1>5, PanicLabels, Zenon
<1>7. /\ new \in [UserPages -> SUBSET All]
      /\ \A p \in UserPages : new[p] = IF p \in PagesOf(a, length) THEN prot ELSE asked[p]
  BY <1>2 DEF Asked
<1>8. RightsOf(u, new)
  BY <1>4, <1>7, RightsMapped
<1>9. PICK v : Placed(s, u, v, Region(a, length, file, offset, NPage(length), prot),
                      a \div PGSIZE, NPage(length), populate)
  BY <1>4 DEF MapsAt
<1>10. ASSUME NEW p \in UserPages, p \notin PagesOf(a, length) PROVE u.pt[p] = s.pt[p]
  <2>1. p \in Pages
    BY PageFacts
  <2> QED
    BY <1>9, <1>10, <2>1 DEF Placed, PagesOf
<1>11. Cardinality(Used(u.vmr)) <= Cardinality(Used(s.vmr)) + 1
  <2>1. s \in Machines
    BY DEF Sound
  <2> QED
    BY <1>9, <2>1, UsedPlaced
<1> QED
  BY <1>4, <1>5, <1>6, <1>7, <1>8, <1>10, <1>11 DEF Loaded

\* __do_mmap with MAP_FIXED gives the address it was asked for.
LEMMA FixedResult ==
    ASSUME NEW s, FreeVmrs(s) # {}, NEW a \in Nat, a % PGSIZE = 0, NEW length,
           valid_user_range(a, length)
    PROVE  mmap_result(s, a, length, TRUE) = a
  BY DEF mmap_result, mmap_addr

\* load_elf's opening of the file keeps the invariant.
LEMMA OpenElfStep == IInv /\ OpenElf => IInv'
<1> SUFFICES ASSUME IInv, OpenElf PROVE IInv'
  OBVIOUS
<1>1. /\ stage[1] = "open" /\ m' = [m EXCEPT !.files = file_open(m.files)]
      /\ handles' = {file_get_free(m.files)} /\ stage' = <<"map", Len(Segments)>>
      /\ current' = current /\ asked' = asked
  BY DEF OpenElf
<1>2. CoreOf(m, stage, current, handles, asked) /\ MoreOf(m, stage, current, asked)
  BY DEF IInv, CoreInv, MoreInv
<1>3. stage[1] # "off" /\ One(stage[1] = "run") = 0
  BY <1>1 DEF One
<1>4. /\ m = PowerOn /\ Sound(m, handles, 1, 0) /\ m.panic = "none"
      /\ HandlesFine(handles, stage) /\ BreakFine(current, stage)
      /\ asked \in [UserPages -> SUBSET All] /\ Ledger(m, One(stage[1] = "run"))
  BY <1>1, <1>2, <1>3, Zenon DEF CoreOf
<1>5. handles = {} /\ Ledger(m, 0)
  BY <1>1, <1>3, <1>4, Zenon DEF HandlesFine
<1>6. /\ m.pt = [p \in Pages |-> Free] /\ m.vmr = [v \in Vmrs |-> NoVmr] /\ m.files = file_init
  BY <1>4 DEF PowerOn
<1>7. FreeFiles(m.files) # {}
  <2>1. 1 \in FileIds
    BY Sizes DEF FileIds
  <2>2. 1 \in FreeFiles(m.files)
    BY <1>6, <2>1 DEF FreeFiles, file_init
  <2> QED
    BY <2>2
<1>8. PICK f : f = file_get_free(m.files)
  OBVIOUS
<1>9. PICK u : u = [m EXCEPT !.files = file_open(m.files)]
  OBVIOUS
<1>10. f \in FileIds /\ Sound(u, {} \cup {f}, 1, 0) /\ FilesOnly(m, u)
  <2>1. Sound(m, {}, 1, 0) /\ {} \in SUBSET FileIds
    BY <1>4, <1>5
  <2> QED
    BY <1>7, <1>8, <1>9, <2>1, FileOpen
<1>11. m' = u /\ handles' = {f} /\ Sound(u, {f}, 1, 0)
  <2>1. {} \cup {f} = {f}
    OBVIOUS
  <2> QED
    BY <1>1, <1>8, <1>9, <1>10, <2>1
<1>12. u.pt = m.pt /\ u.vmr = m.vmr /\ u.panic = m.panic /\ SameBooks(m, u)
  BY <1>10 DEF FilesOnly
<1>13. /\ stage'[1] = "map" /\ stage'[2] = Len(Segments) /\ Len(Segments) \in 1 .. Len(Segments)
  <2>1. Len(Segments) \in Nat /\ Len(Segments) # 0
    <3>1. PICK S : S = [vaddr : Nat, filesz : Nat, memsz : Nat, offset : Nat]
      OBVIOUS
    <3>2. Segments \in Seq(S) /\ Segments # << >>
      BY <3>1, SegmentsAssumption, Zenon
    <3> QED
      BY <3>2
  <2> QED
    BY <1>1, <2>1
<1>14. StageFine(stage')
  BY <1>13 DEF StageFine
<1>15. HandlesFine({f}, stage')
  BY <1>10, <1>13 DEF HandlesFine
<1>16. BreakFine(current, stage')
  BY <1>1, <1>4, <1>13 DEF BreakFine
<1>17. KernelFine(u.pt, stage')
  BY <1>6, <1>12, <1>13, EntryTypes DEF KernelFine
<1>18. Ledger(u, One(stage'[1] = "run"))
  <2>1. One(stage'[1] = "run") = 0
    BY <1>13 DEF One
  <2>2. Ledger(u, 0)
    BY <1>5, <1>12, Zenon DEF Ledger, SameBooks
  <2> QED
    BY <2>1, <2>2, Zenon
<1>19. stage'[1] # "off" /\ stage'[1] # "open" /\ u.panic = "none"
  BY <1>4, <1>12, <1>13
<1>20. CoreOf(u, stage', current, {f}, asked)
  BY <1>4, <1>11, <1>14, <1>15, <1>16, <1>17, <1>18, <1>19, Zenon DEF CoreOf
<1>21. RightsOf(u, asked)
  BY <1>6, <1>12, PageFacts, EntryTypes DEF RightsOf
<1>22. EndOf(u.pt, stage', current)
  BY <1>6, <1>12, <1>13, PageFacts, EntryTypes DEF EndOf
<1>23. UsedOf(u.vmr, stage')
  <2>1. Used(u.vmr) = {}
    BY <1>6, <1>12 DEF Used, NoVmr
  <2>2. Cardinality(Used(u.vmr)) = 0
    BY <2>1, FS_EmptySet
  <2>3. 0 <= 2 * (Len(Segments) - stage'[2])
    BY <1>13
  <2> QED
    BY <1>13, <2>2, <2>3 DEF UsedOf
<1>24. MoreOf(u, stage', current, asked)
  <2>1. NoAssert(u.panic)
    BY <1>19, PanicLabels
  <2> QED
    BY <1>21, <1>22, <1>23, <2>1, Zenon DEF MoreOf
<1> QED
  BY <1>1, <1>11, <1>20, <1>24, Zenon DEF IInv, CoreInv, MoreInv

\* load_elf's file_decref keeps the invariant: the regions still hold the
\* file.
LEMMA CloseElfStep == IInv /\ CloseElf => IInv'
<1> SUFFICES ASSUME IInv, CloseElf PROVE IInv'
  OBVIOUS
<1>1. /\ stage[1] = "close" /\ m' = [m EXCEPT !.files = file_decref(m.files, Min(handles))]
      /\ handles' = {} /\ stage' = <<"stack", 0>> /\ current' = current /\ asked' = asked
  BY DEF CloseElf
<1>2. /\ Sound(m, handles, 1, 0) /\ KernelFine(m.pt, stage) /\ Ledger(m, 0)
      /\ m.panic = "none" /\ StageFine(stage) /\ HandlesFine(handles, stage)
      /\ BreakFine(current, stage) /\ asked \in [UserPages -> SUBSET All]
      /\ RightsOf(m, asked) /\ EndOf(m.pt, stage, current)
      /\ EnoughPages /\ SegmentsFit => UsedOf(m.vmr, stage)
  BY <1>1, LoadReady
<1>3. PICK f \in FileIds : handles = {f}
  BY <1>1, <1>2 DEF HandlesFine
<1>4. Min(handles) = f
  <2>1. {f} \subseteq Nat /\ {f} # {}
    BY PageFacts
  <2>2. Min({f}) \in {f}
    BY <2>1, Least, Zenon
  <2> QED
    BY <1>3, <2>2
<1>5. PICK u : u = [m EXCEPT !.files = file_decref(m.files, f)]
  OBVIOUS
<1>6. Sound(u, {f} \ {f}, 1, 0) /\ FilesOnly(m, u)
  <2>1. Sound(m, {f}, 1, 0) /\ {f} \in SUBSET FileIds /\ f \in {f}
    BY <1>2, <1>3
  <2> QED
    BY <1>5, <2>1, FileClose
<1>7. m' = u /\ Sound(u, {}, 1, 0)
  <2>1. {f} \ {f} = {}
    OBVIOUS
  <2> QED
    BY <1>1, <1>4, <1>5, <1>6, <2>1
<1>8. u.pt = m.pt /\ u.vmr = m.vmr /\ u.panic = m.panic /\ SameBooks(m, u)
  BY <1>6 DEF FilesOnly
<1>9. stage'[1] = "stack"
  BY <1>1
<1>10. StageFine(stage') /\ HandlesFine({}, stage') /\ BreakFine(current, stage')
       /\ KernelFine(u.pt, stage')
  BY <1>1, <1>2, <1>8, <1>9 DEF StageFine, HandlesFine, BreakFine, KernelFine
<1>11. Ledger(u, One(stage'[1] = "run"))
  <2>1. One(stage'[1] = "run") = 0
    BY <1>9 DEF One
  <2>2. Ledger(u, 0)
    BY <1>2, <1>8, Zenon DEF Ledger, SameBooks
  <2> QED
    BY <2>1, <2>2, Zenon
<1>12. stage'[1] # "off" /\ stage'[1] # "open" /\ u.panic = "none" /\ NoAssert(u.panic)
  BY <1>2, <1>8, <1>9, PanicLabels
<1>13. CoreOf(u, stage', current, {}, asked)
  BY <1>2, <1>7, <1>10, <1>11, <1>12, Zenon DEF CoreOf
<1>14. RightsOf(u, asked)
  BY <1>2, <1>8 DEF RightsOf
<1>15. EndOf(u.pt, stage', current)
  BY <1>1, <1>2, <1>8, <1>9 DEF EndOf
<1>16. EnoughPages /\ SegmentsFit => UsedOf(u.vmr, stage')
  BY <1>1, <1>2, <1>8, <1>9 DEF UsedOf
<1>17. MoreOf(u, stage', current, asked)
  BY <1>12, <1>14, <1>15, <1>16, Zenon DEF MoreOf
<1> QED
  BY <1>1, <1>7, <1>13, <1>17, Zenon DEF IInv, CoreInv, MoreInv

\* load_elf's mapping of a segment's part in the file keeps the invariant.
LEMMA MapSegmentStep == IInv /\ MapSegment => IInv'
<1> SUFFICES ASSUME IInv, MapSegment PROVE IInv'
  OBVIOUS
<1>1. stage[1] = "map" /\ handles' = handles
  BY ZenonT(40) DEF MapSegment
<1>2. /\ Sound(m, handles, 1, 0) /\ KernelFine(m.pt, stage) /\ Ledger(m, 0)
      /\ m.panic = "none" /\ StageFine(stage) /\ HandlesFine(handles, stage)
      /\ BreakFine(current, stage) /\ asked \in [UserPages -> SUBSET All]
      /\ RightsOf(m, asked) /\ EndOf(m.pt, stage, current)
      /\ EnoughPages /\ SegmentsFit => UsedOf(m.vmr, stage)
  BY <1>1, LoadReady
<1>3. PICK i \in 1 .. Len(Segments) : i = stage[2]
  BY <1>1, <1>2 DEF StageFine
<1>4. PICK seg : seg = Segments[i]
  OBVIOUS
<1>5. PICK pad \in Nat : pad = seg.vaddr % PGSIZE /\ seg.offset - pad \in Nat
  BY <1>4, SegmentFacts
<1>6. PICK base \in Nat : base = Base(seg) /\ base % PGSIZE = 0
  BY <1>4, SegmentFacts
<1>7. PICK len \in Nat : len = InFile(seg) /\ len > 0
  BY <1>4, SegmentFacts
<1>8. PICK next : next = <<"bss", i>>
  OBVIOUS
<1>9. PICK r : r = IF mmap_result(m, base, len, TRUE) = base
                   THEN do_mmap_at(m, base, len, All, pad # 0, Min(handles), seg.offset - pad)
                   ELSE Panic("fail to memory map a section header")
  OBVIOUS
<1>10. PICK mem : mem = [x \in User |-> IF x \in base .. seg.vaddr - 1 THEN Zero ELSE r.mem[x]]
  OBVIOUS
<1>11. PICK t : t = [r EXCEPT !.mem = mem]
  OBVIOUS
<1>12. PICK new : new = Asked(base, len, All)
  OBVIOUS
<1>13. Effect(next, t, current, new)
  <2>1. base = seg.vaddr - pad /\ len = seg.filesz + pad
    BY <1>5, <1>6, <1>7 DEF Base, InFile
  <2> QED
    BY <1>3, <1>4, <1>5, <1>8, <1>9, <1>10, <1>11, <1>12, <2>1, ZenonT(40) DEF MapSegment
<1>14. /\ next[1] = "bss" /\ next[2] = i
  BY <1>8
<1>15. handles \in SUBSET FileIds /\ Min(handles) \in handles
  <2>1. handles \subseteq FileIds /\ handles # {}
    BY <1>1, <1>2 DEF HandlesFine
  <2>2. handles \subseteq Nat
    BY <2>1, PageFacts
  <2> QED
    BY <2>1, <2>2, Least, Zenon
<1>16. CASE mmap_result(m, base, len, TRUE) = base
  <2>1. PICK f \in handles : f = Min(handles)
    BY <1>15
  <2>2. PICK o \in Nat : o = seg.offset - pad
    BY <1>5
  <2>3. PICK populate \in BOOLEAN : populate = (pad # 0)
    OBVIOUS
  <2>4. r = do_mmap_at(m, base, len, All, populate, f, o)
    BY <1>9, <1>16, <2>1, <2>2, <2>3
  <2>5. Granted(m, base, len)
    BY <1>16, GrantedFixed
  <2>6. KernelFine(m.pt, next)
    BY <1>2, <1>14 DEF KernelFine
  <2>7. Loaded(m, r, handles, next, new, base, len)
    <3>1. f \in {0} \cup handles
      BY <2>1
    <3>2. EnoughPages => m.panic = "none"
      BY <1>2
    <3> QED
      BY <1>2, <1>7, <1>12, <1>15, <2>4, <2>5, <2>6, <3>1, <3>2, LoadCall
  <2>8. /\ Sound(r, handles, 1, 0) /\ KernelFine(r.pt, next) /\ Ledger(r, 0)
        /\ RightsOf(r, new) /\ new \in [UserPages -> SUBSET All]
        /\ EnoughPages => NoAssert(r.panic)
        /\ \A p \in UserPages : p \notin PagesOf(base, len) => r.pt[p] = m.pt[p]
        /\ Cardinality(Used(r.vmr)) <= Cardinality(Used(m.vmr)) + 1
    BY <2>7, Zenon DEF Loaded
  <2>9. r \in Machines /\ mem \in [User -> Units]
    <3>1. r \in Machines /\ r.mem \in [User -> Units]
      BY <2>8, MachineFields DEF Sound
    <3>2. Zero \in Units
      BY DEF Zero, Units
    <3> QED
      BY <1>10, <3>1, <3>2
  <2>10. /\ t \in Machines /\ t.pt = r.pt /\ t.vmr = r.vmr /\ t.files = r.files
         /\ t.panic = r.panic /\ SameBooks(r, t)
    BY <1>11, <2>9 DEF Machines, SameBooks
  <2>11. Sound(t, handles', 1, 0)
    BY <1>1, <2>8, <2>10 DEF Sound
  <2>12. Ledger(t, One(next[1] = "run"))
    <3>1. One(next[1] = "run") = 0
      BY <1>14 DEF One
    <3>2. Ledger(t, 0)
      BY <2>8, <2>10, Zenon DEF Ledger, SameBooks
    <3> QED
      BY <3>1, <3>2, Zenon
  <2>13. KernelFine(t.pt, next)
    BY <2>8, <2>10
  <2>14. StageFine(next)
    <3>1. valid_user_range(Base(Segments[i]), InFile(Segments[i]))
      BY <1>4, <1>6, <1>7, <2>5 DEF Granted
    <3> QED
      BY <1>14, <3>1 DEF StageFine
  <2>15. HandlesFine(handles', next) /\ BreakFine(current, next)
    BY <1>1, <1>2, <1>14 DEF HandlesFine, BreakFine
  <2>16. next[1] \notin {"off", "open"}
    BY <1>14
  <2>17. CoreInv'
    BY <1>13, <2>8, <2>11, <2>12, <2>13, <2>14, <2>15, <2>16, EffectCore
  <2>18. RightsOf(t, new)
    BY <2>8, <2>10 DEF RightsOf
  <2>19. EndOf(t.pt, next, current)
    <3>1. ASSUME NEW p \in UserPages, t.pt[p].kind # "none"
          PROVE  PGSIZE * p < current.brk_min \/ PGSIZE * p < base + len
      <4>1. CASE p \in PagesOf(base, len)
        <5>1. p \in Nat
          BY PageFacts
        <5> QED
          BY <1>6, <1>7, <4>1, <5>1, InRange
      <4>2. CASE p \notin PagesOf(base, len)
        <5>1. m.pt[p].kind # "none"
          BY <2>8, <2>10, <3>1, <4>2
        <5> QED
          BY <1>1, <1>2, <5>1 DEF EndOf
      <4> QED
        BY <4>1, <4>2
    <3> QED
      BY <1>4, <1>6, <1>7, <1>14, <3>1 DEF EndOf
  <2>20. EnoughPages /\ SegmentsFit => UsedOf(t.vmr, next) /\ NoAssert(t.panic)
    <3> SUFFICES ASSUME EnoughPages, SegmentsFit PROVE UsedOf(t.vmr, next) /\ NoAssert(t.panic)
      OBVIOUS
    <3>1. Cardinality(Used(m.vmr)) <= 2 * (Len(Segments) - i)
      BY <1>1, <1>2, <1>3 DEF UsedOf
    <3>2. m \in Machines
      BY <1>2 DEF Sound
    <3>3. Cardinality(Used(m.vmr)) \in Nat /\ Cardinality(Used(t.vmr)) \in Nat
      BY <2>10, <3>2, UsedCount
    <3>4. Len(Segments) \in Nat
      BY SegmentFacts
    <3>5. Cardinality(Used(t.vmr)) <= 2 * (Len(Segments) - i) + 1
      BY <2>8, <2>10, <3>1, <3>3, <3>4
    <3> QED
      BY <1>14, <2>8, <2>10, <3>5 DEF UsedOf
  <2>21. Sound(t, handles, 1, 0)
    BY <1>1, <2>11
  <2>22. MoreInv'
    BY <1>13, <2>18, <2>19, <2>20, <2>21, EffectMore
  <2> QED
    BY <2>17, <2>22 DEF IInv
<1>17. CASE mmap_result(m, base, len, TRUE) # base
  <2>1. r = kassert(m, FALSE, "fail to memory map a section header")
    BY <1>9, <1>17 DEF Panic
  <2>2. r.panic = "fail to memory map a section header"
    BY <1>2, <2>1, PanicFine, PanicLabels
  <2>3. t.panic = r.panic
    <3>1. r = [m EXCEPT !.panic = "fail to memory map a section header"] /\ m \in Machines
      BY <1>2, <2>1 DEF kassert, Sound
    <3> QED
      BY <1>11, <3>1 DEF Machines
  <2>4. ~SegmentsFit \/ ~EnoughPages
    <3> SUFFICES ASSUME SegmentsFit, EnoughPages PROVE FALSE
      OBVIOUS
    <3>1. Cardinality(Used(m.vmr)) <= 2 * (Len(Segments) - i) /\ 2 * Len(Segments) < MAX_VMR
      BY <1>1, <1>2, <1>3 DEF UsedOf, SegmentsFit
    <3>2. m \in Machines
      BY <1>2 DEF Sound
    <3>3. Cardinality(Used(m.vmr)) \in Nat /\ Len(Segments) \in Nat
      BY <3>2, UsedCount, SegmentFacts
    <3>4. FreeVmrs(m) # {}
      <4>1. Cardinality(Used(m.vmr)) < MAX_VMR
        BY <3>1, <3>3, Sizes
      <4> QED
        BY <3>2, <4>1, UsedCount
    <3>5. valid_user_range(base, len)
      <4>1. FirstFree <= base /\ seg.vaddr + seg.memsz <= MmapMax
        BY <1>4, <1>6 DEF SegmentsFit
      <4>2. /\ base + len = seg.vaddr + seg.filesz /\ seg.filesz <= seg.memsz
            /\ seg.vaddr \in Nat /\ seg.filesz \in Nat /\ seg.memsz \in Nat
        BY <1>4, <1>6, <1>7, SegmentFacts
      <4> QED
        BY <4>1, <4>2, Sizes DEF valid_user_range
    <3> QED
      BY <1>6, <1>17, <3>4, <3>5, FixedResult
  <2>5. t.panic \in Labels \ {"none"} /\ handles' \in SUBSET FileIds
    BY <1>1, <1>15, <2>2, <2>3, PanicLabels
  <2> QED
    BY <1>13, <2>4, <2>5, EffectOff
<1> QED
  BY <1>16, <1>17

\* The greater of two numbers.
LEMMA MaxOfTwo == \A a, b \in Int : Max({a, b}) = IF a <= b THEN b ELSE a
<1> SUFFICES ASSUME NEW a \in Int, NEW b \in Int PROVE Max({a, b}) = IF a <= b THEN b ELSE a
  OBVIOUS
<1>1. PICK x : x = Max({a, b})
  OBVIOUS
<1>2. x = CHOOSE y \in {a, b} : \A z \in {a, b} : y >= z
  BY <1>1 DEF Max
<1>3. \E y \in {a, b} : \A z \in {a, b} : y >= z
  BY DEF Max
<1>4. x \in {a, b} /\ \A z \in {a, b} : x >= z
  BY <1>2, <1>3
<1> QED
  BY <1>1, <1>4

\* The part of a segment that is not in the file starts a page, behind the
\* part that is.
LEMMA BssFacts ==
    ASSUME NEW i \in 1 .. Len(Segments), NEW seg, seg = Segments[i]
    PROVE  /\ ROUNDUP(InFile(seg)) \in Nat /\ InFile(seg) <= ROUNDUP(InFile(seg))
           /\ Base(seg) + ROUNDUP(InFile(seg)) \in Nat
           /\ (Base(seg) + ROUNDUP(InFile(seg))) % PGSIZE = 0
           /\ Base(seg) + InFile(seg) <= MmapMax
              => Base(seg) + ROUNDUP(InFile(seg)) <= MmapMax
<1>1. PICK len \in Nat : len = InFile(seg)
  BY SegmentFacts
<1>2. PICK base \in Nat : base = Base(seg) /\ base % PGSIZE = 0
  BY SegmentFacts
<1>3. PICK f \in Int : base = PGSIZE * f
  <2>1. /\ base \div PGSIZE \in Int /\ PGSIZE * (base \div PGSIZE) \in Int
        /\ base % PGSIZE = base - PGSIZE * (base \div PGSIZE)
    BY Sizes, Divides
  <2>2. base = PGSIZE * (base \div PGSIZE)
    BY <1>2, <2>1
  <2> QED
    BY <2>1, <2>2
<1>4. PICK n \in Nat : n = NPage(len) /\ ROUNDUP(len) = PGSIZE * n /\ len <= PGSIZE * n
  BY NPages
<1>5. PGSIZE * n \in Nat
  BY Sizes
<1>6. base + PGSIZE * n = PGSIZE * (f + n) /\ (PGSIZE * (f + n)) % PGSIZE = 0
  <2>1. f + n \in Int /\ n \in Int
    OBVIOUS
  <2> QED
    BY <1>3, <2>1, Sizes, Multiples
<1>7. PICK z \in Nat : MmapMax = PGSIZE * z
  BY Bounds
<1>8. ASSUME base + len <= MmapMax PROVE base + PGSIZE * n <= MmapMax
  <2>1. PGSIZE * f + len <= PGSIZE * z
    BY <1>3, <1>7, <1>8
  <2>2. f + n <= z
    BY <1>4, <2>1, PagesWithin
  <2>3. PGSIZE * (f + n) <= PGSIZE * z
    BY <2>2, Sizes, Multiples
  <2> QED
    BY <1>6, <1>7, <2>3
<1> QED
  BY <1>1, <1>2, <1>4, <1>5, <1>6, <1>8, SMTT(40)

\* load_elf's mapping of the rest of a segment keeps the invariant.
LEMMA MapBssStep == IInv /\ MapBss => IInv'
<1> SUFFICES ASSUME IInv, MapBss PROVE IInv'
  OBVIOUS
<1>1. stage[1] = "bss" /\ handles' = handles
  BY DEF MapBss
<1>2. /\ Sound(m, handles, 1, 0) /\ KernelFine(m.pt, stage) /\ Ledger(m, 0)
      /\ m.panic = "none" /\ StageFine(stage) /\ HandlesFine(handles, stage)
      /\ BreakFine(current, stage) /\ asked \in [UserPages -> SUBSET All]
      /\ RightsOf(m, asked) /\ EndOf(m.pt, stage, current)
      /\ EnoughPages /\ SegmentsFit => UsedOf(m.vmr, stage)
  BY <1>1, LoadReady
<1>3. PICK i \in 1 .. Len(Segments) :
        i = stage[2] /\ valid_user_range(Base(Segments[i]), InFile(Segments[i]))
  BY <1>1, <1>2 DEF StageFine
<1>4. PICK seg : seg = Segments[i]
  OBVIOUS
<1>5. PICK size \in Nat : size = InFile(seg)
  BY <1>4, SegmentFacts
<1>6. PICK base \in Nat : base = Base(seg) /\ FirstFree <= base /\ base + size <= MmapMax
  <2>1. Base(seg) \in Nat
    BY <1>4, SegmentFacts
  <2> QED
    BY <1>3, <1>4, <1>5, <2>1 DEF valid_user_range
<1>7. PICK at \in Nat : /\ at = base + ROUNDUP(size) /\ at % PGSIZE = 0
                        /\ base + size <= at /\ at <= MmapMax
  <2>1. /\ ROUNDUP(size) \in Nat /\ size <= ROUNDUP(size)
        /\ base + ROUNDUP(size) \in Nat
        /\ (base + ROUNDUP(size)) % PGSIZE = 0
        /\ base + size <= MmapMax => base + ROUNDUP(size) <= MmapMax
    BY <1>4, <1>5, <1>6, BssFacts
  <2> QED
    BY <1>6, <2>1
<1>8. PICK end \in Nat : end = seg.vaddr + seg.memsz /\ base + size <= end
  <2>1. /\ seg.vaddr \in Nat /\ seg.filesz \in Nat /\ seg.memsz \in Nat
        /\ base + size = seg.vaddr + seg.filesz /\ seg.filesz <= seg.memsz
    BY <1>4, <1>5, <1>6, SegmentFacts
  <2>2. seg.vaddr + seg.memsz \in Nat /\ base + size <= seg.vaddr + seg.memsz
    BY <2>1
  <2> QED
    BY <2>2
<1>9. PICK len \in Int : len = end - at
  BY <1>7, <1>8
<1>10. PICK next : next = IF i = 1 THEN <<"close", 0>> ELSE <<"map", i - 1>>
  OBVIOUS
<1>11. PICK r : r = IF len <= 0 THEN m
                    ELSE IF mmap_result(m, at, len, TRUE) = at
                         THEN do_mmap_at(m, at, len, All, FALSE, 0, 0)
                         ELSE Panic("fail to memory map a section")
  OBVIOUS
<1>12. PICK cur : cur = [current EXCEPT !.brk_min = Max({current.brk_min, end})]
  OBVIOUS
<1>13. PICK new : new = IF len <= 0 THEN asked ELSE Asked(at, len, All)
  OBVIOUS
<1>14. Effect(next, r, cur, new)
  <2>1. PICK pad \in Nat : pad = seg.vaddr % PGSIZE
    BY <1>4, SegmentFacts
  <2>2. /\ seg.vaddr \in Nat /\ seg.filesz \in Nat /\ seg.memsz \in Nat
    BY <1>4, SegmentFacts
  <2>3. size = seg.filesz + pad /\ base = seg.vaddr - pad
    BY <1>5, <1>6, <2>1 DEF Base, InFile
  <2>4. PICK mapped : mapped = ROUNDUP(size) - pad
    OBVIOUS
  <2>5. seg.vaddr + mapped = at /\ seg.memsz - mapped = len
    <3>1. ROUNDUP(size) \in Nat
      BY <1>4, <1>5, BssFacts
    <3>2. PICK w \in Int : w = ROUNDUP(size)
      BY <3>1
    <3>3. at = base + w /\ mapped = w - pad /\ end = seg.vaddr + seg.memsz /\ len = end - at
          /\ base = seg.vaddr - pad
      BY <1>7, <1>8, <1>9, <2>3, <2>4, <3>2
    <3>4. \A v, y, p \in Int : v + (w - p) = (v - p) + w /\ y - (w - p) = (v + y) - ((v - p) + w)
      BY <3>2
    <3>5. seg.vaddr \in Int /\ seg.memsz \in Int /\ pad \in Int
      BY <2>1, <2>2
    <3>6. /\ seg.vaddr + (w - pad) = (seg.vaddr - pad) + w
          /\ seg.memsz - (w - pad) = (seg.vaddr + seg.memsz) - ((seg.vaddr - pad) + w)
      BY <3>4, <3>5, SMTT(40)
    <3> QED
      BY <3>3, <3>6, Zenon
  <2> QED
    BY <1>3, <1>4, <1>8, <1>10, <1>11, <1>12, <1>13, <2>1, <2>3, <2>4, <2>5, ZenonT(40) DEF MapBss
<1>15. /\ next[1] \in {"map", "close"}
       /\ next[1] = "map" => next[2] = i - 1 /\ i # 1
       /\ next[1] = "close" => i = 1
  BY <1>10
<1>16. Len(Segments) \in Nat /\ m \in Machines
  BY <1>2, SegmentFacts DEF Sound
<1>17. handles \in SUBSET FileIds
  BY <1>2 DEF HandlesFine
<1>18. CASE len > 0 /\ mmap_result(m, at, len, TRUE) # at
  <2>1. r = Panic("fail to memory map a section")
    <3>1. ~(len <= 0)
      BY <1>9, <1>18
    <3> QED
      BY <1>11, <1>18, <3>1, Zenon
  <2>2. r.panic = "fail to memory map a section"
    BY <1>2, <2>1, PanicFine, PanicLabels DEF Panic
  <2>3. ~SegmentsFit \/ ~EnoughPages
    <3> SUFFICES ASSUME SegmentsFit, EnoughPages PROVE FALSE
      OBVIOUS
    <3>1. Cardinality(Used(m.vmr)) <= 2 * (Len(Segments) - i) + 1 /\ 2 * Len(Segments) < MAX_VMR
      BY <1>1, <1>2, <1>3 DEF UsedOf, SegmentsFit
    <3>2. Cardinality(Used(m.vmr)) \in Nat
      BY <1>16, UsedCount
    <3>3. FreeVmrs(m) # {}
      <4>1. Cardinality(Used(m.vmr)) < MAX_VMR
        BY <1>16, <3>1, <3>2, Sizes
      <4> QED
        BY <1>16, <4>1, UsedCount
    <3>4. valid_user_range(at, len)
      <4>1. end <= MmapMax
        BY <1>4, <1>8 DEF SegmentsFit
      <4> QED
        BY <1>6, <1>7, <1>9, <4>1, Sizes, SMTT(40) DEF valid_user_range
    <3> QED
      BY <1>7, <1>18, <3>3, <3>4, FixedResult
  <2>4. r.panic \in Labels \ {"none"} /\ handles' \in SUBSET FileIds
    BY <1>1, <1>17, <2>2, PanicLabels
  <2> QED
    BY <1>14, <2>3, <2>4, EffectOff
<1>19. CASE len <= 0 \/ mmap_result(m, at, len, TRUE) = at
  <2>1. /\ Sound(r, handles, 1, 0) /\ KernelFine(r.pt, next) /\ Ledger(r, 0)
        /\ RightsOf(r, new) /\ new \in [UserPages -> SUBSET All]
        /\ EnoughPages => NoAssert(r.panic)
        /\ \A p \in UserPages : r.pt[p].kind # "none" => m.pt[p].kind # "none" \/ PGSIZE * p < end
        /\ Cardinality(Used(r.vmr)) <= Cardinality(Used(m.vmr)) + 1 /\ end <= MmapMax
    <3>0. KernelFine(m.pt, next)
      BY <1>2, <1>15 DEF KernelFine
    <3>1. CASE len <= 0
      <4>1. r = m /\ new = asked
        BY <1>11, <1>13, <3>1
      <4>2. Cardinality(Used(m.vmr)) \in Nat
        BY <1>16, UsedCount
      <4>3. end <= MmapMax
        BY <1>7, <1>8, <1>9, <3>1, Sizes, SMTT(40)
      <4>4. Cardinality(Used(r.vmr)) <= Cardinality(Used(m.vmr)) + 1
        BY <4>1, <4>2
      <4>5. /\ Sound(r, handles, 1, 0) /\ KernelFine(r.pt, next) /\ Ledger(r, 0)
            /\ RightsOf(r, new) /\ new \in [UserPages -> SUBSET All] /\ NoAssert(r.panic)
            /\ r.pt = m.pt
        BY <1>2, <3>0, <4>1, PanicLabels
      <4> QED
        BY <4>3, <4>4, <4>5
    <3>2. CASE len > 0
      <4>1. len \in Nat /\ ~(len <= 0)
        BY <1>9, <3>2
      <4>2. r = do_mmap_at(m, at, len, All, FALSE, 0, 0) /\ new = Asked(at, len, All)
        BY <1>11, <1>13, <1>19, <4>1
      <4>3. Granted(m, at, len)
        BY <1>19, <4>1, GrantedFixed
      <4>4. Loaded(m, r, handles, next, new, at, len)
        <5>1. 0 \in {0} \cup handles /\ 0 \in Nat /\ FALSE \in BOOLEAN
          OBVIOUS
        <5>2. EnoughPages => m.panic = "none"
          BY <1>2
        <5> QED
          BY <1>2, <1>17, <3>0, <3>2, <4>1, <4>2, <4>3, <5>1, <5>2, LoadCall
      <4>5. /\ Sound(r, handles, 1, 0) /\ KernelFine(r.pt, next) /\ Ledger(r, 0)
            /\ RightsOf(r, new) /\ new \in [UserPages -> SUBSET All]
            /\ EnoughPages => NoAssert(r.panic)
            /\ \A p \in UserPages : p \notin PagesOf(at, len) => r.pt[p] = m.pt[p]
            /\ Cardinality(Used(r.vmr)) <= Cardinality(Used(m.vmr)) + 1
        BY <4>4, Zenon DEF Loaded
      <4>6. ASSUME NEW p \in UserPages, r.pt[p].kind # "none"
            PROVE  m.pt[p].kind # "none" \/ PGSIZE * p < end
        <5>1. CASE p \in PagesOf(at, len)
          <6>1. p \in Nat
            BY PageFacts
          <6>2. PGSIZE * p < at + len
            BY <1>7, <4>1, <5>1, <6>1, InRange
          <6> QED
            BY <1>7, <1>8, <1>9, <6>2
        <5>2. CASE p \notin PagesOf(at, len)
          BY <4>5, <4>6, <5>2
        <5> QED
          BY <5>1, <5>2
      <4>7. end <= MmapMax
        BY <1>7, <1>8, <1>9, <4>3, Sizes DEF Granted, valid_user_range
      <4> QED
        BY <4>5, <4>6, <4>7
    <3> QED
      BY <1>9, <3>1, <3>2
  <2>2. PICK low \in Int : /\ low = Max({current.brk_min, end}) /\ low \in FirstFree .. MmapMax
                           /\ low \in 0 .. MmapMax
                           /\ current.brk_min <= low /\ end <= low
    <3>1. current.brk_min \in Int /\ 0 <= current.brk_min /\ current.brk_min <= MmapMax
      BY <1>2, Sizes DEF BreakFine, Breaks
    <3>2. Max({current.brk_min, end}) = IF current.brk_min <= end THEN end ELSE current.brk_min
      BY <1>8, <3>1, MaxOfTwo
    <3>3. FirstFree <= end /\ end <= MmapMax
      BY <1>5, <1>6, <1>8, <2>1, Sizes
    <3> QED
      BY <1>8, <3>1, <3>2, <3>3, Sizes
  <2>3. /\ cur.brk_min = low /\ cur.brk = current.brk /\ cur \in Breaks
    <3>1. cur = [current EXCEPT !.brk_min = low] /\ current \in Breaks
      BY <1>2, <1>12, <2>2 DEF BreakFine
    <3> QED
      BY <2>2, <3>1 DEF Breaks
  <2>4. BreakFine(cur, next)
    BY <1>1, <1>2, <1>15, <2>2, <2>3, Sizes DEF BreakFine
  <2>5. StageFine(next)
    BY <1>15, <1>16 DEF StageFine
  <2>6. HandlesFine(handles', next) /\ Sound(r, handles', 1, 0)
    BY <1>1, <1>2, <1>15, <2>1 DEF HandlesFine
  <2>7. Ledger(r, One(next[1] = "run"))
    <3>1. One(next[1] = "run") = 0
      BY <1>15 DEF One
    <3> QED
      BY <2>1, <3>1, Zenon
  <2>8. next[1] \notin {"off", "open"}
    BY <1>15
  <2>9. CoreInv'
    BY <1>14, <2>1, <2>4, <2>5, <2>6, <2>7, <2>8, EffectCore
  <2>10. EndOf(r.pt, next, cur)
    <3>1. ASSUME NEW p \in UserPages, r.pt[p].kind # "none"
          PROVE  PGSIZE * p < cur.brk_min
      <4>1. PGSIZE * p \in Int
        BY PageFacts, Sizes
      <4>2. CASE m.pt[p].kind # "none"
        <5>1. PGSIZE * p < current.brk_min \/ PGSIZE * p < base + size
          BY <1>1, <1>2, <1>3, <1>4, <1>5, <1>6, <4>2 DEF EndOf
        <5>2. current.brk_min \in Int
          BY <1>2 DEF BreakFine, Breaks
        <5> QED
          BY <1>8, <2>2, <2>3, <4>1, <5>1, <5>2
      <4>3. CASE PGSIZE * p < end
        BY <1>8, <2>2, <2>3, <4>1, <4>3
      <4> QED
        BY <2>1, <3>1, <4>2, <4>3
    <3> QED
      BY <1>15, <3>1 DEF EndOf
  <2>11. EnoughPages /\ SegmentsFit => UsedOf(r.vmr, next) /\ NoAssert(r.panic)
    <3> SUFFICES ASSUME EnoughPages, SegmentsFit PROVE UsedOf(r.vmr, next) /\ NoAssert(r.panic)
      OBVIOUS
    <3>1. Cardinality(Used(m.vmr)) <= 2 * (Len(Segments) - i) + 1
      BY <1>1, <1>2, <1>3 DEF UsedOf
    <3>2. r \in Machines
      BY <2>1 DEF Sound
    <3>3. Cardinality(Used(m.vmr)) \in Nat /\ Cardinality(Used(r.vmr)) \in Nat
      BY <1>16, <3>2, UsedCount
    <3>4. Cardinality(Used(r.vmr)) <= 2 * (Len(Segments) - i) + 2
      BY <1>16, <2>1, <3>1, <3>3
    <3>5. next[1] = "map" => Cardinality(Used(r.vmr)) <= 2 * (Len(Segments) - next[2])
      BY <1>15, <1>16, <3>3, <3>4
    <3>6. next[1] = "close" => Cardinality(Used(r.vmr)) <= 2 * Len(Segments)
      BY <1>15, <1>16, <3>3, <3>4
    <3> QED
      BY <1>15, <2>1, <3>5, <3>6 DEF UsedOf
  <2>12. MoreInv'
    BY <1>14, <2>1, <2>10, <2>11, EffectMore
  <2> QED
    BY <2>9, <2>12 DEF IInv
<1>20. len <= 0 \/ len > 0
  BY <1>9
<1> QED
  BY <1>18, <1>19, <1>20

\* pk_vm_init's own page is the last one.
LEMMA LastPage ==
    ASSUME NEW s, s \in Machines, NEW t, t = page_alloc(s), Ledger(s, 0)
    PROVE  Ledger(t, 1) /\ (EnoughPages => t.panic = s.panic)
<1>1. /\ t.root = s.root /\ t.vmrs = s.vmrs /\ t.tables = s.tables
      /\ t.next = s.next + 1
      /\ s.next # FREE_PAGES => t.panic = s.panic
  BY PageAlloc
<1>2. PICK c \in Nat : c = Cardinality(s.tables) /\ c <= (Last \div PTES) + 1
  <2>1. s.tables \in SUBSET Tables
    BY MachineFields
  <2>2. PICK d \in Nat : d = Last \div PTES
    BY PageFacts
  <2>3. Cardinality(Tables) = d + 1 /\ IsFiniteSet(Tables)
    <3>1. Tables = 0 .. d /\ 0 \in Int /\ d \in Int
      BY <2>2 DEF Tables
    <3>2. Cardinality(0 .. d) = d - 0 + 1 /\ IsFiniteSet(0 .. d)
      BY <3>1, FS_Interval
    <3> QED
      BY <2>2, <3>1, <3>2
  <2>4. Cardinality(s.tables) \in Nat
    BY <2>1, Counting
  <2>5. Cardinality(s.tables) <= Cardinality(Tables)
    BY <2>1, <2>3, FS_Subset
  <2> QED
    BY <2>2, <2>3, <2>4, <2>5
<1>3. PICK a \in {0, 1}, b \in {0, 1} : a = One(s.root) /\ b = One(s.vmrs)
  BY DEF One
<1>4. s.next = a + b + c + 0
  BY <1>2, <1>3, Zenon DEF Ledger
<1>5. Ledger(t, 1)
  <2>1. t.next = a + b + c + 1
    BY <1>1, <1>4
  <2> QED
    BY <1>1, <1>2, <1>3, <2>1, Zenon DEF Ledger
<1>6. ASSUME EnoughPages PROVE t.panic = s.panic
  <2>1. PICK d \in Nat : d = Last \div PTES
    BY PageFacts
  <2>2. d + 4 <= FREE_PAGES /\ FREE_PAGES \in Nat
    BY <1>6, <2>1, Sizes DEF EnoughPages
  <2>3. c <= d + 1
    BY <1>2, <2>1
  <2>4. s.next # FREE_PAGES
    BY <1>3, <1>4, <2>2, <2>3
  <2> QED
    BY <1>1, <2>4
<1> QED
  BY <1>5, <1>6

\* The stack lies below the end of the program's memory.
LEMMA StackFacts ==
    /\ MmapMax - StackSize \in Nat /\ (MmapMax - StackSize) % PGSIZE = 0
    /\ valid_user_range(MmapMax - StackSize, StackSize)
<1>1. PICK z \in Nat, k \in Nat : MmapMax = PGSIZE * z /\ StackSize = PGSIZE * k
  BY Bounds
<1>2. MmapMax - StackSize = PGSIZE * (z - k) /\ (PGSIZE * (z - k)) % PGSIZE = 0
  <2>1. z - k \in Int /\ z \in Int /\ k \in Int
    OBVIOUS
  <2> QED
    BY <1>1, <2>1, Sizes, Multiples
<1>3. MmapMax - StackSize \in Nat /\ FirstFree <= MmapMax - StackSize
      /\ MmapMax - StackSize + StackSize = MmapMax
  BY Sizes
<1> QED
  BY <1>2, <1>3, Sizes DEF valid_user_range

\* The kernel's own pages are mapped, below the program's and above them.
KernelThere(s, k) ==
    /\ Sound(k, {}, 1, 0) /\ Steady(s, k, 0) /\ k.vmr = s.vmr /\ k.mem = s.mem
    /\ \A p \in UserPages : k.pt[p] = s.pt[p]
    /\ \A p \in Pages \ UserPages : k.pt[p].kind = "page"

\* vm_init's two ranges of the kernel's pages.
LEMMA KernelMap ==
    ASSUME NEW s, Sound(s, {}, 1, 0), NEW st, KernelFine(s.pt, st), NEW k,
           k = map_kernel_range(map_kernel_range(s, 0, FirstFree \div PGSIZE, All),
                                MmapMax \div PGSIZE, FREE_PAGES, {"r", "w"})
    PROVE  KernelThere(s, k)
<1>1. PICK b \in Nat, z \in Nat :
        /\ FirstFree \div PGSIZE = b /\ MmapMax \div PGSIZE = z
        /\ UserPages = b .. z - 1 /\ Pages = 0 .. z + FREE_PAGES - 1 /\ b <= z
  <2>1. PICK b \in Nat, z \in Nat, n \in Nat :
          /\ FirstFree \div PGSIZE = b /\ MmapMax \div PGSIZE = z /\ b + n <= z
          /\ UserPages = b .. z - 1 /\ Pages = 0 .. z + FREE_PAGES - 1
    BY Bounds
  <2>2. b <= z
    BY <2>1
  <2> QED
    BY <2>1, <2>2
<1>2. PICK x \in {0, 1} : x = 0
  OBVIOUS
<1>3. PICK all \in SUBSET All, rw \in SUBSET All : all = All /\ rw = {"r", "w"}
  BY DEF All
<1>4. PICK t : t = map_kernel_range(s, 0, b, all)
  OBVIOUS
<1>5. /\ 0 .. 0 + b - 1 \subseteq Pages
      /\ \A q \in 0 .. 0 + b - 1 : q \in Pages \ UserPages
      /\ z .. z + FREE_PAGES - 1 \subseteq Pages
      /\ \A q \in z .. z + FREE_PAGES - 1 : q \in Pages \ UserPages /\ q \notin 0 .. 0 + b - 1
  BY <1>1, Sizes
<1>6. Sound(t, {}, 1, 0) /\ KernelMapped(s, t, 0, b, all, x)
  <2>1. \A q \in 0 .. 0 + b - 1 : s.pt[q].kind # "lazy"
    BY <1>5 DEF KernelFine
  <2>2. 0 \in Int
    OBVIOUS
  <2> QED
    BY <1>4, <1>5, <2>1, <2>2, KernelRange
<1>7. /\ t.vmr = s.vmr /\ t.mem = s.mem /\ Steady(s, t, x)
      /\ \A q \in Pages : IF q \in 0 .. 0 + b - 1 THEN t.pt[q] = pte_create(all, FALSE)
                          ELSE t.pt[q] = s.pt[q]
  BY <1>6, Zenon DEF KernelMapped
<1>8. k = map_kernel_range(t, z, FREE_PAGES, rw)
  BY <1>1, <1>3, <1>4
<1>9. Sound(k, {}, 1, 0) /\ KernelMapped(t, k, z, FREE_PAGES, rw, x)
  <2>1. \A q \in z .. z + FREE_PAGES - 1 : t.pt[q].kind # "lazy"
    BY <1>5, <1>7 DEF KernelFine
  <2>2. z \in Int /\ FREE_PAGES \in Nat
    BY Sizes
  <2> QED
    BY <1>5, <1>6, <1>8, <2>1, <2>2, KernelRange, SMTT(40)
<1>10. /\ k.vmr = t.vmr /\ k.mem = t.mem /\ Steady(t, k, x)
       /\ \A q \in Pages : IF q \in z .. z + FREE_PAGES - 1 THEN k.pt[q] = pte_create(rw, FALSE)
                           ELSE k.pt[q] = t.pt[q]
  BY <1>9, Zenon DEF KernelMapped
<1>11. pte_create(all, FALSE).kind = "page" /\ pte_create(rw, FALSE).kind = "page"
  BY DEF pte_create, Free
<1>12. Steady(s, k, 0)
  BY <1>2, <1>7, <1>10, SteadyTwice
<1>13. \A p \in UserPages : p \in Pages /\ p \notin 0 .. 0 + b - 1 /\ p \notin z .. z + FREE_PAGES - 1
  BY <1>1, Sizes
<1>14. \A p \in UserPages : k.pt[p] = s.pt[p]
  BY <1>7, <1>10, <1>13
<1>15. \A p \in Pages \ UserPages : p \in 0 .. 0 + b - 1 \/ p \in z .. z + FREE_PAGES - 1
  BY <1>1, Sizes
<1>16. \A p \in Pages \ UserPages : k.pt[p].kind = "page"
  BY <1>7, <1>10, <1>11, <1>15
<1> QED
  BY <1>7, <1>9, <1>10, <1>12, <1>14, <1>16 DEF KernelThere

\* pk_vm_init keeps the invariant: the stack's assert holds.
LEMMA pk_vm_initStep == IInv /\ pk_vm_init => IInv'
<1> SUFFICES ASSUME IInv, pk_vm_init PROVE IInv'
  OBVIOUS
<1>1. stage[1] = "stack" /\ handles' = handles
  BY DEF pk_vm_init
<1>2. /\ Sound(m, handles, 1, 0) /\ KernelFine(m.pt, stage) /\ Ledger(m, 0)
      /\ m.panic = "none" /\ StageFine(stage) /\ HandlesFine(handles, stage)
      /\ BreakFine(current, stage) /\ asked \in [UserPages -> SUBSET All]
      /\ RightsOf(m, asked) /\ EndOf(m.pt, stage, current)
      /\ EnoughPages /\ SegmentsFit => UsedOf(m.vmr, stage)
  BY <1>1, LoadReady
<1>3. handles = {} /\ Sound(m, {}, 1, 0)
  BY <1>1, <1>2 DEF HandlesFine
<1>4. PICK k : k = map_kernel_range(map_kernel_range(m, 0, FirstFree \div PGSIZE, All),
                                    MmapMax \div PGSIZE, FREE_PAGES, {"r", "w"})
  OBVIOUS
<1>5. KernelThere(m, k)
  BY <1>2, <1>3, <1>4, KernelMap
<1>6. /\ Sound(k, {}, 1, 0) /\ k.vmr = m.vmr /\ Ledger(k, 0)
      /\ (EnoughPages => k.panic = "none")
      /\ \A p \in UserPages : k.pt[p] = m.pt[p]
      /\ \A p \in Pages \ UserPages : k.pt[p].kind = "page"
  BY <1>2, <1>5, Zenon DEF KernelThere, Steady
<1>7. PICK bottom \in Nat : /\ bottom = MmapMax - StackSize /\ bottom % PGSIZE = 0
                            /\ valid_user_range(bottom, StackSize)
  BY StackFacts
<1>8. PICK next : next = <<"run", 0>>
  OBVIOUS
<1>9. PICK u : u = IF mmap_result(k, bottom, StackSize, TRUE) = bottom
                   THEN do_mmap_at(k, bottom, StackSize, All, FALSE, 0, 0)
                   ELSE Panic("stack_bottom")
  OBVIOUS
<1>10. PICK r : r = page_alloc(u)
  OBVIOUS
<1>11. PICK new : new = Asked(bottom, StackSize, All)
  OBVIOUS
<1>12. Effect(next, r, current, new)
  BY <1>4, <1>7, <1>8, <1>9, <1>10, <1>11 DEF pk_vm_init
<1>13. next[1] = "run"
  BY <1>8
<1>14. CASE mmap_result(k, bottom, StackSize, TRUE) = bottom
  <2>1. u = do_mmap_at(k, bottom, StackSize, All, FALSE, 0, 0)
    BY <1>9, <1>14
  <2>2. Granted(k, bottom, StackSize) /\ StackSize \in Nat /\ StackSize > 0
    <3>1. StackSize \in Nat /\ StackSize > 0
      BY Sizes
    <3> QED
      BY <1>14, <3>1, GrantedFixed
  <2>3. KernelFine(k.pt, next)
    <3>1. \A p \in Pages : p < FirstFree \div PGSIZE => p \notin UserPages
      <4>1. PICK b \in Nat, z \in Nat : FirstFree \div PGSIZE = b /\ UserPages = b .. z - 1
        BY Bounds
      <4> QED
        BY <4>1, PageFacts
    <3> QED
      BY <1>6, <3>1 DEF KernelFine
  <2>4. RightsOf(k, asked)
    BY <1>2, <1>6 DEF RightsOf
  <2>5. Loaded(k, u, {}, next, new, bottom, StackSize)
    <3>1. 0 \in {0} \cup {} /\ 0 \in Nat /\ FALSE \in BOOLEAN /\ {} \in SUBSET FileIds
      OBVIOUS
    <3> QED
      BY <1>2, <1>6, <1>11, <2>1, <2>2, <2>3, <2>4, <3>1, LoadCall
  <2>6. /\ Sound(u, {}, 1, 0) /\ KernelFine(u.pt, next) /\ Ledger(u, 0)
        /\ RightsOf(u, new) /\ new \in [UserPages -> SUBSET All]
        /\ EnoughPages => NoAssert(u.panic)
        /\ \A p \in UserPages : p \notin PagesOf(bottom, StackSize) => u.pt[p] = k.pt[p]
    BY <2>5, Zenon DEF Loaded
  <2>7. u \in Machines
    BY <2>6 DEF Sound
  <2>8. /\ r \in Machines /\ r.pt = u.pt /\ r.vmr = u.vmr /\ r.files = u.files
    BY <1>10, <2>7, PageAlloc
  <2>9. Ledger(r, 1) /\ (EnoughPages => r.panic = u.panic)
    BY <1>10, <2>6, <2>7, LastPage
  <2>10. Sound(r, handles', 1, 0)
    BY <1>1, <1>3, <2>6, <2>8 DEF Sound
  <2>11. StageFine(next) /\ next[1] \notin {"off", "open"}
    BY <1>13 DEF StageFine
  <2>12. HandlesFine(handles', next)
    BY <1>1, <1>3, <1>13 DEF HandlesFine
  <2>13. BreakFine(current, next)
    BY <1>1, <1>2, <1>13 DEF BreakFine
  <2>14. Ledger(r, One(next[1] = "run"))
    <3>1. One(next[1] = "run") = 1
      BY <1>13 DEF One
    <3> QED
      BY <2>9, <3>1, Zenon
  <2>15. KernelFine(r.pt, next)
    BY <2>6, <2>8
  <2>16. CoreInv'
    BY <1>12, <2>6, <2>10, <2>11, <2>12, <2>13, <2>14, <2>15, EffectCore
  <2>17. RightsOf(r, new)
    BY <2>6, <2>8 DEF RightsOf
  <2>18. EndOf(r.pt, next, current)
    <3> SUFFICES ASSUME NEW p \in UserPages, r.pt[p].kind # "none",
                        PGSIZE * (p + 1) <= MmapMax - StackSize
                 PROVE  PGSIZE * p < Oldbrk(current)
      BY <1>13 DEF EndOf
    <3>1. p \in Nat /\ PGSIZE * p \in Int /\ PGSIZE * (p + 1) = PGSIZE * p + PGSIZE
      BY PageFacts, Sizes
    <3>2. p \notin PagesOf(bottom, StackSize)
      <4>1. PGSIZE * p < bottom
        BY <1>7, <3>1, Sizes
      <4>2. p \in PagesOf(bottom, StackSize) => bottom <= PGSIZE * p
        BY <1>7, <2>2, <3>1, InRange
      <4> QED
        BY <3>1, <4>1, <4>2
    <3>3. m.pt[p].kind # "none"
      BY <1>6, <2>6, <2>8, <3>2
    <3>4. PGSIZE * p < current.brk_min
      BY <1>1, <1>2, <3>3 DEF EndOf
    <3>5. current.brk = 0 /\ current.brk_min \in FirstFree .. MmapMax
      BY <1>1, <1>2, Sizes DEF BreakFine, Breaks
    <3>6. current.brk_min <= ROUNDUP(current.brk_min) /\ ROUNDUP(current.brk_min) \in Int
          /\ current.brk_min \in Int
      BY <3>5, RoundUpIn, Sizes
    <3>7. Oldbrk(current) = ROUNDUP(current.brk_min)
      BY <3>5 DEF Oldbrk
    <3> QED
      BY <3>1, <3>4, <3>6, <3>7
  <2>19. EnoughPages /\ SegmentsFit => UsedOf(r.vmr, next) /\ NoAssert(r.panic)
    BY <1>13, <2>6, <2>9 DEF UsedOf
  <2>20. MoreInv'
    BY <1>12, <2>10, <2>17, <2>18, <2>19, EffectMore
  <2> QED
    BY <2>16, <2>20 DEF IInv
<1>15. CASE mmap_result(k, bottom, StackSize, TRUE) # bottom
  <2>1. u = [m EXCEPT !.panic = "stack_bottom"] /\ m \in Machines
    BY <1>2, <1>9, <1>15 DEF Panic, kassert, Sound
  <2>2. u.panic = "stack_bottom"
    BY <2>1 DEF Machines
  <2>3. u \in Machines
    BY <2>1, PanicLabels DEF Machines
  <2>4. r.panic = "stack_bottom"
    <3>1. r = [u EXCEPT !.next = u.next + 1]
      BY <1>10, <2>2 DEF page_alloc, kassert
    <3> QED
      BY <2>2, <2>3, <3>1 DEF Machines
  <2>5. ~SegmentsFit \/ ~EnoughPages
    <3> SUFFICES ASSUME SegmentsFit, EnoughPages PROVE FALSE
      OBVIOUS
    <3>1. Cardinality(Used(m.vmr)) <= 2 * Len(Segments) /\ 2 * Len(Segments) < MAX_VMR
      BY <1>1, <1>2 DEF UsedOf, SegmentsFit
    <3>2. m \in Machines
      BY <1>2 DEF Sound
    <3>3. Cardinality(Used(m.vmr)) \in Nat /\ Len(Segments) \in Nat
      <4>1. Len(Segments) \in Nat
        <5>1. PICK S : S = [vaddr : Nat, filesz : Nat, memsz : Nat, offset : Nat]
          OBVIOUS
        <5>2. Segments \in Seq(S)
          BY <5>1, SegmentsAssumption, Zenon
        <5> QED
          BY <5>2
      <4> QED
        BY <3>2, <4>1, UsedCount
    <3>4. FreeVmrs(m) # {}
      <4>1. Cardinality(Used(m.vmr)) < MAX_VMR
        BY <3>1, <3>3, Sizes
      <4> QED
        BY <3>2, <4>1, UsedCount
    <3>5. FreeVmrs(k) # {}
      BY <1>6, <3>4 DEF FreeVmrs
    <3> QED
      BY <1>7, <1>15, <3>5, FixedResult
  <2>6. r.panic \in Labels \ {"none"} /\ handles' \in SUBSET FileIds
    BY <1>1, <1>3, <2>4, PanicLabels
  <2> QED
    BY <1>12, <2>5, <2>6, EffectOff
<1> QED
  BY <1>14, <1>15

-----------------------------------------------------------------------------
(* The invariant holds *)

\* The start has the invariant.
LEMMA InitIInv == Init => IInv
  BY InitCore, InitMore DEF IInv

\* Each call of the running program keeps the invariant.
LEMMA MemoryCallStep == IInv /\ MemoryCall => IInv'
<1> SUFFICES ASSUME IInv, MemoryCall PROVE IInv'
  OBVIOUS
<1>1. CASE \E addr \in {0} \cup UserAddrs, length \in Lengths, prot \in Prots,
              populate \in BOOLEAN, from \in {<< 0, 0 >>} \cup (handles \X Offsets) :
               do_mmap(addr, length, prot, addr # 0, populate, from[1], from[2])
  <2>1. PICK addr \in {0} \cup UserAddrs, length \in Lengths, prot \in Prots,
             populate \in BOOLEAN, from \in {<< 0, 0 >>} \cup (handles \X Offsets) :
          do_mmap(addr, length, prot, addr # 0, populate, from[1], from[2])
    BY <1>1
  <2>2. PICK fixed \in BOOLEAN : fixed = (addr # 0)
    OBVIOUS
  <2>0. from[1] \in {0} \cup handles /\ from[2] \in Nat
    <3>1. CASE from = << 0, 0 >>
      BY <3>1
    <3>2. CASE from \in handles \X Offsets
      BY <3>2, VmAssumption
    <3> QED
      BY <2>1, <3>1, <3>2
  <2>3. PICK file \in {0} \cup handles : file = from[1]
    BY <2>0
  <2>4. PICK offset \in Nat : offset = from[2]
    BY <2>0
  <2>5. do_mmap(addr, length, prot, fixed, populate, file, offset)
    BY <2>1, <2>2, <2>3, <2>4
  <2>6. fixed \/ addr = 0
    BY <2>2
  <2> QED
    BY <2>5, <2>6, <2>2, <2>3, <2>4, do_mmapStep
<1>2. CASE \E addr \in UserAddrs, length \in Lengths : do_munmap(addr, length)
  BY <1>2, do_munmapStep
<1>3. CASE \E addr \in UserAddrs, length \in Lengths : \E prot \in Prots : do_mprotect(addr, length, prot)
  BY <1>3, do_mprotectStep
<1>4. CASE \E addr \in 0 .. MmapMax : do_brk(addr)
  BY <1>4, do_brkStep
<1> QED
  BY <1>1, <1>2, <1>3, <1>4 DEF MemoryCall

\* A step that changes nothing keeps it.
LEMMA StutterIInv ==
    ASSUME IInv, UNCHANGED vars
    PROVE  IInv'
<1>1. m' = m /\ stage' = stage /\ current' = current /\ handles' = handles /\ asked' = asked
  BY DEF vars
<1> QED
  BY <1>1, Zenon DEF IInv, CoreInv, MoreInv

\* Every step keeps the invariant.
LEMMA NextIInv == IInv /\ [Next]_vars => IInv'
<1> SUFFICES ASSUME IInv, [Next]_vars PROVE IInv'
  OBVIOUS
<1>1. CASE Load
  BY <1>1, OpenElfStep, MapSegmentStep, MapBssStep, CloseElfStep, pk_vm_initStep, Zenon DEF Load
<1>2. CASE MemoryCall
  BY <1>2, MemoryCallStep
<1>3. CASE FileCall
  BY <1>3, open_fileStep, close_fileStep, Zenon DEF FileCall
<1>4. CASE Access
  BY <1>4, handle_page_faultStep, StoreToStep, Zenon DEF Access
<1>5. CASE UNCHANGED vars
  BY <1>5, StutterIInv
<1> QED
  BY <1>1, <1>2, <1>3, <1>4, <1>5 DEF Next

\* The inductive invariant: the counts of vm.c and file.c agree with the
\* page table, the allocator's account balances, and no page has more than
\* it was given.
THEOREM Invariance == Spec => []IInv
  BY InitIInv, NextIInv, PTL DEF Spec

-----------------------------------------------------------------------------

\* What the counts' theorems take from the invariant.
LEMMA SoundOn == IInv => Sound(m, IF stage[1] = "off" THEN {} ELSE handles, 1, 0)
                         /\ (m.panic = "none" => stage[1] # "off")
<1> SUFFICES ASSUME IInv
             PROVE  Sound(m, IF stage[1] = "off" THEN {} ELSE handles, 1, 0)
                    /\ (m.panic = "none" => stage[1] # "off")
  OBVIOUS
<1>1. CoreOf(m, stage, current, handles, asked)
  BY DEF IInv, CoreInv
<1>2. CASE stage[1] = "off"
  <2>1. m.panic \in Labels \ {"none"} /\ m = [PowerOn EXCEPT !.panic = m.panic]
    BY <1>1, <1>2, Zenon DEF CoreOf
  <2>2. Sound(m, {}, 1, 0)
    BY <2>1, PowerOnFine
  <2> QED
    BY <1>2, <2>1, <2>2
<1>3. CASE stage[1] # "off"
  <2>1. Sound(m, handles, 1, 0)
    BY <1>1, <1>3, Zenon DEF CoreOf
  <2> QED
    BY <1>3, <2>1
<1> QED
  BY <1>2, <1>3

\* A region counts the pages that wait for it (vmr_t.refcnt: __do_mmap sets
\* it, handle_page_fault and __do_munmap take from it), whatever the calls
\* and the sizes: none is freed while a page needs it and none is kept after
\* the last.
THEOREM VmrCountsHolds == Spec => []VmrCounts
<1>1. IInv => VmrCounts
  <2> SUFFICES ASSUME IInv, NEW v \in Vmrs
               PROVE  m.vmr[v].refcnt = Cardinality(Waits(m.pt, v))
    BY DEF VmrCounts, Waits
  <2>1. RegionsAgree(m.pt, m.vmr, 1, 0)
    BY SoundOn DEF Sound
  <2>2. Waits(m.pt, v) \in SUBSET Pages
    BY DEF Waits
  <2>3. Cardinality(Waits(m.pt, v)) \in Nat
    BY <2>2, Counting
  <2> QED
    BY <2>1, <2>3 DEF RegionsAgree
<1> QED
  BY <1>1, Invariance, PTL

\* A file is counted by those who have it open and by the regions that read
\* from it (file_t.refcnt in file.c, taken by __vmr_alloc and given back by
\* __vmr_decref): sys_close does not take a file from under a mapping.
THEOREM FileCountsHolds == Spec => []FileCounts
<1>1. IInv => FileCounts
  <2> SUFFICES ASSUME IInv, m.panic = "none", NEW f \in FileIds,
                      NEW users, users = Cardinality(Readers(m.vmr, f))
                                             + (IF f \in handles THEN 1 ELSE 0)
               PROVE  /\ m.files[f].refcnt = IF users = 0 THEN 0 ELSE users + 1
                      /\ m.files[f].open <=> users > 0
    BY DEF FileCounts, Readers
  <2>1. FilesAgree(m.vmr, m.files, handles)
    BY SoundOn DEF Sound
  <2>2. Readers(m.vmr, f) \in SUBSET Vmrs
    BY DEF Readers
  <2>3. Cardinality(Readers(m.vmr, f)) \in Nat
    BY <2>2, Counting
  <2>4. m.files[f] = Slot(users)
    BY <2>1 DEF FilesAgree
  <2>5. users \in Nat
    BY <2>3
  <2> QED
    BY <2>4, <2>5, SlotFree
<1> QED
  BY <1>1, Invariance, PTL

\* No page can be written or executed unless the call that mapped it asked
\* for that: do_mprotect in vm.c takes rights and never gives one, whether
\* the page waits or is there.
THEOREM NoRightGainedHolds == Spec => []NoRightGained
<1>1. IInv => NoRightGained
  <2> SUFFICES ASSUME IInv, NEW p \in UserPages
               PROVE  (CASE m.pt[p].kind = "none" -> {}
                         [] m.pt[p].kind = "page" -> m.pt[p].prot
                         [] m.pt[p].kind = "lazy" -> m.vmr[m.pt[p].v].prot)
                      \cap {"w", "x"} \subseteq asked[p]
    BY DEF NoRightGained
  <2>1. RightsOf(m, asked)
    BY DEF IInv, MoreInv, MoreOf
  <2>2. m.pt[p].kind \in {"none", "page", "lazy"}
    <3>1. m.pt \in [Pages -> Entries] /\ p \in Pages
      BY SoundOn, MachineFields, PageFacts DEF Sound
    <3> QED
      BY <3>1 DEF Entries, Kinds
  <2> QED
    BY <2>1, <2>2 DEF RightsOf
<1> QED
  BY <1>1, Invariance, PTL

\* The asserts of vm.c and elf.c (__page_alloc's, load_elf's two,
\* pk_vm_init's on the stack, and that of a populating call) hold for every
\* program whose segments fit and that maps no more than mmap_max at once
\* (LengthsAssumption: a longer call makes __page_alloc's or the last one
\* fail, vm.c:172), with the pages vm_init sets aside.
THEOREM AssertsNeverFail ==
    ASSUME EnoughPages, SegmentsFit
    PROVE  Spec => []AssertsHold
<1>1. IInv => AssertsHold
  BY DEF IInv, MoreInv, MoreOf, NoAssert, AssertsHold
<1> QED
  BY <1>1, Invariance, PTL

-----------------------------------------------------------------------------
(* The break *)

\* A call that leaves the break where it is, or the machine stops.
LEMMA EffectBrk ==
    ASSUME NEW next, NEW r, NEW cur, NEW ask, Effect(next, r, cur, ask),
           cur.brk = current.brk
    PROVE  current'.brk \in {current.brk, 0}
<1>1. current' = cur \/ current' = vm_init
  BY DEF Effect
<1>2. vm_init.brk = 0
  BY DEF vm_init
<1> QED
  BY <1>1, <1>2

\* The other two bounds may move without the break.
LEMMA SameBrk ==
    ASSUME current \in Breaks
    PROVE  /\ \A x : [current EXCEPT !.brk_max = x].brk = current.brk
           /\ \A x : [current EXCEPT !.brk_min = x].brk = current.brk
  BY DEF Breaks

\* The invariant's part on the break.
LEMMA BreaksOf == IInv => current \in Breaks
<1> SUFFICES ASSUME IInv PROVE current \in Breaks
  OBVIOUS
<1>1. CoreOf(m, stage, current, handles, asked)
  BY DEF IInv, CoreInv
<1>2. BreakFine(current, stage)
  BY <1>1, Zenon DEF CoreOf
<1> QED
  BY <1>2 DEF BreakFine

\* Only do_brk moves the break.
LEMMA OnlyBrk ==
    ASSUME IInv, [Next]_vars
    PROVE  current'.brk \in {current.brk, 0} \/ \E addr \in 0 .. MmapMax : do_brk(addr)
<1>0. current \in Breaks
  BY BreaksOf
<1>1. CASE OpenElf \/ CloseElf \/ UNCHANGED vars \/ (\E u \in User : StoreTo(u))
           \/ (\E f \in handles : close_file(f))
  BY <1>1 DEF OpenElf, CloseElf, vars, StoreTo, close_file
<1>2. CASE MapSegment
  <2>1. PICK next, r, ask : Effect(next, r, current, ask)
    BY <1>2, ZenonT(40) DEF MapSegment
  <2> QED
    BY <2>1, EffectBrk
<1>3. CASE MapBss
  <2>1. PICK next, r, x, ask : Effect(next, r, [current EXCEPT !.brk_min = x], ask)
    BY <1>3 DEF MapBss
  <2>2. PICK cur : cur = [current EXCEPT !.brk_min = x]
    OBVIOUS
  <2>3. Effect(next, r, cur, ask) /\ cur.brk = current.brk
    BY <1>0, <2>1, <2>2, SameBrk
  <2> QED
    BY <2>3, EffectBrk
<1>4. CASE pk_vm_init
  <2>1. PICK next, r, ask : Effect(next, r, current, ask)
    BY <1>4 DEF pk_vm_init
  <2> QED
    BY <2>1, EffectBrk
<1>5. CASE MemoryCall
  <2>1. CASE \E addr \in {0} \cup UserAddrs, length \in Lengths, prot \in Prots,
                populate \in BOOLEAN, from \in {<< 0, 0 >>} \cup (handles \X Offsets) :
                 do_mmap(addr, length, prot, addr # 0, populate, from[1], from[2])
    <3>1. PICK next, r, x, ask : Effect(next, r, [current EXCEPT !.brk_max = x], ask)
      BY <2>1, ZenonT(60) DEF do_mmap
    <3>2. PICK cur : cur = [current EXCEPT !.brk_max = x]
      OBVIOUS
    <3>3. Effect(next, r, cur, ask) /\ cur.brk = current.brk
      BY <1>0, <3>1, <3>2, SameBrk
    <3> QED
      BY <3>3, EffectBrk
  <2>2. CASE \E addr \in UserAddrs, length \in Lengths : do_munmap(addr, length)
    <3>1. PICK next, r, ask : Effect(next, r, current, ask)
      BY <2>2 DEF do_munmap
    <3> QED
      BY <3>1, EffectBrk
  <2>3. CASE \E addr \in UserAddrs, length \in Lengths : \E prot \in Prots : do_mprotect(addr, length, prot)
    <3>1. PICK next, r, ask : Effect(next, r, current, ask)
      BY <2>3 DEF do_mprotect
    <3> QED
      BY <3>1, EffectBrk
  <2> QED
    BY <1>5, <2>1, <2>2, <2>3 DEF MemoryCall
<1>6. CASE open_file
  <2>1. PICK next, r, ask : Effect(next, r, current, ask)
    BY <1>6 DEF open_file
  <2> QED
    BY <2>1, EffectBrk
<1>7. CASE \E p \in UserPages : handle_page_fault(p)
  <2>1. PICK next, r, ask : Effect(next, r, current, ask)
    BY <1>7 DEF handle_page_fault
  <2> QED
    BY <2>1, EffectBrk
<1> QED
  BY <1>1, <1>2, <1>3, <1>4, <1>5, <1>6, <1>7, Zenon DEF Next, Load, FileCall, Access

\* A break that do_brk has raised has nothing mapped above it.
LEMMA BrkStep ==
    ASSUME IInv, NEW addr \in 0 .. MmapMax, do_brk(addr),
           0 < current.brk, current.brk < current'.brk,
           current.brk_min <= current.brk_max, m'.panic = "none",
           NEW p \in UserPages, PGSIZE * (p + 1) <= MmapMax - StackSize
    PROVE  va_avail(m, p) \/ m'.pt[p] = m.pt[p]
<1>1. PICK nb : nb = newbrk(addr)
  OBVIOUS
<1>2. PICK new : new = ROUNDUP(nb)
  OBVIOUS
<1>3. PICK old : old = oldbrk
  OBVIOUS
<1>4. PICK cur : cur = [current EXCEPT !.brk = new]
  OBVIOUS
<1>5. /\ stage[1] = "run" /\ Running
  BY DEF do_brk, Call, Running
<1>6. /\ Sound(m, handles, 1, 0) /\ m.panic = "none" /\ BreakFine(current, stage)
      /\ EndOf(m.pt, stage, current) /\ current \in Breaks
  BY <1>5, RunReady, BreaksOf
<1>7. nb \in FirstFree .. MmapMax /\ nb \in Nat /\ (nb <= current.brk_max \/ nb = current.brk_min)
  <2>1. nb \in FirstFree .. MmapMax /\ (nb <= current.brk_max \/ nb = current.brk_min)
    BY <1>1, <1>5, <1>6, NewbrkIn
  <2> QED
    BY <2>1, RoundUpIn
<1>8. PICK n \in Nat : new = PGSIZE * n /\ PGSIZE * n < nb + PGSIZE
  BY <1>2, <1>7, NPages
<1>9. old = current.brk /\ old = Oldbrk(current) /\ old \in Nat /\ old % PGSIZE = 0 /\ new \in Nat
      /\ current.brk_max \in Int
  <2>1. old = current.brk
    BY <1>3, <1>6 DEF oldbrk, Breaks
  <2>2. old = Oldbrk(current) /\ old \in FirstFree .. MmapMax /\ old % PGSIZE = 0
    BY <1>3, <1>5, <1>6, OldbrkIn
  <2>3. old \in Nat /\ new \in Nat
    BY <1>8, <2>2, Sizes
  <2>4. current.brk_max \in Int
    BY <1>6, Sizes DEF Breaks
  <2> QED
    BY <2>1, <2>2, <2>3, <2>4
<1>10. \/ old > new /\ Effect(Called, munmap(m, new, old - new), cur, Asked(new, old - new, {}))
       \/ old < new /\ Effect(Called, IF mmap_result(m, old, new - old, TRUE) = old
                                      THEN do_mmap_at(m, old, new - old, All, FALSE, 0, 0)
                                      ELSE Panic("__do_mmap == current.brk"),
                              cur, Asked(old, new - old, All))
       \/ old = new /\ Effect(Called, m, cur, asked)
  BY <1>1, <1>2, <1>3, <1>4 DEF do_brk
<1>11. current'.brk = new
  <2>1. cur.brk = new
    BY <1>4, <1>6 DEF Breaks
  <2>2. current' = cur \/ current' = vm_init
    BY <1>10, Zenon DEF Effect
  <2>3. vm_init.brk = 0 /\ current'.brk # 0
    BY <1>9 DEF vm_init
  <2> QED
    BY <2>1, <2>2, <2>3
<1>12. old < new
  BY <1>9, <1>11
<1>13. PICK len \in Nat : len = new - old /\ old + len = new /\ len > 0
  BY <1>9, <1>12
<1>14. Effect(Called, IF mmap_result(m, old, len, TRUE) = old
                      THEN do_mmap_at(m, old, len, All, FALSE, 0, 0)
                      ELSE Panic("__do_mmap == current.brk"),
              cur, Asked(old, len, All))
  <2>1. ~(old > new) /\ old # new
    BY <1>9, <1>12
  <2> QED
    BY <1>10, <1>13, <2>1, Zenon
<1>15. PICK u : u = IF mmap_result(m, old, len, TRUE) = old
                    THEN do_mmap_at(m, old, len, All, FALSE, 0, 0)
                    ELSE Panic("__do_mmap == current.brk")
  OBVIOUS
<1>16. Effect(Called, u, cur, Asked(old, len, All))
  BY <1>14, <1>15
<1>17. mmap_result(m, old, len, TRUE) = old /\ m'.pt = u.pt
  <2>1. CASE mmap_result(m, old, len, TRUE) # old
    <3>1. u = Panic("__do_mmap == current.brk")
      BY <1>15, <2>1
    <3>2. u.panic = "__do_mmap == current.brk"
      BY <1>6, <3>1, PanicFine, PanicLabels DEF Panic
    <3>3. m' = [PowerOn EXCEPT !.panic = u.panic]
      BY <1>16, <3>2 DEF Effect
    <3>4. m'.panic = u.panic
      BY <3>2, <3>3, PowerOnFine, PanicLabels
    <3> QED
      BY <3>2, <3>4
  <2>2. CASE mmap_result(m, old, len, TRUE) = old
    <3>1. u = do_mmap_at(m, old, len, All, FALSE, 0, 0)
      BY <1>15, <2>2
    <3>2. MapRan(u, Asked(old, len, All), old, len)
      <4>1. 0 \in {0} \cup handles /\ 0 \in Nat /\ All \in SUBSET All /\ FALSE \in BOOLEAN
        OBVIOUS
      <4>2. Granted(m, old, len)
        BY <1>9, <1>13, <2>2, GrantedFixed
      <4> QED
        BY <1>5, <1>13, <3>1, <4>1, <4>2, MapRun
    <3>3. Sound(u, handles, 1, 0)
      BY <3>2 DEF MapRan
    <3>4. u.panic = "none"
      <4>1. ASSUME u.panic # "none" PROVE FALSE
        <5>1. m' = [PowerOn EXCEPT !.panic = u.panic]
          BY <1>16, <4>1 DEF Effect
        <5>2. u.panic \in Labels
          BY <3>3, MachineFields DEF Sound
        <5>3. m'.panic = u.panic
          BY <5>1, <5>2, PowerOnFine
        <5> QED
          BY <4>1, <5>3
      <4> QED
        BY <4>1
    <3>5. m' = Settled(u)
      BY <1>16, <3>4 DEF Effect
    <3>6. SettledFrom(u, m')
      BY <3>3, <3>5, SettledSound
    <3> QED
      BY <2>2, <3>6 DEF SettledFrom
  <2> QED
    BY <2>1, <2>2
<1>18. p \in Nat /\ p \in Pages /\ PGSIZE * p \in Int /\ PGSIZE * (p + 1) = PGSIZE * p + PGSIZE
  BY PageFacts, Sizes
<1>19. CASE p \notin PagesOf(old, len)
  <2>1. u = do_mmap_at(m, old, len, All, FALSE, 0, 0) /\ Granted(m, old, len)
    BY <1>9, <1>13, <1>15, <1>17, GrantedFixed
  <2>2. MapRan(u, Asked(old, len, All), old, len)
    <3>1. 0 \in {0} \cup handles /\ 0 \in Nat /\ All \in SUBSET All /\ FALSE \in BOOLEAN
      OBVIOUS
    <3> QED
      BY <1>5, <1>13, <2>1, <3>1, MapRun
  <2> QED
    BY <1>17, <1>19, <2>2 DEF MapRan
<1>20. CASE p \in PagesOf(old, len)
  <2>1. old <= PGSIZE * p /\ PGSIZE * p < PGSIZE * n
    BY <1>8, <1>9, <1>13, <1>18, <1>20, InRange
  <2>2. p < n
    <3>1. n \in Int /\ p \in Int
      BY <1>18
    <3> QED
      BY <2>1, <3>1, Sizes, Multiples
  <2>3. PGSIZE * (p + 1) <= PGSIZE * n /\ PGSIZE * n \in Int
    <3>1. n \in Int /\ p + 1 \in Int /\ p + 1 <= n
      BY <1>18, <2>2
    <3> QED
      BY <3>1, Sizes, Multiples
  <2>4. PGSIZE * p < nb
    BY <1>7, <1>8, <1>18, <2>3, Sizes
  <2>5. PGSIZE * p < current.brk_max
    <3>1. current.brk_min \in Int
      BY <1>6 DEF Breaks
    <3>2. nb <= current.brk_max
      BY <1>7, <1>9, <3>1
    <3> QED
      BY <1>7, <1>9, <1>18, <2>4, <3>2
  <2>6. m.pt[p].kind = "none"
    <3>1. m.pt[p].kind # "none" => PGSIZE * p < old \/ current.brk_max <= PGSIZE * p
      BY <1>5, <1>6, <1>9 DEF EndOf
    <3> QED
      BY <1>9, <1>18, <2>1, <2>5, <3>1
  <2> QED
    BY <2>6 DEF va_avail
<1> QED
  BY <1>19, <1>20

\* When __do_brk raises the break, nothing lies between it and what do_mmap
\* gave out: the heap grows over no mapping below the stack.
THEOREM BrkGrowsClearHolds == Spec => BrkGrowsClear
<1>1. ASSUME IInv, [Next]_vars, 0 < current.brk, current.brk < current'.brk,
             current.brk_min <= current.brk_max, m'.panic = "none",
             NEW p \in UserPages, (p + 1) * PGSIZE <= MmapMax - StackSize
      PROVE  va_avail(m, p) \/ m'.pt[p] = m.pt[p]
  <2>1. PICK addr \in 0 .. MmapMax : do_brk(addr)
    <3>1. current.brk \in Int
      BY BreaksOf, <1>1, Sizes DEF Breaks
    <3>2. current'.brk \notin {current.brk, 0}
      BY <1>1, <3>1
    <3> QED
      BY <1>1, <3>2, OnlyBrk
  <2>2. PGSIZE * (p + 1) <= MmapMax - StackSize
    <3>1. PGSIZE * (p + 1) = (p + 1) * PGSIZE
      BY PageFacts, Sizes
    <3> QED
      BY <1>1, <3>1
  <2> QED
    BY <1>1, <2>1, <2>2, BrkStep
<1>2. IInv /\ [Next]_vars =>
        [ /\ 0 < current.brk /\ current.brk < current'.brk
          /\ current.brk_min <= current.brk_max
          /\ m'.panic = "none"
          => \A p \in UserPages :
                 (p + 1) * PGSIZE <= MmapMax - StackSize =>
                     va_avail(m, p) \/ m'.pt[p] = m.pt[p] ]_vars
  BY <1>1
<1> QED
  BY <1>2, Invariance, PTL DEF Spec, BrkGrowsClear

-----------------------------------------------------------------------------
(* What the program finds *)

\* Two machines show the same.
SameShown(s, t) == \A u \in User : At(t, u) = At(s, u)

\* The addresses of pages first .. first + n - 1 show what F says, and the
\* others what they showed.
Remapped(s, t, first, n, F) ==
    \A u \in User :
        At(t, u) = IF u \div PGSIZE \in first .. first + n - 1 THEN F[u] ELSE At(s, u)

\* The page of an address the program may have.
LEMMA AddressFacts ==
    ASSUME NEW u \in User
    PROVE  u \in Nat /\ u \div PGSIZE \in UserPages /\ u \div PGSIZE \in Pages
<1>1. PICK b \in Nat, z \in Nat :
        FirstFree = PGSIZE * b /\ MmapMax = PGSIZE * z /\ UserPages = b .. z - 1
  BY Bounds
<1>2. u \in Nat /\ FirstFree <= u /\ u < MmapMax
  BY Sizes DEF User
<1>3. u \div PGSIZE \in Int /\ PGSIZE * (u \div PGSIZE) <= u
      /\ u < PGSIZE * (u \div PGSIZE) + PGSIZE /\ PGSIZE * (u \div PGSIZE) \in Int
  BY <1>2, Sizes, Divides
<1>4. PICK q \in Int : q = u \div PGSIZE
  BY <1>3
<1>5. PGSIZE * (q + 1) = PGSIZE * q + PGSIZE /\ PGSIZE * q \in Int
  BY Sizes
<1>6. PGSIZE * b < PGSIZE * (q + 1) /\ PGSIZE * q < PGSIZE * z
  BY <1>1, <1>2, <1>3, <1>4, <1>5, Sizes
<1>7. b < q + 1 /\ q < z
  BY <1>6, Sizes, Multiples
<1>8. q \in b .. z - 1
  BY <1>7
<1> QED
  BY <1>1, <1>2, <1>4, <1>8, PageFacts

\* A region that a page waits for has a page to fill.
LEMMA WaitsCounted ==
    ASSUME NEW s, NEW H, Sound(s, H, 1, 0), NEW p \in Pages, s.pt[p].kind = "lazy"
    PROVE  s.pt[p].v \in Vmrs /\ s.vmr[s.pt[p].v].refcnt > 0
<1>1. s.pt \in [Pages -> Entries] /\ RegionsAgree(s.pt, s.vmr, 1, 0)
  BY MachineFields DEF Sound
<1>2. PICK v \in Vmrs : v = s.pt[p].v
  BY <1>1 DEF Entries
<1>3. PICK S \in SUBSET Pages : S = Waits(s.pt, v)
  BY DEF Waits
<1>4. p \in S
  BY <1>2, <1>3 DEF Waits
<1>5. IsFiniteSet(S) /\ Cardinality(S) \in Nat
  BY Counting
<1>6. Cardinality(S) > 0
  <2>1. Cardinality(S) # 0
    BY <1>4, <1>5, FS_EmptySet
  <2> QED
    BY <1>5, <2>1
<1>7. s.vmr[v].refcnt = Cardinality(S)
  <2>1. s.vmr[v].refcnt = Cardinality(S) + 0
    BY <1>1, <1>3 DEF RegionsAgree
  <2> QED
    BY <1>5, <2>1
<1> QED
  BY <1>2, <1>6, <1>7

\* What a call forgets at its end cannot be seen.
LEMMA SettledShown ==
    ASSUME NEW r, NEW H, Sound(r, H, 1, 0), NEW s, SettledFrom(r, s)
    PROVE  SameShown(r, s)
<1> SUFFICES ASSUME NEW u \in User PROVE At(s, u) = At(r, u)
  BY DEF SameShown
<1>1. PICK p \in Pages : p = u \div PGSIZE
  BY AddressFacts
<1>2. s.pt[p] = r.pt[p]
  BY DEF SettledFrom
<1>3. r.pt[p].kind \in Kinds
  BY MachineFields DEF Sound, Entries
<1>4. CASE r.pt[p].kind = "none"
  BY <1>1, <1>2, <1>4 DEF At
<1>5. CASE r.pt[p].kind = "page"
  <2>1. s.mem[u] = r.mem[u]
    BY <1>1, <1>5 DEF SettledFrom
  <2> QED
    BY <1>1, <1>2, <1>5, <2>1 DEF At
<1>6. CASE r.pt[p].kind = "lazy"
  <2>1. r.pt[p].v \in Vmrs /\ r.vmr[r.pt[p].v].refcnt > 0
    BY <1>6, WaitsCounted
  <2>2. s.vmr[r.pt[p].v] = r.vmr[r.pt[p].v]
    BY <2>1 DEF SettledFrom
  <2> QED
    BY <1>1, <1>2, <1>6, <2>2 DEF At
<1> QED
  BY <1>3, <1>4, <1>5, <1>6 DEF Kinds

\* A page that is filled shows what it showed.
LEMMA TouchedShown ==
    ASSUME NEW s, NEW H, Sound(s, H, 1, 0), NEW p \in Pages, s.pt[p].kind = "lazy",
           NEW t, Touched(s, t, p)
    PROVE  SameShown(s, t)
<1> SUFFICES ASSUME NEW u \in User PROVE At(t, u) = At(s, u)
  BY DEF SameShown
<1>1. PICK q \in Pages : q = u \div PGSIZE
  BY AddressFacts
<1>2. s.pt \in [Pages -> Entries] /\ s.pt[q].kind \in Kinds
  BY MachineFields DEF Sound, Entries
<1>3. /\ Lowered(s.vmr, t.vmr) /\ FilledAt(s, t, p)
      /\ t.pt[p] = pte_create(s.vmr[s.pt[p].v].prot, TRUE)
      /\ q # p => t.pt[q] = s.pt[q]
  BY Zenon DEF Touched
<1>4. t.mem[u] = IF q = p THEN Shows(s.vmr[s.pt[p].v], u) ELSE s.mem[u]
  BY <1>1, <1>3 DEF FilledAt
<1>5. CASE q = p
  <2>1. t.pt[q].kind = "page"
    BY <1>3, <1>5 DEF pte_create, Free
  <2> QED
    BY <1>1, <1>4, <1>5, <2>1 DEF At
<1>6. CASE q # p
  <2>1. t.pt[q] = s.pt[q] /\ t.mem[u] = s.mem[u]
    BY <1>3, <1>4, <1>6
  <2>2. CASE s.pt[q].kind = "lazy"
    <3>1. s.pt[q].v \in Vmrs
      BY <2>2, WaitsCounted
    <3>2. SameRegion(t.vmr[s.pt[q].v], s.vmr[s.pt[q].v])
      BY <1>3, <3>1 DEF Lowered
    <3>3. Shows(t.vmr[s.pt[q].v], u) = Shows(s.vmr[s.pt[q].v], u)
      BY <3>2, ShowsSame, Zenon
    <3> QED
      BY <1>1, <2>1, <2>2, <3>3 DEF At
  <2>3. CASE s.pt[q].kind # "lazy"
    BY <1>1, <1>2, <2>1, <2>3 DEF At, Kinds
  <2> QED
    BY <2>2, <2>3
<1> QED
  BY <1>5, <1>6

\* Rights cannot be seen either.
LEMMA RestrictedShown ==
    ASSUME NEW s, NEW H, Sound(s, H, 1, 0), NEW t, Restricted(s, t)
    PROVE  SameShown(s, t)
<1> SUFFICES ASSUME NEW u \in User PROVE At(t, u) = At(s, u)
  BY DEF SameShown
<1>1. PICK q \in Pages : q = u \div PGSIZE
  BY AddressFacts
<1>2. s.pt \in [Pages -> Entries] /\ s.pt[q].kind \in Kinds
  BY MachineFields DEF Sound, Entries
<1>3. /\ t.mem = s.mem /\ t.pt[q].kind = s.pt[q].kind
      /\ s.pt[q].kind # "page" => t.pt[q] = s.pt[q]
  BY Zenon DEF Restricted
<1>4. CASE s.pt[q].kind = "lazy"
  <2>1. PICK v \in Vmrs : v = s.pt[q].v
    BY <1>4, WaitsCounted
  <2>2. /\ t.vmr[v].addr = s.vmr[v].addr /\ t.vmr[v].length = s.vmr[v].length
        /\ t.vmr[v].file = s.vmr[v].file /\ t.vmr[v].offset = s.vmr[v].offset
    BY Zenon DEF Restricted
  <2>3. Shows(t.vmr[v], u) = Shows(s.vmr[v], u)
    BY <2>2, Zenon DEF Shows
  <2>4. t.pt[q] = s.pt[q]
    BY <1>3, <1>4
  <2> QED
    BY <1>1, <1>4, <2>1, <2>3, <2>4 DEF At
<1>5. CASE s.pt[q].kind # "lazy"
  BY <1>1, <1>2, <1>3, <1>5 DEF At, Kinds
<1> QED
  BY <1>4, <1>5

\* Pages that are taken away show nothing.
LEMMA UnmappedShown ==
    ASSUME NEW s, NEW H, Sound(s, H, 1, 0), NEW t, NEW first, NEW n, Unmapped(s, t, first, n),
           NEW F, F = [u \in User |-> <<>>]
    PROVE  Remapped(s, t, first, n, F)
<1> SUFFICES ASSUME NEW u \in User
             PROVE  At(t, u) = IF u \div PGSIZE \in first .. first + n - 1 THEN F[u] ELSE At(s, u)
  BY DEF Remapped
<1>1. PICK q \in Pages : q = u \div PGSIZE
  BY AddressFacts
<1>2. s.pt \in [Pages -> Entries] /\ s.pt[q].kind \in Kinds
  BY MachineFields DEF Sound, Entries
<1>3. /\ Lowered(s.vmr, t.vmr) /\ t.mem = s.mem
      /\ q \in first .. first + n - 1 => t.pt[q].kind = "none"
      /\ q \notin first .. first + n - 1 => t.pt[q] = s.pt[q]
  BY Zenon DEF Unmapped
<1>4. CASE q \in first .. first + n - 1
  <2>1. At(t, u) = <<>>
    BY <1>1, <1>3, <1>4 DEF At
  <2> QED
    BY <1>1, <1>4, <2>1
<1>5. CASE q \notin first .. first + n - 1
  <2>1. t.pt[q] = s.pt[q]
    BY <1>3, <1>5
  <2>2. CASE s.pt[q].kind = "lazy"
    <3>1. s.pt[q].v \in Vmrs
      BY <2>2, WaitsCounted
    <3>2. SameRegion(t.vmr[s.pt[q].v], s.vmr[s.pt[q].v])
      BY <1>3, <3>1 DEF Lowered
    <3>3. Shows(t.vmr[s.pt[q].v], u) = Shows(s.vmr[s.pt[q].v], u)
      BY <3>2, ShowsSame, Zenon
    <3>4. At(t, u) = At(s, u)
      BY <1>1, <2>1, <2>2, <3>3 DEF At
    <3> QED
      BY <1>1, <1>5, <3>4
  <2>3. CASE s.pt[q].kind # "lazy"
    <3>4. At(t, u) = At(s, u)
      BY <1>1, <1>2, <1>3, <2>1, <2>3 DEF At, Kinds
    <3> QED
      BY <1>1, <1>5, <3>4
  <2> QED
    BY <2>2, <2>3
<1> QED
  BY <1>4, <1>5

\* What a region of a call shows.
Showing(r) == [u \in User |-> Shows(r, u)]

\* Pages that are mapped show at once what the call asked for.
LEMMA PlacedShown ==
    ASSUME NEW s, NEW H, Sound(s, H, 1, 0), NEW t, NEW v, NEW r, NEW first, NEW n,
           NEW populate \in BOOLEAN, Placed(s, t, v, r, first, n, populate)
    PROVE  Remapped(s, t, first, n, Showing(r))
<1> SUFFICES ASSUME NEW u \in User
             PROVE  At(t, u) = IF u \div PGSIZE \in first .. first + n - 1
                               THEN Showing(r)[u] ELSE At(s, u)
  BY DEF Remapped
<1>1. PICK q \in Pages : q = u \div PGSIZE
  BY AddressFacts
<1>2. s.pt \in [Pages -> Entries] /\ s.pt[q].kind \in Kinds
  BY MachineFields DEF Sound, Entries
<1>3. /\ v \in FreeVmrs(s) /\ SameRegion(t.vmr[v], r)
      /\ \A w \in Vmrs : w # v => SameRegion(t.vmr[w], s.vmr[w])
      /\ q \in first .. first + n - 1 =>
             t.pt[q] = IF populate THEN pte_create(r.prot, TRUE) ELSE Lazy(v)
      /\ q \notin first .. first + n - 1 => t.pt[q] = s.pt[q]
  BY Zenon DEF Placed
<1>4. t.mem[u] = IF populate /\ u \div PGSIZE \in first .. first + n - 1 THEN Shows(r, u) ELSE s.mem[u]
  BY Zenon DEF Placed
<1>5. CASE q \in first .. first + n - 1
  <2>1. At(t, u) = Shows(r, u)
    <3>1. CASE populate
      <4>1. t.pt[q].kind = "page"
        BY <1>3, <1>5, <3>1 DEF pte_create, Free
      <4>2. t.mem[u] = Shows(r, u)
        BY <1>1, <1>4, <1>5, <3>1
      <4> QED
        BY <1>1, <4>1, <4>2 DEF At
    <3>2. CASE ~populate
      <4>1. v \in Vmrs
        BY <1>3 DEF FreeVmrs
      <4>2. t.pt[q] = Lazy(v)
        BY <1>3, <1>5, <3>2
      <4>3. t.pt[q].kind = "lazy" /\ t.pt[q].v = v
        BY <4>1, <4>2, EntryTypes
      <4>4. Shows(t.vmr[v], u) = Shows(r, u)
        BY <1>3, ShowsSame, Zenon
      <4> QED
        BY <1>1, <4>3, <4>4 DEF At
    <3> QED
      BY <3>1, <3>2
  <2> QED
    BY <1>1, <1>5, <2>1 DEF Showing
<1>6. CASE q \notin first .. first + n - 1
  <2>1. t.pt[q] = s.pt[q] /\ t.mem[u] = s.mem[u]
    BY <1>1, <1>3, <1>4, <1>6
  <2>2. CASE s.pt[q].kind = "lazy"
    <3>1. s.pt[q].v \in Vmrs /\ s.vmr[s.pt[q].v].refcnt > 0
      BY <2>2, WaitsCounted
    <3>2. s.pt[q].v # v
      BY <1>3, <3>1 DEF FreeVmrs
    <3>3. SameRegion(t.vmr[s.pt[q].v], s.vmr[s.pt[q].v])
      BY <1>3, <3>1, <3>2
    <3>4. Shows(t.vmr[s.pt[q].v], u) = Shows(s.vmr[s.pt[q].v], u)
      BY <3>3, ShowsSame, Zenon
    <3>5. At(t, u) = At(s, u)
      BY <1>1, <2>1, <2>2, <3>4 DEF At
    <3> QED
      BY <1>1, <1>6, <3>5
  <2>3. CASE s.pt[q].kind # "lazy"
    <3>4. At(t, u) = At(s, u)
      BY <1>1, <1>2, <2>1, <2>3 DEF At, Kinds
    <3> QED
      BY <1>1, <1>6, <3>4
  <2> QED
    BY <2>2, <2>3
<1> QED
  BY <1>5, <1>6

\* A machine that has stopped shows nothing.
LEMMA OffShown ==
    ASSUME NEW label \in Labels, NEW s,
           s = [PowerOn EXCEPT !.panic = label] \/ (label = "none" /\ s = PowerOn),
           NEW u \in User
    PROVE  At(s, u) = <<>>
<1>1. s.pt[u \div PGSIZE] = Free
  BY PowerOnFine, AddressFacts
<1> QED
  BY <1>1 DEF At, Free

\* A range that a call has changed, before a step that is not seen.
LEMMA RemappedSame ==
    ASSUME NEW r, NEW s, NEW t, NEW first, NEW n, NEW F,
           Remapped(r, s, first, n, F), SameShown(s, t)
    PROVE  Remapped(r, t, first, n, F)
  BY Zenon DEF Remapped, SameShown

-----------------------------------------------------------------------------
(* The steps of AddressSpace *)

\* shown before and after a step.
LEMMA ShownIs ==
    /\ shown = [u \in User |-> At(m, u)] /\ shown' = [u \in User |-> At(m', u)]
  BY DEF shown, At

\* What is shown is the same address by address.
LEMMA ShownStays ==
    ASSUME SameShown(m, m')
    PROVE  shown' = shown
<1>1. \A u \in User : At(m', u) = At(m, u)
  BY DEF SameShown
<1>2. shown = [u \in User |-> At(m, u)] /\ shown' = [u \in User |-> At(m', u)]
  BY ShownIs
<1>3. [u \in User |-> At(m', u)] = [u \in User |-> At(m, u)]
  BY <1>1
<1> QED
  BY <1>2, <1>3

\* A range of pages, as a range of addresses.
LEMMA RangeIs ==
    ASSUME NEW first \in Nat, NEW n \in Nat, NEW a, a = PGSIZE * first, NEW u \in User
    PROVE  u \in AS!Range(a, n) <=> u \div PGSIZE \in first .. first + n - 1
<1>1. u \in Nat
  BY AddressFacts
<1>2. PICK q \in Int : q = u \div PGSIZE /\ PGSIZE * q <= u /\ u < PGSIZE * q + PGSIZE
  BY <1>1, Sizes, Divides
<1>3. PGSIZE * (first + n) = PGSIZE * first + n * PGSIZE /\ PGSIZE * (q + 1) = PGSIZE * q + PGSIZE
      /\ PGSIZE * q \in Int /\ PGSIZE * first \in Int /\ n * PGSIZE \in Int
  BY Sizes, Multiples
<1>4. /\ PGSIZE * first < PGSIZE * (q + 1) <=> first < q + 1
      /\ PGSIZE * q < PGSIZE * (first + n) <=> q < first + n
      /\ PGSIZE * first <= PGSIZE * q <=> first <= q
      /\ PGSIZE * (q + 1) <= PGSIZE * (first + n) <=> q + 1 <= first + n
  BY Sizes, Multiples
<1>5. a <= u /\ u < a + n * PGSIZE <=> first <= q /\ q < first + n
  <2>1. PGSIZE \in Int
    BY Sizes
  <2>2. PICK x \in Int, y \in Int, z \in Int :
           x = PGSIZE * first /\ y = PGSIZE * q /\ z = n * PGSIZE
    BY <1>3
  <2>3. /\ x < y + PGSIZE <=> first < q + 1
        /\ y < x + z <=> q < first + n
        /\ x <= y <=> first <= q
        /\ y + PGSIZE <= x + z <=> q + 1 <= first + n
        /\ y <= u /\ u < y + PGSIZE /\ a = x
    BY <1>2, <1>3, <1>4, <2>2
  <2> QED
    BY <1>1, <2>1, <2>2, <2>3
<1> QED
  BY <1>2, <1>5 DEF AS!Range

\* A range of pages the program may have starts a page, and has no more pages
\* than there are.
LEMMA StartsIn ==
    ASSUME NEW first \in Nat, NEW n \in Nat, n > 0, first .. first + n - 1 \subseteq UserPages,
           NEW a, a = PGSIZE * first
    PROVE  a \in AS!Starts /\ n \in 1 .. Cardinality(AS!Starts)
<1>1. PICK b \in Nat, z \in Nat :
        FirstFree = PGSIZE * b /\ MmapMax = PGSIZE * z /\ UserPages = b .. z - 1
  BY Bounds
<1>2. ASSUME NEW p \in first .. first + n - 1
      PROVE  PGSIZE * p \in AS!Starts
  <2>1. p \in Int /\ b <= p /\ p < z
    BY <1>1, SMTT(40)
  <2>2. PGSIZE * b <= PGSIZE * p /\ PGSIZE * p < PGSIZE * z /\ PGSIZE * p \in Int
        /\ (PGSIZE * p) % PGSIZE = 0
    BY <1>1, <2>1, Sizes, Multiples
  <2>3. PGSIZE * p \in User
    BY <1>1, <2>2, Sizes DEF User
  <2> QED
    BY <2>2, <2>3 DEF AS!Starts
<1>3. a \in AS!Starts
  BY <1>2
<1>4. PICK f : f = [i \in 1 .. n |-> PGSIZE * (first + i - 1)]
  OBVIOUS
<1>5. f \in [1 .. n -> AS!Starts]
  <2>1. \A i \in 1 .. n : first + i - 1 \in first .. first + n - 1
    OBVIOUS
  <2> QED
    BY <1>2, <1>4, <2>1
<1>6. ASSUME NEW i \in 1 .. n, NEW j \in 1 .. n, f[i] = f[j]
      PROVE  i = j
  <2>1. PICK x \in Int, y \in Int : x = first + i - 1 /\ y = first + j - 1
    OBVIOUS
  <2>2. PGSIZE * x = PGSIZE * y
    BY <1>4, <1>6, <2>1
  <2>3. PGSIZE * x \in Int /\ PGSIZE * y \in Int
    BY <2>1, Sizes, Multiples
  <2>4. PGSIZE * x <= PGSIZE * y /\ PGSIZE * y <= PGSIZE * x
    BY <2>2, <2>3
  <2>5. x <= y /\ y <= x
    BY <2>4, Sizes, Multiples
  <2> QED
    BY <2>1, <2>5
<1>7. f \in Injection(1 .. n, AS!Starts)
  BY <1>5, <1>6 DEF Injection, IsInjective
<1>8. IsFiniteSet(AS!Starts)
  <2>1. FirstFree \in Int /\ MmapMax - 1 \in Int
    BY Sizes
  <2>2. IsFiniteSet(User)
    BY <2>1, FS_Interval DEF User
  <2>3. AS!Starts \subseteq User
    BY DEF AS!Starts
  <2> QED
    BY <2>2, <2>3, FS_Subset
<1>9. Cardinality(1 .. n) = n
  BY FS_Interval
<1>10. Cardinality(1 .. n) <= Cardinality(AS!Starts) /\ Cardinality(AS!Starts) \in Nat
  BY <1>7, <1>8, FS_Injection, FS_CardinalityType
<1> QED
  BY <1>3, <1>9, <1>10

\* A range of the program's pages, the call that changes it, and the stage.
CallOn(first, n) ==
    /\ first \in Nat /\ n \in Nat /\ n > 0 /\ first .. first + n - 1 \subseteq UserPages
    /\ stage' # stage

\* What is seen of a call that changes a range, address by address.
LEMMA RangeShown ==
    ASSUME NEW first, NEW n, CallOn(first, n), NEW F, Remapped(m, m', first, n, F),
           NEW a, a = PGSIZE * first
    PROVE  /\ DOMAIN shown' = User
           /\ \A u \in User \ AS!Range(a, n) : shown'[u] = shown[u]
           /\ \A u \in AS!Range(a, n) : u \in User /\ shown'[u] = F[u]
<1>1. shown = [u \in User |-> At(m, u)] /\ shown' = [u \in User |-> At(m', u)]
  BY ShownIs
<1>2. first \in Nat /\ n \in Nat
  BY DEF CallOn
<1>3. \A u \in User : u \in AS!Range(a, n) <=> u \div PGSIZE \in first .. first + n - 1
  BY <1>2, RangeIs
<1>4. \A u \in User : At(m', u) = IF u \in AS!Range(a, n) THEN F[u] ELSE At(m, u)
  BY <1>3 DEF Remapped
<1>5. \A u \in AS!Range(a, n) : u \in User
  BY DEF AS!Range
<1> QED
  BY <1>1, <1>4, <1>5

\* A call's steps are AddressSpace's.
LEMMA CallNext ==
    ASSUME NEW a \in AS!Starts, NEW n \in 1 .. Cardinality(AS!Starts), stage' # stage,
           DOMAIN shown' = User,
           AS!Unmap(a, n) \/ AS!MapZero(a, n) \/ (\E f \in FileIds : AS!MapFile(a, n, f))
    PROVE  AS!Next
<1>0. AS!Cardinality(AS!Starts) = Cardinality(AS!Starts)
  BY Zenon DEF AS!Cardinality, Cardinality
<1>1. \E b \in AS!Starts, k \in 1 .. Cardinality(AS!Starts) :
          AS!Unmap(b, k) \/ AS!MapZero(b, k) \/ (\E f \in FileIds : AS!MapFile(b, k, f))
  BY Zenon
<1> QED
  BY <1>0, <1>1, Zenon DEF AS!Next

\* A call takes pages away.
LEMMA UnmapNext ==
    ASSUME NEW first, NEW n, CallOn(first, n), NEW F, F = [u \in User |-> <<>>],
           Remapped(m, m', first, n, F)
    PROVE  AS!Next
<1>1. PICK a : a = PGSIZE * first
  OBVIOUS
<1>2. a \in AS!Starts /\ n \in 1 .. Cardinality(AS!Starts)
  BY <1>1, StartsIn DEF CallOn
<1>3. /\ DOMAIN shown' = User
      /\ \A u \in User \ AS!Range(a, n) : shown'[u] = shown[u]
      /\ \A u \in AS!Range(a, n) : u \in User /\ shown'[u] = F[u]
  BY <1>1, RangeShown
<1>4. AS!Unmap(a, n)
  BY <1>3 DEF AS!Unmap, AS!Elsewhere, AS!Nothing
<1>5. stage' # stage
  BY DEF CallOn
<1> QED
  BY <1>2, <1>3, <1>4, <1>5, CallNext

\* A call maps pages that show zero.
LEMMA ZeroNext ==
    ASSUME NEW first, NEW n, CallOn(first, n), NEW r, r.file = 0,
           Remapped(m, m', first, n, Showing(r))
    PROVE  AS!Next
<1>1. PICK a : a = PGSIZE * first
  OBVIOUS
<1>2. a \in AS!Starts /\ n \in 1 .. Cardinality(AS!Starts)
  BY <1>1, StartsIn DEF CallOn
<1>3. /\ DOMAIN shown' = User
      /\ \A u \in User \ AS!Range(a, n) : shown'[u] = shown[u]
      /\ \A u \in AS!Range(a, n) : u \in User /\ shown'[u] = Showing(r)[u]
  BY <1>1, RangeShown
<1>4. \A u \in User : Showing(r)[u] = Zero
  BY DEF Showing, Shows
<1>5. AS!MapZero(a, n)
  BY <1>3, <1>4 DEF AS!MapZero, AS!Elsewhere, AS!Zero, Zero
<1>6. stage' # stage
  BY DEF CallOn
<1> QED
  BY <1>2, <1>3, <1>5, <1>6, CallNext

\* What a region shows but for the first skip addresses, which were cleared.
ShowingFrom(r, skip) == [u \in User |-> IF u < r.addr + skip THEN Zero ELSE Shows(r, u)]

\* A call maps pages that show a file.
LEMMA FileNext ==
    ASSUME NEW first, NEW n, CallOn(first, n), NEW f \in FileIds, NEW offset \in Nat,
           NEW length \in Nat, length > 0, n = NPage(length), NEW skip \in 0 .. PGSIZE - 1,
           NEW r, r.file = f, r.addr = PGSIZE * first, r.length = length, r.offset = offset,
           Remapped(m, m', first, n, ShowingFrom(r, skip))
    PROVE  AS!Next
<1>1. PICK a : a = PGSIZE * first
  OBVIOUS
<1>2. a \in AS!Starts /\ n \in 1 .. Cardinality(AS!Starts)
  BY <1>1, StartsIn DEF CallOn
<1>3. /\ DOMAIN shown' = User
      /\ \A u \in User \ AS!Range(a, n) : shown'[u] = shown[u]
      /\ \A u \in AS!Range(a, n) : u \in User /\ shown'[u] = ShowingFrom(r, skip)[u]
  BY <1>1, RangeShown
<1>4. PICK off \in 0 .. FileSize : off = IF offset <= FileSize THEN offset ELSE FileSize
  BY Sizes
<1>5. length \in (n - 1) * PGSIZE + 1 .. n * PGSIZE
  <2>1. n \in Nat /\ length <= PGSIZE * n /\ PGSIZE * n < length + PGSIZE
    BY NPages
  <2>2. n * PGSIZE = PGSIZE * n /\ (n - 1) * PGSIZE = PGSIZE * n - PGSIZE /\ PGSIZE * n \in Int
    BY <2>1, Sizes, Multiples
  <2> QED
    BY <2>1, <2>2, Sizes
<1>6. ASSUME NEW u \in AS!Range(a, n)
      PROVE  shown'[u] = AS!Content(a, f, off, length, skip, u)
  <2>1. u \in User /\ u \in Nat /\ a <= u /\ a \in Nat
    <3>1. u \in User /\ a <= u
      BY DEF AS!Range
    <3>2. a \in User
      BY <1>2 DEF AS!Starts
    <3> QED
      BY <3>1, <3>2, AddressFacts
  <2>2. PICK i \in Nat : i = u - a
    BY <2>1
  <2>3. u < r.addr + skip <=> i < skip
    BY <1>1, <2>1, <2>2
  <2>4. shown'[u] = IF i < skip THEN Zero ELSE Shows(r, u)
    BY <1>3, <2>1, <2>3 DEF ShowingFrom
  <2>5. Shows(r, u) = IF i < length /\ i + offset < FileSize THEN <<f, i + offset>> ELSE Zero
    <3>1. f # 0 /\ u - r.addr = i
      BY <1>1, <2>2 DEF FileIds
    <3> QED
      BY <3>1, Zenon DEF Shows
  <2>6. AS!Content(a, f, off, length, skip, u)
          = IF skip <= i /\ i < length /\ off + i < FileSize THEN <<f, off + i>> ELSE Zero
    BY <2>2, Zenon DEF AS!Content, AS!FileUnit, AS!Zero, Zero
  <2>7. skip <= i <=> ~(i < skip)
    OBVIOUS
  <2>8. off + i < FileSize <=> i + offset < FileSize
    BY <1>4, Sizes
  <2>9. off + i < FileSize => off + i = i + offset
    BY <1>4, Sizes
  <2> QED
    BY <2>4, <2>5, <2>6, <2>7, <2>8, <2>9, Zenon
<1>7. AS!MapFile(a, n, f)
  <2>1. \A u \in User \ AS!Range(a, n) : shown'[u] = shown[u]
    BY <1>3
  <2>2. \A u \in AS!Range(a, n) : shown'[u] = AS!Content(a, f, off, length, skip, u)
    BY <1>6
  <2> QED
    BY <1>4, <1>5, <2>1, <2>2 DEF AS!MapFile, AS!Elsewhere
<1>8. stage' # stage
  BY DEF CallOn
<1> QED
  BY <1>2, <1>3, <1>7, <1>8, CallNext

\* A call that maps.
LEMMA MappedNext ==
    ASSUME NEW first, NEW n, CallOn(first, n), NEW file \in 0 .. MAX_FILES, NEW offset \in Nat,
           NEW length \in Nat, length > 0, n = NPage(length),
           NEW r, r.file = file, r.addr = PGSIZE * first, r.length = length, r.offset = offset,
           Remapped(m, m', first, n, Showing(r))
    PROVE  AS!Next
<1>1. CASE file = 0
  BY <1>1, ZeroNext
<1>2. CASE file # 0
  <2>1. file \in FileIds
    BY <1>2 DEF FileIds
  <2>2. 0 \in 0 .. PGSIZE - 1
    BY Sizes
  <2>3. ASSUME NEW u \in User, u \div PGSIZE \in first .. first + n - 1
        PROVE  ShowingFrom(r, 0)[u] = Showing(r)[u]
    <3>0. first \in Nat /\ n \in Nat
      BY DEF CallOn
    <3>1. u \in AS!Range(PGSIZE * first, n)
      BY <2>3, <3>0, RangeIs
    <3>2. PGSIZE * first <= u /\ PGSIZE * first \in Int /\ u \in Int
      BY <3>0, <3>1, Sizes, Multiples, AddressFacts DEF AS!Range
    <3>3. ~(u < r.addr + 0)
      BY <3>2
    <3> QED
      BY <3>3 DEF ShowingFrom, Showing
  <2>4. Remapped(m, m', first, n, ShowingFrom(r, 0))
    BY <2>3 DEF Remapped
  <2> QED
    BY <2>1, <2>2, <2>4, FileNext
<1> QED
  BY <1>1, <1>2

\* The program stores.
LEMMA StoreNext ==
    ASSUME NEW w \in User, stage' = stage, At(m, w) # <<>>, At(m', w) = Stored,
           \A u \in User : u # w => At(m', u) = At(m, u)
    PROVE  AS!Next
<1>1. shown = [u \in User |-> At(m, u)] /\ shown' = [u \in User |-> At(m', u)]
  BY ShownIs
<1>2. shown[w] # AS!Nothing /\ shown'[w] = AS!Stored
  BY <1>1 DEF AS!Nothing, AS!Stored, Stored
<1>3. \A u \in User \ {w} : shown'[u] = shown[u]
  BY <1>1
<1>4. AS!Store(w)
  BY <1>2, <1>3 DEF AS!Store, AS!Elsewhere
<1>5. DOMAIN shown' = User
  BY <1>1
<1> QED
  BY <1>4, <1>5 DEF AS!Next

-----------------------------------------------------------------------------
(* Steps of the memory manager as steps of AddressSpace *)

\* A step that is one of AddressSpace, or cannot be seen.
AbstractStep == AS!Next \/ shown' = shown

\* A running program counts its calls.
CallsFine == stage[1] = "run" => stage[2] \in Nat

\* A call is counted.
LEMMA CalledNew ==
    ASSUME CallsFine, stage[1] = "run"
    PROVE  Called # stage
<1>1. stage[2] + 1 # stage[2]
  BY DEF CallsFine
<1>2. Called[2] = stage[2] + 1
  BY DEF Called
<1> QED
  BY <1>1, <1>2

\* A call in whose middle the machine stops takes everything away.
LEMMA OffNext ==
    ASSUME NEW next, NEW r, NEW cur, NEW ask, Effect(next, r, cur, ask),
           r.panic \in Labels \ {"none"}, stage[1] # "off"
    PROVE  AS!Next
<1>1. stage' = <<"off", 0>> /\ m' = [PowerOn EXCEPT !.panic = r.panic]
  BY DEF Effect
<1>2. PICK b \in Nat, z \in Nat, k \in Nat :
        FirstFree = PGSIZE * b /\ StackSize = PGSIZE * k /\ b + k <= z /\ UserPages = b .. z - 1
  BY Bounds
<1>3. k > 0
  <2>1. PGSIZE * k > 0
    BY <1>2, Sizes
  <2>2. k # 0
    BY <2>1, Sizes
  <2> QED
    BY <2>2
<1>4. PICK n \in Nat : n = z - b /\ n > 0
  BY <1>2, <1>3
<1>5. b .. b + n - 1 \subseteq UserPages /\ UserPages \subseteq b .. b + n - 1
  BY <1>2, <1>4
<1>6. stage' # stage
  <2>1. stage'[1] = "off"
    BY <1>1
  <2> QED
    BY <2>1
<1>7. CallOn(b, n)
  BY <1>4, <1>5, <1>6 DEF CallOn
<1>8. PICK F : F = [u \in User |-> <<>>]
  OBVIOUS
<1>9. ASSUME NEW u \in User
      PROVE  At(m', u) = IF u \div PGSIZE \in b .. b + n - 1 THEN F[u] ELSE At(m, u)
  <2>1. PICK s : s = m'
    OBVIOUS
  <2>2. At(s, u) = <<>>
    BY <1>1, <2>1, OffShown
  <2>3. u \div PGSIZE \in b .. b + n - 1
    BY <1>5, AddressFacts
  <2> QED
    BY <1>8, <2>1, <2>2, <2>3
<1>10. Remapped(m, m', b, n, F)
  BY <1>9 DEF Remapped
<1> QED
  BY <1>7, <1>8, <1>10, UnmapNext

\* A call that leaves what is seen.
LEMMA SameStep ==
    ASSUME NEW next, NEW r, NEW cur, NEW ask, Effect(next, r, cur, ask), stage[1] # "off",
           NEW H, Sound(r, H, 1, 0), SameShown(m, r)
    PROVE  AbstractStep
<1>1. CASE r.panic = "none"
  <2>1. m' = Settled(r)
    BY <1>1 DEF Effect
  <2>2. SettledFrom(r, m')
    BY <2>1, SettledSound
  <2>3. SameShown(r, m')
    BY <2>2, SettledShown
  <2>4. SameShown(m, m')
    BY <2>3, Zenon DEF SameShown
  <2> QED
    BY <2>4, ShownStays DEF AbstractStep
<1>2. CASE r.panic # "none"
  <2>1. r.panic \in Labels \ {"none"}
    BY <1>2, MachineFields DEF Sound
  <2> QED
    BY <2>1, OffNext DEF AbstractStep
<1> QED
  BY <1>1, <1>2

\* A call that changes what a range shows.
LEMMA RangeStep ==
    ASSUME NEW next, NEW r, NEW cur, NEW ask, Effect(next, r, cur, ask), stage[1] # "off",
           NEW H, Sound(r, H, 1, 0), NEW first, NEW n, NEW F, Remapped(m, r, first, n, F)
    PROVE  AbstractStep \/ (Remapped(m, m', first, n, F) /\ stage' = next)
<1>1. CASE r.panic = "none"
  <2>1. m' = Settled(r) /\ stage' = next
    BY <1>1 DEF Effect
  <2>2. SettledFrom(r, m')
    BY <2>1, SettledSound
  <2>3. SameShown(r, m')
    BY <2>2, SettledShown
  <2>4. Remapped(m, m', first, n, F)
    BY <2>3, Zenon DEF SameShown, Remapped
  <2> QED
    BY <2>1, <2>4
<1>2. CASE r.panic # "none"
  <2>1. r.panic \in Labels \ {"none"}
    BY <1>2, MachineFields DEF Sound
  <2> QED
    BY <2>1, OffNext DEF AbstractStep
<1> QED
  BY <1>1, <1>2

\* A range of pages the program may have.
PagesMay(first, n) ==
    first \in Nat /\ n \in Nat /\ n > 0 /\ first .. first + n - 1 \subseteq UserPages

\* A call that takes pages away.
LEMMA UnmapStep ==
    ASSUME NEW next, NEW r, NEW cur, NEW ask, Effect(next, r, cur, ask), stage[1] # "off",
           next # stage, NEW H, Sound(m, H, 1, 0), Sound(r, H, 1, 0),
           NEW first, NEW n, PagesMay(first, n), Unmapped(m, r, first, n)
    PROVE  AbstractStep
<1>1. PICK F : F = [u \in User |-> <<>>]
  OBVIOUS
<1>2. Remapped(m, r, first, n, F)
  BY <1>1, UnmappedShown
<1>3. CASE Remapped(m, m', first, n, F) /\ stage' = next
  <2>1. CallOn(first, n)
    BY <1>3 DEF CallOn, PagesMay
  <2> QED
    BY <1>1, <1>3, <2>1, UnmapNext DEF AbstractStep
<1> QED
  BY <1>2, <1>3, RangeStep

\* A call that maps pages.
LEMMA MapStep ==
    ASSUME NEW next, NEW r, NEW cur, NEW ask, Effect(next, r, cur, ask), stage[1] # "off",
           next # stage, NEW H, Sound(r, H, 1, 0),
           NEW first, NEW n, PagesMay(first, n), NEW length \in Nat, length > 0, n = NPage(length),
           NEW file \in 0 .. MAX_FILES, NEW offset \in Nat, NEW g,
           g.file = file, g.addr = PGSIZE * first, g.length = length, g.offset = offset,
           Remapped(m, r, first, n, Showing(g))
    PROVE  AbstractStep
<1>1. PICK F : F = Showing(g)
  OBVIOUS
<1>2. Remapped(m, r, first, n, F)
  BY <1>1
<1>3. CASE Remapped(m, m', first, n, F) /\ stage' = next
  <2>1. CallOn(first, n)
    BY <1>3 DEF CallOn, PagesMay
  <2>2. Remapped(m, m', first, n, Showing(g))
    BY <1>1, <1>3
  <2> QED
    BY <2>1, <2>2, MappedNext DEF AbstractStep
<1> QED
  BY <1>2, <1>3, RangeStep

\* What do_mmap_at leaves, as the program sees it.
MapsShown(s, u, a, length, file, offset) ==
    \E first, n, g :
        /\ PagesMay(first, n) /\ n = NPage(length) /\ a = PGSIZE * first
        /\ g.file = file /\ g.addr = a /\ g.length = length /\ g.offset = offset
        /\ Remapped(s, u, first, n, Showing(g))

\* A call of __do_mmap, as the program sees it.
LEMMA MapsAtShown ==
    ASSUME NEW s, NEW H, Sound(s, H, 1, 0), NEW u, NEW a, NEW length \in Nat, length > 0,
           NEW prot, NEW populate \in BOOLEAN, NEW file, NEW offset,
           MapsAt(s, u, a, length, prot, populate, file, offset)
    PROVE  MapsShown(s, u, a, length, file, offset)
<1>1. PICK first \in Nat : first = a \div PGSIZE /\ a = PGSIZE * first
  BY DEF MapsAt
<1>2. PICK n \in Nat : n = NPage(length) /\ n > 0
  BY NPages
<1>3. first .. first + n - 1 \subseteq UserPages
  BY <1>1, <1>2 DEF MapsAt, PagesOf
<1>4. PICK g : g = Region(a, length, file, offset, n, prot)
  OBVIOUS
<1>5. PICK v : Placed(s, u, v, g, first, n, populate)
  BY <1>1, <1>2, <1>4 DEF MapsAt
<1>6. Remapped(s, u, first, n, Showing(g))
  BY <1>5, PlacedShown
<1>7. g.file = file /\ g.addr = a /\ g.length = length /\ g.offset = offset
  BY <1>4 DEF Region
<1>8. PagesMay(first, n)
  BY <1>2, <1>3 DEF PagesMay
<1> QED
  BY <1>1, <1>2, <1>6, <1>7, <1>8, Zenon DEF MapsShown

\* A call that maps, from what do_mmap_at leaves.
LEMMA MapsStep ==
    ASSUME NEW next, NEW r, NEW cur, NEW ask, Effect(next, r, cur, ask), stage[1] # "off",
           next # stage, NEW H, Sound(r, H, 1, 0), NEW a, NEW length \in Nat, length > 0,
           NEW file \in 0 .. MAX_FILES, NEW offset \in Nat,
           MapsShown(m, r, a, length, file, offset)
    PROVE  AbstractStep
<1>1. PICK first, n, g :
        /\ PagesMay(first, n) /\ n = NPage(length) /\ a = PGSIZE * first
        /\ g.file = file /\ g.addr = a /\ g.length = length /\ g.offset = offset
        /\ Remapped(m, r, first, n, Showing(g))
  BY Zenon DEF MapsShown
<1>2. g.addr = PGSIZE * first
  BY <1>1
<1> QED
  BY <1>1, <1>2, MapStep

\* A file that is opened or closed changes nothing of what is seen.
LEMMA FilesShown ==
    ASSUME NEW s, NEW t, FilesOnly(s, t)
    PROVE  SameShown(s, t)
<1>1. t.pt = s.pt /\ t.vmr = s.vmr /\ t.mem = s.mem
  BY DEF FilesOnly
<1>2. \A u \in User : At(t, u) = At(s, u)
  BY <1>1, Zenon DEF At
<1> QED
  BY <1>2, Zenon DEF SameShown

\* A step on the files is not seen.
LEMMA FilesOnlyStep ==
    ASSUME NEW t, m' = t, FilesOnly(m, t)
    PROVE  AbstractStep
<1>1. SameShown(m, t)
  BY FilesShown
<1>2. SameShown(m, m')
  BY <1>1, Zenon
<1> QED
  BY <1>2, ShownStays DEF AbstractStep

\* A page fault is not seen: the page held already what it shows.
LEMMA handle_page_faultShown ==
    ASSUME IInv, NEW p \in UserPages, handle_page_fault(p)
    PROVE  AbstractStep
<1>1. /\ stage[1] = "run" /\ Running /\ m.pt[p].kind = "lazy"
      /\ Effect(stage, touch(m, p), current, asked)
  BY DEF handle_page_fault, Running
<1>2. Sound(m, handles, 1, 0)
  BY <1>1, RunReady
<1>3. PICK u : u = touch(m, p)
  OBVIOUS
<1>4. p \in Pages
  BY PageFacts
<1>5. Sound(u, handles, 1, 0) /\ Touched(m, u, p)
  BY <1>1, <1>2, <1>3, <1>4, Touch
<1>6. SameShown(m, u)
  BY <1>1, <1>2, <1>4, <1>5, TouchedShown
<1>7. Effect(stage, u, current, asked) /\ stage[1] # "off"
  BY <1>1, <1>3
<1> QED
  BY <1>5, <1>6, <1>7, SameStep

\* do_munmap is Unmap.
LEMMA do_munmapShown ==
    ASSUME IInv, CallsFine, NEW addr \in UserAddrs, NEW length \in Lengths,
           do_munmap(addr, length)
    PROVE  AbstractStep
<1>1. /\ stage[1] = "run" /\ Running
      /\ addr % PGSIZE = 0 /\ valid_user_range(addr, length)
      /\ Effect(Called, munmap(m, addr, length), current, Asked(addr, length, {}))
  BY DEF do_munmap, Call, Running
<1>2. Sound(m, handles, 1, 0) /\ KernelFine(m.pt, stage)
  BY <1>1, RunReady
<1>3. PICK u : u = munmap(m, addr, length)
  OBVIOUS
<1>4. PICK new : new = Asked(addr, length, {})
  OBVIOUS
<1>5. PICK len \in Nat : len = length /\ len > 0
  BY VmAssumption
<1>6. addr \in Nat
  BY Sizes, PageFacts DEF UserAddrs
<1>7. /\ Sound(u, handles, 1, 0) /\ Unmapped(m, u, addr \div PGSIZE, NPage(len))
      /\ PagesOf(addr, len) \subseteq UserPages
  BY <1>1, <1>2, <1>3, <1>5, <1>6, UnmapCall
<1>8. PICK first \in Nat : first = addr \div PGSIZE
  BY <1>6, Sizes, Divides
<1>9. PICK n \in Nat : n = NPage(len) /\ n > 0
  BY <1>5, NPages
<1>10. PagesMay(first, n) /\ Unmapped(m, u, first, n)
  BY <1>7, <1>8, <1>9 DEF PagesMay, PagesOf
<1>11. Effect(Called, u, current, new) /\ stage[1] # "off"
  BY <1>1, <1>3, <1>4
<1>12. Called # stage
  BY <1>1, CalledNew
<1> QED
  BY <1>2, <1>7, <1>10, <1>11, <1>12, UnmapStep

\* do_mprotect is not seen.
LEMMA do_mprotectShown ==
    ASSUME IInv, NEW addr \in UserAddrs, NEW length \in Lengths, NEW prot \in Prots,
           do_mprotect(addr, length, prot)
    PROVE  AbstractStep
<1>1. stage[1] = "run" /\ Running
  BY DEF do_mprotect, Call, Running
<1>2. Sound(m, handles, 1, 0)
  BY <1>1, RunReady
<1>3. PICK first \in Int : first = addr \div PGSIZE
  <2>1. addr \in Int
    BY Sizes, PageFacts DEF UserAddrs
  <2> QED
    BY <2>1, Sizes, Divides
<1>4. PICK n \in Nat : n = NPage(length)
  <2>1. length \in Nat
    BY VmAssumption
  <2> QED
    BY <2>1, NPages
<1>5. PICK u : u = protect_range([s |-> m, ok |-> TRUE], first, n, prot).s
  OBVIOUS
<1>6. Effect(Called, u, current, asked) /\ stage[1] # "off"
  BY <1>1, <1>3, <1>4, <1>5 DEF do_mprotect
<1>7. Sound(u, handles, 1, 0) /\ Restricted(m, u)
  <2>1. prot \in SUBSET All
    BY VmAssumption DEF All
  <2> QED
    BY <1>2, <1>3, <1>4, <1>5, <2>1, ProtectRange
<1>8. SameShown(m, u)
  BY <1>2, <1>7, RestrictedShown
<1> QED
  BY <1>6, <1>7, <1>8, SameStep

\* sys_open is not seen.
LEMMA open_fileShown == IInv /\ open_file => AbstractStep
<1> SUFFICES ASSUME IInv, open_file PROVE AbstractStep
  OBVIOUS
<1>1. Running /\ stage[1] = "run" /\ stage[1] # "off"
  BY DEF open_file, Call, Running
<1>2. Sound(m, handles, 1, 0) /\ m.panic = "none" /\ handles \in SUBSET FileIds
  BY <1>1, RunReady
<1>3. CASE FreeFiles(m.files) = {}
  <2>1. PICK u : u = Panic("fail to get a free file")
    OBVIOUS
  <2>2. Effect(Called, u, current, asked)
    BY <1>3, <2>1 DEF open_file
  <2>3. u.panic = "fail to get a free file"
    BY <1>2, <2>1, PanicFine, PanicLabels DEF Panic
  <2>4. u.panic \in Labels \ {"none"}
    BY <2>3, PanicLabels
  <2> QED
    BY <1>1, <2>2, <2>4, OffNext DEF AbstractStep
<1>4. CASE FreeFiles(m.files) # {}
  <2>1. PICK u : u = [m EXCEPT !.files = file_open(m.files)]
    OBVIOUS
  <2>2. PICK f : f = file_get_free(m.files)
    OBVIOUS
  <2>3. Effect(Called, u, current, asked)
    BY <1>4, <2>1 DEF open_file
  <2>4. f \in FileIds /\ Sound(u, handles \cup {f}, 1, 0) /\ FilesOnly(m, u)
    BY <1>2, <1>4, <2>1, <2>2, FileOpen
  <2>5. SameShown(m, u)
    BY <2>4, FilesShown
  <2> QED
    BY <1>1, <2>3, <2>4, <2>5, SameStep
<1> QED
  BY <1>3, <1>4

\* sys_close is not seen: a file that is mapped stays.
LEMMA close_fileShown ==
    ASSUME IInv, NEW f \in handles, close_file(f)
    PROVE  AbstractStep
<1>1. Running /\ m' = [m EXCEPT !.files = file_decref(m.files, f)]
  BY DEF close_file
<1>2. Sound(m, handles, 1, 0) /\ handles \in SUBSET FileIds
  BY <1>1, RunReady
<1>3. PICK u : u = [m EXCEPT !.files = file_decref(m.files, f)]
  OBVIOUS
<1>4. FilesOnly(m, u)
  BY <1>2, <1>3, FileClose
<1> QED
  BY <1>1, <1>3, <1>4, FilesOnlyStep

\* What is mapped shows something.
LEMMA UnitsThere == \A x \in Units : x # <<>>
<1> SUFFICES ASSUME NEW a \in Int, NEW b \in Int PROVE <<a, b>> # <<>>
  BY DEF Units
<1>1. Len(<<a, b>>) = 2
  OBVIOUS
<1>2. Len(<<>>) = 0
  OBVIOUS
<1> QED
  BY <1>1, <1>2

\* The program's store is Store.
LEMMA StoreToShown ==
    ASSUME IInv, NEW w \in User, StoreTo(w)
    PROVE  AbstractStep
<1>1. /\ Running /\ stage' = stage /\ m' = [m EXCEPT !.mem[w] = Stored]
      /\ m.pt[w \div PGSIZE].kind = "page"
  BY DEF StoreTo
<1>2. Sound(m, handles, 1, 0)
  BY <1>1, RunReady
<1>3. PICK mem : mem = [m.mem EXCEPT ![w] = Stored]
  OBVIOUS
<1>4. PICK t : t = [m EXCEPT !.mem = mem]
  OBVIOUS
<1>5. m \in Machines /\ m.mem \in [User -> Units]
  BY <1>2, MachineFields DEF Sound
<1>6. t = m'
  BY <1>1, <1>3, <1>4
<1>7. t.pt = m.pt /\ t.vmr = m.vmr /\ t.mem = mem
  BY <1>4, <1>5 DEF Machines
<1>8. mem[w] = Stored /\ \A u \in User : u # w => mem[u] = m.mem[u]
  BY <1>3, <1>5
<1>9. At(m, w) # <<>>
  <2>1. At(m, w) = m.mem[w]
    BY <1>1 DEF At
  <2>2. m.mem[w] \in Units
    BY <1>5
  <2> QED
    BY <2>1, <2>2, UnitsThere
<1>10. At(t, w) = Stored
  <2>1. At(t, w) = t.mem[w]
    BY <1>1, <1>7 DEF At
  <2> QED
    BY <1>7, <1>8, <2>1
<1>11. ASSUME NEW u \in User, u # w PROVE At(t, u) = At(m, u)
  <2>1. t.mem[u] = m.mem[u]
    BY <1>7, <1>8, <1>11
  <2> QED
    BY <1>7, <2>1, Zenon DEF At
<1>12. At(m', w) = Stored /\ \A u \in User : u # w => At(m', u) = At(m, u)
  BY <1>6, <1>10, <1>11, Zenon
<1> QED
  BY <1>1, <1>9, <1>12, StoreNext DEF AbstractStep

\* What a call got is seen at once.
LEMMA GrantedShown ==
    ASSUME NEW s, NEW H \in SUBSET FileIds, Sound(s, H, 1, 0), NEW st, KernelFine(s.pt, st),
           NEW a, NEW length \in Nat, length > 0, Granted(s, a, length),
           NEW file \in {0} \cup H, NEW offset \in Nat, NEW prot \in SUBSET All,
           NEW populate \in BOOLEAN,
           NEW u, u = do_mmap_at(s, a, length, prot, populate, file, offset)
    PROVE  Sound(u, H, 1, 0) /\ MapsShown(s, u, a, length, file, offset)
<1>1. PICK x \in {0, 1} : x = 0
  OBVIOUS
<1>2. Sound(u, H, 1, 0) /\ MapsAt(s, u, a, length, prot, populate, file, offset)
  BY MapCall
<1>3. MapsShown(s, u, a, length, file, offset)
  BY <1>2, MapsAtShown
<1> QED
  BY <1>2, <1>3

\* No file is named but one of the table, or none.
LEMMA FilesAre ==
    ASSUME NEW H \in SUBSET FileIds, NEW file \in {0} \cup H
    PROVE  file \in 0 .. MAX_FILES
  BY Sizes DEF FileIds

\* do_mmap is MapZero or MapFile.
LEMMA do_mmapShown ==
    ASSUME IInv, CallsFine,
           NEW addr \in {0} \cup UserAddrs, NEW length \in Lengths, NEW prot \in Prots,
           NEW populate \in BOOLEAN, NEW fixed \in BOOLEAN, fixed \/ addr = 0,
           NEW file \in {0} \cup handles, NEW offset \in Nat,
           do_mmap(addr, length, prot, fixed, populate, file, offset)
    PROVE  AbstractStep
<1>1. PICK a : a = mmap_result(m, addr, length, fixed)
  OBVIOUS
<1>2. PICK u : u = do_mmap_at(m, a, length, prot, populate, file, offset)
  OBVIOUS
<1>3. PICK new : new = Asked(a, length, prot)
  OBVIOUS
<1>4. PICK cur : cur = [current EXCEPT !.brk_max = Min({current.brk_max, a})]
  OBVIOUS
<1>5. /\ stage[1] = "run" /\ Running /\ a # -1 /\ Effect(Called, u, cur, new)
  BY <1>1, <1>2, <1>3, <1>4 DEF do_mmap, Call, Running
<1>6. /\ Sound(m, handles, 1, 0) /\ KernelFine(m.pt, stage)
      /\ handles \in SUBSET FileIds /\ BreakFine(current, stage)
  BY <1>5, RunReady
<1>7. length \in Nat /\ length > 0 /\ prot \in SUBSET All
  BY VmAssumption DEF All
<1>8. Granted(m, a, length)
  <2>1. CASE fixed
    <3>1. addr \in Nat
      BY Sizes, PageFacts DEF UserAddrs
    <3>2. a = addr
      BY <1>1, <1>5, <2>1 DEF mmap_result, mmap_addr
    <3>3. mmap_result(m, a, length, TRUE) = a
      BY <1>1, <2>1, <3>2
    <3> QED
      BY <1>7, <3>1, <3>2, <3>3, GrantedFixed
  <2>2. CASE ~fixed
    <3>1. a = mmap_result(m, 0, length, FALSE)
      BY <1>1, <2>2
    <3> QED
      BY <1>5, <1>6, <1>7, <3>1, GrantedGap
  <2> QED
    BY <2>1, <2>2
<1>9. Sound(u, handles, 1, 0) /\ MapsShown(m, u, a, length, file, offset)
  BY <1>2, <1>6, <1>7, <1>8, GrantedShown
<1>10. Called # stage
  BY <1>5, CalledNew
<1>11. file \in 0 .. MAX_FILES /\ stage[1] # "off"
  BY <1>5, <1>6, FilesAre
<1> QED
  BY <1>5, <1>7, <1>9, <1>10, <1>11, MapsStep

\* A call that maps nothing of a file.
LEMMA ZeroStep ==
    ASSUME NEW next, NEW u, NEW cur, NEW ask, Effect(next, u, cur, ask), stage[1] # "off",
           next # stage, NEW H \in SUBSET FileIds, Sound(m, H, 1, 0), NEW st, KernelFine(m.pt, st),
           NEW a \in Nat, NEW length \in Nat, length > 0, mmap_result(m, a, length, TRUE) = a,
           u = do_mmap_at(m, a, length, All, FALSE, 0, 0)
    PROVE  AbstractStep
<1>1. PICK file \in {0} \cup H : file = 0
  OBVIOUS
<1>2. PICK prot \in SUBSET All : prot = All
  OBVIOUS
<1>3. PICK populate \in BOOLEAN : populate = FALSE
  OBVIOUS
<1>4. PICK offset \in Nat : offset = 0
  OBVIOUS
<1>5. u = do_mmap_at(m, a, length, prot, populate, file, offset)
  BY <1>1, <1>2, <1>3, <1>4
<1>6. Granted(m, a, length)
  BY GrantedFixed
<1>7. Sound(u, H, 1, 0) /\ MapsShown(m, u, a, length, file, offset)
  BY <1>5, <1>6, GrantedShown
<1>8. file \in 0 .. MAX_FILES
  BY FilesAre
<1> QED
  BY <1>7, <1>8, MapsStep

\* do_brk is Unmap or MapZero, or is not seen.
LEMMA do_brkShown ==
    ASSUME IInv, CallsFine, NEW addr \in 0 .. MmapMax, do_brk(addr)
    PROVE  AbstractStep
<1>1. PICK new : new = ROUNDUP(newbrk(addr))
  OBVIOUS
<1>2. PICK old : old = oldbrk
  OBVIOUS
<1>3. PICK cur : cur = [current EXCEPT !.brk = new]
  OBVIOUS
<1>4. /\ stage[1] = "run" /\ Running /\ stage[1] # "off"
  BY DEF do_brk, Call, Running
<1>5. /\ Sound(m, handles, 1, 0) /\ KernelFine(m.pt, stage)
      /\ m.panic = "none" /\ handles \in SUBSET FileIds /\ BreakFine(current, stage)
  BY <1>4, RunReady
<1>6. /\ old \in FirstFree .. MmapMax /\ old % PGSIZE = 0
  BY <1>2, <1>4, <1>5, OldbrkIn
<1>7. /\ new \in FirstFree .. MmapMax /\ new % PGSIZE = 0
  <2>1. newbrk(addr) \in FirstFree .. MmapMax
    BY <1>4, <1>5, NewbrkIn
  <2> QED
    BY <1>1, <2>1, RoundUpIn
<1>8. old \in Nat /\ new \in Nat /\ old <= MmapMax /\ new <= MmapMax
      /\ FirstFree <= old /\ FirstFree <= new
  BY <1>6, <1>7, Sizes
<1>9. Called # stage
  BY <1>4, CalledNew
<1>10. \/ old > new /\ Effect(Called, munmap(m, new, old - new), cur, Asked(new, old - new, {}))
       \/ old < new /\ Effect(Called, IF mmap_result(m, old, new - old, TRUE) = old
                                      THEN do_mmap_at(m, old, new - old, All, FALSE, 0, 0)
                                      ELSE Panic("__do_mmap == current.brk"),
                              cur, Asked(old, new - old, All))
       \/ old = new /\ Effect(Called, m, cur, asked)
  BY <1>1, <1>2, <1>3 DEF do_brk
<1>11. CASE old > new /\ Effect(Called, munmap(m, new, old - new), cur, Asked(new, old - new, {}))
  <2>0. old > new
    BY <1>11, Zenon
  <2>1. PICK u : u = munmap(m, new, old - new)
    OBVIOUS
  <2>2. PICK ask : ask = Asked(new, old - new, {})
    OBVIOUS
  <2>3. PICK len \in Nat : len = old - new /\ new + len = old /\ len > 0
    BY <1>8, <2>0
  <2>4. new \in Int /\ valid_user_range(new, len) /\ u = munmap(m, new, len)
    BY <1>8, <2>1, <2>3 DEF valid_user_range
  <2>5. /\ Sound(u, handles, 1, 0) /\ KernelFine(u.pt, stage)
        /\ Unmapped(m, u, new \div PGSIZE, NPage(len))
        /\ PagesOf(new, len) \subseteq UserPages
    BY <1>5, <1>7, <2>3, <2>4, UnmapCall
  <2>6. PICK first \in Nat : first = new \div PGSIZE
    BY <1>8, Sizes, Divides
  <2>7. PICK n \in Nat : n = NPage(len) /\ n > 0
    BY <2>3, NPages
  <2>8. PagesMay(first, n) /\ Unmapped(m, u, first, n)
    BY <2>5, <2>6, <2>7 DEF PagesMay, PagesOf
  <2>9. Effect(Called, u, cur, ask)
    BY <1>11, <2>1, <2>2
  <2> QED
    BY <1>4, <1>5, <1>9, <2>5, <2>8, <2>9, UnmapStep
<1>12. CASE old < new /\ Effect(Called, IF mmap_result(m, old, new - old, TRUE) = old
                                       THEN do_mmap_at(m, old, new - old, All, FALSE, 0, 0)
                                       ELSE Panic("__do_mmap == current.brk"),
                               cur, Asked(old, new - old, All))
  <2>0. old < new
    BY <1>12, Zenon
  <2>1. PICK len \in Nat : len = new - old /\ len > 0
    BY <1>8, <2>0
  <2>2. PICK ask : ask = Asked(old, len, All)
    OBVIOUS
  <2>3. CASE mmap_result(m, old, len, TRUE) = old
    <3>1. PICK u : u = do_mmap_at(m, old, len, All, FALSE, 0, 0)
      OBVIOUS
    <3>2. Effect(Called, u, cur, ask)
      BY <1>12, <2>1, <2>2, <2>3, <3>1
    <3> QED
      BY <1>4, <1>5, <1>8, <1>9, <2>1, <2>3, <3>1, <3>2, ZeroStep
  <2>4. CASE mmap_result(m, old, len, TRUE) # old
    <3>1. PICK u : u = Panic("__do_mmap == current.brk")
      OBVIOUS
    <3>2. Effect(Called, u, cur, ask)
      BY <1>12, <2>1, <2>2, <2>4, <3>1
    <3>3. u.panic = "__do_mmap == current.brk"
      BY <1>5, <3>1, PanicFine, PanicLabels DEF Panic
    <3>4. u.panic \in Labels \ {"none"}
      BY <3>3, PanicLabels
    <3> QED
      BY <1>4, <3>2, <3>4, OffNext DEF AbstractStep
  <2> QED
    BY <2>3, <2>4
<1>13. CASE old = new /\ Effect(Called, m, cur, asked)
  <2>1. SameShown(m, m)
    BY DEF SameShown
  <2> QED
    BY <1>4, <1>5, <1>13, <2>1, SameStep
<1> QED
  BY <1>10, <1>11, <1>12, <1>13

\* load_elf's opening of the file is not seen.
LEMMA OpenElfShown == IInv /\ OpenElf => AbstractStep
<1> SUFFICES ASSUME IInv, OpenElf PROVE AbstractStep
  OBVIOUS
<1>1. /\ stage[1] = "open" /\ m' = [m EXCEPT !.files = file_open(m.files)]
  BY DEF OpenElf
<1>2. CoreOf(m, stage, current, handles, asked)
  BY DEF IInv, CoreInv
<1>3. m = PowerOn /\ Sound(m, handles, 1, 0) /\ HandlesFine(handles, stage) /\ stage[1] # "off"
  BY <1>1, <1>2, Zenon DEF CoreOf
<1>4. handles = {}
  BY <1>1, <1>3 DEF HandlesFine
<1>5. FreeFiles(m.files) # {}
  <2>1. 1 \in FileIds
    BY Sizes DEF FileIds
  <2>2. m.files = file_init
    BY <1>3 DEF PowerOn
  <2>3. 1 \in FreeFiles(m.files)
    BY <2>1, <2>2 DEF FreeFiles, file_init
  <2> QED
    BY <2>3
<1>6. PICK f : f = file_get_free(m.files)
  OBVIOUS
<1>7. PICK u : u = [m EXCEPT !.files = file_open(m.files)]
  OBVIOUS
<1>8. FilesOnly(m, u)
  <2>1. Sound(m, {}, 1, 0) /\ {} \in SUBSET FileIds
    BY <1>3, <1>4
  <2> QED
    BY <1>5, <1>6, <1>7, <2>1, FileOpen
<1> QED
  BY <1>1, <1>7, <1>8, FilesOnlyStep

\* load_elf's file_decref is not seen.
LEMMA CloseElfShown == IInv /\ CloseElf => AbstractStep
<1> SUFFICES ASSUME IInv, CloseElf PROVE AbstractStep
  OBVIOUS
<1>1. /\ stage[1] = "close" /\ m' = [m EXCEPT !.files = file_decref(m.files, Min(handles))]
  BY DEF CloseElf
<1>2. Sound(m, handles, 1, 0) /\ HandlesFine(handles, stage)
  BY <1>1, LoadReady
<1>3. PICK f \in FileIds : handles = {f}
  BY <1>1, <1>2 DEF HandlesFine
<1>4. Min(handles) = f
  <2>1. {f} \subseteq Nat /\ {f} # {}
    BY PageFacts
  <2>2. Min({f}) \in {f}
    BY <2>1, Least, Zenon
  <2> QED
    BY <1>3, <2>2
<1>5. PICK u : u = [m EXCEPT !.files = file_decref(m.files, f)]
  OBVIOUS
<1>6. FilesOnly(m, u)
  <2>1. Sound(m, {f}, 1, 0) /\ {f} \in SUBSET FileIds /\ f \in {f}
    BY <1>2, <1>3
  <2> QED
    BY <1>5, <2>1, FileClose
<1>7. m' = u
  BY <1>1, <1>4, <1>5
<1> QED
  BY <1>6, <1>7, FilesOnlyStep

\* load_elf's mapping of a segment's rest is MapZero, or is not seen.
LEMMA MapBssShown == IInv /\ MapBss => AbstractStep
<1> SUFFICES ASSUME IInv, MapBss PROVE AbstractStep
  OBVIOUS
<1>1. stage[1] = "bss" /\ stage[1] # "off"
  BY DEF MapBss
<1>2. /\ Sound(m, handles, 1, 0) /\ KernelFine(m.pt, stage)
      /\ m.panic = "none" /\ StageFine(stage) /\ HandlesFine(handles, stage)
  BY <1>1, LoadReady
<1>3. PICK i \in 1 .. Len(Segments) : i = stage[2]
  BY <1>1, <1>2 DEF StageFine
<1>4. PICK seg : seg = Segments[i]
  OBVIOUS
<1>5. PICK pad \in Nat : pad = seg.vaddr % PGSIZE
  BY <1>4, SegmentFacts
<1>6. PICK mapped : mapped = ROUNDUP(seg.filesz + pad) - pad
  OBVIOUS
<1>7. PICK at \in Nat : at = seg.vaddr + mapped
  <2>1. seg.vaddr \in Nat
    BY <1>4, SegmentFacts
  <2>2. Base(seg) = seg.vaddr - pad /\ InFile(seg) = seg.filesz + pad
    BY <1>5 DEF Base, InFile
  <2>3. ROUNDUP(InFile(seg)) \in Nat /\ Base(seg) + ROUNDUP(InFile(seg)) \in Nat
    BY <1>4, BssFacts
  <2>4. PICK w \in Int : w = ROUNDUP(seg.filesz + pad) /\ (seg.vaddr - pad) + w \in Nat
    BY <2>2, <2>3
  <2>5. seg.vaddr + mapped = (seg.vaddr - pad) + w
    <3>1. \A x, y, z \in Int : x + (z - y) = (x - y) + z
      OBVIOUS
    <3>2. seg.vaddr \in Int /\ pad \in Int
      BY <2>1
    <3> QED
      BY <1>6, <2>4, <3>1, <3>2
  <2> QED
    BY <2>4, <2>5
<1>8. PICK len \in Int : len = seg.memsz - mapped
  <2>1. seg.memsz \in Nat /\ ROUNDUP(InFile(seg)) \in Nat
    BY <1>4, SegmentFacts, BssFacts
  <2>2. InFile(seg) = seg.filesz + pad
    BY <1>5 DEF InFile
  <2>3. PICK w \in Int : w = ROUNDUP(seg.filesz + pad)
    BY <2>1, <2>2
  <2>4. mapped \in Int
    BY <1>6, <2>3
  <2> QED
    BY <2>1, <2>4
<1>9. PICK next : next = IF i = 1 THEN <<"close", 0>> ELSE <<"map", i - 1>>
  OBVIOUS
<1>10. PICK r : r = IF len <= 0 THEN m
                    ELSE IF mmap_result(m, at, len, TRUE) = at
                         THEN do_mmap_at(m, at, len, All, FALSE, 0, 0)
                         ELSE Panic("fail to memory map a section")
  OBVIOUS
<1>11. PICK cur : cur = [current EXCEPT !.brk_min = Max({current.brk_min, seg.vaddr + seg.memsz})]
  OBVIOUS
<1>12. PICK new : new = IF len <= 0 THEN asked ELSE Asked(at, len, All)
  OBVIOUS
<1>13. Effect(next, r, cur, new)
  BY <1>3, <1>4, <1>5, <1>6, <1>7, <1>8, <1>9, <1>10, <1>11, <1>12, ZenonT(40) DEF MapBss
<1>14. next # stage
  <2>1. next[1] \in {"map", "close"}
    BY <1>9
  <2> QED
    BY <1>1, <2>1
<1>15. handles \in SUBSET FileIds
  BY <1>2 DEF HandlesFine
<1>16. CASE len <= 0
  <2>1. r = m /\ SameShown(m, m)
    BY <1>10, <1>16 DEF SameShown
  <2>2. Sound(r, handles, 1, 0) /\ SameShown(m, r)
    BY <1>2, <2>1
  <2> QED
    BY <1>1, <1>13, <2>2, SameStep
<1>17. CASE len > 0 /\ mmap_result(m, at, len, TRUE) = at
  <2>1. len \in Nat /\ len > 0 /\ ~(len <= 0)
    BY <1>8, <1>17
  <2>2. r = do_mmap_at(m, at, len, All, FALSE, 0, 0)
    BY <1>10, <1>17, <2>1, Zenon
  <2> QED
    BY <1>1, <1>2, <1>13, <1>14, <1>15, <1>17, <2>1, <2>2, ZeroStep
<1>18. CASE len > 0 /\ mmap_result(m, at, len, TRUE) # at
  <2>1. ~(len <= 0)
    BY <1>8, <1>18
  <2>2. r = Panic("fail to memory map a section")
    BY <1>10, <1>18, <2>1, Zenon
  <2>3. r.panic = "fail to memory map a section"
    BY <1>2, <2>2, PanicFine, PanicLabels DEF Panic
  <2>4. r.panic \in Labels \ {"none"}
    BY <2>3, PanicLabels
  <2> QED
    BY <1>1, <1>13, <2>4, OffNext DEF AbstractStep
<1>19. len <= 0 \/ len > 0
  BY <1>8
<1> QED
  BY <1>16, <1>17, <1>18, <1>19

\* What is seen of a call, between machines that show the same.
LEMMA MapsSame ==
    ASSUME NEW r, NEW s, NEW t, NEW u, NEW a, NEW length, NEW file, NEW offset,
           SameShown(r, s), MapsShown(s, t, a, length, file, offset), SameShown(t, u)
    PROVE  MapsShown(r, u, a, length, file, offset)
<1>1. PICK first, n, g :
        /\ PagesMay(first, n) /\ n = NPage(length) /\ a = PGSIZE * first
        /\ g.file = file /\ g.addr = a /\ g.length = length /\ g.offset = offset
        /\ Remapped(s, t, first, n, Showing(g))
  BY Zenon DEF MapsShown
<1>2. Remapped(r, u, first, n, Showing(g))
  BY <1>1, Zenon DEF Remapped, SameShown
<1> QED
  BY <1>1, <1>2, Zenon DEF MapsShown

\* pk_vm_init's stack is MapZero; the kernel's pages are not seen.
LEMMA pk_vm_initShown == IInv /\ pk_vm_init => AbstractStep
<1> SUFFICES ASSUME IInv, pk_vm_init PROVE AbstractStep
  OBVIOUS
<1>1. stage[1] = "stack" /\ stage[1] # "off"
  BY DEF pk_vm_init
<1>2. /\ Sound(m, handles, 1, 0) /\ KernelFine(m.pt, stage)
      /\ m.panic = "none" /\ HandlesFine(handles, stage)
  BY <1>1, LoadReady
<1>3. handles = {} /\ Sound(m, {}, 1, 0)
  BY <1>1, <1>2 DEF HandlesFine
<1>4. PICK k : k = map_kernel_range(map_kernel_range(m, 0, FirstFree \div PGSIZE, All),
                                    MmapMax \div PGSIZE, FREE_PAGES, {"r", "w"})
  OBVIOUS
<1>5. KernelThere(m, k)
  BY <1>2, <1>3, <1>4, KernelMap
<1>6. /\ Sound(k, {}, 1, 0) /\ k.vmr = m.vmr /\ k.mem = m.mem
      /\ \A p \in UserPages : k.pt[p] = m.pt[p]
      /\ \A p \in Pages \ UserPages : k.pt[p].kind = "page"
  BY <1>5, Zenon DEF KernelThere
<1>7. SameShown(m, k)
  <2>1. ASSUME NEW u \in User PROVE At(k, u) = At(m, u)
    <3>1. k.pt[u \div PGSIZE] = m.pt[u \div PGSIZE]
      BY <1>6, AddressFacts
    <3> QED
      BY <1>6, <3>1, Zenon DEF At
  <2> QED
    BY <2>1, Zenon DEF SameShown
<1>8. PICK bottom \in Nat : /\ bottom = MmapMax - StackSize /\ bottom % PGSIZE = 0
                            /\ valid_user_range(bottom, StackSize)
  BY StackFacts
<1>9. PICK next : next = <<"run", 0>>
  OBVIOUS
<1>10. PICK u : u = IF mmap_result(k, bottom, StackSize, TRUE) = bottom
                    THEN do_mmap_at(k, bottom, StackSize, All, FALSE, 0, 0)
                    ELSE Panic("stack_bottom")
  OBVIOUS
<1>11. PICK r : r = page_alloc(u)
  OBVIOUS
<1>12. PICK new : new = Asked(bottom, StackSize, All)
  OBVIOUS
<1>13. Effect(next, r, current, new)
  BY <1>4, <1>8, <1>9, <1>10, <1>11, <1>12 DEF pk_vm_init
<1>14. next # stage
  <2>1. next[1] = "run"
    BY <1>9
  <2> QED
    BY <1>1, <2>1
<1>15. CASE mmap_result(k, bottom, StackSize, TRUE) = bottom
  <2>1. u = do_mmap_at(k, bottom, StackSize, All, FALSE, 0, 0)
    BY <1>10, <1>15
  <2>2. PICK len \in Nat : len = StackSize /\ len > 0
    BY Sizes
  <2>3. Granted(k, bottom, len)
    BY <1>15, <2>2, GrantedFixed
  <2>4. PICK H \in SUBSET FileIds : H = {}
    OBVIOUS
  <2>5. PICK file \in {0} \cup H : file = 0
    OBVIOUS
  <2>6. PICK prot \in SUBSET All : prot = All
    OBVIOUS
  <2>7. PICK populate \in BOOLEAN : populate = FALSE
    OBVIOUS
  <2>8. PICK offset \in Nat : offset = 0
    OBVIOUS
  <2>9. u = do_mmap_at(k, bottom, len, prot, populate, file, offset)
    BY <2>1, <2>2, <2>5, <2>6, <2>7, <2>8
  <2>10. KernelFine(k.pt, next)
    <3>1. \A p \in Pages : p < FirstFree \div PGSIZE => p \notin UserPages
      <4>1. PICK b \in Nat, z \in Nat : FirstFree \div PGSIZE = b /\ UserPages = b .. z - 1
        BY Bounds
      <4> QED
        BY <4>1, PageFacts
    <3>2. next[1] = "run"
      BY <1>9
    <3> QED
      BY <1>6, <3>1, <3>2 DEF KernelFine
  <2>11. Sound(k, H, 1, 0)
    BY <1>6, <2>4
  <2>12. Sound(u, H, 1, 0) /\ MapsShown(k, u, bottom, len, file, offset)
    BY <2>2, <2>3, <2>9, <2>10, <2>11, GrantedShown
  <2>13. u \in Machines
    BY <2>12 DEF Sound
  <2>14. /\ r \in Machines /\ r.pt = u.pt /\ r.vmr = u.vmr /\ r.files = u.files /\ r.mem = u.mem
    BY <1>11, <2>13, PageAlloc
  <2>15. Sound(r, H, 1, 0)
    BY <2>12, <2>14 DEF Sound
  <2>16. SameShown(u, r)
    <3>1. \A x \in User : At(r, x) = At(u, x)
      BY <2>14, Zenon DEF At
    <3> QED
      BY <3>1, Zenon DEF SameShown
  <2>17. MapsShown(m, r, bottom, len, file, offset)
    BY <1>7, <2>12, <2>16, MapsSame
  <2>18. file \in 0 .. MAX_FILES
    BY FilesAre
  <2> QED
    BY <1>1, <1>13, <1>14, <2>2, <2>15, <2>17, <2>18, MapsStep
<1>16. CASE mmap_result(k, bottom, StackSize, TRUE) # bottom
  <2>1. u = [m EXCEPT !.panic = "stack_bottom"] /\ m \in Machines
    BY <1>2, <1>10, <1>16 DEF Panic, kassert, Sound
  <2>2. u.panic = "stack_bottom"
    BY <2>1 DEF Machines
  <2>3. u \in Machines
    BY <2>1, PanicLabels DEF Machines
  <2>4. r.panic = "stack_bottom"
    <3>1. r = [u EXCEPT !.next = u.next + 1]
      BY <1>11, <2>2 DEF page_alloc, kassert
    <3> QED
      BY <2>2, <2>3, <3>1 DEF Machines
  <2>5. r.panic \in Labels \ {"none"}
    BY <2>4, PanicLabels
  <2> QED
    BY <1>1, <1>13, <2>5, OffNext DEF AbstractStep
<1> QED
  BY <1>15, <1>16

\* What a segment's part of the file leaves: the page in front of it is
\* cleared up to the segment.
HeadShown(s, t, a, length, skip, file, offset) ==
    \E first, n, g :
        /\ PagesMay(first, n) /\ n = NPage(length) /\ a = PGSIZE * first
        /\ g.file = file /\ g.addr = a /\ g.length = length /\ g.offset = offset
        /\ Remapped(s, t, first, n, ShowingFrom(g, skip))

\* load_elf's memset before a segment: its page shows zero up to the
\* segment.
LEMMA ClearedShown ==
    ASSUME NEW s, NEW H, Sound(s, H, 1, 0), NEW r, r \in Machines,
           NEW a \in Nat, NEW length \in Nat, length > 0, NEW prot, NEW populate \in BOOLEAN,
           NEW file, NEW offset, MapsAt(s, r, a, length, prot, populate, file, offset),
           NEW skip \in Nat, skip < PGSIZE, skip # 0 => populate,
           NEW t, t.pt = r.pt, t.vmr = r.vmr,
           \A x \in User : t.mem[x] = IF a <= x /\ x < a + skip THEN Zero ELSE r.mem[x]
    PROVE  HeadShown(s, t, a, length, skip, file, offset)
<1>1. PICK first \in Nat : first = a \div PGSIZE /\ a = PGSIZE * first
  BY DEF MapsAt
<1>2. PICK n \in Nat : n = NPage(length) /\ n > 0
  BY NPages
<1>3. first .. first + n - 1 \subseteq UserPages
  BY <1>1, <1>2 DEF MapsAt, PagesOf
<1>4. PICK g : g = Region(a, length, file, offset, n, prot)
  OBVIOUS
<1>5. PICK v : Placed(s, r, v, g, first, n, populate)
  BY <1>1, <1>2, <1>4 DEF MapsAt
<1>6. Remapped(s, r, first, n, Showing(g))
  BY <1>5, PlacedShown
<1>7. g.file = file /\ g.addr = a /\ g.length = length /\ g.offset = offset
  BY <1>4 DEF Region
<1>8. PagesMay(first, n)
  BY <1>2, <1>3 DEF PagesMay
<1>9. ASSUME NEW u \in User
      PROVE  At(t, u) = IF u \div PGSIZE \in first .. first + n - 1
                        THEN ShowingFrom(g, skip)[u] ELSE At(s, u)
  <2>1. PICK q \in Pages : q = u \div PGSIZE
    BY AddressFacts
  <2>2. u \in Nat /\ PGSIZE * q <= u /\ u < PGSIZE * q + PGSIZE /\ PGSIZE * q \in Int /\ q \in Int
    <3>1. u \in Nat
      BY AddressFacts
    <3> QED
      BY <2>1, <3>1, Sizes, Divides
  <2>3. At(r, u) = IF q \in first .. first + n - 1 THEN Showing(g)[u] ELSE At(s, u)
    BY <1>6, <2>1 DEF Remapped
  <2>4. CASE a <= u /\ u < a + skip
    <3>1. q = first
      <4>1. PGSIZE * first < PGSIZE * (q + 1)
        <5>1. PGSIZE * (q + 1) = PGSIZE * q + PGSIZE
          BY <2>2, Sizes
        <5> QED
          BY <1>1, <2>2, <2>4, <5>1, Sizes
      <4>2. PGSIZE * q < PGSIZE * (first + 1)
        <5>1. PGSIZE * (first + 1) = PGSIZE * first + PGSIZE
          BY Sizes
        <5> QED
          BY <1>1, <2>2, <2>4, <5>1, Sizes
      <4>3. first < q + 1 /\ q < first + 1
        BY <2>2, <4>1, <4>2, Sizes, Multiples
      <4> QED
        BY <2>2, <4>3
    <3>2. q \in first .. first + n - 1
      BY <1>2, <3>1
    <3>3. populate
      BY <2>2, <2>4
    <3>4. r.pt[q].kind = "page"
      <4>1. r.pt[q] = pte_create(g.prot, TRUE)
        BY <1>5, <3>2, <3>3 DEF Placed
      <4> QED
        BY <4>1 DEF pte_create, Free
    <3>5. At(t, u) = Zero
      <4>1. t.mem[u] = Zero
        BY <2>4
      <4> QED
        BY <2>1, <3>4, <4>1 DEF At
    <3>6. ShowingFrom(g, skip)[u] = Zero
      BY <1>7, <2>4 DEF ShowingFrom
    <3> QED
      BY <2>1, <3>2, <3>5, <3>6
  <2>5. CASE ~(a <= u /\ u < a + skip)
    <3>1. At(t, u) = At(r, u)
      <4>1. t.mem[u] = r.mem[u]
        BY <2>5
      <4> QED
        BY <4>1, Zenon DEF At
    <3>2. CASE q \in first .. first + n - 1
      <4>1. a <= u
        <5>1. PGSIZE * first <= PGSIZE * q
          BY <2>2, <3>2, Sizes, Multiples
        <5> QED
          BY <1>1, <2>2, <5>1
      <4>2. ~(u < g.addr + skip)
        BY <1>7, <2>5, <4>1
      <4>3. ShowingFrom(g, skip)[u] = Showing(g)[u]
        BY <4>2 DEF ShowingFrom, Showing
      <4> QED
        BY <2>1, <2>3, <3>1, <3>2, <4>3
    <3>3. CASE q \notin first .. first + n - 1
      BY <2>1, <2>3, <3>1, <3>3
    <3> QED
      BY <3>2, <3>3
  <2> QED
    BY <2>4, <2>5
<1>10. Remapped(s, t, first, n, ShowingFrom(g, skip))
  BY <1>9, Zenon DEF Remapped
<1> QED
  BY <1>1, <1>2, <1>7, <1>8, <1>10, Zenon DEF HeadShown

\* A call that maps a segment's part of the file.
LEMMA HeadStep ==
    ASSUME NEW next, NEW r, NEW cur, NEW ask, Effect(next, r, cur, ask), stage[1] # "off",
           next # stage, NEW H, Sound(r, H, 1, 0), NEW a, NEW length \in Nat, length > 0,
           NEW skip \in Nat, skip < PGSIZE, NEW f \in FileIds, NEW offset \in Nat,
           HeadShown(m, r, a, length, skip, f, offset)
    PROVE  AbstractStep
<1>1. PICK first, n, g :
        /\ PagesMay(first, n) /\ n = NPage(length) /\ a = PGSIZE * first
        /\ g.file = f /\ g.addr = a /\ g.length = length /\ g.offset = offset
        /\ Remapped(m, r, first, n, ShowingFrom(g, skip))
  BY Zenon DEF HeadShown
<1>2. PICK F : F = ShowingFrom(g, skip)
  OBVIOUS
<1>3. Remapped(m, r, first, n, F)
  BY <1>1, <1>2
<1>4. skip \in 0 .. PGSIZE - 1
  BY Sizes
<1>5. CASE Remapped(m, m', first, n, F) /\ stage' = next
  <2>1. CallOn(first, n)
    BY <1>1, <1>5 DEF CallOn, PagesMay
  <2>2. Remapped(m, m', first, n, ShowingFrom(g, skip))
    BY <1>2, <1>5
  <2>3. g.addr = PGSIZE * first
    BY <1>1
  <2> QED
    BY <1>1, <1>4, <2>1, <2>2, <2>3, FileNext DEF AbstractStep
<1> QED
  BY <1>3, <1>5, RangeStep

\* load_elf's mapping of a segment is MapFile with the head cleared, or is
\* not seen.
LEMMA MapSegmentShown == IInv /\ MapSegment => AbstractStep
<1> SUFFICES ASSUME IInv, MapSegment PROVE AbstractStep
  OBVIOUS
<1>1. stage[1] = "map" /\ stage[1] # "off"
  BY ZenonT(40) DEF MapSegment
<1>2. /\ Sound(m, handles, 1, 0) /\ KernelFine(m.pt, stage)
      /\ m.panic = "none" /\ StageFine(stage) /\ HandlesFine(handles, stage)
  BY <1>1, LoadReady
<1>3. PICK i \in 1 .. Len(Segments) : i = stage[2]
  BY <1>1, <1>2 DEF StageFine
<1>4. PICK seg : seg = Segments[i]
  OBVIOUS
<1>5. PICK pad \in Nat : pad = seg.vaddr % PGSIZE /\ pad < PGSIZE
  <2>1. seg.vaddr % PGSIZE \in Nat /\ seg.vaddr \in Nat
    BY <1>4, SegmentFacts
  <2>2. PICK x \in Int : x = seg.vaddr
    BY <2>1
  <2>3. x % PGSIZE < PGSIZE
    <3>1. /\ x \div PGSIZE \in Int /\ PGSIZE * (x \div PGSIZE) \in Int
          /\ x < PGSIZE * (x \div PGSIZE) + PGSIZE
          /\ x % PGSIZE = x - PGSIZE * (x \div PGSIZE)
      BY Sizes, Divides
    <3> QED
      BY <3>1, Sizes
  <2> QED
    BY <2>1, <2>2, <2>3
<1>6. PICK base \in Nat : base = Base(seg) /\ base % PGSIZE = 0
  BY <1>4, SegmentFacts
<1>7. PICK len \in Nat : len = InFile(seg) /\ len > 0
  BY <1>4, SegmentFacts
<1>8. PICK next : next = <<"bss", i>>
  OBVIOUS
<1>9. PICK r : r = IF mmap_result(m, base, len, TRUE) = base
                   THEN do_mmap_at(m, base, len, All, pad # 0, Min(handles), seg.offset - pad)
                   ELSE Panic("fail to memory map a section header")
  OBVIOUS
<1>10. PICK mem : mem = [x \in User |-> IF x \in base .. seg.vaddr - 1 THEN Zero ELSE r.mem[x]]
  OBVIOUS
<1>11. PICK t : t = [r EXCEPT !.mem = mem]
  OBVIOUS
<1>12. PICK new : new = Asked(base, len, All)
  OBVIOUS
<1>13. base = seg.vaddr - pad /\ len = seg.filesz + pad /\ seg.vaddr \in Nat
  BY <1>4, <1>5, <1>6, <1>7, SegmentFacts DEF Base, InFile
<1>14. Effect(next, t, current, new)
  BY <1>3, <1>4, <1>5, <1>8, <1>9, <1>10, <1>11, <1>12, <1>13, ZenonT(40) DEF MapSegment
<1>15. next # stage
  <2>1. next[1] = "bss"
    BY <1>8
  <2> QED
    BY <1>1, <2>1
<1>16. handles \in SUBSET FileIds /\ Min(handles) \in handles
  <2>1. handles \subseteq FileIds /\ handles # {}
    BY <1>1, <1>2 DEF HandlesFine
  <2>2. handles \subseteq Nat
    BY <2>1, PageFacts
  <2> QED
    BY <2>1, <2>2, Least, Zenon
<1>17. CASE mmap_result(m, base, len, TRUE) = base
  <2>1. PICK f \in handles : f = Min(handles)
    BY <1>16
  <2>2. PICK o \in Nat : o = seg.offset - pad
    BY <1>4, <1>5, SegmentFacts
  <2>3. PICK populate \in BOOLEAN : populate = (pad # 0)
    OBVIOUS
  <2>4. PICK prot \in SUBSET All : prot = All
    OBVIOUS
  <2>5. PICK x \in {0, 1} : x = 0
    OBVIOUS
  <2>6. r = do_mmap_at(m, base, len, prot, populate, f, o)
    BY <1>9, <1>17, <2>1, <2>2, <2>3, <2>4
  <2>7. Granted(m, base, len)
    BY <1>17, GrantedFixed
  <2>8. f \in {0} \cup handles /\ f \in FileIds
    BY <1>16, <2>1
  <2>9. /\ Sound(r, handles, 1, 0) /\ Served(m, r, x) /\ KernelFine(r.pt, stage)
        /\ MapsAt(m, r, base, len, prot, populate, f, o)
    <3>1. /\ handles \in SUBSET FileIds /\ Sound(m, handles, 1, 0) /\ KernelFine(m.pt, stage)
          /\ len > 0 /\ Granted(m, base, len) /\ f \in {0} \cup handles
          /\ r = do_mmap_at(m, base, len, prot, populate, f, o)
      BY <1>2, <1>7, <1>16, <2>6, <2>7, <2>8, Zenon
    <3> QED
      BY <3>1, MapCall, SMTT(40)
  <2>10. r \in Machines /\ mem \in [User -> Units]
    <3>1. r \in Machines /\ r.mem \in [User -> Units]
      BY <2>9, MachineFields DEF Sound
    <3>2. Zero \in Units
      BY DEF Zero, Units
    <3> QED
      BY <1>10, <3>1, <3>2
  <2>11. /\ t \in Machines /\ t.pt = r.pt /\ t.vmr = r.vmr /\ t.files = r.files /\ t.mem = mem
    BY <1>11, <2>10 DEF Machines
  <2>12. Sound(t, handles, 1, 0)
    BY <2>9, <2>11 DEF Sound
  <2>13. \A u \in User : t.mem[u] = IF base <= u /\ u < base + pad THEN Zero ELSE r.mem[u]
    <3>1. ASSUME NEW u \in User
          PROVE  u \in base .. seg.vaddr - 1 <=> base <= u /\ u < base + pad
      <4>1. u \in Nat
        BY AddressFacts
      <4> QED
        BY <1>13, <4>1
    <3> QED
      BY <1>10, <2>11, <3>1
  <2>14. HeadShown(m, t, base, len, pad, f, o)
    BY <1>2, <1>5, <1>7, <2>3, <2>9, <2>10, <2>11, <2>13, ClearedShown
  <2> QED
    BY <1>1, <1>5, <1>7, <1>14, <1>15, <2>8, <2>12, <2>14, HeadStep
<1>18. CASE mmap_result(m, base, len, TRUE) # base
  <2>1. r = kassert(m, FALSE, "fail to memory map a section header")
    BY <1>9, <1>18 DEF Panic
  <2>2. r.panic = "fail to memory map a section header"
    BY <1>2, <2>1, PanicFine, PanicLabels
  <2>3. t.panic = r.panic
    <3>1. r = [m EXCEPT !.panic = "fail to memory map a section header"] /\ m \in Machines
      BY <1>2, <2>1 DEF kassert, Sound
    <3> QED
      BY <1>11, <3>1 DEF Machines
  <2>4. t.panic \in Labels \ {"none"}
    BY <2>2, <2>3, PanicLabels
  <2> QED
    BY <1>1, <1>14, <2>4, OffNext DEF AbstractStep
<1> QED
  BY <1>17, <1>18

\* Where a step takes the program.
StageMoves ==
    \/ stage' = stage \/ stage'[1] # "run" \/ stage' = <<"run", 0>>
    \/ stage[1] = "run" /\ stage' = Called

\* A step's stage, from its effect.
LEMMA EffectStage ==
    ASSUME NEW next, NEW r, NEW cur, NEW ask, Effect(next, r, cur, ask),
           next = stage \/ next[1] # "run" \/ next = <<"run", 0>> \/ (stage[1] = "run" /\ next = Called)
    PROVE  StageMoves
<1>1. stage' = next \/ stage' = <<"off", 0>>
  BY DEF Effect
<1>2. CASE stage' = next
  BY <1>2, Zenon DEF StageMoves
<1>3. CASE stage' = <<"off", 0>>
  <2>1. stage'[1] = "off"
    BY <1>3
  <2> QED
    BY <2>1 DEF StageMoves
<1> QED
  BY <1>1, <1>2, <1>3

\* A call's stage.
LEMMA CalledStage ==
    ASSUME stage[1] = "run", NEW r, NEW cur, NEW ask, Effect(Called, r, cur, ask)
    PROVE  StageMoves
<1>1. PICK next : next = Called
  OBVIOUS
<1>2. Effect(next, r, cur, ask)
  BY <1>1
<1> QED
  BY <1>1, <1>2, EffectStage

\* Every step's stage.
LEMMA NextStage == Next => StageMoves
<1> SUFFICES ASSUME Next PROVE StageMoves
  OBVIOUS
<1>1. CASE OpenElf \/ CloseElf
  <2>1. stage'[1] # "run"
    BY <1>1 DEF OpenElf, CloseElf
  <2> QED
    BY <2>1 DEF StageMoves
<1>2. CASE MapSegment
  <2>1. PICK next : next = <<"bss", stage[2]>>
    OBVIOUS
  <2>2. \E r, cur, ask : Effect(next, r, cur, ask)
    BY <1>2, <2>1, Zenon DEF MapSegment
  <2>3. next[1] # "run"
    BY <2>1
  <2> QED
    BY <2>2, <2>3, EffectStage
<1>3. CASE MapBss
  <2>1. PICK next : next = IF stage[2] = 1 THEN <<"close", 0>> ELSE <<"map", stage[2] - 1>>
    OBVIOUS
  <2>2. \E r, cur, ask : Effect(next, r, cur, ask)
    BY <1>3, <2>1, Zenon DEF MapBss
  <2>3. next[1] # "run"
    BY <2>1
  <2> QED
    BY <2>2, <2>3, EffectStage
<1>4. CASE pk_vm_init
  <2>1. PICK next : next = <<"run", 0>>
    OBVIOUS
  <2>2. \E r, cur, ask : Effect(next, r, cur, ask)
    BY <1>4, <2>1, Zenon DEF pk_vm_init
  <2> QED
    BY <2>1, <2>2, EffectStage
<1>5. CASE MemoryCall
  <2>1. ASSUME NEW addr, NEW length, NEW prot, NEW fixed, NEW populate, NEW file, NEW offset,
               do_mmap(addr, length, prot, fixed, populate, file, offset)
        PROVE  StageMoves
    <3>1. stage[1] = "run" /\ \E r, cur, ask : Effect(Called, r, cur, ask)
      BY <2>1, Zenon DEF do_mmap, Call, Running
    <3> QED
      BY <3>1, CalledStage
  <2>2. ASSUME NEW addr, NEW length, do_munmap(addr, length) PROVE StageMoves
    <3>1. stage[1] = "run" /\ \E r, cur, ask : Effect(Called, r, cur, ask)
      BY <2>2, Zenon DEF do_munmap, Call, Running
    <3> QED
      BY <3>1, CalledStage
  <2>3. ASSUME NEW addr, NEW length, NEW prot, do_mprotect(addr, length, prot) PROVE StageMoves
    <3>1. stage[1] = "run" /\ \E r, cur, ask : Effect(Called, r, cur, ask)
      BY <2>3, Zenon DEF do_mprotect, Call, Running
    <3> QED
      BY <3>1, CalledStage
  <2>4. ASSUME NEW addr, do_brk(addr) PROVE StageMoves
    <3>1. stage[1] = "run" /\ \E r, cur, ask : Effect(Called, r, cur, ask)
      BY <2>4, Zenon DEF do_brk, Call, Running
    <3> QED
      BY <3>1, CalledStage
  <2> QED
    BY <1>5, <2>1, <2>2, <2>3, <2>4, Zenon DEF MemoryCall
<1>6. CASE open_file
  <2>1. stage[1] = "run" /\ \E r, cur, ask : Effect(Called, r, cur, ask)
    BY <1>6, Zenon DEF open_file, Call, Running
  <2> QED
    BY <2>1, CalledStage
<1>7. CASE (\E f \in handles : close_file(f)) \/ (\E u \in User : StoreTo(u))
  <2>1. stage' = stage
    BY <1>7, Zenon DEF close_file, StoreTo
  <2> QED
    BY <2>1 DEF StageMoves
<1>8. CASE \E p \in UserPages : handle_page_fault(p)
  <2>1. PICK next : next = stage
    OBVIOUS
  <2>2. \E r, cur, ask : Effect(next, r, cur, ask)
    BY <1>8, <2>1, Zenon DEF handle_page_fault
  <2> QED
    BY <2>1, <2>2, EffectStage
<1> QED
  BY <1>1, <1>2, <1>3, <1>4, <1>5, <1>6, <1>7, <1>8, Zenon DEF Next, Load, FileCall, Access

\* A running program counts its calls.
LEMMA CallsInvariance == Spec => []CallsFine
<1>1. Init => CallsFine
  <2> SUFFICES ASSUME Init PROVE CallsFine
    OBVIOUS
  <2>1. stage[1] = "open"
    BY DEF Init
  <2> QED
    BY <2>1 DEF CallsFine
<1>2. CallsFine /\ [Next]_vars => CallsFine'
  <2> SUFFICES ASSUME CallsFine, [Next]_vars, stage'[1] = "run" PROVE stage'[2] \in Nat
    BY DEF CallsFine
  <2>1. StageMoves
    BY NextStage DEF StageMoves, vars
  <2>2. CASE stage' = stage
    BY <2>2 DEF CallsFine
  <2>3. CASE stage' = <<"run", 0>>
    BY <2>3
  <2>4. CASE stage[1] = "run" /\ stage' = Called
    BY <2>4 DEF CallsFine, Called
  <2> QED
    BY <2>1, <2>2, <2>3, <2>4 DEF StageMoves
<1> QED
  BY <1>1, <1>2, PTL DEF Spec

\* Each call of the running program is a step of AddressSpace or is not
\* seen.
LEMMA MemoryCallShown == IInv /\ CallsFine /\ MemoryCall => AbstractStep
<1> SUFFICES ASSUME IInv, CallsFine, MemoryCall PROVE AbstractStep
  OBVIOUS
<1>1. CASE \E addr \in {0} \cup UserAddrs, length \in Lengths, prot \in Prots,
              populate \in BOOLEAN, from \in {<< 0, 0 >>} \cup (handles \X Offsets) :
               do_mmap(addr, length, prot, addr # 0, populate, from[1], from[2])
  <2>1. PICK addr \in {0} \cup UserAddrs, length \in Lengths, prot \in Prots,
             populate \in BOOLEAN, from \in {<< 0, 0 >>} \cup (handles \X Offsets) :
          do_mmap(addr, length, prot, addr # 0, populate, from[1], from[2])
    BY <1>1
  <2>2. PICK fixed \in BOOLEAN : fixed = (addr # 0)
    OBVIOUS
  <2>0. from[1] \in {0} \cup handles /\ from[2] \in Nat
    <3>1. CASE from = << 0, 0 >>
      BY <3>1
    <3>2. CASE from \in handles \X Offsets
      BY <3>2, VmAssumption
    <3> QED
      BY <2>1, <3>1, <3>2
  <2>3. PICK file \in {0} \cup handles : file = from[1]
    BY <2>0
  <2>4. PICK offset \in Nat : offset = from[2]
    BY <2>0
  <2>5. do_mmap(addr, length, prot, fixed, populate, file, offset)
    BY <2>1, <2>2, <2>3, <2>4
  <2>6. fixed \/ addr = 0
    BY <2>2
  <2> QED
    BY <2>5, <2>6, <2>2, <2>3, <2>4, do_mmapShown
<1>2. CASE \E addr \in UserAddrs, length \in Lengths : do_munmap(addr, length)
  BY <1>2, do_munmapShown
<1>3. CASE \E addr \in UserAddrs, length \in Lengths : \E prot \in Prots : do_mprotect(addr, length, prot)
  BY <1>3, do_mprotectShown
<1>4. CASE \E addr \in 0 .. MmapMax : do_brk(addr)
  BY <1>4, do_brkShown
<1> QED
  BY <1>1, <1>2, <1>3, <1>4 DEF MemoryCall

\* Every step is one of AddressSpace, or is not seen.
LEMMA NextShown == IInv /\ CallsFine /\ [Next]_vars => [AS!Next]_shown
<1> SUFFICES ASSUME IInv, CallsFine, [Next]_vars PROVE AbstractStep
  BY DEF AbstractStep
<1>1. CASE Load
  BY <1>1, OpenElfShown, MapSegmentShown, MapBssShown, CloseElfShown, pk_vm_initShown, Zenon DEF Load
<1>2. CASE MemoryCall
  BY <1>2, MemoryCallShown
<1>3. CASE FileCall
  BY <1>3, open_fileShown, close_fileShown, Zenon DEF FileCall
<1>4. CASE Access
  BY <1>4, handle_page_faultShown, StoreToShown, Zenon DEF Access
<1>5. CASE UNCHANGED vars
  <2>1. m' = m
    BY <1>5 DEF vars
  <2>2. SameShown(m, m')
    BY <2>1 DEF SameShown
  <2> QED
    BY <2>2, ShownStays DEF AbstractStep
<1> QED
  BY <1>1, <1>2, <1>3, <1>4, <1>5 DEF Next

\* The start is AddressSpace's.
LEMMA InitShown == Init => AS!Init
<1> SUFFICES ASSUME Init PROVE AS!Init
  OBVIOUS
<1>1. PICK s : s = m
  OBVIOUS
<1>2. s = PowerOn
  BY <1>1 DEF Init
<1>3. "none" \in Labels
  BY PanicLabels
<1>4. \A u \in User : At(s, u) = <<>>
  BY <1>2, <1>3, OffShown
<1>5. shown = [u \in User |-> At(m, u)]
  BY ShownIs
<1>6. shown = [u \in User |-> <<>>]
  BY <1>1, <1>4, <1>5
<1> QED
  BY <1>6 DEF AS!Init, AS!Nothing

\* The supervisor's memory is AddressSpace, for every size and every call:
\* demand paging, the shared regions and the file's late reads cannot be
\* seen by the program.
THEOREM ImplementsHolds == Spec => Implements
  BY InitShown, NextShown, Invariance, CallsInvariance, PTL DEF Spec, Implements, AS!Spec
=============================================================================
