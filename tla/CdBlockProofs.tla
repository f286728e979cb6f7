--------------------------- MODULE CdBlockProofs ---------------------------
(* For any number of buffers, partitions and commands no buffer is lost or  *)
(* shared and every list is whole, the sectors the host has still to read   *)
(* stay in their partitions until a command takes one, and no filter is fed *)
(* from two sides.                                                          *)
(*                                                                          *)
(* A pool is Sound when there are lists, linked both ways and counted, on   *)
(* which each buffer lies where w says, but for those in out, which are on  *)
(* none. Each operation on the lists is first shown to write what it must   *)
(* (FreeWrites and so on), then to make of whole lists whole lists          *)
(* (FreePuts), then to keep a pool Sound (SoundFree); the commands repeat   *)
(* them, so that the lemmas about Delete, PUT, MOVE or COPY are about       *)
(* InTurn, with the set each repetition leads to. The code walks a list     *)
(* from its first buffer by Next; Walks says that it meets all of the list, *)
(* once.                                                                    *)
(*                                                                          *)
(* At the end the threaded reader of CdReader: no slot of its pool is lost  *)
(* or shared, and every read ends with the sector it asked for or with an   *)
(* error the image gave for it, for any size of the cache and of the pool,  *)
(* any image and any read-ahead. Its invariant says who owns each slot,     *)
(* that a slot is in a thread's hand only at one place of its loop, and     *)
(* what a slot holds once the worker has let it go.                         *)
EXTENDS CdBlock, CdReader, FiniteSetTheorems, TLAPS

-----------------------------------------------------------------------------
(* Folds. *)

\* A set of numbers that has 0 and with a number the next one has all up to any n.
LEMMA Climbs ==
  ASSUME NEW n \in Nat, NEW T, 0 \in T, \A i \in 1..n : i - 1 \in T => i \in T
  PROVE  n \in T
<1> DEFINE M == {i \in 0..n : i \notin T}
           f == [i \in M |-> i - 1]
<1> SUFFICES ASSUME n \notin T PROVE FALSE
  OBVIOUS
<1>1. IsFiniteSet(M)
  <2>1. IsFiniteSet(0..n)
    BY FS_Interval
  <2>2. M \in SUBSET (0..n)
    OBVIOUS
  <2> HIDE DEF M
  <2> QED  BY <2>1, <2>2, FS_Subset
<1>2. f \in Injection(M, M)
  <2>1. \A i \in M : i - 1 \in M
    OBVIOUS
  <2>2. f \in [M -> M]
    BY <2>1
  <2>3. \A i, j \in M : f[i] = f[j] => i = j
    OBVIOUS
  <2> QED  BY <2>2, <2>3, Zenon DEF Injection, IsInjective
<1>3. f \in Surjection(M, M)
  BY <1>1, <1>2, FS_Injection
<1>4. n \in M
  OBVIOUS
<1>5. PICK m \in M : f[m] = n
  BY <1>3, <1>4 DEF Surjection
<1> QED  BY <1>5

\* What the steps come to is a value of the last of the sets each leads to.
LEMMA InTurnKeeps ==
  ASSUME NEW base, NEW steps, Len(steps) \in Nat, NEW K,
         base \in K[0],
         \A i \in 1..Len(steps) : \A x \in K[i - 1] : steps[i][x] \in K[i]
  PROVE  InTurn(base, steps) \in K[Len(steps)]
<1> DEFINE N == Len(steps)
           After(g, n) == g = [i \in 0..n |-> IF i = 0 THEN base ELSE steps[i][g[i - 1]]]
           after == CHOOSE g : After(g, N)
<1>0. N \in Nat
  OBVIOUS
<1> HIDE DEF N
<1>1. \E g : After(g, N)
  <2> DEFINE T == {n \in 0..N : \E g : After(g, n)}
  <2>1. 0 \in T
    <3> DEFINE g0 == [i \in 0..0 |-> base]
    <3>1. g0 = [i \in 0..0 |-> IF i = 0 THEN base ELSE steps[i][g0[i - 1]]]
      OBVIOUS
    <3> HIDE DEF g0
    <3>2. \E g : After(g, 0)
      BY <3>1
    <3> QED  BY <1>0, <3>2
  <2>2. ASSUME NEW n \in 1..N, n - 1 \in T PROVE n \in T
    <3>1. PICK g : After(g, n - 1)
      BY <2>2
    <3>2. \A i \in 0..(n - 1) : g[i] = IF i = 0 THEN base ELSE steps[i][g[i - 1]]
      BY <3>1, Zenon
    <3> DEFINE h == [i \in 0..n |-> IF i = n THEN steps[n][g[n - 1]] ELSE g[i]]
    <3>3. \A i \in 0..n : h[i] = IF i = 0 THEN base ELSE steps[i][h[i - 1]]
      <4> SUFFICES ASSUME NEW i \in 0..n PROVE h[i] = IF i = 0 THEN base ELSE steps[i][h[i - 1]]
        OBVIOUS
      <4>1. i # 0 => h[i - 1] = g[i - 1]
        BY <1>0
      <4>2. h[i] = IF i = n THEN steps[n][g[n - 1]] ELSE g[i]
        OBVIOUS
      <4>3. n # 0 /\ (i # n => i \in 0..(n - 1))
        BY <1>0
      <4> HIDE DEF h
      <4> QED  BY <3>2, <4>1, <4>2, <4>3
    <3>4. h = [i \in 0..n |-> h[i]]
      BY Zenon
    <3> HIDE DEF h
    <3>5. After(h, n)
      BY <3>3, <3>4
    <3>6. \E k : After(k, n)
      BY <3>5
    <3> QED  BY <1>0, <3>6
  <2>3. N \in T
    <3> HIDE DEF T
    <3> QED  BY <1>0, <2>1, <2>2, Climbs
  <2> QED  BY <2>3
<1>2. After(after, N)
  BY <1>1, Zenon
<1>3. InTurn(base, steps) = after[N]
  BY DEF InTurn, N
<1> HIDE DEF after
<1> DEFINE R == {n \in 0..N : after[n] \in K[n]}
<1>4. 0 \in R
  BY <1>0, <1>2
<1>5. \A n \in 1..N : n - 1 \in R => n \in R
  BY <1>0, <1>2 DEF N
<1> HIDE DEF R
<1>6. N \in R
  BY <1>0, <1>4, <1>5, Climbs
<1> QED  BY <1>3, <1>6 DEF R, N

-----------------------------------------------------------------------------
(* The lists. *)

\* The list that ends at e: a partition's, or for None the free one
FirstOf(q, e) == IF e = None THEN q.FirstFree ELSE q.First[e]
CountOf(q, e) == IF e = None THEN q.FreeCount ELSE q.Count[e]

\* q has the list l at e: linked both ways, with its ends and its count.
Whole(q, e, l) ==
  /\ FirstOf(q, e) = IF Len(l) = 0 THEN None ELSE l[1]
  /\ CountOf(q, e) = Len(l)
  /\ e # None => q.Last[e] = IF Len(l) = 0 THEN None ELSE l[Len(l)]
  /\ \A i \in 1..Len(l) : /\ q.Next[l[i]] = IF i = Len(l) THEN None ELSE l[i + 1]
                          /\ q.Prev[l[i]] = IF i = 1 THEN None ELSE l[i - 1]

Apart(L) == \A e, f \in Ends : \A i \in 1..Len(L[e]), j \in 1..Len(L[f]) :
              L[e][i] = L[f][j] => e = f /\ i = j

\* The pool q has the lists L.
Has(q, L) == L \in [Ends -> Seq(Buffers)] /\ (\A e \in Ends : Whole(q, e, L[e])) /\ Apart(L)

\* q differs from z at most in the list at e and in what is on no list of L.
Spares(q, z, L, e) ==
  \A f \in Ends \ {e} :
    /\ FirstOf(z, f) = FirstOf(q, f) /\ CountOf(z, f) = CountOf(q, f)
    /\ f # None => z.Last[f] = q.Last[f]
    /\ \A i \in 1..Len(L[f]) : z.Next[L[f][i]] = q.Next[L[f][i]] /\ z.Prev[L[f][i]] = q.Prev[L[f][i]]

\* A pool that spares all lists but one has the others as they were.
LEMMA Relist ==
  ASSUME NEW q, NEW z, NEW L, Has(q, L), NEW e \in Ends, NEW l \in Seq(Buffers),
         Spares(q, z, L, e), Whole(z, e, l),
         \A i, j \in 1..Len(l) : l[i] = l[j] => i = j,
         \A f \in Ends \ {e} : \A i \in 1..Len(L[f]), j \in 1..Len(l) : L[f][i] # l[j]
  PROVE  Has(z, [L EXCEPT ![e] = l])
<1> DEFINE M == [L EXCEPT ![e] = l]
<1>1. M \in [Ends -> Seq(Buffers)] /\ M[e] = l /\ \A f \in Ends \ {e} : M[f] = L[f]
  BY DEF Has
<1> HIDE DEF M
<1>2. ASSUME NEW f \in Ends PROVE Whole(z, f, M[f])
  <2>1. CASE f = e
    BY <1>1, <2>1
  <2>2. CASE f # e
    <3>1. Whole(q, f, L[f])
      BY DEF Has
    <3>2. Whole(z, f, L[f])
      BY <2>2, <3>1 DEF Whole, Spares
    <3> QED  BY <1>1, <2>2, <3>2
  <2> QED  BY <2>1, <2>2
<1>3. Apart(M)
  <2> SUFFICES ASSUME NEW f \in Ends, NEW g \in Ends, NEW i \in 1..Len(M[f]), NEW j \in 1..Len(M[g]),
                      M[f][i] = M[g][j]
               PROVE  f = g /\ i = j
    BY DEF Apart
  <2>1. CASE f # e /\ g # e
    BY <1>1, <2>1 DEF Has, Apart
  <2>2. CASE f = e \/ g = e
    BY <1>1, <2>2
  <2> QED  BY <2>1, <2>2
<1> QED  BY <1>1, <1>2, <1>3 DEF Has, M

\* What each operation writes
LEMMA FreeWrites ==
  ASSUME NEW q \in Pools, NEW b \in Buffers
  PROVE  LET z == Buffer_Free(q, b) IN
         /\ z \in Pools
         /\ z.FirstFree = b /\ z.FreeCount = q.FreeCount + 1
         /\ z.First = q.First /\ z.Last = q.Last /\ z.Count = q.Count
         /\ \A c \in Buffers :
              /\ z.Next[c] = IF c = b THEN q.FirstFree ELSE q.Next[c]
              /\ z.Prev[c] = IF c = b THEN None ELSE IF c = q.FirstFree THEN b ELSE q.Prev[c]
<1> DEFINE P == [Set(q.Prev, q.FirstFree, b) EXCEPT ![b] = None]
           N == [q.Next EXCEPT ![b] = q.FirstFree]
<1>0. None \notin Buffers
  BY BlockConstants
<1>1. P \in [Buffers -> Index] /\ N \in [Buffers -> Index]
  BY DEF Pools, Set, Index
<1>2. \A c \in Buffers :
        /\ N[c] = IF c = b THEN q.FirstFree ELSE q.Next[c]
        /\ P[c] = IF c = b THEN None ELSE IF c = q.FirstFree THEN b ELSE q.Prev[c]
  BY <1>0 DEF Pools, Set, Index
<1>3. Buffer_Free(q, b) = [q EXCEPT !.Prev = P, !.Next = N, !.FreeCount = q.FreeCount + 1, !.FirstFree = b]
  BY DEF Buffer_Free, Pools
<1>4. q.FreeCount + 1 \in Nat /\ b \in Index
  BY DEF Pools, Index
<1> HIDE DEF P, N
<1>5. LET z == Buffer_Free(q, b) IN
      /\ z \in Pools
      /\ z.FirstFree = b /\ z.FreeCount = q.FreeCount + 1
      /\ z.First = q.First /\ z.Last = q.Last /\ z.Count = q.Count /\ z.Next = N /\ z.Prev = P
  BY <1>1, <1>3, <1>4 DEF Pools
<1> QED  BY <1>2, <1>5

LEMMA AllocateWrites ==
  ASSUME NEW q \in Pools, q.FirstFree \in Buffers, q.FreeCount > 0
  PROVE  LET z == Buffer_Allocate(q) 
             b == Allocated(q) IN
         /\ z \in Pools
         /\ z.FirstFree = q.Next[b] /\ z.FreeCount = q.FreeCount - 1
         /\ z.First = q.First /\ z.Last = q.Last /\ z.Count = q.Count
         /\ \A c \in Buffers :
              /\ z.Next[c] = IF c = b THEN None ELSE q.Next[c]
              /\ z.Prev[c] = IF c = b THEN None ELSE IF c = q.Next[b] THEN q.Prev[b] ELSE q.Prev[c]
<1> DEFINE b == q.FirstFree
           P == [Set(q.Prev, q.Next[b], q.Prev[b]) EXCEPT ![b] = None]
           N == [q.Next EXCEPT ![b] = None]
<1>0. None \notin Buffers
  BY BlockConstants
<1>1. P \in [Buffers -> Index] /\ N \in [Buffers -> Index] /\ q.Next[b] \in Index
  BY DEF Pools, Set, Index
<1>2. \A c \in Buffers :
        /\ N[c] = IF c = b THEN None ELSE q.Next[c]
        /\ P[c] = IF c = b THEN None ELSE IF c = q.Next[b] THEN q.Prev[b] ELSE q.Prev[c]
  BY <1>0 DEF Pools, Set, Index
<1>3. Buffer_Allocate(q) = [q EXCEPT !.FirstFree = q.Next[b], !.FreeCount = q.FreeCount - 1, !.Prev = P, !.Next = N]
  BY DEF Buffer_Allocate, Pools
<1>4. q.FreeCount - 1 \in Nat
  BY DEF Pools
<1> HIDE DEF P, N
<1>5. LET z == Buffer_Allocate(q) IN
      /\ z \in Pools
      /\ z.FirstFree = q.Next[b] /\ z.FreeCount = q.FreeCount - 1
      /\ z.First = q.First /\ z.Last = q.Last /\ z.Count = q.Count /\ z.Next = N /\ z.Prev = P
  BY <1>1, <1>3, <1>4 DEF Pools
<1> QED  BY <1>2, <1>5 DEF Allocated

LEMMA LinkWrites ==
  ASSUME NEW q \in Pools, NEW p \in Parts, NEW b \in Buffers
  PROVE  LET z == Partition_LinkBuffer(q, p, b) IN
         /\ z \in Pools
         /\ z.FirstFree = q.FirstFree /\ z.FreeCount = q.FreeCount
         /\ z.First = [q.First EXCEPT ![p] = IF q.First[p] = None THEN b ELSE q.First[p]]
         /\ z.Last = [q.Last EXCEPT ![p] = b] /\ z.Count = [q.Count EXCEPT ![p] = q.Count[p] + 1]
         /\ \A c \in Buffers :
              /\ z.Next[c] = IF c = b THEN None ELSE IF c = q.Last[p] THEN b ELSE q.Next[c]
              /\ z.Prev[c] = IF c = b THEN q.Last[p] ELSE q.Prev[c]
<1> DEFINE N == [Set(q.Next, q.Last[p], b) EXCEPT ![b] = None]
           P == [q.Prev EXCEPT ![b] = q.Last[p]]
           F == [q.First EXCEPT ![p] = IF q.First[p] = None THEN b ELSE q.First[p]]
           T == [q.Last EXCEPT ![p] = b]
           C == [q.Count EXCEPT ![p] = q.Count[p] + 1]
<1>0. None \notin Buffers
  BY BlockConstants
<1>1. P \in [Buffers -> Index] /\ N \in [Buffers -> Index]
  BY DEF Pools, Set, Index
<1>2. \A c \in Buffers :
        /\ N[c] = IF c = b THEN None ELSE IF c = q.Last[p] THEN b ELSE q.Next[c]
        /\ P[c] = IF c = b THEN q.Last[p] ELSE q.Prev[c]
  BY <1>0 DEF Pools, Set, Index
<1>3. F \in [Parts -> Index] /\ T \in [Parts -> Index] /\ C \in [Parts -> Nat]
  BY DEF Pools, Index
<1>4. Partition_LinkBuffer(q, p, b) = [q EXCEPT !.Next = N, !.Prev = P, !.First = F, !.Last = T, !.Count = C]
  BY DEF Partition_LinkBuffer, Pools
<1> HIDE DEF P, N, F, T, C
<1>5. LET z == Partition_LinkBuffer(q, p, b) IN
      /\ z \in Pools
      /\ z.FirstFree = q.FirstFree /\ z.FreeCount = q.FreeCount
      /\ z.First = F /\ z.Last = T /\ z.Count = C /\ z.Next = N /\ z.Prev = P
  BY <1>1, <1>3, <1>4 DEF Pools
<1> QED  BY <1>2, <1>5 DEF F, T, C

LEMMA LinkRuns ==
  ASSUME NEW q \in Pools, NEW p \in Parts, NEW b \in Buffers
  PROVE  LET z == Partition_LinkBuffer(q, p, b) IN
         /\ z \in Pools /\ z.FreeCount = q.FreeCount
         /\ \A c \in Buffers :
              /\ z.Next[c] = IF c = b THEN None ELSE IF c = q.Last[p] THEN b ELSE q.Next[c]
              /\ z.Prev[c] = IF c = b THEN q.Last[p] ELSE q.Prev[c]
<1> DEFINE z == Partition_LinkBuffer(q, p, b)
<1>1. /\ z \in Pools
      /\ z.FirstFree = q.FirstFree /\ z.FreeCount = q.FreeCount
      /\ z.First = [q.First EXCEPT ![p] = IF q.First[p] = None THEN b ELSE q.First[p]]
      /\ z.Last = [q.Last EXCEPT ![p] = b] /\ z.Count = [q.Count EXCEPT ![p] = q.Count[p] + 1]
      /\ \A c \in Buffers :
           /\ z.Next[c] = IF c = b THEN None ELSE IF c = q.Last[p] THEN b ELSE q.Next[c]
           /\ z.Prev[c] = IF c = b THEN q.Last[p] ELSE q.Prev[c]
  BY LinkWrites
<1> QED  BY ONLY <1>1

LEMMA UnlinkWrites ==
  ASSUME NEW q \in Pools, NEW p \in Parts, NEW b \in Buffers, q.Count[p] > 0
  PROVE  LET z == Partition_UnlinkBuffer(q, p, b) IN
         /\ z \in Pools
         /\ z.FirstFree = q.FirstFree /\ z.FreeCount = q.FreeCount
         /\ z.First = [q.First EXCEPT ![p] = IF q.Prev[b] = None THEN q.Next[b] ELSE q.First[p]]
         /\ z.Last = [q.Last EXCEPT ![p] = IF q.Next[b] = None THEN q.Prev[b] ELSE q.Last[p]]
         /\ z.Count = [q.Count EXCEPT ![p] = q.Count[p] - 1]
         /\ \A c \in Buffers :
              /\ z.Next[c] = IF c = b THEN None ELSE IF c = q.Prev[b] THEN q.Next[b] ELSE q.Next[c]
              /\ z.Prev[c] = IF c = b THEN None ELSE IF c = q.Next[b] THEN q.Prev[b] ELSE q.Prev[c]
<1> DEFINE N == [Set(q.Next, q.Prev[b], q.Next[b]) EXCEPT ![b] = None]
           P == [Set(q.Prev, q.Next[b], q.Prev[b]) EXCEPT ![b] = None]
           F == [q.First EXCEPT ![p] = IF q.Prev[b] = None THEN q.Next[b] ELSE q.First[p]]
           T == [q.Last EXCEPT ![p] = IF q.Next[b] = None THEN q.Prev[b] ELSE q.Last[p]]
           C == [q.Count EXCEPT ![p] = q.Count[p] - 1]
<1>0. None \notin Buffers
  BY BlockConstants
<1>1. P \in [Buffers -> Index] /\ N \in [Buffers -> Index]
  BY DEF Pools, Set, Index
<1>2. \A c \in Buffers :
        /\ N[c] = IF c = b THEN None ELSE IF c = q.Prev[b] THEN q.Next[b] ELSE q.Next[c]
        /\ P[c] = IF c = b THEN None ELSE IF c = q.Next[b] THEN q.Prev[b] ELSE q.Prev[c]
  BY <1>0 DEF Pools, Set, Index
<1>3. F \in [Parts -> Index] /\ T \in [Parts -> Index] /\ C \in [Parts -> Nat]
  BY DEF Pools, Index
<1>4. Partition_UnlinkBuffer(q, p, b) = [q EXCEPT !.Next = N, !.Prev = P, !.First = F, !.Last = T, !.Count = C]
  BY DEF Partition_UnlinkBuffer, Pools
<1> HIDE DEF P, N, F, T, C
<1>5. LET z == Partition_UnlinkBuffer(q, p, b) IN
      /\ z \in Pools
      /\ z.FirstFree = q.FirstFree /\ z.FreeCount = q.FreeCount
      /\ z.First = F /\ z.Last = T /\ z.Count = C /\ z.Next = N /\ z.Prev = P
  BY <1>1, <1>3, <1>4 DEF Pools
<1> QED  BY <1>2, <1>5 DEF F, T, C

LEMMA UnlinkRuns ==
  ASSUME NEW q \in Pools, NEW p \in Parts, NEW b \in Buffers, q.Count[p] > 0
  PROVE  LET z == Partition_UnlinkBuffer(q, p, b) IN
         /\ z \in Pools
         /\ \A c \in Buffers :
              /\ z.Next[c] = IF c = b THEN None ELSE IF c = q.Prev[b] THEN q.Next[b] ELSE q.Next[c]
              /\ z.Prev[c] = IF c = b THEN None ELSE IF c = q.Next[b] THEN q.Prev[b] ELSE q.Prev[c]
<1> DEFINE z == Partition_UnlinkBuffer(q, p, b)
<1>1. /\ z \in Pools
      /\ z.FirstFree = q.FirstFree /\ z.FreeCount = q.FreeCount
      /\ z.First = [q.First EXCEPT ![p] = IF q.Prev[b] = None THEN q.Next[b] ELSE q.First[p]]
      /\ z.Last = [q.Last EXCEPT ![p] = IF q.Next[b] = None THEN q.Prev[b] ELSE q.Last[p]]
      /\ z.Count = [q.Count EXCEPT ![p] = q.Count[p] - 1]
      /\ \A c \in Buffers :
           /\ z.Next[c] = IF c = b THEN None ELSE IF c = q.Prev[b] THEN q.Next[b] ELSE q.Next[c]
           /\ z.Prev[c] = IF c = b THEN None ELSE IF c = q.Next[b] THEN q.Prev[b] ELSE q.Prev[c]
  BY UnlinkWrites
<1> QED  BY ONLY <1>1

Loose(L, b) == \A e \in Ends : \A i \in 1..Len(L[e]) : L[e][i] # b

LEMMA FreePuts ==
  ASSUME NEW q \in Pools, NEW L, Has(q, L), NEW b \in Buffers, Loose(L, b)
  PROVE  Has(Buffer_Free(q, b), [L EXCEPT ![None] = <<b>> \o L[None]])
<1> DEFINE z == Buffer_Free(q, b)
           k == L[None]
           l == <<b>> \o k
<1>1. k \in Seq(Buffers) /\ None \in Ends /\ None \notin Buffers
  BY BlockConstants DEF Has, Ends
<1>2. /\ z.FirstFree = b /\ z.FreeCount = q.FreeCount + 1
      /\ z.First = q.First /\ z.Last = q.Last /\ z.Count = q.Count
      /\ \A c \in Buffers :
           /\ z.Next[c] = IF c = b THEN q.FirstFree ELSE q.Next[c]
           /\ z.Prev[c] = IF c = b THEN None ELSE IF c = q.FirstFree THEN b ELSE q.Prev[c]
  BY FreeWrites
<1>3. /\ l \in Seq(Buffers) /\ Len(l) = Len(k) + 1 /\ l[1] = b
      /\ \A i \in 2..Len(l) : l[i] = k[i - 1] /\ i - 1 \in 1..Len(k)
  BY <1>1
<1>4. /\ q.FirstFree = IF Len(k) = 0 THEN None ELSE k[1]
      /\ q.FreeCount = Len(k)
      /\ \A i \in 1..Len(k) : /\ q.Next[k[i]] = IF i = Len(k) THEN None ELSE k[i + 1]
                              /\ q.Prev[k[i]] = IF i = 1 THEN None ELSE k[i - 1]
                              /\ k[i] \in Buffers /\ k[i] # b
      /\ \A i, j \in 1..Len(k) : k[i] = k[j] => i = j
  BY <1>1 DEF Has, Whole, FirstOf, CountOf, Apart, Loose
<1> HIDE DEF z
<1>5. Spares(q, z, L, None)
  <2> SUFFICES ASSUME NEW f \in Ends \ {None}, NEW i \in 1..Len(L[f])
               PROVE  L[f][i] \in Buffers /\ L[f][i] # b /\ L[f][i] # q.FirstFree
    BY <1>2 DEF Spares, FirstOf, CountOf
  <2>1. L[f][i] \in Buffers /\ L[f][i] # b
    BY DEF Has, Loose
  <2>2. L[f][i] # q.FirstFree
    <3>1. CASE Len(L[None]) = 0
      <4>1. q.FirstFree = None
        BY <1>1, <1>4, <3>1 DEF Has, Whole, FirstOf
      <4> QED  BY <1>1, <2>1, <4>1, BlockConstants
    <3>2. CASE Len(L[None]) # 0
      <4>1. q.FirstFree = L[None][1] /\ 1 \in 1..Len(L[None]) /\ None \in Ends
        BY <1>1, <1>4, <3>2 DEF Has, Whole, FirstOf
      <4> QED  BY <4>1 DEF Has, Apart
    <3> QED  BY <3>1, <3>2
  <2> QED  BY <2>1, <2>2
<1>6. Whole(z, None, l)
  <2> HIDE DEF l, k
  <2>0. Len(k) \in Nat
    BY <1>1
  <2>1. ASSUME NEW i \in 1..Len(l)
        PROVE  /\ z.Next[l[i]] = IF i = Len(l) THEN None ELSE l[i + 1]
               /\ z.Prev[l[i]] = IF i = 1 THEN None ELSE l[i - 1]
    <3>1. CASE i = 1
      BY <3>1, <2>0, <1>2, <1>3, <1>4
    <3>2. CASE i # 1
      <4>1. l[i] = k[i - 1] /\ i - 1 \in 1..Len(k)
        BY <1>3, <2>0, <3>2
      <4>2. z.Next[l[i]] = q.Next[k[i - 1]]
        BY <1>2, <1>4, <4>1
      <4>3. i # Len(l) => l[i + 1] = k[i]
        BY <1>3, <2>0, <3>2
      <4>4. z.Prev[l[i]] = IF i = 2 THEN b ELSE q.Prev[k[i - 1]]
        BY <1>2, <1>4, <4>1, <2>0
      <4>5. i # 2 => l[i - 1] = k[i - 2]
        BY <1>3, <2>0, <3>2
      <4> QED  BY <1>3, <1>4, <2>0, <3>2, <4>1, <4>2, <4>3, <4>4, <4>5
    <3> QED  BY <3>1, <3>2
  <2> QED  BY <1>2, <1>3, <1>4, <2>0, <2>1 DEF Whole, FirstOf, CountOf
<1>7. \A i, j \in 1..Len(l) : l[i] = l[j] => i = j
  <2> HIDE DEF l, k
  <2> SUFFICES ASSUME NEW i \in 1..Len(l), NEW j \in 1..Len(l), l[i] = l[j] PROVE i = j
    OBVIOUS
  <2>1. ASSUME NEW m \in 1..Len(l) PROVE m = 1 \/ (m \in 2..Len(l) /\ l[m] = k[m - 1] /\ l[m] # b)
    <3>1. Len(l) \in Nat /\ (m # 1 => m \in 2..Len(l))
      BY <1>1, <1>3
    <3> QED  BY <1>3, <1>4, <3>1
  <2>2. i = 1 <=> j = 1
    BY <1>3, <2>1
  <2> QED  BY <1>3, <1>4, <2>1, <2>2
<1>8. \A f \in Ends \ {None} : \A i \in 1..Len(L[f]), j \in 1..Len(l) : L[f][i] # l[j]
  <2> SUFFICES ASSUME NEW f \in Ends \ {None}, NEW i \in 1..Len(L[f]), NEW j \in 1..Len(l), L[f][i] = l[j]
               PROVE  FALSE
    OBVIOUS
  <2>1. CASE j = 1
    BY <1>3, <2>1 DEF Loose
  <2>2. CASE j # 1
    <3>1. l[j] = k[j - 1] /\ j - 1 \in 1..Len(k)
      BY <1>3, <2>2
    <3>2. \A m \in 1..Len(k) : L[f][i] # k[m]
      BY <1>1 DEF Has, Apart
    <3> QED  BY <3>1, <3>2
  <2> QED  BY <2>1, <2>2
<1> HIDE DEF l
<1> QED  BY <1>1, <1>3, <1>5, <1>6, <1>7, <1>8, Relist DEF z, l

LEMMA AllocateTakes ==
  ASSUME NEW q \in Pools, NEW L, Has(q, L), Len(L[None]) > 0
  PROVE  Has(Buffer_Allocate(q), [L EXCEPT ![None] = Tail(L[None])])
<1> DEFINE z == Buffer_Allocate(q)
           k == L[None]
           b == k[1]
           l == Tail(k)
<1>1. k \in Seq(Buffers) /\ None \in Ends /\ None \notin Buffers
  BY BlockConstants DEF Has, Ends
<1>0. Len(k) \in Nat /\ Len(k) > 0 /\ 1 \in 1..Len(k)
  BY <1>1
<1>2. /\ q.FirstFree = b
      /\ q.FreeCount = Len(k)
      /\ \A i \in 1..Len(k) : /\ q.Next[k[i]] = IF i = Len(k) THEN None ELSE k[i + 1]
                              /\ q.Prev[k[i]] = IF i = 1 THEN None ELSE k[i - 1]
                              /\ k[i] \in Buffers
      /\ \A i, j \in 1..Len(k) : k[i] = k[j] => i = j
  BY <1>1 DEF Has, Whole, FirstOf, CountOf, Apart
<1>3. /\ z.FirstFree = q.Next[b] /\ z.FreeCount = q.FreeCount - 1
      /\ z.First = q.First /\ z.Last = q.Last /\ z.Count = q.Count
      /\ \A c \in Buffers :
           /\ z.Next[c] = IF c = b THEN None ELSE q.Next[c]
           /\ z.Prev[c] = IF c = b THEN None ELSE IF c = q.Next[b] THEN q.Prev[b] ELSE q.Prev[c]
  BY <1>1, <1>2, AllocateWrites DEF Allocated
<1>9. /\ q.Next[b] = IF Len(k) = 1 THEN None ELSE k[2]
      /\ q.Prev[b] = None /\ b \in Buffers /\ b = k[1]
      /\ Len(k) # 1 => k[2] \in Buffers /\ 2 \in 1..Len(k)
  <2> HIDE DEF z, l
  <2>1. Len(k) # 1 => 2 \in 1..Len(k)
    <3>1. \A x \in Nat : x > 0 /\ x # 1 => 2 \in 1..x
      OBVIOUS
    <3> QED  BY <1>0, <3>1, Zenon
  <2>2. q.Next[k[1]] = IF 1 = Len(k) THEN None ELSE k[1 + 1]
    BY ONLY <1>0, <1>2
  <2>3. q.Prev[k[1]] = None /\ k[1] \in Buffers
    BY ONLY <1>0, <1>2
  <2> QED  BY <1>0, <1>2, <2>1, <2>2, <2>3
<1>4. /\ l \in Seq(Buffers) /\ Len(l) = Len(k) - 1
      /\ \A i \in 1..Len(l) : l[i] = k[i + 1] /\ i + 1 \in 1..Len(k)
  BY <1>1
<1> HIDE DEF z
<1>5. Spares(q, z, L, None)
  <2> SUFFICES ASSUME NEW f \in Ends \ {None}, NEW i \in 1..Len(L[f])
               PROVE  L[f][i] \in Buffers /\ L[f][i] # b /\ L[f][i] # q.Next[b]
    BY <1>3 DEF Spares, FirstOf, CountOf
  <2>1. L[f][i] \in Buffers /\ \A j \in 1..Len(k) : L[f][i] # k[j]
    BY <1>1 DEF Has, Apart
  <2> HIDE DEF b, k
  <2> QED  BY <1>0, <1>1, <1>9, <2>1
<1> HIDE DEF l
<1>6. Whole(z, None, l)
  <2> HIDE DEF k
  <2>0. Len(k) \in Nat /\ Len(k) > 0
    BY <1>0
  <2>1. ASSUME NEW i \in 1..Len(l)
        PROVE  /\ z.Next[l[i]] = IF i = Len(l) THEN None ELSE l[i + 1]
               /\ z.Prev[l[i]] = IF i = 1 THEN None ELSE l[i - 1]
    <3>1. l[i] = k[i + 1] /\ i + 1 \in 1..Len(k) /\ k[i + 1] # b
      <4>1. l[i] = k[i + 1] /\ i + 1 \in 1..Len(k) /\ i + 1 # 1
        BY <1>4, <2>0
      <4> QED  BY <1>0, <1>2, <4>1
    <3>2. z.Next[l[i]] = q.Next[k[i + 1]]
      BY <1>2, <1>3, <3>1
    <3>3. i # Len(l) => l[i + 1] = k[i + 2]
      BY <1>4, <2>0
    <3>4. q.Next[b] = IF Len(k) = 1 THEN None ELSE k[2]
      BY <1>9
    <3>5. q.Prev[b] = None
      BY <1>9
    <3>6. z.Prev[l[i]] = IF i = 1 THEN None ELSE q.Prev[k[i + 1]]
      <4>1. k[i + 1] = q.Next[b] <=> i = 1
        <5>1. Len(k) # 1 /\ 2 \in 1..Len(k)
          BY <1>0, <3>1
        <5> HIDE DEF b
        <5> QED  BY <1>2, <3>1, <3>4, <5>1
      <4>2. k[i + 1] \in Buffers
        BY <1>2, <3>1
      <4> HIDE DEF b
      <4> QED  BY <1>3, <3>1, <3>5, <4>1, <4>2
    <3>7. i # 1 => l[i - 1] = k[i]
      BY <1>4, <2>0
    <3> QED  BY <1>2, <1>4, <2>0, <3>1, <3>2, <3>3, <3>6, <3>7
  <2>2. z.FirstFree = IF Len(l) = 0 THEN None ELSE l[1]
    BY <1>2, <1>3, <1>4, <2>0
  <2> QED  BY <1>2, <1>3, <1>4, <2>0, <2>1, <2>2 DEF Whole, FirstOf, CountOf
<1>7. \A i, j \in 1..Len(l) : l[i] = l[j] => i = j
  BY <1>1, <1>2, <1>4
<1>8. \A f \in Ends \ {None} : \A i \in 1..Len(L[f]), j \in 1..Len(l) : L[f][i] # l[j]
  BY <1>1, <1>4 DEF Has, Apart
<1> QED  BY <1>1, <1>4, <1>5, <1>6, <1>7, <1>8, Relist DEF z, l

LEMMA LinkPuts ==
  ASSUME NEW q \in Pools, NEW L, Has(q, L), NEW b \in Buffers, Loose(L, b), NEW p \in Parts
  PROVE  Has(Partition_LinkBuffer(q, p, b), [L EXCEPT ![p] = Append(L[p], b)])
<1> DEFINE z == Partition_LinkBuffer(q, p, b)
           k == L[p]
           l == Append(k, b)
<1>1. k \in Seq(Buffers) /\ p \in Ends /\ p # None /\ None \notin Buffers
  BY BlockConstants DEF Has, Ends
<1>2. /\ z.FirstFree = q.FirstFree /\ z.FreeCount = q.FreeCount
      /\ z.First = [q.First EXCEPT ![p] = IF q.First[p] = None THEN b ELSE q.First[p]]
      /\ z.Last = [q.Last EXCEPT ![p] = b] /\ z.Count = [q.Count EXCEPT ![p] = q.Count[p] + 1]
      /\ \A c \in Buffers :
           /\ z.Next[c] = IF c = b THEN None ELSE IF c = q.Last[p] THEN b ELSE q.Next[c]
           /\ z.Prev[c] = IF c = b THEN q.Last[p] ELSE q.Prev[c]
  BY LinkWrites
<1>3. /\ l \in Seq(Buffers) /\ Len(l) = Len(k) + 1 /\ l[Len(l)] = b
      /\ \A i \in 1..Len(k) : l[i] = k[i] /\ i \in 1..Len(l)
  BY <1>1
<1>4. /\ q.First[p] = IF Len(k) = 0 THEN None ELSE k[1]
      /\ q.Last[p] = IF Len(k) = 0 THEN None ELSE k[Len(k)]
      /\ q.Count[p] = Len(k)
      /\ \A i \in 1..Len(k) : /\ q.Next[k[i]] = IF i = Len(k) THEN None ELSE k[i + 1]
                              /\ q.Prev[k[i]] = IF i = 1 THEN None ELSE k[i - 1]
                              /\ k[i] \in Buffers /\ k[i] # b
      /\ \A i, j \in 1..Len(k) : k[i] = k[j] => i = j
  BY <1>1 DEF Has, Whole, FirstOf, CountOf, Apart, Loose
<1>5. z.First[p] = l[1] /\ z.Last[p] = b /\ z.Count[p] = Len(k) + 1
  BY <1>1, <1>2, <1>4 DEF Pools
<1>6. \A f \in Parts \ {p} : z.First[f] = q.First[f] /\ z.Last[f] = q.Last[f] /\ z.Count[f] = q.Count[f]
  BY <1>2 DEF Pools
<1> HIDE DEF z
<1>7. Spares(q, z, L, p)
  <2> SUFFICES ASSUME NEW f \in Ends \ {p}, NEW i \in 1..Len(L[f])
               PROVE  L[f][i] \in Buffers /\ L[f][i] # b /\ L[f][i] # q.Last[p]
    BY <1>2, <1>6 DEF Spares, FirstOf, CountOf, Ends
  <2>1. L[f][i] \in Buffers /\ L[f][i] # b /\ \A j \in 1..Len(k) : L[f][i] # k[j]
    BY <1>1 DEF Has, Apart, Loose
  <2> QED  BY <1>1, <1>4, <2>1
<1> HIDE DEF l
<1>8. Whole(z, p, l)
  <2> HIDE DEF k
  <2>0. Len(k) \in Nat
    BY <1>1 DEF k
  <2>1. ASSUME NEW i \in 1..Len(l)
        PROVE  /\ z.Next[l[i]] = IF i = Len(l) THEN None ELSE l[i + 1]
               /\ z.Prev[l[i]] = IF i = 1 THEN None ELSE l[i - 1]
    <3>1. CASE i = Len(l)
      BY <3>1, <2>0, <1>2, <1>3, <1>4
    <3>2. CASE i # Len(l)
      <4>1. l[i] = k[i] /\ i \in 1..Len(k)
        BY <1>3, <2>0, <3>2
      <4>2. z.Next[l[i]] = IF i = Len(k) THEN b ELSE q.Next[k[i]]
        BY <1>2, <1>4, <4>1, <2>0
      <4>3. i # Len(k) => l[i + 1] = k[i + 1]
        BY <1>3, <2>0, <3>2
      <4>4. z.Prev[l[i]] = q.Prev[k[i]]
        BY <1>2, <1>4, <4>1
      <4>5. i # 1 => l[i - 1] = k[i - 1]
        BY <1>3, <2>0, <3>2
      <4> QED  BY <1>3, <1>4, <2>0, <3>2, <4>1, <4>2, <4>3, <4>4, <4>5
    <3> QED  BY <3>1, <3>2
  <2> QED  BY <1>1, <1>3, <1>5, <2>0, <2>1 DEF Whole, FirstOf, CountOf
<1>9. \A i, j \in 1..Len(l) : l[i] = l[j] => i = j
  <2> HIDE DEF k
  <2> SUFFICES ASSUME NEW i \in 1..Len(l), NEW j \in 1..Len(l), l[i] = l[j] PROVE i = j
    OBVIOUS
  <2>0. Len(k) \in Nat
    BY <1>1 DEF k
  <2>1. ASSUME NEW m \in 1..Len(l) PROVE m = Len(l) \/ (m \in 1..Len(k) /\ l[m] = k[m] /\ l[m] # b)
    BY <1>3, <1>4, <2>0
  <2>2. i = Len(l) <=> j = Len(l)
    BY <1>3, <2>1
  <2>3. CASE i = Len(l)
    BY <2>2, <2>3
  <2>4. CASE i # Len(l)
    <3>1. k[i] = k[j] /\ i \in 1..Len(k) /\ j \in 1..Len(k)
      BY <2>1, <2>2, <2>4
    <3> QED  BY <1>4, <3>1
  <2> QED  BY <2>3, <2>4
<1>10. \A f \in Ends \ {p} : \A i \in 1..Len(L[f]), j \in 1..Len(l) : L[f][i] # l[j]
  <2> SUFFICES ASSUME NEW f \in Ends \ {p}, NEW i \in 1..Len(L[f]), NEW j \in 1..Len(l), L[f][i] = l[j]
               PROVE  FALSE
    OBVIOUS
  <2>1. CASE j = Len(l)
    BY <1>3, <2>1 DEF Loose
  <2>2. CASE j # Len(l)
    BY <1>1, <1>3, <2>2 DEF Has, Apart
  <2> QED  BY <2>1, <2>2
<1> QED  BY <1>1, <1>3, <1>7, <1>8, <1>9, <1>10, Relist DEF z, l

\* l without what is in its place i
Out(l, i) == [j \in 1..(Len(l) - 1) |-> IF j < i THEN l[j] ELSE l[j + 1]]

LEMMA UnlinkTakes ==
  ASSUME NEW q \in Pools, NEW L, Has(q, L), NEW p \in Parts, NEW n \in 1..Len(L[p])
  PROVE  Has(Partition_UnlinkBuffer(q, p, L[p][n]), [L EXCEPT ![p] = Out(L[p], n)])
<1> DEFINE k == L[p]
           b == k[n]
           z == Partition_UnlinkBuffer(q, p, b)
           l == Out(k, n)
<1>1. k \in Seq(Buffers) /\ p \in Ends /\ p # None /\ None \notin Buffers
  BY BlockConstants DEF Has, Ends
<1>2. /\ q.First[p] = IF Len(k) = 0 THEN None ELSE k[1]
      /\ q.Last[p] = IF Len(k) = 0 THEN None ELSE k[Len(k)]
      /\ q.Count[p] = Len(k)
      /\ \A i \in 1..Len(k) : /\ q.Next[k[i]] = IF i = Len(k) THEN None ELSE k[i + 1]
                              /\ q.Prev[k[i]] = IF i = 1 THEN None ELSE k[i - 1]
                              /\ k[i] \in Buffers
      /\ \A i, j \in 1..Len(k) : k[i] = k[j] => i = j
  BY <1>1 DEF Has, Whole, FirstOf, CountOf, Apart
<1>0. Len(k) \in Nat /\ n \in 1..Len(k) /\ Len(k) > 0
  BY <1>1
<1>3. /\ z.FirstFree = q.FirstFree /\ z.FreeCount = q.FreeCount
      /\ z.First = [q.First EXCEPT ![p] = IF q.Prev[b] = None THEN q.Next[b] ELSE q.First[p]]
      /\ z.Last = [q.Last EXCEPT ![p] = IF q.Next[b] = None THEN q.Prev[b] ELSE q.Last[p]]
      /\ z.Count = [q.Count EXCEPT ![p] = q.Count[p] - 1]
      /\ \A c \in Buffers :
           /\ z.Next[c] = IF c = b THEN None ELSE IF c = q.Prev[b] THEN q.Next[b] ELSE q.Next[c]
           /\ z.Prev[c] = IF c = b THEN None ELSE IF c = q.Next[b] THEN q.Prev[b] ELSE q.Prev[c]
  <2>1. b \in Buffers /\ q.Count[p] > 0
    BY <1>0, <1>2
  <2> HIDE DEF b
  <2> QED  BY <2>1, UnlinkWrites
<1>4. /\ l \in Seq(Buffers) /\ Len(l) = Len(k) - 1
      /\ \A i \in 1..Len(l) : l[i] = IF i < n THEN k[i] ELSE k[i + 1]
  BY <1>0, <1>1 DEF Out
<1>5. /\ q.Next[b] = IF n = Len(k) THEN None ELSE k[n + 1]
      /\ q.Prev[b] = IF n = 1 THEN None ELSE k[n - 1]
      /\ b \in Buffers
      /\ n # 1 => k[n - 1] \in Buffers
      /\ n # Len(k) => k[n + 1] \in Buffers
  BY <1>0, <1>2
<1>6. \A f \in Parts \ {p} : z.First[f] = q.First[f] /\ z.Last[f] = q.Last[f] /\ z.Count[f] = q.Count[f]
  BY <1>3 DEF Pools
<1>7. /\ z.First[p] = IF q.Prev[b] = None THEN q.Next[b] ELSE q.First[p]
      /\ z.Last[p] = IF q.Next[b] = None THEN q.Prev[b] ELSE q.Last[p]
      /\ z.Count[p] = Len(k) - 1
  BY <1>2, <1>3 DEF Pools
<1> HIDE DEF z, l
<1>8. Spares(q, z, L, p)
  <2> SUFFICES ASSUME NEW f \in Ends \ {p}, NEW i \in 1..Len(L[f])
               PROVE  L[f][i] \in Buffers /\ L[f][i] # b /\ L[f][i] # q.Next[b] /\ L[f][i] # q.Prev[b]
    BY <1>3, <1>6 DEF Spares, FirstOf, CountOf, Ends
  <2>1. L[f][i] \in Buffers /\ \A j \in 1..Len(k) : L[f][i] # k[j]
    BY <1>1 DEF Has, Apart
  <2> HIDE DEF k
  <2>2. /\ L[f][i] # k[n]
        /\ n # 1 => L[f][i] # k[n - 1]
        /\ n # Len(k) => L[f][i] # k[n + 1]
    BY <1>0, <2>1
  <2> QED  BY <1>1, <1>5, <2>1, <2>2
<1> HIDE DEF b
<1>9. Whole(z, p, l)
  <2> HIDE DEF k
  <2>1. ASSUME NEW i \in 1..Len(l)
        PROVE  z.Next[l[i]] = IF i = Len(l) THEN None ELSE l[i + 1]
    <3>1. CASE i < n - 1
      <4>1. l[i] = k[i] /\ l[i + 1] = k[i + 1] /\ i \in 1..Len(k) /\ i # Len(l) /\ i # Len(k)
        BY <1>0, <1>4, <3>1
      <4>2. k[i] # b /\ k[i] # q.Prev[b] /\ k[i] \in Buffers
        BY <1>0, <1>1, <1>2, <1>5, <3>1, <4>1 DEF b
      <4> QED  BY <1>2, <1>3, <4>1, <4>2, SMTT(40)
    <3>2. CASE i = n - 1
      <4>1. l[i] = k[i] /\ i \in 1..Len(k) /\ q.Prev[b] = k[i] /\ k[i] # b /\ k[i] \in Buffers
        BY <1>0, <1>2, <1>4, <1>5, <3>2 DEF b
      <4>2. z.Next[l[i]] = q.Next[b]
        BY <1>3, <4>1
      <4> QED  BY <1>0, <1>4, <1>5, <3>2, <4>2
    <3>3. CASE i >= n
      <4>1. l[i] = k[i + 1] /\ i + 1 \in 1..Len(k) /\ (i # Len(l) => l[i + 1] = k[i + 2])
        BY <1>0, <1>4, <3>3, SMTT(40)
      <4>2. k[i + 1] # b /\ k[i + 1] # q.Prev[b] /\ k[i + 1] \in Buffers
        BY <1>0, <1>1, <1>2, <1>5, <3>3, <4>1, SMTT(40) DEF b
      <4> QED  BY <1>0, <1>2, <1>3, <1>4, <4>1, <4>2
    <3> QED  BY <1>0, <1>4, <3>1, <3>2, <3>3
  <2>2. ASSUME NEW i \in 1..Len(l)
        PROVE  z.Prev[l[i]] = IF i = 1 THEN None ELSE l[i - 1]
    <3>1. CASE i < n
      <4>1. l[i] = k[i] /\ i \in 1..Len(k) /\ (i # 1 => l[i - 1] = k[i - 1])
        BY <1>0, <1>4, <3>1
      <4>2. k[i] # b /\ k[i] # q.Next[b] /\ k[i] \in Buffers
        BY <1>0, <1>1, <1>2, <1>5, <3>1, <4>1 DEF b
      <4> QED  BY <1>0, <1>2, <1>3, <4>1, <4>2, SMTT(40)
    <3>2. CASE i = n
      <4>1. l[i] = k[i + 1] /\ i + 1 \in 1..Len(k) /\ q.Next[b] = k[i + 1] /\ k[i + 1] # b /\ k[i + 1] \in Buffers
        BY <1>0, <1>2, <1>4, <1>5, <3>2 DEF b
      <4>2. z.Prev[l[i]] = q.Prev[b]
        BY <1>3, <4>1
      <4> QED  BY <1>0, <1>4, <1>5, <3>2, <4>2
    <3>3. CASE i > n
      <4>1. l[i] = k[i + 1] /\ i + 1 \in 1..Len(k) /\ i # 1 /\ l[i - 1] = k[i]
        BY <1>0, <1>4, <3>3
      <4>2. k[i + 1] # b /\ k[i + 1] # q.Next[b] /\ k[i + 1] \in Buffers
        BY <1>0, <1>1, <1>2, <1>5, <3>3, <4>1 DEF b
      <4>3. z.Prev[l[i]] = q.Prev[k[i + 1]]
        BY <1>3, <4>1, <4>2
      <4> QED  BY <1>0, <1>2, <4>1, <4>3
    <3> QED  BY <1>0, <1>4, <3>1, <3>2, <3>3
  <2>3. z.First[p] = IF Len(l) = 0 THEN None ELSE l[1]
    <3>1. CASE n = 1
      <4>1. z.First[p] = q.Next[b]
        BY <1>5, <1>7, <3>1
      <4> QED  BY <1>0, <1>4, <1>5, <3>1, <4>1
    <3>2. CASE n # 1
      <4>1. q.Prev[b] = k[n - 1] /\ q.Prev[b] # None
        BY <1>1, <1>5, <3>2
      <4>2. z.First[p] = k[1]
        BY <1>0, <1>2, <1>7, <4>1
      <4> QED  BY <1>0, <1>4, <3>2, <4>2
    <3> QED  BY <3>1, <3>2
  <2>4. z.Last[p] = IF Len(l) = 0 THEN None ELSE l[Len(l)]
    <3>1. CASE n = Len(k)
      <4>1. z.Last[p] = q.Prev[b]
        BY <1>5, <1>7, <3>1
      <4> QED  BY <1>0, <1>4, <1>5, <3>1, <4>1
    <3>2. CASE n # Len(k)
      <4>1. q.Next[b] = k[n + 1] /\ q.Next[b] # None
        BY <1>1, <1>5, <3>2
      <4>2. z.Last[p] = k[Len(k)]
        BY <1>0, <1>2, <1>7, <4>1
      <4> QED  BY <1>0, <1>4, <3>2, <4>2
    <3> QED  BY <3>1, <3>2
  <2> QED  BY <1>0, <1>1, <1>4, <1>7, <2>1, <2>2, <2>3, <2>4 DEF Whole, FirstOf, CountOf
<1>10. \A i, j \in 1..Len(l) : l[i] = l[j] => i = j
  <2> HIDE DEF k
  <2> SUFFICES ASSUME NEW i \in 1..Len(l), NEW j \in 1..Len(l), l[i] = l[j] PROVE i = j
    OBVIOUS
  <2> DEFINE At(m) == IF m < n THEN m ELSE m + 1
  <2>1. ASSUME NEW m \in 1..Len(l) PROVE l[m] = k[At(m)] /\ At(m) \in 1..Len(k)
    BY <1>0, <1>4
  <2>2. At(i) = At(j)
    <3>1. l[i] = k[At(i)] /\ At(i) \in 1..Len(k) /\ l[j] = k[At(j)] /\ At(j) \in 1..Len(k)
      BY <2>1
    <3>2. \A x, y \in 1..Len(k) : k[x] = k[y] => x = y
      BY <1>2
    <3> HIDE DEF At
    <3> QED  BY <3>1, <3>2, Zenon
  <2> QED  BY <1>0, <1>4, <2>2
<1>11. \A f \in Ends \ {p} : \A i \in 1..Len(L[f]), j \in 1..Len(l) : L[f][i] # l[j]
  <2>1. \A j \in 1..Len(l) : \E m \in 1..Len(k) : l[j] = k[m]
    <3> HIDE DEF k
    <3> SUFFICES ASSUME NEW j \in 1..Len(l) PROVE \E m \in 1..Len(k) : l[j] = k[m]
      OBVIOUS
    <3> DEFINE m == IF j < n THEN j ELSE j + 1
    <3>1. m \in 1..Len(k) /\ l[j] = k[m]
      BY <1>0, <1>4
    <3> QED  BY <3>1
  <2> QED  BY <1>1, <2>1 DEF Has, Apart
<1> QED  BY <1>1, <1>4, <1>8, <1>9, <1>10, <1>11, Relist DEF z, l, b

-----------------------------------------------------------------------------
(* Where each buffer is. *)

\* The buffers in out are on no list, and each other one on the list w says.
Lies(L, w, out) ==
  \A e \in Ends, b \in Buffers : (\E i \in 1..Len(L[e]) : L[e][i] = b) <=> (b \notin out /\ w[b] = e)

Unlinked(q, out) == \A b \in out : q.Prev[b] = None /\ q.Next[b] = None

\* A pool with whole lists, on which the buffers are as w and out say
Sound(q, w, out) ==
  /\ q \in Pools /\ w \in [Buffers -> Ends] /\ out \in SUBSET Buffers
  /\ Unlinked(q, out)
  /\ \E L : Has(q, L) /\ Lies(L, w, out)

LEMMA Off ==
  ASSUME NEW L, NEW w, NEW out \in SUBSET Buffers, Lies(L, w, out), NEW b \in out
  PROVE  Loose(L, b)
BY DEF Lies, Loose

\* A buffer that was on no list comes to one, or one leaves its list.
LEMMA LiesMore ==
  ASSUME NEW L, NEW w \in [Buffers -> Ends], NEW out \in SUBSET Buffers, Lies(L, w, out),
         NEW b \in out, NEW e \in Ends, NEW M, \A f \in Ends \ {e} : M[f] = L[f],
         \A c \in Buffers : (\E i \in 1..Len(M[e]) : M[e][i] = c)
                               <=> (c = b \/ \E i \in 1..Len(L[e]) : L[e][i] = c)
  PROVE  Lies(M, [w EXCEPT ![b] = e], out \ {b})
<1> DEFINE v == [w EXCEPT ![b] = e]
<1>1. v[b] = e /\ \A c \in Buffers \ {b} : v[c] = w[c]
  OBVIOUS
<1> HIDE DEF v
<1>2. ASSUME NEW f \in Ends, NEW c \in Buffers
      PROVE  (\E i \in 1..Len(M[f]) : M[f][i] = c) <=> (c \notin out \ {b} /\ v[c] = f)
  <2>1. (\E i \in 1..Len(L[f]) : L[f][i] = c) <=> (c \notin out /\ w[c] = f)
    BY DEF Lies
  <2>2. CASE f = e
    BY <1>1, <2>1, <2>2
  <2>3. CASE f # e
    <3>1. M[f] = L[f]
      BY <2>3
    <3> QED  BY <1>1, <2>1, <2>3, <3>1
  <2> QED  BY <2>2, <2>3
<1> QED  BY <1>2 DEF Lies, v

LEMMA LiesLess ==
  ASSUME NEW L, NEW w \in [Buffers -> Ends], NEW out \in SUBSET Buffers, Lies(L, w, out),
         NEW b \in Buffers \ out, NEW M, \A f \in Ends \ {w[b]} : M[f] = L[f],
         \A c \in Buffers : (\E i \in 1..Len(M[w[b]]) : M[w[b]][i] = c)
                               <=> (c # b /\ \E i \in 1..Len(L[w[b]]) : L[w[b]][i] = c)
  PROVE  Lies(M, w, out \cup {b})
<1>1. ASSUME NEW f \in Ends, NEW c \in Buffers
      PROVE  (\E i \in 1..Len(M[f]) : M[f][i] = c) <=> (c \notin out \cup {b} /\ w[c] = f)
  <2>1. (\E i \in 1..Len(L[f]) : L[f][i] = c) <=> (c \notin out /\ w[c] = f)
    BY DEF Lies
  <2>2. CASE f = w[b]
    BY <2>1, <2>2
  <2>3. CASE f # w[b]
    <3>1. M[f] = L[f]
      BY <2>3
    <3> QED  BY <2>1, <2>3, <3>1
  <2> QED  BY <2>2, <2>3
<1> QED  BY <1>1 DEF Lies

LEMMA SoundFree ==
  ASSUME NEW q, NEW w, NEW out, Sound(q, w, out), NEW b \in out
  PROVE  Sound(Buffer_Free(q, b), [w EXCEPT ![b] = None], out \ {b})
<1> DEFINE z == Buffer_Free(q, b)
           v == [w EXCEPT ![b] = None]
<1>0. q \in Pools /\ w \in [Buffers -> Ends] /\ out \in SUBSET Buffers /\ b \in Buffers /\ None \in Ends
  BY DEF Sound, Ends
<1>1. PICK L : Has(q, L) /\ Lies(L, w, out)
  BY DEF Sound
<1> DEFINE M == [L EXCEPT ![None] = <<b>> \o L[None]]
<1>2. Loose(L, b)
  BY <1>0, <1>1, Off
<1>3. Has(z, M)
  BY <1>0, <1>1, <1>2, FreePuts
<1>4. Lies(M, v, out \ {b})
  <2>1. L \in [Ends -> Seq(Buffers)]
    BY <1>1 DEF Has
  <2>2. \A e \in Ends \ {None} : M[e] = L[e]
    BY <1>0, <2>1
  <2>3. M[None] = <<b>> \o L[None]
    BY <1>0, <2>1
  <2>4. \A c \in Buffers : (\E i \in 1..Len(M[None]) : M[None][i] = c)
                             <=> (c = b \/ \E i \in 1..Len(L[None]) : L[None][i] = c)
    <3> DEFINE k == L[None]
               l == M[None]
    <3>1. k \in Seq(Buffers)
      BY <1>0, <2>1
    <3>2. /\ Len(k) \in Nat /\ Len(l) = Len(k) + 1 /\ l[1] = b
          /\ \A i \in 1..Len(k) : l[i + 1] = k[i]
          /\ \A i \in 1..Len(l) : i = 1 \/ (i - 1 \in 1..Len(k) /\ l[i] = k[i - 1])
      BY <2>3, <3>1
    <3> HIDE DEF k, l
    <3>3. \A i \in 1..Len(k) : i + 1 \in 1..Len(l)
      BY <3>2
    <3>4. 1 \in 1..Len(l)
      BY <3>2
    <3>5. ASSUME NEW c \in Buffers, NEW i \in 1..Len(l), l[i] = c
          PROVE  c = b \/ \E j \in 1..Len(k) : k[j] = c
      BY <3>2, <3>5
    <3>6. ASSUME NEW c \in Buffers, NEW i \in 1..Len(k), k[i] = c
          PROVE  \E j \in 1..Len(l) : l[j] = c
      BY <3>2, <3>3, <3>6
    <3>7. \E j \in 1..Len(l) : l[j] = b
      BY <3>2, <3>4
    <3> QED  BY <3>5, <3>6, <3>7 DEF k, l
  <2> HIDE DEF M
  <2> QED  BY <1>0, <1>1, <2>2, <2>4, LiesMore, ZenonT(60)
<1>5. z \in Pools /\ Unlinked(z, out \ {b})
  <2>1. /\ z \in Pools
        /\ \A c \in Buffers :
             /\ z.Next[c] = IF c = b THEN q.FirstFree ELSE q.Next[c]
             /\ z.Prev[c] = IF c = b THEN None ELSE IF c = q.FirstFree THEN b ELSE q.Prev[c]
    BY <1>0, FreeWrites
  <2>2. q.FirstFree \notin out
    <3>1. q.FirstFree = IF Len(L[None]) = 0 THEN None ELSE L[None][1]
      BY <1>0, <1>1 DEF Has, Whole, FirstOf
    <3>2. None \notin Buffers
      BY BlockConstants
    <3>3. Len(L[None]) # 0 => 1 \in 1..Len(L[None])
      BY <1>0, <1>1 DEF Has
    <3>4. \A c \in out : Loose(L, c)
      BY <1>0, <1>1, Off
    <3> QED  BY <1>0, <3>1, <3>2, <3>3, <3>4 DEF Loose
  <2>3. \A c \in out : q.Prev[c] = None /\ q.Next[c] = None
    BY DEF Sound, Unlinked
  <2> HIDE DEF z
  <2> QED  BY <1>0, <2>1, <2>2, <2>3 DEF Unlinked
<1>6. v \in [Buffers -> Ends] /\ out \ {b} \in SUBSET Buffers
  BY <1>0
<1> HIDE DEF z, v, M
<1> QED  BY <1>3, <1>4, <1>5, <1>6 DEF Sound, z, v

LEMMA SoundLink ==
  ASSUME NEW q, NEW w, NEW out, Sound(q, w, out), NEW b \in out, NEW p \in Parts
  PROVE  Sound(Partition_LinkBuffer(q, p, b), [w EXCEPT ![b] = p], out \ {b})
<1> DEFINE z == Partition_LinkBuffer(q, p, b)
           v == [w EXCEPT ![b] = p]
<1>0. q \in Pools /\ w \in [Buffers -> Ends] /\ out \in SUBSET Buffers /\ b \in Buffers /\ p \in Ends
  BY DEF Sound, Ends
<1>1. PICK L : Has(q, L) /\ Lies(L, w, out)
  BY DEF Sound
<1> DEFINE M == [L EXCEPT ![p] = Append(L[p], b)]
<1>2. Loose(L, b)
  BY <1>0, <1>1, Off
<1>3. Has(z, M)
  BY <1>0, <1>1, <1>2, LinkPuts
<1>4. Lies(M, v, out \ {b})
  <2>1. L \in [Ends -> Seq(Buffers)]
    BY <1>1 DEF Has
  <2>2. \A e \in Ends \ {p} : M[e] = L[e]
    BY <1>0, <2>1
  <2>3. M[p] = Append(L[p], b)
    BY <1>0, <2>1
  <2>4. \A c \in Buffers : (\E i \in 1..Len(M[p]) : M[p][i] = c)
                             <=> (c = b \/ \E i \in 1..Len(L[p]) : L[p][i] = c)
    <3> DEFINE k == L[p]
               l == M[p]
    <3>1. k \in Seq(Buffers)
      BY <1>0, <2>1
    <3>2. /\ Len(k) \in Nat /\ Len(l) = Len(k) + 1 /\ l[Len(k) + 1] = b
          /\ \A i \in 1..Len(k) : l[i] = k[i]
          /\ \A i \in 1..Len(l) : i = Len(k) + 1 \/ (i \in 1..Len(k) /\ l[i] = k[i])
      BY <2>3, <3>1
    <3> HIDE DEF k, l
    <3>3. \A i \in 1..Len(k) : i \in 1..Len(l)
      BY <3>2
    <3>4. Len(k) + 1 \in 1..Len(l)
      BY <3>2
    <3>5. ASSUME NEW c \in Buffers, NEW i \in 1..Len(l), l[i] = c
          PROVE  c = b \/ \E j \in 1..Len(k) : k[j] = c
      BY <3>2, <3>5
    <3>6. ASSUME NEW c \in Buffers, NEW i \in 1..Len(k), k[i] = c
          PROVE  \E j \in 1..Len(l) : l[j] = c
      BY <3>2, <3>3, <3>6
    <3>7. \E j \in 1..Len(l) : l[j] = b
      BY <3>2, <3>4
    <3> QED  BY <3>5, <3>6, <3>7 DEF k, l
  <2> HIDE DEF M
  <2> QED  BY <1>0, <1>1, <2>2, <2>4, LiesMore, ZenonT(60)
<1>5. z \in Pools /\ Unlinked(z, out \ {b})
  <2>1. /\ z \in Pools
        /\ \A c \in Buffers :
             /\ z.Next[c] = IF c = b THEN None ELSE IF c = q.Last[p] THEN b ELSE q.Next[c]
             /\ z.Prev[c] = IF c = b THEN q.Last[p] ELSE q.Prev[c]
    <3>1. q \in Pools /\ p \in Parts /\ b \in Buffers
      BY <1>0
    <3> QED  BY ONLY <3>1, LinkRuns
  <2>2. q.Last[p] \notin out
    <3>1. q.Last[p] = IF Len(L[p]) = 0 THEN None ELSE L[p][Len(L[p])]
      <4>1. p # None
        BY BlockConstants
      <4> QED  BY <1>0, <1>1, <4>1 DEF Has, Whole
    <3>2. None \notin Buffers
      BY BlockConstants
    <3>3. Len(L[p]) # 0 => Len(L[p]) \in 1..Len(L[p])
      BY <1>0, <1>1 DEF Has
    <3>4. \A c \in out : Loose(L, c)
      BY <1>0, <1>1, Off
    <3> QED  BY <1>0, <3>1, <3>2, <3>3, <3>4 DEF Loose
  <2>3. \A c \in out : q.Prev[c] = None /\ q.Next[c] = None
    BY DEF Sound, Unlinked
  <2> HIDE DEF z
  <2> QED  BY <1>0, <2>1, <2>2, <2>3 DEF Unlinked
<1>6. v \in [Buffers -> Ends] /\ out \ {b} \in SUBSET Buffers
  BY <1>0
<1> HIDE DEF z, v, M
<1> QED  BY <1>3, <1>4, <1>5, <1>6 DEF Sound, z, v

LEMMA SoundUnlink ==
  ASSUME NEW q, NEW w, NEW out, Sound(q, w, out), NEW b \in Buffers \ out, w[b] \in Parts
  PROVE  Sound(Partition_UnlinkBuffer(q, w[b], b), w, out \cup {b})
<1> DEFINE p == w[b]
           z == Partition_UnlinkBuffer(q, p, b)
<1>0. q \in Pools /\ w \in [Buffers -> Ends] /\ out \in SUBSET Buffers /\ p \in Ends /\ p # None
  BY BlockConstants DEF Sound, Ends
<1>1. PICK L : Has(q, L) /\ Lies(L, w, out)
  BY DEF Sound
<1>2. PICK n \in 1..Len(L[p]) : L[p][n] = b
  BY <1>0, <1>1 DEF Lies
<1> DEFINE k == L[p]
           M == [L EXCEPT ![p] = Out(k, n)]
<1>3. Has(z, M)
  BY <1>0, <1>1, <1>2, UnlinkTakes
<1>a. /\ k \in Seq(Buffers) /\ Len(k) \in Nat /\ n \in 1..Len(k) /\ k[n] = b
      /\ \A i, j \in 1..Len(k) : k[i] = k[j] => i = j
      /\ q.Count[p] = Len(k)
      /\ \A i \in 1..Len(k) : /\ q.Next[k[i]] = IF i = Len(k) THEN None ELSE k[i + 1]
                              /\ q.Prev[k[i]] = IF i = 1 THEN None ELSE k[i - 1]
  BY <1>0, <1>1, <1>2 DEF Has, Whole, CountOf, Apart
<1>4. Lies(M, w, out \cup {b})
  <2>1. L \in [Ends -> Seq(Buffers)]
    BY <1>1 DEF Has
  <2>2. \A e \in Ends \ {p} : M[e] = L[e]
    BY <1>0, <2>1
  <2>3. M[p] = Out(k, n)
    BY <1>0, <2>1
  <2>4. \A c \in Buffers : (\E i \in 1..Len(M[p]) : M[p][i] = c)
                             <=> (c # b /\ \E i \in 1..Len(k) : k[i] = c)
    <3> DEFINE l == M[p]
    <3>1. /\ Len(l) = Len(k) - 1
          /\ \A i \in 1..Len(l) : l[i] = IF i < n THEN k[i] ELSE k[i + 1]
      BY <1>a, <2>3 DEF Out
    <3> HIDE DEF k, l
    <3>2. ASSUME NEW c \in Buffers, NEW i \in 1..Len(l), l[i] = c
          PROVE  c # b /\ \E j \in 1..Len(k) : k[j] = c
      <4> DEFINE j == IF i < n THEN i ELSE i + 1
      <4>1. j \in 1..Len(k) /\ j # n /\ k[j] = c
        BY <1>a, <3>1, <3>2
      <4> QED  BY <1>a, <4>1
    <3>3. ASSUME NEW c \in Buffers, NEW j \in 1..Len(k), k[j] = c, c # b
          PROVE  \E i \in 1..Len(l) : l[i] = c
      <4> DEFINE i == IF j < n THEN j ELSE j - 1
      <4>1. j # n
        BY <1>a, <3>3
      <4>2. i \in 1..Len(l) /\ l[i] = c
        BY <1>a, <3>1, <3>3, <4>1
      <4> QED  BY <4>2
    <3> QED  BY <3>2, <3>3 DEF l
  <2> HIDE DEF M
  <2> QED  BY <1>0, <1>1, <2>2, <2>4, LiesLess
<1>5. z \in Pools /\ Unlinked(z, out \cup {b})
  <2>0. q.Count[p] > 0
    BY <1>a
  <2>1. /\ z \in Pools
        /\ \A c \in Buffers :
             /\ z.Next[c] = IF c = b THEN None ELSE IF c = q.Prev[b] THEN q.Next[b] ELSE q.Next[c]
             /\ z.Prev[c] = IF c = b THEN None ELSE IF c = q.Next[b] THEN q.Prev[b] ELSE q.Prev[c]
    <3>1. q \in Pools /\ p \in Parts /\ b \in Buffers /\ q.Count[p] > 0
      BY <1>0, <2>0
    <3> HIDE DEF p
    <3> QED  BY ONLY <3>1, UnlinkRuns
  <2>2. q.Prev[b] \notin out /\ q.Next[b] \notin out
    <3>1. q.Next[b] = (IF n = Len(k) THEN None ELSE k[n + 1]) /\ q.Prev[b] = IF n = 1 THEN None ELSE k[n - 1]
      BY <1>a
    <3>2. None \notin Buffers
      BY BlockConstants
    <3>3. /\ n # Len(k) => n + 1 \in 1..Len(k)
          /\ n # 1 => n - 1 \in 1..Len(k)
      BY <1>a
    <3>4. \A c \in out, i \in 1..Len(k) : k[i] # c
      BY <1>0, <1>1, Off DEF Loose
    <3> HIDE DEF k, p
    <3> QED  BY <1>0, <3>1, <3>2, <3>3, <3>4
  <2>3. \A c \in out : q.Prev[c] = None /\ q.Next[c] = None
    BY DEF Sound, Unlinked
  <2> HIDE DEF z, p
  <2> QED  BY <1>0, <2>1, <2>2, <2>3 DEF Unlinked
<1>6. out \cup {b} \in SUBSET Buffers
  BY <1>0
<1> HIDE DEF z, M, p
<1> QED  BY <1>0, <1>3, <1>4, <1>5, <1>6 DEF Sound, z, p

LEMMA SoundAllocate ==
  ASSUME NEW q, NEW w, NEW out, Sound(q, w, out), q.FreeCount > 0
  PROVE  LET b == Allocated(q)
             z == Buffer_Allocate(q)
         IN  /\ b \in Buffers \ out /\ w[b] = None
             /\ Sound(z, w, out \cup {b}) /\ z.FreeCount = q.FreeCount - 1
<1> DEFINE b == Allocated(q)
           z == Buffer_Allocate(q)
<1>0. q \in Pools /\ w \in [Buffers -> Ends] /\ out \in SUBSET Buffers /\ None \in Ends
  BY DEF Sound, Ends
<1>1. PICK L : Has(q, L) /\ Lies(L, w, out)
  BY DEF Sound
<1> DEFINE k == L[None]
           M == [L EXCEPT ![None] = Tail(k)]
<1>2. /\ k \in Seq(Buffers) /\ Len(k) \in Nat /\ Len(k) = q.FreeCount /\ k[1] = b /\ 1 \in 1..Len(k)
      /\ \A i, j \in 1..Len(k) : k[i] = k[j] => i = j
      /\ \A i \in 1..Len(k) : /\ q.Next[k[i]] = IF i = Len(k) THEN None ELSE k[i + 1]
                              /\ q.Prev[k[i]] = IF i = 1 THEN None ELSE k[i - 1]
  BY <1>0, <1>1 DEF Has, Whole, FirstOf, CountOf, Apart, Allocated
<1>3. Has(z, M)
  BY <1>0, <1>1, <1>2, AllocateTakes
<1>4. b \in Buffers \ out /\ w[b] = None
  BY <1>0, <1>1, <1>2 DEF Lies
<1>5. Lies(M, w, out \cup {b})
  <2>1. L \in [Ends -> Seq(Buffers)]
    BY <1>1 DEF Has
  <2>2. \A e \in Ends \ {None} : M[e] = L[e]
    BY <1>0, <2>1
  <2>3. M[None] = Tail(k)
    BY <1>0, <2>1
  <2>4. \A c \in Buffers : (\E i \in 1..Len(M[None]) : M[None][i] = c)
                             <=> (c # b /\ \E i \in 1..Len(k) : k[i] = c)
    <3> DEFINE l == M[None]
    <3>1. /\ Len(l) = Len(k) - 1
          /\ \A i \in 1..Len(l) : l[i] = k[i + 1]
      <4>1. Len(k) > 0 /\ l = Tail(k)
        BY <1>2, <2>3
      <4> HIDE DEF k, l
      <4> QED  BY <1>2, <4>1
    <3> HIDE DEF k, l, b
    <3>2. ASSUME NEW c \in Buffers, NEW i \in 1..Len(l), l[i] = c
          PROVE  c # b /\ \E j \in 1..Len(k) : k[j] = c
      <4>1. i + 1 \in 1..Len(k) /\ i + 1 # 1 /\ k[i + 1] = c
        BY <1>2, <3>1, <3>2
      <4> QED  BY <1>2, <4>1
    <3>3. ASSUME NEW c \in Buffers, NEW j \in 1..Len(k), k[j] = c, c # b
          PROVE  \E i \in 1..Len(l) : l[i] = c
      <4>1. j - 1 \in 1..Len(l) /\ l[j - 1] = c
        BY <1>2, <3>1, <3>3
      <4> QED  BY <4>1
    <3> QED  BY <3>2, <3>3 DEF l
  <2> HIDE DEF M, b
  <2>5. \A f \in Ends \ {w[b]} : M[f] = L[f]
    BY <1>4, <2>2
  <2>6. \A c \in Buffers : (\E i \in 1..Len(M[w[b]]) : M[w[b]][i] = c)
                              <=> (c # b /\ \E i \in 1..Len(L[w[b]]) : L[w[b]][i] = c)
    BY <1>4, <2>4
  <2> QED  BY <1>0, <1>1, <1>4, <2>5, <2>6, LiesLess, Zenon
<1>6. z \in Pools /\ Unlinked(z, out \cup {b}) /\ z.FreeCount = q.FreeCount - 1
  <2>1. /\ z \in Pools /\ z.FreeCount = q.FreeCount - 1
        /\ \A c \in Buffers :
             /\ z.Next[c] = IF c = b THEN None ELSE q.Next[c]
             /\ z.Prev[c] = IF c = b THEN None ELSE IF c = q.Next[b] THEN q.Prev[b] ELSE q.Prev[c]
    <3>1. q.FirstFree \in Buffers
      BY <1>4 DEF Allocated
    <3> QED  BY <1>0, <3>1, AllocateWrites
  <2>2. q.Prev[b] = None /\ b \in Buffers
    BY <1>2, <1>4
  <2>3. \A c \in out : q.Prev[c] = None /\ q.Next[c] = None
    BY DEF Sound, Unlinked
  <2> HIDE DEF z, b
  <2> QED  BY <1>0, <2>1, <2>2, <2>3 DEF Unlinked
<1>7. out \cup {b} \in SUBSET Buffers
  BY <1>0, <1>4
<1> HIDE DEF z, M, b
<1> QED  BY <1>0, <1>3, <1>4, <1>5, <1>6, <1>7 DEF Sound, z, b

-----------------------------------------------------------------------------
(* Walking a list. *)

LEMMA Sizes ==
  /\ NumBuffers \in Nat \ {0}
  /\ Cardinality(Parts) \in Nat \ {0}
BY BlockConstants, FS_CardinalityType, FS_EmptySet DEF NumBuffers

\* No list is longer than there are buffers.
LEMMA Fits ==
  ASSUME NEW l \in Seq(Buffers), \A i, j \in 1..Len(l) : l[i] = l[j] => i = j
  PROVE  Len(l) <= NumBuffers
<1> DEFINE S == 1..Len(l)
<1>1. l \in Injection(S, Buffers)
  <2>1. l \in [S -> Buffers] /\ DOMAIN l = S
    OBVIOUS
  <2> QED  BY <2>1 DEF Injection, IsInjective
<1>2. Cardinality(S) <= NumBuffers
  BY <1>1, FS_Injection, BlockConstants, Zenon DEF NumBuffers
<1>3. Len(l) \in Nat /\ Cardinality(S) = Len(l)
  BY FS_Interval
<1> QED  BY <1>2, <1>3

LEMMA ChainIs ==
  ASSUME NEW q \in Pools, NEW L, Has(q, L), NEW e \in Ends
  PROVE  Chain(q, FirstOf(q, e)) = L[e]
<1> DEFINE k == L[e]
           N == NumBuffers - 1
           Upto(m) == [j \in 1..m |-> k[j]]
           Place(i) == IF i + 1 < Len(k) THEN i + 1 ELSE Len(k)
           steps == [n \in 1..N |-> [list \in Seq(Buffers) |->
                       IF q.Next[Last(list)] = None THEN list ELSE Append(list, q.Next[Last(list)])]]
           K == [i \in 0..N |-> {Upto(Place(i))}]
<1>1. /\ k \in Seq(Buffers) /\ Len(k) \in Nat
      /\ FirstOf(q, e) = IF Len(k) = 0 THEN None ELSE k[1]
      /\ \A i \in 1..Len(k) : q.Next[k[i]] = (IF i = Len(k) THEN None ELSE k[i + 1]) /\ k[i] \in Buffers
      /\ \A i, j \in 1..Len(k) : k[i] = k[j] => i = j
  BY DEF Has, Whole, Apart
<1>2. Len(k) <= N + 1 /\ N \in Nat
  <2> HIDE DEF k
  <2> QED  BY <1>1, Sizes, Fits
<1>3. None \notin Buffers
  BY BlockConstants
<1>4. k = Upto(Len(k))
  BY <1>1
<1> HIDE DEF k, N
<1>5. CASE Len(k) = 0
  BY <1>1, <1>5 DEF Chain, k
<1>6. CASE Len(k) # 0
  <2>1. Chain(q, FirstOf(q, e)) = InTurn(<<k[1]>>, steps)
    BY <1>1, <1>3, <1>6 DEF Chain, N
  <2>2. Len(steps) = N
    BY <1>2
  <2>3. <<k[1]>> \in K[0]
    <3>1. Place(0) = 1
      <4>1. \A x \in Nat : x # 0 => (IF 0 + 1 < x THEN 0 + 1 ELSE x) = 1
        OBVIOUS
      <4> QED  BY <1>1, <1>6, <4>1
    <3>2. <<k[1]>> = Upto(1)
      OBVIOUS
    <3> QED  BY <1>2, <3>1, <3>2
  <2>4. ASSUME NEW i \in 1..N, NEW x \in K[i - 1] PROVE steps[i][x] \in K[i]
    <3> DEFINE m == Place(i - 1)
    <3>1. x = Upto(m) /\ m \in 1..Len(k)
      BY <1>1, <1>2, <1>6
    <3>2. Place(i) = IF m = Len(k) THEN m ELSE m + 1
      BY <1>1, <1>2, <1>6
    <3> HIDE DEF m, Place
    <3>3. x \in Seq(Buffers) /\ Len(x) = m /\ Last(x) = k[m]
      BY <1>1, <3>1 DEF Last
    <3>4. steps[i][x] = IF q.Next[k[m]] = None THEN x ELSE Append(x, q.Next[k[m]])
      BY <3>3
    <3>5. CASE m = Len(k)
      <4>1. steps[i][x] = x
        BY <1>1, <3>1, <3>4, <3>5
      <4> QED  BY <1>2, <3>1, <3>2, <3>5, <4>1
    <3>6. CASE m # Len(k)
      <4>1. steps[i][x] = Append(x, k[m + 1])
        <5>1. q.Next[k[m]] = k[m + 1] /\ k[m + 1] \in Buffers
          BY <1>1, <3>1, <3>6
        <5> QED  BY <1>3, <3>4, <5>1
      <4>2. Append(x, k[m + 1]) = Upto(m + 1)
        BY <1>1, <3>1, <3>3
      <4>3. Place(i) = m + 1
        BY <3>2, <3>6
      <4>4. K[i] = {Upto(Place(i))}
        BY <1>2
      <4> HIDE DEF K, Upto, steps
      <4> QED  BY <4>1, <4>2, <4>3, <4>4
    <3> QED  BY <3>5, <3>6
  <2> HIDE DEF steps
  <2>5. InTurn(<<k[1]>>, steps) \in K[N]
    <3> HIDE DEF K
    <3>1. \A i \in 1..Len(steps) : \A x \in K[i - 1] : steps[i][x] \in K[i]
      BY <2>2, <2>4
    <3> QED  BY <1>2, <2>2, <2>3, <3>1, InTurnKeeps
  <2>6. Place(N) = Len(k)
    BY <1>1, <1>2
  <2> HIDE DEF Place
  <2>7. InTurn(<<k[1]>>, steps) = Upto(Len(k))
    BY <1>2, <2>5, <2>6
  <2> QED  BY <1>4, <2>1, <2>7 DEF k
<1> QED  BY <1>5, <1>6

\* The lists of a sound pool, as they are walked
LEMMA Walks ==
  ASSUME NEW q, NEW w, NEW out, Sound(q, w, out), NEW e \in Ends
  PROVE  LET l == Chain(q, FirstOf(q, e)) IN
         /\ l \in Seq(Buffers) /\ Len(l) = CountOf(q, e)
         /\ \A i, j \in 1..Len(l) : l[i] = l[j] => i = j
         /\ \A b \in Buffers : (\E i \in 1..Len(l) : l[i] = b) <=> (b \notin out /\ w[b] = e)
<1>1. PICK L : Has(q, L) /\ Lies(L, w, out)
  BY DEF Sound
<1>2. Chain(q, FirstOf(q, e)) = L[e]
  BY <1>1, ChainIs DEF Sound
<1> DEFINE l == L[e]
<1>3. /\ l \in Seq(Buffers) /\ Len(l) = CountOf(q, e)
      /\ \A i, j \in 1..Len(l) : l[i] = l[j] => i = j
  BY <1>1 DEF Has, Whole, Apart
<1>4. \A b \in Buffers : (\E i \in 1..Len(l) : l[i] = b) <=> (b \notin out /\ w[b] = e)
  BY <1>1, Zenon DEF Lies
<1> HIDE DEF l
<1> QED  BY <1>2, <1>3, <1>4, Zenon DEF l

LEMMA OnList ==
  ASSUME NEW q, NEW w, NEW out, Sound(q, w, out), NEW b \in Buffers \ out, NEW p \in Parts, w[b] = p
  PROVE  b \in Range(Chain(q, q.First[p]))
<1>1. PICK L : Has(q, L) /\ Lies(L, w, out)
  BY DEF Sound
<1>2. p \in Ends /\ FirstOf(q, p) = q.First[p]
  BY BlockConstants DEF Ends, FirstOf
<1>3. Chain(q, q.First[p]) = L[p]
  BY <1>1, <1>2, ChainIs DEF Sound
<1>4. L[p] \in Seq(Buffers) /\ \E i \in 1..Len(L[p]) : L[p][i] = b
  BY <1>1, <1>2 DEF Has, Lies
<1> QED  BY <1>3, <1>4 DEF Range

LEMMA DestinationTyped ==
  ASSUME TrueConn \in [Parts -> Ends], FalseConn \in [Parts -> Ends], NEW f \in Ends, NEW s
  PROVE  Destination(f, s) \in Ends
<1> DEFINE N == Cardinality(Parts) - 1
           steps == [n \in 1..N |-> [g \in Ends |->
                       IF g = None \/ s \in Pass[g] THEN g ELSE FalseConn[g]]]
           K == [i \in 0..N |-> Ends]
           last == InTurn(f, steps)
<1>1. N \in Nat
  BY Sizes
<1> HIDE DEF N
<1>2. Len(steps) = N
  BY <1>1
<1>3. ASSUME NEW i \in 1..N, NEW x \in K[i - 1] PROVE steps[i][x] \in K[i]
  BY <1>1 DEF Ends
<1>4. f \in K[0]
  BY <1>1
<1>5. Destination(f, s) = IF last # None /\ s \in Pass[last] THEN TrueConn[last] ELSE None
  BY DEF Destination, N
<1>6. K[N] = Ends
  BY <1>1
<1> HIDE DEF steps, K
<1>7. last \in K[N]
  <2>1. \A i \in 1..Len(steps) : \A x \in K[i - 1] : steps[i][x] \in K[i]
    BY <1>2, <1>3
  <2> QED  BY <1>1, <1>2, <1>4, <2>1, InTurnKeeps
<1> HIDE DEF last
<1> QED  BY <1>5, <1>6, <1>7 DEF Ends

-----------------------------------------------------------------------------
(* One after the other. *)

\* The first i of a list
Among(list, i) == {list[j] : j \in 1..i}

Distinct(list) == list \in Seq(Buffers) /\ \A i, j \in 1..Len(list) : list[i] = list[j] => i = j

LEMMA AmongNext ==
  ASSUME NEW list, Distinct(list), NEW i \in 1..Len(list)
  PROVE  /\ i - 1 \in Nat /\ list[i] \in Buffers /\ list[i] \notin Among(list, i - 1)
         /\ Among(list, i) = Among(list, i - 1) \cup {list[i]}
         /\ Among(list, i) \in SUBSET Buffers
<1>1. Len(list) \in Nat /\ \A j \in 1..Len(list) : list[j] \in Buffers
  BY DEF Distinct
<1>2. i - 1 \in Nat /\ \A j \in 1..i : j \in 1..Len(list) /\ (j = i \/ j \in 1..(i - 1))
  BY <1>1
<1>3. \A j \in 1..(i - 1) : j \in 1..i /\ j # i
  BY <1>1
<1>4. list[i] \notin Among(list, i - 1)
  BY <1>2, <1>3 DEF Among, Distinct
<1>5. Among(list, i) = Among(list, i - 1) \cup {list[i]}
  BY <1>2, <1>3 DEF Among
<1>6. Among(list, i) \in SUBSET Buffers
  BY <1>1, <1>2 DEF Among
<1> QED  BY <1>1, <1>2, <1>4, <1>5, <1>6

LEMMA AmongNone == ASSUME NEW list PROVE Among(list, 0) = {}
BY DEF Among

LEMMA SoundFilter ==
  ASSUME TrueConn \in [Parts -> Ends], FalseConn \in [Parts -> Ends],
         NEW q, NEW w, NEW out, Sound(q, w, out), NEW b \in out, NEW f \in Ends, NEW s
  PROVE  /\ \E d \in Ends : Sound(FilterBuf(q, f, b, s), [w EXCEPT ![b] = d], out \ {b})
         /\ FilterBuf(q, f, b, s).FreeCount >= q.FreeCount
<1> DEFINE d == Destination(f, s)
           z == FilterBuf(q, f, b, s)
<1>1. d \in Ends
  BY DestinationTyped
<1>2. q \in Pools /\ b \in Buffers /\ q.FreeCount \in Nat
  BY DEF Sound, Pools
<1>3. CASE d = None
  <2>1. z = Buffer_Free(q, b)
    BY <1>3 DEF FilterBuf
  <2>2. Sound(z, [w EXCEPT ![b] = d], out \ {b})
    BY <1>3, <2>1, SoundFree
  <2>3. z.FreeCount = q.FreeCount + 1
    BY <1>2, <2>1, FreeWrites
  <2> HIDE DEF z, d
  <2>4. z.FreeCount >= q.FreeCount
    BY <1>2, <2>3
  <2> QED  BY <1>1, <2>2, <2>4 DEF z
<1>4. CASE d # None
  <2>1. z = Partition_LinkBuffer(q, d, b) /\ d \in Parts
    BY <1>1, <1>4 DEF FilterBuf, Ends
  <2>2. Sound(z, [w EXCEPT ![b] = d], out \ {b})
    BY <2>1, SoundLink
  <2>3. z.FreeCount = q.FreeCount
    <3> HIDE DEF d
    <3> QED  BY <1>2, <2>1, LinkRuns
  <2> HIDE DEF z, d
  <2>4. z.FreeCount >= q.FreeCount
    BY <1>2, <2>3
  <2> QED  BY <1>1, <2>2, <2>4 DEF z
<1> QED  BY <1>3, <1>4

LEMMA UnlinkAllSound ==
  ASSUME NEW q, NEW w, NEW out, Sound(q, w, out), NEW p \in Parts, NEW list, Distinct(list),
         \A i \in 1..Len(list) : list[i] \notin out /\ w[list[i]] = p
  PROVE  Sound(UnlinkAll(q, p, list), w, out \cup Among(list, Len(list)))
<1> DEFINE N == Len(list)
           steps == [n \in DOMAIN list |-> [x \in Pools |-> Partition_UnlinkBuffer(x, p, list[n])]]
           K == [i \in 0..N |-> {x \in Pools : Sound(x, w, out \cup Among(list, i))}]
<1>1. N \in Nat /\ DOMAIN list = 1..N
  BY DEF Distinct
<1>2. Len(steps) = N
  BY <1>1
<1>3. ASSUME NEW i \in 1..N, NEW x \in K[i - 1] PROVE steps[i][x] \in K[i]
  <2> DEFINE o == out \cup Among(list, i - 1)
             b == list[i]
             z == Partition_UnlinkBuffer(x, p, b)
  <2>1. x \in Pools /\ Sound(x, w, o)
    BY <1>1
  <2>2. b \in Buffers \ o /\ out \cup Among(list, i) = o \cup {b}
    BY AmongNext
  <2>3. w[b] = p
    OBVIOUS
  <2>4. steps[i][x] = z
    BY <1>1, <2>1
  <2> HIDE DEF o, b
  <2>5. Sound(z, w, o \cup {b})
    BY <2>1, <2>2, <2>3, SoundUnlink
  <2>6. z \in Pools /\ Sound(z, w, out \cup Among(list, i))
    BY <2>2, <2>5 DEF Sound
  <2>7. K[i] = {y \in Pools : Sound(y, w, out \cup Among(list, i))}
    BY <1>1
  <2> HIDE DEF z, steps, K
  <2> QED  BY ONLY <2>4, <2>6, <2>7
<1>4. q \in K[0]
  <2>1. out \cup Among(list, 0) = out
    BY AmongNone
  <2>2. K[0] = {x \in Pools : Sound(x, w, out \cup Among(list, 0))}
    BY <1>1
  <2>3. q \in Pools
    BY DEF Sound
  <2>4. Sound(q, w, out \cup Among(list, 0))
    BY <2>1
  <2> QED  BY <2>2, <2>3, <2>4
<1>5. UnlinkAll(q, p, list) = InTurn(q, steps)
  BY DEF UnlinkAll
<1> HIDE DEF steps
<1>6. InTurn(q, steps) \in K[N]
  <2> HIDE DEF K, N
  <2> QED  BY <1>1, <1>2, <1>3, <1>4, InTurnKeeps
<1> QED  BY <1>1, <1>5, <1>6

\* w, but for those of the set S, which are free
Freed(w, S) == [b \in Buffers |-> IF b \in S THEN None ELSE w[b]]

LEMMA DeleteSound ==
  ASSUME NEW q, NEW w, NEW out, Sound(q, w, out), NEW p \in Parts, NEW list, Distinct(list),
         \A i \in 1..Len(list) : list[i] \notin out /\ w[list[i]] = p
  PROVE  Sound(Delete(q, p, list), Freed(w, Among(list, Len(list))), out)
<1> DEFINE N == Len(list)
           v(i) == Freed(w, Among(list, i))
           steps == [n \in DOMAIN list |-> [x \in Pools |->
                       Buffer_Free(Partition_UnlinkBuffer(x, p, list[n]), list[n])]]
           K == [i \in 0..N |-> {x \in Pools : Sound(x, v(i), out)}]
<1>0. w \in [Buffers -> Ends] /\ out \in SUBSET Buffers /\ None \in Ends
  BY DEF Sound, Ends
<1>1. N \in Nat /\ DOMAIN list = 1..N
  BY DEF Distinct
<1>2. Len(steps) = N
  BY <1>1
<1>3. ASSUME NEW i \in 1..N, NEW x \in K[i - 1] PROVE steps[i][x] \in K[i]
  <2> DEFINE b == list[i]
             y == Partition_UnlinkBuffer(x, p, b)
             z == Buffer_Free(y, b)
             u == v(i - 1)
  <2>1. x \in Pools /\ Sound(x, u, out)
    BY <1>1
  <2>2. /\ b \in Buffers \ out /\ b \notin Among(list, i - 1)
        /\ Among(list, i) = Among(list, i - 1) \cup {b} /\ w[b] = p
    BY AmongNext
  <2> DEFINE t == v(i)
  <2>3. u[b] = p /\ t = [u EXCEPT ![b] = None] /\ u \in [Buffers -> Ends]
    BY <1>0, <2>2 DEF Freed
  <2>4. steps[i][x] = z
    BY <1>1, <2>1
  <2>5. Sound(y, u, out \cup {b})
    <3>1. y = Partition_UnlinkBuffer(x, u[b], b) /\ u[b] \in Parts
      BY <2>3
    <3> HIDE DEF b, u, y
    <3> QED  BY <2>1, <2>2, <3>1, SoundUnlink
  <2>6. Sound(z, t, (out \cup {b}) \ {b})
    <3> HIDE DEF b, u, y, t
    <3> QED  BY <2>3, <2>5, SoundFree
  <2>7. (out \cup {b}) \ {b} = out
    BY <2>2
  <2>8. z \in {o \in Pools : Sound(o, t, out)}
    <3> HIDE DEF z, b, t
    <3> QED  BY <2>6, <2>7 DEF Sound
  <2>9. K[i] = {o \in Pools : Sound(o, t, out)}
    BY <1>1
  <2> QED  BY <2>4, <2>8, <2>9
<1>4. q \in K[0]
  <2>1. v(0) = w
    BY <1>0, AmongNone DEF Freed
  <2> QED  BY <1>1, <2>1 DEF Sound
<1>5. Delete(q, p, list) = InTurn(q, steps)
  BY DEF Delete
<1> HIDE DEF steps
<1>6. InTurn(q, steps) \in K[N]
  <2> HIDE DEF K, N
  <2> QED  BY <1>1, <1>2, <1>3, <1>4, InTurnKeeps
<1> QED  BY <1>1, <1>5, <1>6

\* A partition that is emptied: its buffers are free.
LEMMA ClearSound ==
  ASSUME NEW q, NEW w, NEW out, Sound(q, w, out), NEW p \in Parts
  PROVE  Sound(Partition_Clear(q, p), Freed(w, Range(Chain(q, q.First[p]))), out)
<1> DEFINE l == Chain(q, q.First[p])
<1>1. FirstOf(q, p) = q.First[p] /\ p \in Ends
  BY BlockConstants DEF FirstOf, Ends
<1>2. /\ l \in Seq(Buffers)
      /\ \A i, j \in 1..Len(l) : l[i] = l[j] => i = j
      /\ \A b \in Buffers : (\E i \in 1..Len(l) : l[i] = b) <=> (b \notin out /\ w[b] = p)
  BY <1>1, Walks
<1> HIDE DEF l
<1>3. Distinct(l) /\ \A i \in 1..Len(l) : l[i] \notin out /\ w[l[i]] = p
  BY <1>2 DEF Distinct
<1>4. Range(l) = Among(l, Len(l))
  BY <1>2 DEF Range, Among
<1>5. Partition_Clear(q, p) = Delete(q, p, l)
  BY DEF Partition_Clear, l
<1> QED  BY <1>3, <1>4, <1>5, DeleteSound DEF l

\* All that was in hand is freed.
LEMMA FreeAllSound ==
  ASSUME NEW q, NEW w, NEW out, Sound(q, w, out), NEW list, Distinct(list), out = Among(list, Len(list)),
         NEW steps, Len(steps) = Len(list),
         \A i \in 1..Len(list) : \A x \in Pools : steps[i][x] = Buffer_Free(x, list[i])
  PROVE  \E v : Sound(InTurn(q, steps), v, {}) /\ \A b \in Buffers \ out : v[b] = w[b]
<1> DEFINE N == Len(list)
           left(i) == out \ Among(list, i)
           Fair(x, v, o) == x \in Pools /\ Sound(x, v, o) /\ \A b \in Buffers \ out : v[b] = w[b]
           K == [i \in 0..N |-> {x \in Pools : \E v : Fair(x, v, left(i))}]
<1>0. q \in Pools /\ w \in [Buffers -> Ends] /\ out \in SUBSET Buffers
  BY DEF Sound
<1>1. N \in Nat /\ DOMAIN list = 1..N
  BY DEF Distinct
<1>2. Len(steps) = N
  BY <1>1
<1> HIDE DEF left, Fair
<1>3. ASSUME NEW i \in 1..N, NEW x \in K[i - 1] PROVE steps[i][x] \in K[i]
  <2> DEFINE b == list[i]
             z == Buffer_Free(x, b)
             o == left(i - 1)
             t == left(i)
  <2>1. x \in Pools /\ \E v : Fair(x, v, o)
    BY <1>1
  <2>2. PICK u : Fair(x, u, o)
    BY <2>1
  <2>3. /\ b \in Buffers /\ b \notin Among(list, i - 1)
        /\ Among(list, i) = Among(list, i - 1) \cup {b} /\ b \in out
    BY <1>1, AmongNext DEF Among
  <2>4. b \in o /\ t = o \ {b}
    BY <2>3 DEF left
  <2>5. steps[i][x] = z
    BY <1>1, <2>1
  <2>6. K[i] = {y \in Pools : \E v : Fair(y, v, t)}
    BY <1>1
  <2> HIDE DEF b, o, t, K, left
  <2> USE DEF Fair
  <2>7. Sound(z, [u EXCEPT ![b] = None], t)
    BY <2>2, <2>4, SoundFree
  <2>8. u \in [Buffers -> Ends]
    BY <2>2 DEF Sound
  <2>9. \A c \in Buffers \ out : [u EXCEPT ![b] = None][c] = w[c]
    BY <2>2, <2>3, <2>8
  <2>10. z \in Pools
    BY <2>7 DEF Sound
  <2>11. Fair(z, [u EXCEPT ![b] = None], t)
    BY <2>7, <2>9, <2>10
  <2> HIDE DEF z, Fair
  <2> QED  BY ONLY <2>5, <2>6, <2>10, <2>11
<1>4. q \in K[0]
  <2>1. left(0) = out
    BY AmongNone DEF left
  <2>2. K[0] = {y \in Pools : \E v : Fair(y, v, left(0))}
    BY <1>1
  <2> HIDE DEF K
  <2>3. Fair(q, w, left(0))
    BY <1>0, <2>1 DEF Fair
  <2> QED  BY <1>0, <2>2, <2>3
<1>5. K[N] = {y \in Pools : \E v : Fair(y, v, left(N))}
  BY <1>1
<1>6. left(N) = {}
  BY DEF left
<1>7. InTurn(q, steps) \in K[N]
  <2> HIDE DEF K, N
  <2> QED  BY <1>1, <1>2, <1>3, <1>4, InTurnKeeps
<1> HIDE DEF K, N
<1> QED  BY <1>5, <1>6, <1>7 DEF Fair

\* All that was in hand is filtered.
LEMMA FilterAllSound ==
  ASSUME TrueConn \in [Parts -> Ends], FalseConn \in [Parts -> Ends], NEW f \in Ends,
         NEW q, NEW w, NEW out, Sound(q, w, out), NEW list, Distinct(list), out = Among(list, Len(list)),
         NEW steps, Len(steps) = Len(list),
         \A i \in 1..Len(list) : \A x \in Pools : steps[i][x] = FilterBuf(x, f, list[i], Data[list[i]])
  PROVE  \E v : Sound(InTurn(q, steps), v, {}) /\ \A b \in Buffers \ out : v[b] = w[b]
<1> DEFINE N == Len(list)
           left(i) == out \ Among(list, i)
           Fair(x, v, o) == x \in Pools /\ Sound(x, v, o) /\ \A b \in Buffers \ out : v[b] = w[b]
           K == [i \in 0..N |-> {x \in Pools : \E v : Fair(x, v, left(i))}]
<1>0. q \in Pools /\ w \in [Buffers -> Ends] /\ out \in SUBSET Buffers
  BY DEF Sound
<1>1. N \in Nat /\ DOMAIN list = 1..N
  BY DEF Distinct
<1>2. Len(steps) = N
  BY <1>1
<1> HIDE DEF left, Fair
<1>3. ASSUME NEW i \in 1..N, NEW x \in K[i - 1] PROVE steps[i][x] \in K[i]
  <2> DEFINE b == list[i]
             z == FilterBuf(x, f, b, Data[b])
             o == left(i - 1)
             t == left(i)
  <2>1. x \in Pools /\ \E v : Fair(x, v, o)
    BY <1>1
  <2>2. PICK u : Fair(x, u, o)
    BY <2>1
  <2>3. /\ b \in Buffers /\ b \notin Among(list, i - 1)
        /\ Among(list, i) = Among(list, i - 1) \cup {b} /\ b \in out
    BY <1>1, AmongNext DEF Among
  <2>4. b \in o /\ t = o \ {b}
    BY <2>3 DEF left
  <2>5. steps[i][x] = z
    BY <1>1, <2>1
  <2>6. K[i] = {y \in Pools : \E v : Fair(y, v, t)}
    BY <1>1
  <2> HIDE DEF b, o, t, K, left
  <2> USE DEF Fair
  <2>7. PICK d \in Ends : Sound(z, [u EXCEPT ![b] = d], t)
    BY <2>2, <2>4, SoundFilter
  <2>8. u \in [Buffers -> Ends]
    BY <2>2 DEF Sound
  <2>9. \A c \in Buffers \ out : [u EXCEPT ![b] = d][c] = w[c]
    BY <2>2, <2>3, <2>8
  <2>10. z \in Pools
    BY <2>7 DEF Sound
  <2>11. Fair(z, [u EXCEPT ![b] = d], t)
    BY <2>7, <2>9, <2>10
  <2> HIDE DEF z, Fair
  <2> QED  BY ONLY <2>5, <2>6, <2>10, <2>11
<1>4. q \in K[0]
  <2>1. left(0) = out
    BY AmongNone DEF left
  <2>2. K[0] = {y \in Pools : \E v : Fair(y, v, left(0))}
    BY <1>1
  <2> HIDE DEF K
  <2>3. Fair(q, w, left(0))
    BY <1>0, <2>1 DEF Fair
  <2> QED  BY <1>0, <2>2, <2>3
<1>5. K[N] = {y \in Pools : \E v : Fair(y, v, left(N))}
  BY <1>1
<1>6. left(N) = {}
  BY DEF left
<1>7. InTurn(q, steps) \in K[N]
  <2> HIDE DEF K, N
  <2> QED  BY <1>1, <1>2, <1>3, <1>4, InTurnKeeps
<1> HIDE DEF K, N
<1> QED  BY <1>5, <1>6, <1>7 DEF Fair

\* Sectors of a partition are chosen out and filtered, each before the next.
LEMMA MoveSound ==
  ASSUME TrueConn \in [Parts -> Ends], FalseConn \in [Parts -> Ends], NEW f \in Ends,
         NEW q, NEW w, NEW out, Sound(q, w, out), NEW p \in Parts, NEW list, Distinct(list),
         \A i \in 1..Len(list) : list[i] \notin out /\ w[list[i]] = p,
         NEW steps, steps = [n \in DOMAIN list |-> [x \in Pools |->
                      FilterBuf(Partition_UnlinkBuffer(x, p, list[n]), f, list[n], Data[list[n]])]]
  PROVE  \E v : Sound(InTurn(q, steps), v, out)
<1> DEFINE N == Len(list)
           Ahead(v, i) == \A j \in (i + 1)..N : v[list[j]] = p
           Fair(x, v, i) == Sound(x, v, out) /\ Ahead(v, i)
           K == [i \in 0..N |-> {x \in Pools : \E v : Fair(x, v, i)}]
<1>0. q \in Pools /\ w \in [Buffers -> Ends] /\ out \in SUBSET Buffers
  BY DEF Sound
<1>1. N \in Nat /\ DOMAIN list = 1..N /\ \A i \in 1..N : list[i] \in Buffers
  BY DEF Distinct
<1>2. Len(steps) = N
  BY <1>1
<1>3. ASSUME NEW i \in 1..N, NEW x \in K[i - 1] PROVE steps[i][x] \in K[i]
  <2> DEFINE b == list[i]
             y == Partition_UnlinkBuffer(x, p, b)
             z == FilterBuf(y, f, b, Data[b])
  <2>1. x \in Pools /\ \E v : Fair(x, v, i - 1)
    BY <1>1
  <2>2. PICK u : Fair(x, u, i - 1)
    BY <2>1
  <2>3. b \in Buffers \ out /\ u[b] = p
    <3>1. i \in ((i - 1) + 1)..N
      BY <1>1
    <3> QED  BY <1>1, <2>2, <3>1
  <2>4. u \in [Buffers -> Ends]
    BY <2>2 DEF Sound
  <2>5. steps[i][x] = z
    BY <1>1, <2>1
  <2>6. K[i] = {o \in Pools : \E v : Fair(o, v, i)}
    BY <1>1
  <2>7. \A j \in (i + 1)..N : j \in ((i - 1) + 1)..N /\ list[j] # b /\ list[j] \in Buffers
    BY <1>1 DEF Distinct
  <2> HIDE DEF b, K
  <2>8. Sound(y, u, out \cup {b})
    <3>1. y = Partition_UnlinkBuffer(x, u[b], b) /\ u[b] \in Parts
      BY <2>3
    <3> HIDE DEF y
    <3> QED  BY <2>2, <2>3, <3>1, SoundUnlink
  <2>9. (out \cup {b}) \ {b} = out
    BY <2>3
  <2> HIDE DEF y
  <2>10. PICK d \in Ends : Sound(z, [u EXCEPT ![b] = d], out)
    <3>1. b \in out \cup {b}
      OBVIOUS
    <3>2. \E d \in Ends : Sound(z, [u EXCEPT ![b] = d], (out \cup {b}) \ {b})
      BY <2>8, <3>1, SoundFilter
    <3> HIDE DEF z
    <3> QED  BY <2>9, <3>2
  <2>11. Ahead([u EXCEPT ![b] = d], i)
    BY <2>2, <2>4, <2>7
  <2>12. z \in Pools
    BY <2>10 DEF Sound
  <2> HIDE DEF z, Ahead
  <2> QED  BY <2>5, <2>6, <2>10, <2>11, <2>12
<1>4. q \in K[0]
  <2>2. K[0] = {y \in Pools : \E v : Fair(y, v, 0)}
    BY <1>1
  <2> HIDE DEF K
  <2>3. Fair(q, w, 0)
    BY <1>0, <1>1
  <2> QED  BY <1>0, <2>2, <2>3
<1>5. K[N] = {y \in Pools : \E v : Fair(y, v, N)}
  BY <1>1
<1>7. InTurn(q, steps) \in K[N]
  <2> HIDE DEF K, N
  <2> QED  BY <1>1, <1>2, <1>3, <1>4, InTurnKeeps
<1> HIDE DEF K, N
<1> QED  BY <1>5, <1>7

\* Sectors are copied, each to the first free buffer, as long as there is room.
LEMMA CopySound ==
  ASSUME TrueConn \in [Parts -> Ends], FalseConn \in [Parts -> Ends], NEW f \in Ends,
         NEW q, NEW w, NEW out, Sound(q, w, out), NEW data \in [Buffers -> Sectors],
         NEW list \in Seq(Buffers), Len(list) <= q.FreeCount,
         NEW steps, steps = [n \in DOMAIN list |-> [s \in States |-> CopySector(s, f, list[n])]],
         NEW end, end = InTurn([pool |-> q, data |-> data], steps)
  PROVE  /\ \E v : Sound(end.pool, v, out)
         /\ end.data \in [Buffers -> Sectors]
<1> DEFINE N == Len(list)
           Fair(s, i) == (\E v : Sound(s.pool, v, out)) /\ s.pool.FreeCount >= N - i
           K == [i \in 0..N |-> {s \in States : Fair(s, i)}]
           first == [pool |-> q, data |-> data]
<1>0. q \in Pools /\ out \in SUBSET Buffers
  BY DEF Sound
<1>1. N \in Nat /\ DOMAIN list = 1..N /\ \A i \in 1..N : list[i] \in Buffers
  OBVIOUS
<1>2. Len(steps) = N
  BY <1>1
<1> HIDE DEF N
<1>3. ASSUME NEW i \in 1..N, NEW x \in K[i - 1] PROVE steps[i][x] \in K[i]
  <2> DEFINE pl == x.pool
             b == Allocated(pl)
             y == Buffer_Allocate(pl)
             s == x.data[list[i]]
             z == FilterBuf(y, f, b, s)
             e == [x.data EXCEPT ![b] = s]
             r == [pool |-> z, data |-> e]
  <2>1. x \in States /\ Fair(x, i - 1)
    BY <1>1
  <2>2. PICK u : Sound(pl, u, out)
    BY <2>1
  <2>3. pl \in Pools /\ pl.FreeCount \in Nat /\ pl.FreeCount >= N - (i - 1)
    BY <2>1 DEF States, Pools
  <2>4. pl.FreeCount > 0 /\ pl.FreeCount - 1 >= N - i
    BY <1>1, <2>3
  <2>5. steps[i][x] = r
    BY <1>1, <2>1 DEF CopySector
  <2>6. K[i] = {o \in States : Fair(o, i)}
    BY <1>1
  <2> HIDE DEF K
  <2>7. b \in Buffers \ out /\ Sound(y, u, out \cup {b}) /\ y.FreeCount = pl.FreeCount - 1
    BY <2>2, <2>4, SoundAllocate
  <2>8. (out \cup {b}) \ {b} = out /\ b \in out \cup {b}
    BY <2>7
  <2>9. e \in [Buffers -> Sectors]
    BY <1>1, <2>1, <2>7 DEF States
  <2> HIDE DEF e, s, b, y, pl
  <2>10. /\ \E d \in Ends : Sound(z, [u EXCEPT ![b] = d], (out \cup {b}) \ {b})
         /\ z.FreeCount >= y.FreeCount
    BY <2>7, <2>8, SoundFilter
  <2> HIDE DEF z
  <2>11. PICK d \in Ends : Sound(z, [u EXCEPT ![b] = d], out)
    BY <2>8, <2>10
  <2>12. z \in Pools /\ z.FreeCount \in Nat
    BY <2>11 DEF Sound, Pools
  <2>13. z.FreeCount >= N - i
    BY <1>1, <2>3, <2>4, <2>7, <2>10, <2>12
  <2>14. r \in States /\ r.pool = z
    BY <2>9, <2>12 DEF States
  <2> HIDE DEF r
  <2>15. Fair(r, i)
    BY <2>11, <2>13, <2>14
  <2> QED  BY <2>5, <2>6, <2>14, <2>15
<1>4. first \in K[0]
  <2>1. K[0] = {o \in States : Fair(o, 0)}
    BY <1>1
  <2>2. first \in States /\ first.pool = q
    BY <1>0 DEF States
  <2> HIDE DEF first
  <2>3. q.FreeCount >= N - 0
    BY <1>1 DEF N
  <2>4. Fair(first, 0)
    BY <2>2, <2>3
  <2> QED  BY <2>1, <2>2, <2>4
<1>5. K[N] = {o \in States : Fair(o, N)}
  BY <1>1
<1>6. end \in K[N]
  <2> HIDE DEF K
  <2> QED  BY <1>1, <1>2, <1>3, <1>4, InTurnKeeps
<1> HIDE DEF K
<1>7. end \in States /\ Fair(end, N)
  BY <1>5, <1>6
<1> QED  BY <1>7 DEF States

\* Sectors are put into a partition; nothing leaves one.
LEMMA LoadSound ==
  ASSUME NEW q, NEW w, NEW out, Sound(q, w, out), NEW p \in Parts, NEW N \in Nat, N <= q.FreeCount,
         NEW steps, Len(steps) = N,
         \A i \in 1..N : \A x \in Pools :
           steps[i][x] = Partition_LinkBuffer(Buffer_Allocate(x), p, Allocated(x))
  PROVE  \E v : Sound(InTurn(q, steps), v, out) /\ \A b \in Buffers : w[b] \in Parts => v[b] = w[b]
<1> DEFINE Stay(v) == \A b \in Buffers : w[b] \in Parts => v[b] = w[b]
           Fair(x, i) == (\E v : Sound(x, v, out) /\ Stay(v)) /\ x.FreeCount >= N - i
           K == [i \in 0..N |-> {x \in Pools : Fair(x, i)}]
<1>0. q \in Pools /\ out \in SUBSET Buffers /\ None \notin Parts
  BY BlockConstants DEF Sound
<1>2. Len(steps) = N
  OBVIOUS
<1>3. ASSUME NEW i \in 1..N, NEW x \in K[i - 1] PROVE steps[i][x] \in K[i]
  <2> DEFINE b == Allocated(x)
             y == Buffer_Allocate(x)
             z == Partition_LinkBuffer(y, p, b)
  <2>1. x \in Pools /\ Fair(x, i - 1)
    OBVIOUS
  <2>2. PICK u : Sound(x, u, out) /\ Stay(u)
    BY <2>1
  <2>3. x.FreeCount \in Nat /\ x.FreeCount >= N - (i - 1)
    BY <2>1 DEF Pools
  <2>4. x.FreeCount > 0 /\ x.FreeCount - 1 >= N - i
    BY <2>3
  <2>5. steps[i][x] = z
    BY <2>1
  <2>6. K[i] = {o \in Pools : Fair(o, i)}
    OBVIOUS
  <2> HIDE DEF K
  <2>7. b \in Buffers \ out /\ u[b] = None /\ Sound(y, u, out \cup {b}) /\ y.FreeCount = x.FreeCount - 1
    BY <2>2, <2>4, SoundAllocate
  <2>8. (out \cup {b}) \ {b} = out /\ b \in out \cup {b}
    BY <2>7
  <2> HIDE DEF b, y
  <2>9. Sound(z, [u EXCEPT ![b] = p], (out \cup {b}) \ {b})
    BY <2>7, <2>8, SoundLink
  <2>10. z.FreeCount = y.FreeCount
    <3>1. y \in Pools /\ b \in Buffers
      BY <2>7 DEF Sound
    <3> QED  BY <3>1, LinkRuns
  <2> HIDE DEF z
  <2>11. Sound(z, [u EXCEPT ![b] = p], out)
    BY <2>8, <2>9
  <2>12. z \in Pools
    BY <2>11 DEF Sound
  <2>13. z.FreeCount >= N - i
    BY <2>4, <2>7, <2>10
  <2>14. Stay([u EXCEPT ![b] = p])
    <3>1. u \in [Buffers -> Ends]
      BY <2>2 DEF Sound
    <3> QED  BY <1>0, <2>2, <2>7, <3>1
  <2> HIDE DEF Stay
  <2>15. Fair(z, i)
    BY <2>11, <2>13, <2>14
  <2> QED  BY <2>5, <2>6, <2>12, <2>15
<1>4. q \in K[0]
  <2>1. K[0] = {o \in Pools : Fair(o, 0)}
    OBVIOUS
  <2>2. q.FreeCount >= N - 0
    BY <1>0 DEF Pools
  <2>3. Fair(q, 0)
    BY <2>2
  <2> QED  BY <1>0, <2>1, <2>3
<1>5. K[N] = {o \in Pools : Fair(o, N)}
  OBVIOUS
<1>6. InTurn(q, steps) \in K[N]
  <2> HIDE DEF K
  <2> QED  BY <1>2, <1>3, <1>4, InTurnKeeps
<1> HIDE DEF K
<1> QED  BY <1>5, <1>6

\* What is left of the free list when its first is taken
LEMMA AllocateWalks ==
  ASSUME NEW q, NEW w, NEW out, Sound(q, w, out), q.FreeCount > 0
  PROVE  LET k == Chain(q, q.FirstFree)
             z == Buffer_Allocate(q)
         IN  k # <<>> /\ k[1] = Allocated(q) /\ Chain(z, z.FirstFree) = Tail(k)
<1> DEFINE z == Buffer_Allocate(q)
<1>1. PICK L : Has(q, L) /\ Lies(L, w, out)
  BY DEF Sound
<1>2. q \in Pools /\ None \in Ends /\ FirstOf(q, None) = q.FirstFree /\ FirstOf(z, None) = z.FirstFree
  BY DEF Sound, Ends, FirstOf
<1> DEFINE k == L[None]
           M == [L EXCEPT ![None] = Tail(k)]
<1>3. Chain(q, q.FirstFree) = k
  BY <1>1, <1>2, ChainIs
<1>4. k \in Seq(Buffers) /\ Len(k) = q.FreeCount /\ Len(k) > 0 /\ k[1] = Allocated(q)
  BY <1>1, <1>2 DEF Has, Whole, FirstOf, CountOf, Allocated
<1>5. Has(z, M)
  BY <1>1, <1>2, <1>4, AllocateTakes
<1>6. z \in Pools
  BY SoundAllocate DEF Sound
<1>7. M[None] = Tail(k)
  BY <1>1, <1>2 DEF Has
<1> HIDE DEF z, M
<1>8. Chain(z, z.FirstFree) = M[None]
  BY <1>2, <1>5, <1>6, ChainIs
<1>9. k # <<>>
  BY <1>4
<1> HIDE DEF k
<1> QED  BY <1>3, <1>4, <1>7, <1>8, <1>9 DEF z

\* The first N free buffers are taken in hand.
LEMMA ReserveSound ==
  ASSUME NEW q, NEW w, NEW out, Sound(q, w, out),
         NEW steps, Len(steps) \in Nat, Len(steps) <= q.FreeCount,
         \A i \in 1..Len(steps) : \A x \in Pools : steps[i][x] = Buffer_Allocate(x)
  PROVE  LET first == SubSeq(Chain(q, q.FirstFree), 1, Len(steps)) IN
         Distinct(first) /\ Sound(InTurn(q, steps), w, out \cup Range(first))
<1> DEFINE l == Chain(q, q.FirstFree)
           N == Len(steps)
           first == SubSeq(l, 1, N)
           Rest0(i) == SubSeq(l, i + 1, Len(l))
           Fair(x, i) == /\ Sound(x, w, out \cup Among(l, i))
                         /\ Chain(x, x.FirstFree) = Rest0(i)
                         /\ x.FreeCount = q.FreeCount - i
           K == [i \in 0..N |-> {x \in Pools : Fair(x, i)}]
<1>0. q \in Pools /\ q.FreeCount \in Nat /\ out \in SUBSET Buffers /\ None \in Ends /\ FirstOf(q, None) = q.FirstFree
      /\ CountOf(q, None) = q.FreeCount
  BY DEF Sound, Ends, FirstOf, CountOf, Pools
<1>1. /\ l \in Seq(Buffers) /\ Len(l) = q.FreeCount
      /\ \A i, j \in 1..Len(l) : l[i] = l[j] => i = j
      /\ \A b \in Buffers : (\E i \in 1..Len(l) : l[i] = b) <=> (b \notin out /\ w[b] = None)
  <2>1. LET g == Chain(q, FirstOf(q, None)) IN
        /\ g \in Seq(Buffers) /\ Len(g) = CountOf(q, None)
        /\ \A i, j \in 1..Len(g) : g[i] = g[j] => i = j
        /\ \A b \in Buffers : (\E i \in 1..Len(g) : g[i] = b) <=> (b \notin out /\ w[b] = None)
    BY <1>0, Walks, ZenonT(40)
  <2>2. Chain(q, FirstOf(q, None)) = l
    BY <1>0
  <2> HIDE DEF l
  <2> QED  BY <1>0, <2>1, <2>2
<1> HIDE DEF l, N
<1>2. Distinct(l)
  BY <1>1 DEF Distinct
<1>3. Len(steps) = N /\ N \in Nat /\ N <= q.FreeCount /\ \A i \in 1..N : \A x \in Pools : steps[i][x] = Buffer_Allocate(x)
  BY DEF N
<1>4. ASSUME NEW i \in 1..N, NEW x \in K[i - 1] PROVE steps[i][x] \in K[i]
  <2> DEFINE b == Allocated(x)
             z == Buffer_Allocate(x)
             o == out \cup Among(l, i - 1)
             k == Chain(x, x.FirstFree)
  <2>1. x \in Pools /\ Fair(x, i - 1)
    BY <1>3
  <2>2. i \in 1..Len(l) /\ x.FreeCount > 0 /\ x.FreeCount - 1 = q.FreeCount - i
    BY <1>0, <1>1, <1>3, <2>1
  <2>3. k = SubSeq(l, i, Len(l))
    BY <2>1
  <2>4. k # <<>> /\ k[1] = b /\ Chain(z, z.FirstFree) = Tail(k)
    BY <2>1, <2>2, AllocateWalks
  <2>5. b \in Buffers \ o /\ Sound(z, w, o \cup {b}) /\ z.FreeCount = x.FreeCount - 1
    BY <2>1, <2>2, SoundAllocate, ZenonT(60)
  <2>6. steps[i][x] = z
    BY <1>3, <2>1
  <2>7. K[i] = {y \in Pools : Fair(y, i)}
    OBVIOUS
  <2> HIDE DEF b, z, k, K
  <2>8. b = l[i] /\ Tail(k) = SubSeq(l, i + 1, Len(l))
    <3>1. Len(l) \in Nat /\ i \in Nat /\ 1 <= i /\ i <= Len(l)
      BY <1>1, <2>2
    <3>2. k[1] = l[i]
      BY ONLY <1>1, <2>3, <3>1
    <3>3. Tail(k) = SubSeq(l, i + 1, Len(l))
      BY ONLY <1>1, <2>3, <3>1
    <3> QED  BY <2>4, <3>2, <3>3
  <2>9. o \cup {b} = out \cup Among(l, i)
    BY <1>2, <2>2, <2>8, AmongNext
  <2>10. z \in Pools
    BY <2>5 DEF Sound
  <2> HIDE DEF o
  <2>11. Fair(z, i)
    BY <2>2, <2>4, <2>5, <2>8, <2>9
  <2> HIDE DEF Fair
  <2> QED  BY <2>6, <2>7, <2>10, <2>11
<1>5. q \in K[0]
  <2>1. K[0] = {y \in Pools : Fair(y, 0)}
    BY <1>3
  <2>2. out \cup Among(l, 0) = out
    BY AmongNone
  <2>3. SubSeq(l, 0 + 1, Len(l)) = l
    BY <1>1
  <2>4. Sound(q, w, out \cup Among(l, 0))
    BY <2>2
  <2>5. Fair(q, 0)
    BY <1>0, <2>3, <2>4 DEF l
  <2> HIDE DEF Fair, K
  <2> QED  BY <1>0, <2>1, <2>5
<1>6. K[N] = {y \in Pools : Fair(y, N)}
  BY <1>3
<1>7. InTurn(q, steps) \in K[N]
  <2> HIDE DEF K
  <2> QED  BY <1>3, <1>4, <1>5, InTurnKeeps
<1> HIDE DEF K
<1>8. Sound(InTurn(q, steps), w, out \cup Among(l, N))
  BY <1>6, <1>7
<1>9. /\ first \in Seq(Buffers) /\ Len(first) = N /\ DOMAIN first = 1..N
      /\ \A i \in 1..N : first[i] = l[i] /\ i \in 1..Len(l) /\ l[i] \in Buffers
  <2>1. Len(l) \in Nat /\ N <= Len(l)
    BY <1>0, <1>1, <1>3
  <2> QED  BY ONLY <1>1, <1>3, <2>1
<1> HIDE DEF first
<1>10. Range(first) = Among(l, N)
  BY <1>9 DEF Range, Among
<1>11. Distinct(first)
  BY ONLY <1>1, <1>9 DEF Distinct
<1>12. Distinct(first) /\ Sound(InTurn(q, steps), w, out \cup Range(first))
  BY <1>8, <1>10, <1>11
<1> QED  BY <1>12 DEF first, l, N

\* All partitions are emptied, in any order.
LEMMA ClearAllSound ==
  ASSUME NEW q, NEW w, NEW out, Sound(q, w, out), NEW order \in SetToSeqs(Parts),
         NEW steps, steps = [n \in DOMAIN order |-> [x \in Pools |-> Partition_Clear(x, order[n])]]
  PROVE  \E v : Sound(InTurn(q, steps), v, out)
<1> DEFINE N == Cardinality(Parts)
           K == [i \in 0..N |-> {x \in Pools : \E v : Sound(x, v, out)}]
<1>1. N \in Nat
  BY Sizes
<1>2. order \in [1..N -> Parts] /\ DOMAIN order = 1..N
  BY DEF SetToSeqs
<1> HIDE DEF N
<1>3. Len(steps) = N
  BY <1>1, <1>2
<1>4. ASSUME NEW i \in 1..N, NEW x \in K[i - 1] PROVE steps[i][x] \in K[i]
  <2>1. x \in Pools /\ \E v : Sound(x, v, out)
    BY <1>1
  <2>2. PICK u : Sound(x, u, out)
    BY <2>1
  <2> DEFINE z == Partition_Clear(x, order[i])
             v == Freed(u, Range(Chain(x, x.First[order[i]])))
  <2>3. steps[i][x] = z
    BY <1>2, <2>1
  <2>4. Sound(z, v, out)
    BY <1>2, <2>2, ClearSound
  <2>5. z \in Pools
    BY <2>4 DEF Sound
  <2>6. K[i] = {y \in Pools : \E u2 : Sound(y, u2, out)}
    BY <1>1
  <2> HIDE DEF z, v
  <2> QED  BY <2>3, <2>4, <2>5, <2>6
<1>5. q \in K[0]
  <2>1. q \in Pools
    BY DEF Sound
  <2> QED  BY <1>1, <2>1
<1>6. InTurn(q, steps) \in K[N]
  <2> HIDE DEF K
  <2> QED  BY <1>1, <1>3, <1>4, <1>5, InTurnKeeps
<1>7. K[N] = {x \in Pools : \E v : Sound(x, v, out)}
  BY <1>1
<1> HIDE DEF K
<1> QED  BY <1>6, <1>7

\* After a reset every buffer is free.
LEMMA EmptySound ==
  ASSUME NEW q \in EmptyPools
  PROVE  Sound(q, [b \in Buffers |-> None], {})
<1> DEFINE N == NumBuffers
           w == [b \in Buffers |-> None]
<1>1. N \in Nat \ {0} /\ None \notin Buffers /\ None \notin Parts
  BY Sizes, BlockConstants
<1>2. PICK order \in SetToSeqs(Buffers) :
        LET place == AntiFunction(order) IN
        q = [Prev |-> [b \in Buffers |-> IF place[b] = 1 THEN None ELSE order[place[b] - 1]],
             Next |-> [b \in Buffers |-> IF place[b] = N THEN None ELSE order[place[b] + 1]],
             FirstFree |-> order[1], FreeCount |-> N,
             First |-> [p \in Parts |-> None], Last |-> [p \in Parts |-> None],
             Count |-> [p \in Parts |-> 0]]
  BY DEF EmptyPools
<1>3. order \in [1..N -> Buffers] /\ \A i, j \in 1..N : i # j => order[i] # order[j]
  BY DEF SetToSeqs, NumBuffers
<1>4. \A b \in Buffers : \E i \in 1..N : order[i] = b
  <2>1. order \in Injection(1..N, Buffers)
    BY <1>3 DEF Injection, IsInjective
  <2>2. Cardinality(1..N) = N
    BY <1>1, FS_Interval
  <2>3. order \in Surjection(1..N, Buffers)
    BY <2>1, <2>2, FS_Injection, BlockConstants DEF NumBuffers
  <2> QED  BY <2>3 DEF Surjection
<1> DEFINE place == AntiFunction(order)
<1>5. \A b \in Buffers : place[b] \in 1..N /\ order[place[b]] = b
  <2>1. Range(order) = Buffers /\ DOMAIN order = 1..N
    BY <1>3, <1>4 DEF Range
  <2>2. place = [b \in Buffers |-> CHOOSE i \in 1..N : b \in Buffers => order[i] = b]
    BY <2>1 DEF AntiFunction, Inverse
  <2> HIDE DEF place
  <2> QED  BY <1>4, <2>2
<1>6. \A i \in 1..N : place[order[i]] = i
  BY <1>3, <1>5
<1> HIDE DEF place, N
<1> DEFINE P == [b \in Buffers |-> IF place[b] = 1 THEN None ELSE order[place[b] - 1]]
           X == [b \in Buffers |-> IF place[b] = N THEN None ELSE order[place[b] + 1]]
<1>7. q = [Prev |-> P, Next |-> X, FirstFree |-> order[1], FreeCount |-> N,
           First |-> [p \in Parts |-> None], Last |-> [p \in Parts |-> None],
           Count |-> [p \in Parts |-> 0]]
  BY <1>2 DEF place
<1>8. P \in [Buffers -> Index] /\ X \in [Buffers -> Index] /\ order[1] \in Index
  BY <1>1, <1>3, <1>5 DEF Index
<1>9. \A i \in 1..N : /\ X[order[i]] = IF i = N THEN None ELSE order[i + 1]
                      /\ P[order[i]] = IF i = 1 THEN None ELSE order[i - 1]
  BY <1>3, <1>6
<1> HIDE DEF P, X
<1>10. q \in Pools
  BY <1>1, <1>7, <1>8 DEF Pools, Index
<1> DEFINE L == [e \in Ends |-> IF e = None THEN order ELSE <<>>]
<1>11. /\ order \in Seq(Buffers) /\ Len(order) = N
       /\ L \in [Ends -> Seq(Buffers)] /\ L[None] = order
       /\ \A e \in Ends \ {None} : L[e] = <<>> /\ Len(L[e]) = 0 /\ e \in Parts
  BY <1>1, <1>3 DEF Ends
<1> HIDE DEF L
<1>12. Whole(q, None, order)
  BY <1>1, <1>7, <1>9, <1>11 DEF Whole, FirstOf, CountOf
<1>13. ASSUME NEW e \in Ends \ {None} PROVE Whole(q, e, L[e])
  BY <1>7, <1>11 DEF Whole, FirstOf, CountOf
<1>14. Apart(L)
  BY <1>1, <1>3, <1>11 DEF Apart
<1>15. Has(q, L)
  BY <1>11, <1>12, <1>13, <1>14 DEF Has
<1>16. Lies(L, w, {})
  <2> SUFFICES ASSUME NEW e \in Ends, NEW b \in Buffers
               PROVE  (\E i \in 1..Len(L[e]) : L[e][i] = b) <=> None = e
    BY DEF Lies
  <2> QED  BY <1>1, <1>4, <1>11
<1>17. w \in [Buffers -> Ends] /\ Unlinked(q, {})
  BY DEF Ends, Unlinked
<1> QED  BY <1>10, <1>15, <1>16, <1>17 DEF Sound

-----------------------------------------------------------------------------
(* The invariant. *)

\* TypeOK without the lists
Typed ==
  /\ Data \in [Buffers -> Sectors]
  /\ FiltersOK /\ TransferOK /\ FilesOK
  /\ phase \in {"idle", "answered", "reset"}
  /\ ResetSelPending \subseteq Flags /\ SWResetPending \in BOOLEAN
  /\ disturbed \in BOOLEAN /\ settings \in 0..MaxSettings

\* What the host has still to read is in the partitions.
Kept(w) == ~disturbed => \A b \in Unread \cap Buffers : w[b] \in Parts

\* The lists are whole, and each buffer is on one of them or in hand.
IInv ==
  /\ Typed
  /\ Distinct(InHand)
  /\ \E w : Sound(pool, w, Range(InHand)) /\ Kept(w)

LEMMA SegmentIs ==
  ASSUME NEW w, NEW out, Sound(pool, w, out), NEW p \in Parts, NEW r \in Places(p)
  PROVE  LET list == Segment(p, r[1], r[2]) IN
         /\ Distinct(list) /\ Len(list) = r[2]
         /\ \A i \in 1..Len(list) : list[i] \notin out /\ w[list[i]] = p
<1> DEFINE l == Chain(pool, pool.First[p])
           list == Segment(p, r[1], r[2])
<1>1. p \in Ends /\ FirstOf(pool, p) = pool.First[p] /\ CountOf(pool, p) = pool.Count[p]
  BY BlockConstants DEF FirstOf, CountOf, Ends
<1>2. /\ l \in Seq(Buffers) /\ Len(l) = pool.Count[p]
      /\ \A i, j \in 1..Len(l) : l[i] = l[j] => i = j
      /\ \A b \in Buffers : (\E i \in 1..Len(l) : l[i] = b) <=> (b \notin out /\ w[b] = p)
  <2>1. LET g == Chain(pool, FirstOf(pool, p)) IN
        /\ g \in Seq(Buffers) /\ Len(g) = CountOf(pool, p)
        /\ \A i, j \in 1..Len(g) : g[i] = g[j] => i = j
        /\ \A b \in Buffers : (\E i \in 1..Len(g) : g[i] = b) <=> (b \notin out /\ w[b] = p)
    BY <1>1, Walks, ZenonT(40)
  <2> QED  BY <1>1, <2>1
<1>3. list = SubSeq(l, r[1], r[1] + r[2] - 1)
  BY DEF Segment
<1> HIDE DEF l, list
<1> DEFINE m == r[1]
           n == r[2]
<1>4. m \in Nat /\ n \in Nat /\ 1 <= m /\ 1 <= n /\ m + n - 1 <= Len(l) /\ Len(l) \in Nat
  BY <1>2 DEF Places
<1> HIDE DEF m, n
<1>5. /\ list \in Seq(Buffers) /\ Len(list) = n
      /\ \A i \in 1..n : list[i] = l[m + i - 1] /\ m + i - 1 \in 1..Len(l) /\ l[m + i - 1] \in Buffers
  <2>1. list = SubSeq(l, m, m + n - 1)
    BY <1>3 DEF m, n
  <2>2. list \in Seq(Buffers) /\ Len(list) = n
    BY ONLY <1>2, <1>4, <2>1
  <2>3. ASSUME NEW i \in 1..n PROVE list[i] = l[m + i - 1] /\ m + i - 1 \in 1..Len(l) /\ l[m + i - 1] \in Buffers
    <3>1. m + i - 1 \in 1..Len(l)
      BY ONLY <1>4, i \in 1..n
    <3>2. list[i] = l[m + i - 1]
      BY ONLY <1>2, <1>4, <2>1, <2>2, i \in 1..n
    <3> QED  BY <1>2, <3>1, <3>2
  <2> QED  BY <2>2, <2>3
<1>6. Distinct(list)
  <2> SUFFICES ASSUME NEW i \in 1..n, NEW j \in 1..n, list[i] = list[j] PROVE i = j
    BY <1>5 DEF Distinct
  <2> DEFINE g == m + i - 1
             h == m + j - 1
  <2>1. list[i] = l[g] /\ list[j] = l[h] /\ g \in 1..Len(l) /\ h \in 1..Len(l)
    BY <1>5
  <2>2. g = h
    <3> HIDE DEF g, h
    <3>1. l[g] = l[h]
      BY <2>1
    <3> QED  BY ONLY <1>2, <2>1, <3>1
  <2> QED  BY ONLY <1>4, <2>2, i \in 1..n, j \in 1..n
<1>7. ASSUME NEW i \in 1..n PROVE list[i] \notin out /\ w[list[i]] = p
  <2> DEFINE h == m + i - 1
  <2>1. list[i] = l[h] /\ h \in 1..Len(l) /\ l[h] \in Buffers
    BY <1>5
  <2> HIDE DEF h
  <2> QED  BY <1>2, <2>1
<1> QED  BY <1>5, <1>6, <1>7 DEF n, list

\* Different buffers, none in out, that are on list p by w
Owned(list, w, out, p) ==
  Distinct(list) /\ \A i \in 1..Len(list) : list[i] \notin out /\ w[list[i]] = p

LEMMA SegmentOwned ==
  ASSUME NEW w, NEW out, Sound(pool, w, out), NEW p \in Parts, NEW r \in Places(p)
  PROVE  Owned(Segment(p, r[1], r[2]), w, out, p)
<1> DEFINE list == Segment(p, r[1], r[2])
<1>1. Distinct(list) /\ \A i \in 1..Len(list) : list[i] \notin out /\ w[list[i]] = p
  BY SegmentIs
<1> HIDE DEF list
<1>2. Owned(list, w, out, p)
  BY <1>1 DEF Owned
<1> QED  BY <1>2 DEF list

\* The first buffer of a partition is one of the partition's.
LEMMA FirstIs ==
  ASSUME NEW w, NEW out, Sound(pool, w, out), NEW p \in Parts, pool.First[p] # None
  PROVE  /\ pool.First[p] \in Buffers \ out /\ w[pool.First[p]] = p
         /\ Distinct(<<pool.First[p]>>)
<1>1. PICK L : Has(pool, L) /\ Lies(L, w, out)
  BY DEF Sound
<1>2. p \in Ends /\ FirstOf(pool, p) = pool.First[p]
  BY BlockConstants DEF FirstOf, Ends
<1>3. L[p] \in Seq(Buffers) /\ Len(L[p]) # 0 /\ L[p][1] = pool.First[p]
  BY <1>1, <1>2 DEF Has, Whole
<1>4. 1 \in 1..Len(L[p]) /\ L[p][1] \in Buffers
  BY <1>3
<1>5. pool.First[p] \in Buffers \ out /\ w[pool.First[p]] = p
  BY <1>1, <1>2, <1>3, <1>4 DEF Lies
<1> QED  BY <1>5 DEF Distinct

\* The sectors removed are free; a transfer that still reads one is disturbed.
LEMMA Removal ==
  ASSUME Typed', Distinct(InHand), DT' = DT, NEW w, Kept(w), NEW S, TakenAway(S),
         Sound(pool', Freed(w, S), Range(InHand))
  PROVE  IInv'
<1>1. InHand' = InHand /\ Unread' = Unread
  BY DEF InHand, Unread
<1>2. Kept(Freed(w, S))'
  <2> SUFFICES ASSUME ~disturbed', NEW b \in Unread \cap Buffers PROVE Freed(w, S)[b] \in Parts
    BY <1>1 DEF Kept
  <2>1. ~disturbed /\ b \notin S
    BY DEF TakenAway
  <2>2. w[b] \in Parts
    BY <2>1 DEF Kept
  <2> QED  BY <2>1, <2>2 DEF Freed
<1>3. Sound(pool', Freed(w, S), Range(InHand'))
  BY <1>1
<1>4. \E v : Sound(pool', v, Range(InHand')) /\ Kept(v)'
  BY <1>2, <1>3
<1>5. Distinct(InHand')
  BY <1>1
<1> QED  BY <1>4, <1>5 DEF IInv

LEMMA Emptying ==
  ASSUME Typed', Distinct(InHand), DT' = DT, NEW w, Kept(w), Sound(pool, w, Range(InHand)),
         NEW p \in Parts, Emptied(p)
  PROVE  IInv'
<1> DEFINE S == Range(Chain(pool, pool.First[p]))
<1>1. Sound(pool', Freed(w, S), Range(InHand)) /\ TakenAway(S)
  BY ClearSound DEF Emptied
<1> HIDE DEF S
<1> QED  BY <1>1, Removal

\* The buffers the host has still to read, and those in hand, stay where they are.
LEMMA Staying ==
  ASSUME Typed', Distinct(InHand), InHand' = InHand, Unread' \subseteq Unread, disturbed' = disturbed,
         NEW w, Kept(w), NEW v, Sound(pool', v, Range(InHand)), \A b \in Unread \cap Buffers : w[b] \in Parts => v[b] \in Parts
  PROVE  IInv'
<1>1. Kept(v)'
  BY DEF Kept
<1>2. \E u : Sound(pool', u, Range(InHand')) /\ Kept(u)'
  BY <1>1
<1> QED  BY <1>2 DEF IInv

\* Nothing is in hand, and no buffer to be read.
LEMMA Settling ==
  ASSUME Typed', InHand' = <<>>, Unread' \cap Buffers = {}, NEW v, Sound(pool', v, {})
  PROVE  IInv'
<1>1. Kept(v)'
  BY DEF Kept
<1>2. Range(InHand') = {} /\ Distinct(InHand')
  BY DEF Range, Distinct
<1>3. \E u : Sound(pool', u, Range(InHand')) /\ Kept(u)'
  BY <1>1, <1>2
<1> QED  BY <1>2, <1>3 DEF IInv

LEMMA Idle ==
  ASSUME ~DT.Active
  PROVE  InHand = <<>> /\ Unread = {} /\ Range(InHand) = {}
BY DEF InHand, Unread, Range

-----------------------------------------------------------------------------
(* The actions. *)

LEMMA SectorReadKeeps ==
  ASSUME IInv, Typed', SectorRead
  PROVE  IInv'
<1> DEFINE out == Range(InHand)
           b == Allocated(pool)
           z == Buffer_Allocate(pool)
<1>1. PICK w : Sound(pool, w, out) /\ Kept(w)
  BY DEF IInv
<1>2. b \in Buffers \ out /\ w[b] = None /\ Sound(z, w, out \cup {b})
  BY <1>1, SoundAllocate DEF SectorRead
<1>3. PICK s \in Kinds : pool' = FilterBuf(z, CDDevConn, b, s)
  BY DEF SectorRead
<1>4. TrueConn \in [Parts -> Ends] /\ FalseConn \in [Parts -> Ends] /\ CDDevConn \in Ends
  BY DEF IInv, Typed, FiltersOK
<1>5. InHand' = InHand /\ Unread' = Unread /\ disturbed' = disturbed
  BY DEF SectorRead, InHand, Unread
<1> HIDE DEF b, z, out
<1>6. PICK d \in Ends : Sound(pool', [w EXCEPT ![b] = d], (out \cup {b}) \ {b})
  BY <1>2, <1>3, <1>4, SoundFilter
<1>7. (out \cup {b}) \ {b} = out
  BY <1>2
<1> DEFINE v == [w EXCEPT ![b] = d]
<1>8. \A c \in Unread \cap Buffers : w[c] \in Parts => v[c] \in Parts
  BY <1>1, <1>2, BlockConstants DEF Sound
<1>9. Sound(pool', v, out)
  BY <1>6, <1>7
<1> HIDE DEF v
<1> QED  BY <1>1, <1>5, <1>8, <1>9, Staying DEF IInv, out

\* The first buffer of a partition is deleted.
LEMMA FirstGoes ==
  ASSUME IInv, NEW w, Sound(pool, w, Range(InHand)), NEW p \in Parts, NEW b, b = pool.First[p], b # None
  PROVE  b \in Buffers /\ Sound(Delete(pool, p, <<b>>), Freed(w, {b}), Range(InHand))
<1>1. b \in Buffers \ Range(InHand) /\ w[b] = p /\ Distinct(<<b>>)
  BY FirstIs
<1>2. Len(<<b>>) = 1 /\ Among(<<b>>, 1) = {b} /\ <<b>>[1] = b
  BY DEF Among
<1>3. \A i \in 1..Len(<<b>>) : <<b>>[i] \notin Range(InHand) /\ w[<<b>>[i]] = p
  BY <1>1, <1>2
<1>4. Sound(Delete(pool, p, <<b>>), Freed(w, Among(<<b>>, Len(<<b>>))), Range(InHand))
  BY <1>1, <1>3, DeleteSound
<1> QED  BY <1>1, <1>2, <1>4

LEMMA MPEG_PullKeeps ==
  ASSUME IInv, Typed', MPEG_Pull
  PROVE  IInv'
<1>1. PICK w : Sound(pool, w, Range(InHand)) /\ Kept(w)
  BY DEF IInv
<1>2. PICK p \in CardParts : LET b == pool.First[p] IN
         b # None /\ ~DT_ReadsBuffer(b) /\ pool' = Delete(pool, p, <<b>>)
  BY DEF MPEG_Pull
<1> DEFINE b == pool.First[p]
           v == Freed(w, {b})
<1>3. p \in Parts
  BY BlockConstants
<1>4. b \in Buffers /\ Sound(pool', v, Range(InHand))
  BY <1>1, <1>2, <1>3, FirstGoes
<1>5. InHand' = InHand /\ Unread' = Unread /\ disturbed' = disturbed
  BY DEF MPEG_Pull, InHand, Unread
<1>6. b \notin Unread
  BY <1>2 DEF Unread, DT_ReadsBuffer
<1>7. \A c \in Unread \cap Buffers : w[c] \in Parts => v[c] \in Parts
  BY <1>6 DEF Freed
<1> HIDE DEF v
<1> QED  BY <1>1, <1>4, <1>5, <1>7, Staying DEF IInv

LEMMA FlsStartKeeps ==
  ASSUME IInv, Typed', FlsStart
  PROVE  IInv'
<1>1. PICK w : Sound(pool, w, Range(InHand)) /\ Kept(w)
  BY DEF IInv
<1>2. FLS.pnum \in Parts
  BY DEF IInv, Typed, FilesOK, FlsStart
<1>3. CASE UNCHANGED <<pool, disturbed>>
  <2>1. InHand' = InHand /\ Unread' = Unread
    BY DEF FlsStart, InHand, Unread
  <2> QED  BY <1>1, <1>3, <2>1, Staying DEF IInv
<1>4. CASE Emptied(FLS.pnum)
  BY <1>1, <1>2, <1>4, Emptying DEF IInv, FlsStart
<1> QED  BY <1>3, <1>4 DEF FlsStart

LEMMA FlsGrabKeeps ==
  ASSUME IInv, Typed', FlsGrab
  PROVE  IInv'
<1>1. PICK w : Sound(pool, w, Range(InHand)) /\ Kept(w)
  BY DEF IInv
<1>2. FLS.pnum \in Parts /\ pool.First[FLS.pnum] # None /\ DT' = DT /\ Distinct(InHand)
  BY DEF IInv, Typed, FilesOK, FlsGrab
<1>3. CASE /\ pool' = Delete(pool, FLS.pnum, <<pool.First[FLS.pnum]>>)
           /\ TakenAway({pool.First[FLS.pnum]})
  <2>1. Sound(pool', Freed(w, {pool.First[FLS.pnum]}), Range(InHand))
    BY <1>1, <1>2, <1>3, FirstGoes
  <2> QED  BY <1>1, <1>2, <1>3, <2>1, Removal
<1>4. CASE Emptied(FLS.pnum)
  BY <1>1, <1>2, <1>4, Emptying
<1> QED  BY <1>3, <1>4 DEF FlsGrab

\* What leaves the lists and the transfer alone
LEMMA Elsewhere ==
  ASSUME IInv, Typed', UNCHANGED <<pool, DT, disturbed>>
  PROVE  IInv'
<1>1. PICK w : Sound(pool, w, Range(InHand)) /\ Kept(w)
  BY DEF IInv
<1>2. InHand' = InHand /\ Unread' = Unread
  BY DEF InHand, Unread
<1> QED  BY <1>1, <1>2, Staying DEF IInv

LEMMA HostKeeps ==
  ASSUME IInv, Typed', HostReads \/ HostWrites
  PROVE  IInv'
<1>1. PICK w : Sound(pool, w, Range(InHand)) /\ Kept(w)
  BY DEF IInv
<1>2. pool' = pool /\ disturbed' = disturbed /\ DT' = [DT EXCEPT !.CurBufIndex = @ + 1]
  BY DEF HostReads, HostWrites, buffers
<1>3. DT \in [Active : BOOLEAN, Writing : BOOLEAN, NeedBufFree : BOOLEAN, FNum : Ends,
              BufList : Seq(Index), CurBufIndex : Nat \ {0}]
  BY DEF IInv, Typed, TransferOK
<1>4. /\ DT'.Active = DT.Active /\ DT'.Writing = DT.Writing /\ DT'.NeedBufFree = DT.NeedBufFree
      /\ DT'.BufList = DT.BufList /\ DT'.CurBufIndex = DT.CurBufIndex + 1 /\ DT.CurBufIndex \in Nat
      /\ Len(DT.BufList) \in Nat
  BY <1>2, <1>3
<1>5. InHand' = InHand
  BY <1>4 DEF InHand
<1>6. Unread' \subseteq Unread
  BY <1>4 DEF Unread
<1> QED  BY <1>1, <1>2, <1>5, <1>6, Staying DEF IInv

LEMMA IdleSound ==
  ASSUME IInv, ~DT.Active
  PROVE  \E w : Sound(pool, w, {})
<1>1. PICK w : Sound(pool, w, Range(InHand))
  BY DEF IInv
<1>2. Range(InHand) = {}
  BY Idle
<1> QED  BY <1>1, <1>2

LEMMA GET_SECDATAKeeps ==
  ASSUME IInv, Typed', GET_SECDATA
  PROVE  IInv'
<1>1. ~DT.Active /\ pool' = pool
  BY DEF GET_SECDATA, buffers
<1>2. PICK w : Sound(pool, w, {})
  BY <1>1, IdleSound
<1>0. PICK p \in Parts : \E r \in Places(p) : DT' = Transfer(FALSE, FALSE, None, Segment(p, r[1], r[2]))
  BY DEF GET_SECDATA
<1>3. PICK r \in Places(p) : DT' = Transfer(FALSE, FALSE, None, Segment(p, r[1], r[2]))
  BY <1>0
<1> DEFINE list == Segment(p, r[1], r[2])
<1>4. Distinct(list) /\ \A i \in 1..Len(list) : w[list[i]] = p
  <2>1. Owned(list, w, {}, p)
    BY <1>2, SegmentOwned, Zenon
  <2> HIDE DEF list
  <2> QED  BY <2>1 DEF Owned
<1> HIDE DEF list
<1>5. /\ DT'.Active /\ ~DT'.Writing /\ ~DT'.NeedBufFree /\ DT'.BufList = list /\ DT'.CurBufIndex = 1
  BY <1>3 DEF Transfer, list
<1>6. InHand' = <<>> /\ Unread' = {list[i] : i \in 1..Len(list)}
  BY <1>5 DEF InHand, Unread
<1>7. Kept(w)'
  BY <1>4, <1>6 DEF Kept
<1>8. Range(InHand') = {} /\ Distinct(InHand')
  BY <1>6 DEF Range, Distinct
<1>9. Sound(pool', w, Range(InHand')) /\ Kept(w)'
  BY <1>1, <1>2, <1>7, <1>8
<1>10. \E u : Sound(pool', u, Range(InHand')) /\ Kept(u)'
  BY <1>9
<1> QED  BY <1>8, <1>10 DEF IInv

LEMMA GETDEL_SECDATAKeeps ==
  ASSUME IInv, Typed', GETDEL_SECDATA
  PROVE  IInv'
<1>1. ~DT.Active
  BY DEF GETDEL_SECDATA
<1>2. PICK w : Sound(pool, w, {})
  BY <1>1, IdleSound
<1>0. PICK p \in Parts : \E r \in Places(p) :
        /\ DT' = Transfer(FALSE, TRUE, None, Segment(p, r[1], r[2]))
        /\ pool' = UnlinkAll(pool, p, Segment(p, r[1], r[2]))
  BY DEF GETDEL_SECDATA
<1>3. PICK r \in Places(p) :
        /\ DT' = Transfer(FALSE, TRUE, None, Segment(p, r[1], r[2]))
        /\ pool' = UnlinkAll(pool, p, Segment(p, r[1], r[2]))
  BY <1>0
<1> DEFINE list == Segment(p, r[1], r[2])
<1>4. Distinct(list) /\ \A i \in 1..Len(list) : list[i] \notin {} /\ w[list[i]] = p
  <2>1. Owned(list, w, {}, p)
    BY <1>2, SegmentOwned, Zenon
  <2> HIDE DEF list
  <2> QED  BY <2>1 DEF Owned
<1> HIDE DEF list
<1>5. DT'.Active /\ ~DT'.Writing /\ DT'.NeedBufFree /\ DT'.BufList = list /\ pool' = UnlinkAll(pool, p, list)
  BY <1>3 DEF Transfer, list
<1>6. InHand' = list /\ Unread' = {}
  BY <1>5 DEF InHand, Unread
<1>7. Sound(pool', w, {} \cup Among(list, Len(list)))
  BY <1>2, <1>4, <1>5, UnlinkAllSound
<1>8. {} \cup Among(list, Len(list)) = Range(list)
  <2>1. DOMAIN list = 1..Len(list)
    BY <1>4 DEF Distinct
  <2> QED  BY <2>1 DEF Range, Among
<1>9. Sound(pool', w, Range(InHand')) /\ Kept(w)' /\ Distinct(InHand')
  BY <1>4, <1>6, <1>7, <1>8 DEF Kept
<1>10. \E u : Sound(pool', u, Range(InHand')) /\ Kept(u)'
  BY <1>9
<1> QED  BY <1>9, <1>10 DEF IInv

LEMMA DEL_SECDATAKeeps ==
  ASSUME IInv, Typed', DEL_SECDATA
  PROVE  IInv'
<1>1. PICK w : Sound(pool, w, Range(InHand)) /\ Kept(w)
  BY DEF IInv
<1>0. PICK p \in Parts : \E r \in Places(p) :
        /\ pool' = Delete(pool, p, Segment(p, r[1], r[2]))
        /\ TakenAway(Range(Segment(p, r[1], r[2])))
  BY DEF DEL_SECDATA
<1>2. PICK r \in Places(p) :
        /\ pool' = Delete(pool, p, Segment(p, r[1], r[2]))
        /\ TakenAway(Range(Segment(p, r[1], r[2])))
  BY <1>0
<1> DEFINE list == Segment(p, r[1], r[2])
<1>3. Distinct(list) /\ \A i \in 1..Len(list) : list[i] \notin Range(InHand) /\ w[list[i]] = p
  <2>1. Owned(list, w, Range(InHand), p)
    BY <1>1, SegmentOwned, Zenon
  <2> HIDE DEF list
  <2> QED  BY <2>1 DEF Owned
<1>4. pool' = Delete(pool, p, list) /\ TakenAway(Range(list)) /\ DT' = DT
  BY <1>2 DEF DEL_SECDATA
<1> HIDE DEF list
<1>5. Range(list) = Among(list, Len(list))
  <2>1. DOMAIN list = 1..Len(list)
    BY <1>3 DEF Distinct
  <2> QED  BY <2>1 DEF Range, Among
<1>6. Sound(pool', Freed(w, Range(list)), Range(InHand))
  BY <1>1, <1>3, <1>4, <1>5, DeleteSound
<1> QED  BY <1>1, <1>4, <1>6, Removal DEF IInv

LEMMA GET_TOCKeeps ==
  ASSUME IInv, Typed', GET_TOC
  PROVE  IInv'
<1>1. ~DT.Active /\ pool' = pool /\ DT' = Transfer(FALSE, FALSE, None, <<None>>)
  BY DEF GET_TOC, buffers
<1>2. PICK w : Sound(pool, w, {})
  BY <1>1, IdleSound
<1>3. /\ ~DT'.Writing /\ ~DT'.NeedBufFree /\ DT'.BufList = <<None>> /\ DT'.CurBufIndex = 1
  BY <1>1 DEF Transfer
<1>4. InHand' = <<>> /\ Unread' \cap Buffers = {}
  <2>1. Unread' \subseteq {None}
    BY <1>3 DEF Unread
  <2> QED  BY <1>3, <2>1, BlockConstants DEF InHand
<1> QED  BY <1>1, <1>2, <1>4, Settling

LEMMA PUT_SECDATAKeeps ==
  ASSUME IInv, Typed', PUT_SECDATA
  PROVE  IInv'
<1>1. ~DT.Active
  BY DEF PUT_SECDATA
<1>2. PICK w : Sound(pool, w, {})
  BY <1>1, IdleSound
<1>3. PICK f \in Parts, n \in 1..pool.FreeCount :
        LET chosen == SubSeq(Chain(pool, pool.FirstFree), 1, n) IN
        /\ DT' = Transfer(TRUE, FALSE, f, chosen)
        /\ pool' = InTurn(pool, [i \in 1..n |-> [q \in Pools |-> Buffer_Allocate(q)]])
  BY DEF PUT_SECDATA
<1> DEFINE list == SubSeq(Chain(pool, pool.FirstFree), 1, n)
           steps == [i \in 1..n |-> [q \in Pools |-> Buffer_Allocate(q)]]
<1>4. DT' = Transfer(TRUE, FALSE, f, list) /\ pool' = InTurn(pool, steps)
  BY <1>3
<1>5. n \in Nat /\ n <= pool.FreeCount
  BY <1>2 DEF Sound, Pools
<1>6. Distinct(list) /\ Sound(InTurn(pool, steps), w, {} \cup Range(list))
  <2>1. /\ Len(steps) = n
        /\ \A i \in 1..Len(steps) : \A x \in Pools : steps[i][x] = Buffer_Allocate(x)
    BY <1>5
  <2> HIDE DEF steps
  <2>2. LET first == SubSeq(Chain(pool, pool.FirstFree), 1, Len(steps)) IN
        Distinct(first) /\ Sound(InTurn(pool, steps), w, {} \cup Range(first))
    BY <1>2, <1>5, <2>1, ReserveSound
  <2> QED  BY <2>1, <2>2
<1> HIDE DEF list, steps
<1>7. InHand' = list /\ Unread' = {}
  BY <1>4 DEF InHand, Unread, Transfer
<1>8. {} \cup Range(list) = Range(list)
  OBVIOUS
<1>9. Sound(pool', w, Range(InHand')) /\ Kept(w)' /\ Distinct(InHand')
  BY <1>4, <1>6, <1>7, <1>8 DEF Kept
<1>10. \E u : Sound(pool', u, Range(InHand')) /\ Kept(u)'
  BY <1>9
<1> QED  BY <1>9, <1>10 DEF IInv

LEMMA END_DATAXFERKeeps ==
  ASSUME IInv, Typed', END_DATAXFER
  PROVE  IInv'
<1>1. PICK w : Sound(pool, w, Range(InHand)) /\ Kept(w)
  BY DEF IInv
<1>2. DT.Active /\ DT' = NoTransfer
  BY DEF END_DATAXFER
<1>3. InHand' = <<>> /\ Unread' \cap Buffers = {}
  BY <1>2 DEF InHand, Unread, NoTransfer
<1> DEFINE list == DT.BufList
<1>4. Distinct(InHand)
  BY DEF IInv
<1>5. ASSUME InHand = list PROVE Distinct(list) /\ Range(InHand) = Among(list, Len(list))
  <2>1. DOMAIN list = 1..Len(list) /\ Distinct(list)
    BY <1>4, <1>5 DEF Distinct
  <2> QED  BY <1>5, <2>1 DEF Range, Among
<1>6. CASE EndWriting
  <2> DEFINE steps == [n \in DOMAIN list |-> [q \in Pools |->
                         FilterBuf(q, DT.FNum, list[n], Data[list[n]])]]
  <2>1. pool' = InTurn(pool, steps) /\ InHand = list
    BY <1>2, <1>6 DEF EndWriting, InHand
  <2>2. TrueConn \in [Parts -> Ends] /\ FalseConn \in [Parts -> Ends] /\ DT.FNum \in Ends
    BY DEF IInv, Typed, FiltersOK, TransferOK
  <2>3. \E v : Sound(InTurn(pool, steps), v, {})
    <3>2. Distinct(list) /\ Range(InHand) = Among(list, Len(list)) /\ DOMAIN list = 1..Len(list)
          /\ Len(list) \in Nat
      BY <1>5, <2>1 DEF Distinct
    <3>1. /\ Len(steps) = Len(list)
          /\ \A i \in 1..Len(list) : \A x \in Pools : steps[i][x] = FilterBuf(x, DT.FNum, list[i], Data[list[i]])
      BY <3>2
    <3> DEFINE o == Range(InHand)
    <3>3. Sound(pool, w, o) /\ o = Among(list, Len(list))
      BY <1>1, <3>2
    <3> HIDE DEF list, steps, o
    <3> QED  BY <2>2, <3>1, <3>2, <3>3, FilterAllSound, SMTT(40)
  <2> HIDE DEF steps
  <2>4. \E v : Sound(pool', v, {})
    BY <2>1, <2>3
  <2> QED  BY <1>3, <2>4, Settling
<1>7. CASE EndReading /\ DT.NeedBufFree
  <2> DEFINE steps == [n \in DOMAIN list |-> [q \in Pools |-> Buffer_Free(q, list[n])]]
  <2>1. pool' = InTurn(pool, steps) /\ InHand = list
    BY <1>2, <1>7 DEF EndReading, InHand
  <2>2. \E v : Sound(InTurn(pool, steps), v, {})
    <3>2. Distinct(list) /\ Range(InHand) = Among(list, Len(list)) /\ DOMAIN list = 1..Len(list)
          /\ Len(list) \in Nat
      BY <1>5, <2>1 DEF Distinct
    <3>1. /\ Len(steps) = Len(list)
          /\ \A i \in 1..Len(list) : \A x \in Pools : steps[i][x] = Buffer_Free(x, list[i])
      BY <3>2
    <3> HIDE DEF list, steps
    <3> QED  BY <1>1, <3>1, <3>2, FreeAllSound
  <2> HIDE DEF steps
  <2>3. \E v : Sound(pool', v, {})
    BY <2>1, <2>2
  <2> QED  BY <1>3, <2>3, Settling
<1>8. CASE EndReading /\ ~DT.NeedBufFree
  <2>1. pool' = pool /\ Range(InHand) = {}
    BY <1>8 DEF EndReading, InHand, Range
  <2>2. Sound(pool', w, {})
    BY <1>1, <2>1
  <2> QED  BY <1>3, <2>2, Settling
<1> QED  BY <1>6, <1>7, <1>8 DEF END_DATAXFER

LEMMA MOVE_SECDATAKeeps ==
  ASSUME IInv, Typed', MOVE_SECDATA
  PROVE  IInv'
<1>1. ~DT.Active /\ DT' = DT
  BY DEF MOVE_SECDATA
<1>2. PICK w : Sound(pool, w, {})
  BY <1>1, IdleSound
<1>0. PICK p \in Parts, f \in Parts : \E r \in Places(p) :
        LET list == Segment(p, r[1], r[2]) IN
        pool' = InTurn(pool, [n \in DOMAIN list |-> [q \in Pools |->
                    FilterBuf(Partition_UnlinkBuffer(q, p, list[n]), f, list[n], Data[list[n]])]])
  BY DEF MOVE_SECDATA
<1>3. PICK r \in Places(p) :
        LET list == Segment(p, r[1], r[2]) IN
        pool' = InTurn(pool, [n \in DOMAIN list |-> [q \in Pools |->
                    FilterBuf(Partition_UnlinkBuffer(q, p, list[n]), f, list[n], Data[list[n]])]])
  BY <1>0
<1> DEFINE list == Segment(p, r[1], r[2])
           steps == [n \in DOMAIN list |-> [q \in Pools |->
                       FilterBuf(Partition_UnlinkBuffer(q, p, list[n]), f, list[n], Data[list[n]])]]
<1>4. Distinct(list) /\ \A i \in 1..Len(list) : list[i] \notin {} /\ w[list[i]] = p
  <2>1. Owned(list, w, {}, p)
    BY <1>2, SegmentOwned, Zenon
  <2> HIDE DEF list
  <2> QED  BY <2>1 DEF Owned
<1>5. pool' = InTurn(pool, steps)
  BY <1>3
<1> HIDE DEF list
<1>6. TrueConn \in [Parts -> Ends] /\ FalseConn \in [Parts -> Ends] /\ f \in Ends
  BY DEF IInv, Typed, FiltersOK, Ends
<1>7. \E v : Sound(InTurn(pool, steps), v, {})
  BY <1>2, <1>4, <1>6, MoveSound
<1> HIDE DEF steps
<1>8. PICK v : Sound(pool', v, {})
  BY <1>5, <1>7
<1>9. InHand' = <<>> /\ Unread' \cap Buffers = {}
  BY <1>1 DEF InHand, Unread
<1> QED  BY <1>8, <1>9, Settling

LEMMA COPY_SECDATAKeeps ==
  ASSUME IInv, Typed', COPY_SECDATA
  PROVE  IInv'
<1>1. ~DT.Active /\ DT' = DT
  BY DEF COPY_SECDATA
<1>2. PICK w : Sound(pool, w, {})
  BY <1>1, IdleSound
<1>0. PICK p \in Parts, f \in Parts : \E r \in Places(p) :
        LET list == Segment(p, r[1], r[2])
            copied == InTurn([pool |-> pool, data |-> Data],
                             [n \in DOMAIN list |-> [s \in States |-> CopySector(s, f, list[n])]])
        IN  r[2] <= pool.FreeCount /\ pool' = copied.pool
  BY DEF COPY_SECDATA
<1>3. PICK r \in Places(p) :
        LET list == Segment(p, r[1], r[2])
            copied == InTurn([pool |-> pool, data |-> Data],
                             [n \in DOMAIN list |-> [s \in States |-> CopySector(s, f, list[n])]])
        IN  r[2] <= pool.FreeCount /\ pool' = copied.pool
  BY <1>0
<1> DEFINE list == Segment(p, r[1], r[2])
           steps == [n \in DOMAIN list |-> [s \in States |-> CopySector(s, f, list[n])]]
           copied == InTurn([pool |-> pool, data |-> Data], steps)
<1>4. Distinct(list) /\ Len(list) = r[2]
  BY <1>2, SegmentIs
<1>5. pool' = copied.pool /\ r[2] <= pool.FreeCount
  BY <1>3
<1> HIDE DEF list
<1>6. TrueConn \in [Parts -> Ends] /\ FalseConn \in [Parts -> Ends] /\ f \in Ends /\ Data \in [Buffers -> Sectors]
  BY DEF IInv, Typed, FiltersOK, Ends
<1>7. list \in Seq(Buffers) /\ Len(list) <= pool.FreeCount
  BY <1>4, <1>5 DEF Distinct
<1>8. \E v : Sound(copied.pool, v, {})
  BY <1>2, <1>6, <1>7, CopySound
<1> HIDE DEF copied, steps
<1>9. PICK v : Sound(pool', v, {})
  BY <1>5, <1>8
<1>10. InHand' = <<>> /\ Unread' \cap Buffers = {}
  BY <1>1 DEF InHand, Unread
<1> QED  BY <1>9, <1>10, Settling

LEMMA GET_MPEGROMKeeps ==
  ASSUME IInv, Typed', GET_MPEGROM
  PROVE  IInv'
<1>1. PICK w : Sound(pool, w, Range(InHand)) /\ Kept(w)
  BY DEF IInv
<1>2. PICK f \in Parts, n \in 1..pool.FreeCount :
        /\ TrueConn[f] # None
        /\ pool' = InTurn(pool, [i \in 1..n |-> [q \in Pools |->
                     Partition_LinkBuffer(Buffer_Allocate(q), TrueConn[f], Allocated(q))]])
  BY DEF GET_MPEGROM
<1> DEFINE p == TrueConn[f]
           steps == [i \in 1..n |-> [q \in Pools |->
                       Partition_LinkBuffer(Buffer_Allocate(q), p, Allocated(q))]]
<1>3. p \in Parts
  BY <1>2 DEF IInv, Typed, FiltersOK, Ends
<1>4. n \in Nat /\ n <= pool.FreeCount
  BY <1>1 DEF Sound, Pools
<1>5. pool' = InTurn(pool, steps)
  BY <1>2
<1> HIDE DEF p
<1>6. \E v : Sound(InTurn(pool, steps), v, Range(InHand)) /\ \A b \in Buffers : w[b] \in Parts => v[b] = w[b]
  <2>1. /\ Len(steps) = n
        /\ \A i \in 1..n : \A x \in Pools :
             steps[i][x] = Partition_LinkBuffer(Buffer_Allocate(x), p, Allocated(x))
    BY <1>4
  <2> DEFINE o == Range(InHand)
  <2>2. Sound(pool, w, o)
    BY <1>1
  <2> HIDE DEF steps, o
  <2>3. \E v : Sound(InTurn(pool, steps), v, o) /\ \A b \in Buffers : w[b] \in Parts => v[b] = w[b]
    BY <1>3, <1>4, <2>1, <2>2, LoadSound
  <2> QED  BY <2>3 DEF o
<1> HIDE DEF steps
<1>7. PICK v : Sound(pool', v, Range(InHand)) /\ \A b \in Buffers : w[b] \in Parts => v[b] = w[b]
  BY <1>5, <1>6
<1>8. InHand' = InHand /\ Unread' = Unread /\ disturbed' = disturbed
  BY DEF GET_MPEGROM, InHand, Unread
<1> QED  BY <1>1, <1>7, <1>8, Staying DEF IInv

LEMMA EmptyingKeeps ==
  ASSUME IInv, Typed', READ_FILE \/ RESET_SEL
  PROVE  IInv'
<1>1. PICK w : Sound(pool, w, Range(InHand)) /\ Kept(w)
  BY DEF IInv
<1>2. PICK p \in Parts : Emptied(p)
  BY DEF READ_FILE, RESET_SEL
<1>3. DT' = DT /\ Distinct(InHand)
  BY DEF IInv, READ_FILE, RESET_SEL
<1> QED  BY <1>1, <1>2, <1>3, Emptying

LEMMA ResetSelectorKeeps ==
  ASSUME IInv, Typed', ResetSelector
  PROVE  IInv'
<1>1. PICK w : Sound(pool, w, Range(InHand)) /\ Kept(w)
  BY DEF IInv
<1>2. DT' = DT /\ InHand' = InHand /\ Unread' = Unread
  BY DEF ResetSelector, InHand, Unread
<1>3. CASE "partitions" \notin ResetSelPending
  BY <1>2, <1>3, Elsewhere DEF ResetSelector
<1>4. CASE "partitions" \in ResetSelPending
  <2>1. PICK order \in SetToSeqs(Parts) :
          pool' = InTurn(pool, [n \in DOMAIN order |-> [q \in Pools |-> Partition_Clear(q, order[n])]])
    BY <1>4 DEF ResetSelector
  <2> DEFINE steps == [n \in DOMAIN order |-> [q \in Pools |-> Partition_Clear(q, order[n])]]
             S == UNION {Range(Chain(pool, pool.First[p])) : p \in Parts}
  <2>2. \E v : Sound(InTurn(pool, steps), v, Range(InHand))
    BY <1>1, ClearAllSound
  <2>3. pool' = InTurn(pool, steps)
    BY <2>1
  <2> HIDE DEF steps
  <2>4. PICK v : Sound(pool', v, Range(InHand))
    BY <2>2, <2>3
  <2>5. TakenAway(S)
    BY <1>4 DEF ResetSelector
  <2>6. Kept(v)'
    <3> SUFFICES ASSUME ~disturbed', NEW b \in Unread \cap Buffers PROVE FALSE
      BY <1>2 DEF Kept
    <3>1. ~disturbed /\ b \notin S
      BY <2>5 DEF TakenAway
    <3>2. w[b] \in Parts /\ b \notin Range(InHand)
      <4>1. Range(InHand) = {}
        BY DEF Unread, InHand, Range
      <4> QED  BY <1>1, <3>1, <4>1 DEF Kept
    <3> DEFINE p == w[b]
    <3>3. b \in Range(Chain(pool, pool.First[p]))
      BY <1>1, <3>2, OnList
    <3> QED  BY <3>1, <3>2, <3>3
  <2>7. \E u : Sound(pool', u, Range(InHand')) /\ Kept(u)'
    BY <1>2, <2>4, <2>6
  <2> QED  BY <1>2, <2>7 DEF IInv
<1> QED  BY <1>3, <1>4

LEMMA SWResetKeeps ==
  ASSUME IInv, Typed', SWReset
  PROVE  IInv'
<1>1. Sound(pool', [b \in Buffers |-> None], {})
  BY EmptySound DEF SWReset
<1>2. InHand' = <<>> /\ Unread' \cap Buffers = {}
  BY DEF SWReset, NoTransfer, InHand, Unread
<1> QED  BY <1>1, <1>2, Settling

-----------------------------------------------------------------------------
(* The types. *)

\* What a transfer of buffers is
LEMMA TransferTyped ==
  ASSUME NEW writing \in BOOLEAN, NEW release \in BOOLEAN, NEW f \in Ends, writing => f \in Parts,
         NEW list \in Seq(Index), DT' = Transfer(writing, release, f, list)
  PROVE  TransferOK'
<1>1. Len(list) \in Nat
  OBVIOUS
<1> QED  BY <1>1 DEF TransferOK, Transfer

LEMMA NoTransferTyped ==
  ASSUME DT' = NoTransfer
  PROVE  TransferOK'
<1>1. <<>> \in Seq(Index) /\ Len(<<>>) = 0 /\ None \in Ends
  BY DEF Ends
<1> QED  BY <1>1 DEF TransferOK, NoTransfer

\* The buffers a command names are indices.
LEMMA SegmentTyped ==
  ASSUME NEW w, NEW out, Sound(pool, w, out), NEW p \in Parts, NEW r \in Places(p)
  PROVE  Segment(p, r[1], r[2]) \in Seq(Index)
<1>1. Segment(p, r[1], r[2]) \in Seq(Buffers)
  BY SegmentIs DEF Distinct
<1> QED  BY <1>1 DEF Index

LEMMA ConnectTyped ==
  ASSUME FiltersOK, NEW f \in Parts, ConnectDevice(f)
  PROVE  FiltersOK'
BY BlockConstants DEF FiltersOK, ConnectDevice, Unplugged, Ends

LEMMA DisconnectTyped ==
  ASSUME FiltersOK, NEW f \in Ends, Filter_DisconnectInput(f), UNCHANGED <<TrueConn, Pass>>
  PROVE  FiltersOK'
BY DEF FiltersOK, Filter_DisconnectInput, Unplugged, Ends

LEMMA FlagsTyped ==
  ASSUME SWReset
  PROVE  FiltersOK' /\ TransferOK' /\ FilesOK'
<1>1. TransferOK'
  BY NoTransferTyped DEF SWReset
<1> QED  BY <1>1 DEF SWReset, FiltersOK, FilesOK, NoFile, Ends


LEMMA Counted ==
  ASSUME Typed, Setting
  PROVE  settings' \in 0..MaxSettings
BY BlockConstants DEF Typed, Setting

LEMMA TypesKept ==
  ASSUME IInv, [Next]_vars
  PROVE  Typed'
<1>0. Typed /\ \E w : Sound(pool, w, Range(InHand))
  BY DEF IInv
<1>1. PICK w : Sound(pool, w, Range(InHand))
  BY <1>0
<1>2. pool \in Pools /\ BlockConstants
  BY <1>1, BlockConstants DEF Sound
<1> USE DEF Done, Command, buffers, filters, resets, FilesRun, TakenAway, Emptied
<1>3. CASE HostReads
  BY <1>0, <1>3 DEF HostReads, Typed, FiltersOK, TransferOK, FilesOK
<1>4. CASE HostWrites
  <2>1. TransferOK'
    BY <1>0, <1>4 DEF HostWrites, Typed, TransferOK
  <2>2. Data' \in [Buffers -> Sectors]
    BY <1>0, <1>4 DEF HostWrites, Typed, Sectors
  <2> QED  BY <1>0, <1>4, <2>1, <2>2 DEF HostWrites, Typed, FiltersOK, FilesOK
<1>5. CASE SectorRead
  BY <1>0, <1>5, ZenonT(60) DEF SectorRead, Typed, FiltersOK, TransferOK, FilesOK, Sectors
<1>6. CASE MPEG_Pull
  BY <1>0, <1>6 DEF MPEG_Pull, Typed, FiltersOK, TransferOK, FilesOK
<1>7. CASE FlsStart
  <2>1. FLS.pnum \in Parts
    BY <1>0, <1>7 DEF FlsStart, Typed, FilesOK
  <2>2. FiltersOK'
    BY <1>0, <1>7, <2>1, ConnectTyped DEF FlsStart, Typed
  <2> QED  BY <1>0, <1>7, <2>1, <2>2 DEF FlsStart, Typed, TransferOK, FilesOK
<1>8. CASE FlsGrab
  <2>1. FLS.pnum \in Parts
    BY <1>0, <1>8 DEF FlsGrab, Typed, FilesOK
  <2>2. FiltersOK'
    BY <1>0, <1>2, <1>8, <2>1, BlockConstants DEF FlsGrab, Typed, FiltersOK, Ends
  <2>3. FilesOK'
    <3>1. FLS' \in {FLS, NoFile}
      BY <1>8 DEF FlsGrab
    <3>2. CASE FLS' = FLS
      BY <1>0, <3>2 DEF Typed, FilesOK
    <3>3. CASE FLS' = NoFile
      BY <3>3 DEF FilesOK, NoFile, Ends
    <3> QED  BY <3>1, <3>2, <3>3
  <2> QED  BY <1>0, <1>8, <2>2, <2>3 DEF FlsGrab, Typed, TransferOK
<1>9. CASE FlsAbort
  BY <1>0, <1>9 DEF FlsAbort, Typed, FiltersOK, TransferOK, FilesOK, NoFile, Ends
<1>10. CASE SET_CDDEVCONN
  <2>1. FiltersOK'
    BY <1>0, <1>10 DEF SET_CDDEVCONN, Typed, FiltersOK, Unplugged, Ends
  <2> QED  BY <1>0, <1>10, <2>1, Counted DEF SET_CDDEVCONN, Typed, TransferOK, FilesOK
<1>11. CASE SET_FILTCOND
  BY <1>0, <1>11, BlockConstants, Counted DEF SET_FILTCOND, Typed, FiltersOK, TransferOK, FilesOK
<1>12. CASE SET_FILTCONN
  <2>1. FiltersOK'
    <3>1. PICK f \in Parts, p \in Ends, to \in Ends :
            /\ TrueConn' \in {TrueConn, [TrueConn EXCEPT ![f] = p]}
            /\ SetFalseConn(f, to) \/ UNCHANGED <<CDDevConn, FalseConn>>
      BY <1>12 DEF SET_FILTCONN, Ends
    <3>2. TrueConn' \in [Parts -> Ends]
      BY <1>0, <3>1 DEF Typed, FiltersOK
    <3>3. CDDevConn' \in Ends /\ FalseConn' \in [Parts -> Ends]
      <4>1. CDDevConn \in Ends /\ FalseConn \in [Parts -> Ends]
        BY <1>0 DEF Typed, FiltersOK
      <4>2. Unplugged(to) \in [Parts -> Ends] /\ None \in Ends
        BY <4>1 DEF Unplugged, Ends
      <4> QED  BY <3>1, <4>1, <4>2 DEF SetFalseConn
    <3> QED  BY <1>0, <1>12, <3>2, <3>3 DEF SET_FILTCONN, Typed, FiltersOK
  <2> QED  BY <1>0, <1>12, <2>1, Counted DEF SET_FILTCONN, Typed, TransferOK, FilesOK
<1>13. CASE GET_SECDATA
  <2>1. TransferOK'
    <3>1. PICK p \in Parts : \E r \in Places(p) : DT' = Transfer(FALSE, FALSE, None, Segment(p, r[1], r[2]))
      BY <1>13 DEF GET_SECDATA
    <3>2. PICK r \in Places(p) : DT' = Transfer(FALSE, FALSE, None, Segment(p, r[1], r[2]))
      BY <3>1
    <3> QED  BY <1>1, <3>2, SegmentTyped, TransferTyped DEF Ends
  <2> QED  BY <1>0, <1>13, <2>1 DEF GET_SECDATA, Typed, FiltersOK, FilesOK
<1>14. CASE GETDEL_SECDATA
  <2>1. TransferOK'
    <3>1. PICK p \in Parts : \E r \in Places(p) : DT' = Transfer(FALSE, TRUE, None, Segment(p, r[1], r[2]))
      BY <1>14 DEF GETDEL_SECDATA
    <3>2. PICK r \in Places(p) : DT' = Transfer(FALSE, TRUE, None, Segment(p, r[1], r[2]))
      BY <3>1
    <3> QED  BY <1>1, <3>2, SegmentTyped, TransferTyped DEF Ends
  <2> QED  BY <1>0, <1>14, <2>1 DEF GETDEL_SECDATA, Typed, FiltersOK, FilesOK
<1>15. CASE DEL_SECDATA
  BY <1>0, <1>15 DEF DEL_SECDATA, Typed, FiltersOK, TransferOK, FilesOK
<1>16. CASE GET_TOC
  <2>1. TransferOK'
    <3>1. <<None>> \in Seq(Index) /\ None \in Ends /\ DT' = Transfer(FALSE, FALSE, None, <<None>>)
      BY <1>16 DEF GET_TOC, Index, Ends
    <3> QED  BY <3>1, TransferTyped
  <2> QED  BY <1>0, <1>16, <2>1 DEF GET_TOC, Typed, FiltersOK, FilesOK
<1>17. CASE PUT_SECDATA
  <2>1. PICK f \in Parts, n \in 1..pool.FreeCount :
          LET chosen == SubSeq(Chain(pool, pool.FirstFree), 1, n) IN
          /\ Filter_DisconnectInput(f)
          /\ DT' = Transfer(TRUE, FALSE, f, chosen)
          /\ Data' = [b \in Buffers |-> IF b \in Range(chosen) THEN Blank ELSE Data[b]]
    BY <1>17 DEF PUT_SECDATA
  <2> DEFINE chosen == SubSeq(Chain(pool, pool.FirstFree), 1, n)
             all == Chain(pool, pool.FirstFree)
  <2>2. all \in Seq(Buffers) /\ Len(all) = pool.FreeCount
    <3>1. None \in Ends /\ FirstOf(pool, None) = pool.FirstFree /\ CountOf(pool, None) = pool.FreeCount
      BY DEF Ends, FirstOf, CountOf
    <3> QED  BY <1>1, <3>1, Walks
  <2>3. chosen \in Seq(Index)
    <3> HIDE DEF all
    <3>1. n \in Nat /\ n <= Len(all) /\ 1 <= n
      BY <1>2, <2>2 DEF Pools
    <3>2. SubSeq(all, 1, n) \in Seq(Buffers)
      BY <2>2, <3>1
    <3> QED  BY <3>2 DEF all, Index
  <2>4. TransferOK'
    <3> HIDE DEF chosen
    <3>1. DT' = Transfer(TRUE, FALSE, f, chosen) /\ f \in Ends
      BY <2>1 DEF chosen, Ends
    <3> QED  BY <2>3, <3>1, TransferTyped
  <2>5. FiltersOK'
    BY <1>0, <1>17, <2>1, DisconnectTyped DEF PUT_SECDATA, Typed, Ends
  <2>6. Data' \in [Buffers -> Sectors]
    BY <1>0, <2>1 DEF Typed, Sectors
  <2> QED  BY <1>0, <1>17, <2>4, <2>5, <2>6 DEF PUT_SECDATA, Typed, FilesOK
<1>18. CASE END_DATAXFER
  <2>1. TransferOK'
    BY <1>18, NoTransferTyped DEF END_DATAXFER
  <2>2. FiltersOK'
    <3>1. CASE EndWriting
      BY <1>0, <1>18, <3>1, DisconnectTyped DEF END_DATAXFER, EndWriting, Typed, TransferOK
    <3>2. CASE EndReading
      BY <1>0, <1>18, <3>2 DEF END_DATAXFER, EndReading, Typed, FiltersOK
    <3> QED  BY <1>18, <3>1, <3>2 DEF END_DATAXFER
  <2> QED  BY <1>0, <1>18, <2>1, <2>2 DEF END_DATAXFER, Typed, FilesOK
<1>19. CASE MOVE_SECDATA
  <2>1. PICK f \in Parts : Filter_DisconnectInput(f)
    BY <1>19 DEF MOVE_SECDATA
  <2>2. FiltersOK'
    BY <1>0, <1>19, <2>1, DisconnectTyped DEF MOVE_SECDATA, Typed, Ends
  <2> QED  BY <1>0, <1>19, <2>2 DEF MOVE_SECDATA, Typed, TransferOK, FilesOK
<1>20. CASE COPY_SECDATA
  <2>1. PICK p \in Parts, f \in Parts : \E r \in Places(p) :
          LET list == Segment(p, r[1], r[2])
              copied == InTurn([pool |-> pool, data |-> Data],
                               [n \in DOMAIN list |-> [s \in States |-> CopySector(s, f, list[n])]])
          IN  r[2] <= pool.FreeCount /\ Data' = copied.data /\ Filter_DisconnectInput(f)
    BY <1>20 DEF COPY_SECDATA
  <2>2. PICK r \in Places(p) :
          LET list == Segment(p, r[1], r[2])
              copied == InTurn([pool |-> pool, data |-> Data],
                               [n \in DOMAIN list |-> [s \in States |-> CopySector(s, f, list[n])]])
          IN  r[2] <= pool.FreeCount /\ Data' = copied.data /\ Filter_DisconnectInput(f)
    BY <2>1
  <2> DEFINE list == Segment(p, r[1], r[2])
             steps == [n \in DOMAIN list |-> [s \in States |-> CopySector(s, f, list[n])]]
             copied == InTurn([pool |-> pool, data |-> Data], steps)
  <2>3. Distinct(list) /\ Len(list) = r[2]
    BY <1>1, SegmentIs
  <2>4. Data' = copied.data /\ r[2] <= pool.FreeCount /\ Filter_DisconnectInput(f)
    BY <2>2
  <2> HIDE DEF list
  <2>5. TrueConn \in [Parts -> Ends] /\ FalseConn \in [Parts -> Ends] /\ f \in Ends /\ Data \in [Buffers -> Sectors]
    BY <1>0 DEF Typed, FiltersOK, Ends
  <2>6. list \in Seq(Buffers) /\ Len(list) <= pool.FreeCount
    BY <2>3, <2>4 DEF Distinct
  <2>7. copied.data \in [Buffers -> Sectors]
    BY <1>1, <2>5, <2>6, CopySound
  <2> HIDE DEF copied, steps
  <2>8. Data' \in [Buffers -> Sectors]
    BY <2>4, <2>7
  <2>9. FiltersOK'
    BY <1>0, <1>20, <2>4, <2>5, DisconnectTyped DEF COPY_SECDATA, Typed
  <2> QED  BY <1>0, <1>20, <2>8, <2>9 DEF COPY_SECDATA, Typed, TransferOK, FilesOK
<1>21. CASE GET_MPEGROM
  BY <1>0, <1>21 DEF GET_MPEGROM, Typed, FiltersOK, TransferOK, FilesOK, Sectors
<1>22. CASE FileCommand
  <2>1. FilesOK'
    BY <1>0, <1>22 DEF FileCommand, FilesOK, Ends
  <2> QED  BY <1>0, <1>22, <2>1, Counted DEF FileCommand, Typed, FiltersOK, TransferOK
<1>23. CASE READ_FILE
  <2>1. FiltersOK'
    BY <1>0, <1>23, ConnectTyped DEF READ_FILE, Typed
  <2> QED  BY <1>0, <1>23, <2>1, Counted DEF READ_FILE, Typed, TransferOK, FilesOK
<1>24. CASE RESET_SEL
  BY <1>0, <1>24 DEF RESET_SEL, Typed, FiltersOK, TransferOK, FilesOK
<1>25. CASE RESET_SEL_All
  BY <1>0, <1>25, BlockConstants, Counted DEF RESET_SEL_All, Typed, FiltersOK, TransferOK, FilesOK
<1>26. CASE INIT
  BY <1>0, <1>26, Counted DEF INIT, Typed, FiltersOK, TransferOK, FilesOK
<1>27. CASE ResetSelector
  <2>1. FiltersOK'
    BY <1>0, <1>27 DEF ResetSelector, Typed, FiltersOK, Ends
  <2> QED  BY <1>0, <1>27, <2>1 DEF ResetSelector, Typed, TransferOK, FilesOK
<1>28. CASE SoftwareReset
  BY <1>0, <1>28, FlagsTyped DEF SoftwareReset, SWReset, Typed
<1>29. CASE ResetCD
  BY <1>0, <1>29, Counted DEF ResetCD, Typed, FiltersOK, TransferOK, FilesOK
<1>30. CASE ResetDone
  BY <1>0, <1>30, FlagsTyped DEF ResetDone, SWReset, Typed
<1>31. CASE UNCHANGED vars
  BY <1>0, <1>31 DEF vars, Typed, FiltersOK, TransferOK, FilesOK
<1> QED
  BY <1>3, <1>4, <1>5, <1>6, <1>7, <1>8, <1>9, <1>10, <1>11, <1>12, <1>13, <1>14, <1>15, <1>16,
     <1>17, <1>18, <1>19, <1>20, <1>21, <1>22, <1>23, <1>24, <1>25, <1>26, <1>27, <1>28, <1>29,
     <1>30, <1>31 DEF Next

-----------------------------------------------------------------------------
LEMMA Begins ==
  ASSUME Init
  PROVE  IInv
<1>1. Sound(pool, [b \in Buffers |-> None], {})
  BY EmptySound DEF Init
<1>2. InHand = <<>> /\ Unread = {}
  BY DEF Init, NoTransfer, InHand, Unread
<1>3. Range(InHand) = {} /\ Distinct(InHand)
  BY <1>2 DEF Range, Distinct
<1>4. Kept([b \in Buffers |-> None])
  BY <1>2 DEF Kept
<1>5. Typed
  <2>1. TransferOK
    <3>1. <<>> \in Seq(Index) /\ Len(<<>>) = 0 /\ None \in Ends
      BY DEF Ends
    <3> QED  BY <3>1 DEF Init, TransferOK, NoTransfer
  <2>2. FiltersOK /\ FilesOK
    BY DEF Init, FiltersOK, FilesOK, NoFile, Ends
  <2>3. Data \in [Buffers -> Sectors] /\ settings \in 0..MaxSettings
    BY BlockConstants DEF Init, Sectors
  <2> QED  BY <2>1, <2>2, <2>3 DEF Init, Typed
<1>6. \E w : Sound(pool, w, Range(InHand)) /\ Kept(w)
  BY <1>1, <1>3, <1>4
<1> QED  BY <1>3, <1>5, <1>6 DEF IInv

LEMMA Step ==
  ASSUME IInv, [Next]_vars
  PROVE  IInv'
<1>1. Typed'
  BY TypesKept
<1>2. CASE UNCHANGED <<pool, DT, disturbed>>
  BY <1>1, <1>2, Elsewhere
<1>3. CASE SWReset
  BY <1>1, <1>3, SWResetKeeps
<1>4. CASE \/ UNCHANGED vars \/ FlsAbort \/ SET_CDDEVCONN \/ SET_FILTCOND \/ SET_FILTCONN
           \/ FileCommand \/ RESET_SEL_All \/ INIT \/ ResetCD
  BY <1>2, <1>4 DEF vars, buffers, FlsAbort, SET_CDDEVCONN, SET_FILTCOND, SET_FILTCONN, FileCommand,
                    RESET_SEL_All, INIT, ResetCD
<1>5. CASE SoftwareReset \/ ResetDone
  BY <1>3, <1>5 DEF SoftwareReset, ResetDone
<1>6. CASE HostReads \/ HostWrites \/ SectorRead \/ MPEG_Pull \/ FlsStart \/ FlsGrab
  BY <1>1, <1>6, HostKeeps, SectorReadKeeps, MPEG_PullKeeps, FlsStartKeeps, FlsGrabKeeps
<1>7. CASE \/ GET_SECDATA \/ GETDEL_SECDATA \/ DEL_SECDATA \/ GET_TOC \/ PUT_SECDATA \/ END_DATAXFER
           \/ MOVE_SECDATA \/ COPY_SECDATA \/ GET_MPEGROM
  BY <1>1, <1>7, GET_SECDATAKeeps, GETDEL_SECDATAKeeps, DEL_SECDATAKeeps, GET_TOCKeeps, PUT_SECDATAKeeps,
     END_DATAXFERKeeps, MOVE_SECDATAKeeps, COPY_SECDATAKeeps, GET_MPEGROMKeeps
<1>8. CASE READ_FILE \/ RESET_SEL \/ ResetSelector
  BY <1>1, <1>8, EmptyingKeeps, ResetSelectorKeeps
<1> QED  BY <1>4, <1>5, <1>6, <1>7, <1>8 DEF Next

\* What the invariant says of the buffers
LEMMA Conserves ==
  ASSUME IInv
  PROVE  BuffersConserved
<1>1. PICK w : Sound(pool, w, Range(InHand))
  BY DEF IInv
<1> DEFINE out == Range(InHand)
<1>2. PICK L : Has(pool, L) /\ Lies(L, w, out)
  BY <1>1 DEF Sound
<1> DEFINE list == [e \in Ends |-> IF e = None THEN Chain(pool, pool.FirstFree) ELSE Contents(e)]
<1>3. \A e \in Ends : list[e] = L[e]
  <2> SUFFICES ASSUME NEW e \in Ends PROVE list[e] = L[e]
    OBVIOUS
  <2>1. Chain(pool, FirstOf(pool, e)) = L[e]
    BY <1>1, <1>2, ChainIs DEF Sound
  <2> QED  BY <2>1 DEF FirstOf, Contents
<1> HIDE DEF list
<1>4. /\ w \in [Buffers -> Ends] /\ out \in SUBSET Buffers /\ None \notin Parts
      /\ Unlinked(pool, out) /\ L \in [Ends -> Seq(Buffers)]
  BY <1>1, <1>2, BlockConstants DEF Sound, Has
<1>5. Distinct(InHand) /\ DOMAIN InHand = 1..Len(InHand)
  BY DEF IInv, Distinct
<1>6. \A p \in Parts : Linked(list[p], pool.Last[p], pool.Count[p])
  <2> SUFFICES ASSUME NEW p \in Parts PROVE Linked(L[p], pool.Last[p], pool.Count[p])
    BY <1>3 DEF Ends
  <2>1. p \in Ends /\ p # None /\ L[p] \in Seq(Buffers) /\ Whole(pool, p, L[p])
    BY <1>2, <1>4 DEF Ends, Has
  <2> QED  BY <2>1 DEF Whole, Linked, CountOf
<1>7. Len(list[None]) = pool.FreeCount
  BY <1>2, <1>3 DEF Has, Whole, CountOf, Ends
<1>8. Buffers = out \cup UNION {Range(list[e]) : e \in Ends}
  <2>1. ASSUME NEW b \in Buffers \ out PROVE \E e \in Ends : b \in Range(list[e])
    <3>1. w[b] \in Ends /\ L[w[b]] \in Seq(Buffers) /\ \E i \in 1..Len(L[w[b]]) : L[w[b]][i] = b
      BY <1>2, <1>4 DEF Lies
    <3>2. b \in Range(L[w[b]])
      BY <3>1 DEF Range
    <3> QED  BY <1>3, <3>1, <3>2
  <2>2. \A e \in Ends : Range(list[e]) \subseteq Buffers
    BY <1>3, <1>4 DEF Range
  <2> QED  BY <1>4, <2>1, <2>2
<1>9. IsInjective(InHand)
  BY <1>5 DEF Distinct, IsInjective
<1>10. \A e \in Ends : IsInjective(list[e])
  <2> SUFFICES ASSUME NEW e \in Ends PROVE IsInjective(L[e])
    BY <1>3
  <2>1. L[e] \in Seq(Buffers) /\ DOMAIN L[e] = 1..Len(L[e])
    BY <1>4
  <2> QED  BY <1>2, <2>1 DEF IsInjective, Has, Apart
<1>11. \A e \in Ends : Range(list[e]) \cap out = {}
  <2> SUFFICES ASSUME NEW e \in Ends, NEW b \in Range(L[e]), b \in out PROVE FALSE
    BY <1>3
  <2>1. \E i \in 1..Len(L[e]) : L[e][i] = b
    BY <1>4 DEF Range
  <2> QED  BY <1>2, <1>4, <2>1 DEF Lies
<1>12. \A e, f \in Ends : e # f => Range(list[e]) \cap Range(list[f]) = {}
  <2> SUFFICES ASSUME NEW e \in Ends, NEW f \in Ends, NEW b \in Range(L[e]), b \in Range(L[f]) PROVE e = f
    BY <1>3
  <2>1. (\E i \in 1..Len(L[e]) : L[e][i] = b) /\ (\E i \in 1..Len(L[f]) : L[f][i] = b)
    BY <1>4 DEF Range
  <2> QED  BY <1>2, <2>1 DEF Has, Apart
<1>13. \A i \in DOMAIN InHand : pool.Prev[InHand[i]] = None /\ pool.Next[InHand[i]] = None
  BY <1>4 DEF Unlinked, Range
<1> QED  BY <1>6, <1>7, <1>8, <1>9, <1>10, <1>11, <1>12, <1>13 DEF BuffersConserved, list

LEMMA Held ==
  ASSUME IInv
  PROVE  ReadsHeldSectors
<1>1. PICK w : Sound(pool, w, Range(InHand)) /\ Kept(w)
  BY DEF IInv
<1> SUFFICES ASSUME ~disturbed, NEW b \in Unread \cap Buffers
             PROVE  \E p \in Parts : b \in Range(Contents(p))
  BY DEF ReadsHeldSectors
<1>2. w[b] \in Parts /\ b \notin Range(InHand)
  <2>1. Range(InHand) = {}
    BY DEF Unread, InHand, Range
  <2> QED  BY <1>1, <2>1 DEF Kept
<1>3. b \in Range(Chain(pool, pool.First[w[b]]))
  BY <1>1, <1>2, OnList
<1> QED  BY <1>2, <1>3 DEF Contents

LEMMA AllTyped ==
  ASSUME IInv
  PROVE  TypeOK
BY DEF IInv, Typed, TypeOK, Sound

LEMMA Invariance == Spec => []IInv
BY Begins, Step, PTL DEF Spec

\* Every variable has its type.
THEOREM BlockTypeCorrect == Spec => []TypeOK
BY Invariance, AllTyped, PTL

\* Whatever the drive, the card, the file system code and the commands do, and in
\* whatever order, no buffer is lost, none is on two lists, and the lists are whole:
\* for any number of buffers, of partitions and of commands.
THEOREM BuffersConservedHolds == Spec => []BuffersConserved
BY Invariance, Conserves, PTL

\* Until a command or the file system code takes one away, the sectors the host has
\* still to read are in their partitions: the card and the drive never touch them.
THEOREM ReadsHeldSectorsHolds == Spec => []ReadsHeldSectors
BY Invariance, Held, PTL

-----------------------------------------------------------------------------
(* The filters' inputs. *)

\* The connectors are a function, and no filter is fed twice.
FedOnce == None \notin Parts /\ FalseConn \in [Parts -> Ends] /\ OneInput

\* Disconnecting a filter's input, whatever number it is given, keeps the rest.
LEMMA Disconnects ==
  ASSUME FedOnce, NEW f, Filter_DisconnectInput(f)
  PROVE  FedOnce'
<1>1. FalseConn' \in [Parts -> Ends]
  BY DEF FedOnce, Filter_DisconnectInput, Unplugged, Ends
<1>2. \A g \in Parts : FalseConn'[g] \in {FalseConn[g], None} /\ CDDevConn' \in {CDDevConn, None}
  BY DEF FedOnce, Filter_DisconnectInput, Unplugged, Ends
<1>3. OneInput'
  BY <1>2 DEF FedOnce, OneInput
<1> QED  BY <1>1, <1>3 DEF FedOnce

\* Connecting the drive to a filter disconnects that filter's input.
LEMMA DeviceConnects ==
  ASSUME FedOnce, NEW f, CDDevConn' = f,
         FalseConn' = Unplugged(f) \/ FalseConn' = [Unplugged(f) EXCEPT ![f] = None]
  PROVE  FedOnce'
<1>1. FalseConn' \in [Parts -> Ends]
  BY DEF FedOnce, Unplugged, Ends
<1>2. \A g \in Parts : /\ FalseConn'[g] \in {FalseConn[g], None}
                       /\ FalseConn'[g] = f => f = None
  BY DEF FedOnce, Unplugged, Ends
<1>3. OneInput'
  BY <1>2 DEF FedOnce, OneInput
<1> QED  BY <1>1, <1>3 DEF FedOnce

\* So does connecting a filter's false output to another.
LEMMA FalseConnects ==
  ASSUME FedOnce, NEW f \in Parts, NEW to \in Ends, SetFalseConn(f, to)
  PROVE  FedOnce'
<1>1. FalseConn' \in [Parts -> Ends]
  BY DEF FedOnce, SetFalseConn, Unplugged, Ends
<1>2. CASE to = None
  <2>1. CDDevConn' = CDDevConn /\ \A g \in Parts : FalseConn'[g] \in {FalseConn[g], None}
    BY <1>2 DEF FedOnce, SetFalseConn, Ends
  <2> QED  BY <1>1, <2>1 DEF FedOnce, OneInput
<1>3. CASE to # None
  <2>1. /\ CDDevConn' \in {CDDevConn, None} /\ CDDevConn' # to
        /\ \A g \in Parts : g # f => FalseConn'[g] \in {FalseConn[g], None} \ {to}
        /\ FalseConn'[f] = to
    BY <1>3 DEF FedOnce, SetFalseConn, Unplugged, Ends
  <2> QED  BY <1>1, <2>1 DEF FedOnce, OneInput
<1> QED  BY <1>2, <1>3

\* A step that leaves the connectors alone, or takes them all off, keeps it.
LEMMA Unconnected ==
  ASSUME FedOnce,
         \/ CDDevConn' = CDDevConn /\ FalseConn' = FalseConn
         \/ CDDevConn' = None /\ FalseConn' = FalseConn
         \/ CDDevConn' \in {CDDevConn, None} /\ FalseConn' = [f \in Parts |-> None]
  PROVE  FedOnce'
BY DEF FedOnce, OneInput, Ends

LEMMA ConnectsStep == FedOnce /\ [Next]_vars => FedOnce'
<1> SUFFICES ASSUME FedOnce, [Next]_vars PROVE FedOnce'
  OBVIOUS
<1>1. CASE \/ HostReads \/ HostWrites \/ SectorRead \/ MPEG_Pull \/ FlsAbort
           \/ SET_FILTCOND \/ GET_SECDATA \/ GETDEL_SECDATA \/ DEL_SECDATA \/ GET_TOC
           \/ GET_MPEGROM \/ FileCommand \/ RESET_SEL \/ RESET_SEL_All \/ INIT \/ ResetCD
  BY <1>1, Unconnected DEF HostReads, HostWrites, SectorRead, MPEG_Pull, FlsAbort, SET_FILTCOND,
       GET_SECDATA, GETDEL_SECDATA, DEL_SECDATA, GET_TOC, GET_MPEGROM, FileCommand,
       RESET_SEL, RESET_SEL_All, INIT, ResetCD, filters
<1>2. CASE FlsStart
  BY <1>2, DeviceConnects DEF FlsStart, ConnectDevice
<1>3. CASE FlsGrab
  BY <1>3, Unconnected DEF FlsGrab, filters
<1>4. CASE SET_CDDEVCONN
  BY <1>4, DeviceConnects DEF SET_CDDEVCONN
<1>5. CASE SET_FILTCONN
  BY <1>5, FalseConnects, Unconnected DEF SET_FILTCONN, Ends
<1>6. CASE PUT_SECDATA
  BY <1>6, Disconnects DEF PUT_SECDATA
<1>7. CASE END_DATAXFER
  BY <1>7, Disconnects, Unconnected DEF END_DATAXFER, EndWriting, EndReading
<1>8. CASE MOVE_SECDATA \/ COPY_SECDATA
  BY <1>8, Disconnects DEF MOVE_SECDATA, COPY_SECDATA
<1>9. CASE READ_FILE
  BY <1>9, DeviceConnects DEF READ_FILE, ConnectDevice
<1>10. CASE ResetSelector
  BY <1>10, Unconnected DEF ResetSelector
<1>11. CASE SoftwareReset \/ ResetDone
  BY <1>11, Unconnected DEF SoftwareReset, ResetDone, SWReset
<1>12. CASE UNCHANGED vars
  BY <1>12, Unconnected DEF vars
<1> QED
  BY <1>1, <1>2, <1>3, <1>4, <1>5, <1>6, <1>7, <1>8, <1>9, <1>10, <1>11, <1>12 DEF Next

\* No filter is ever fed from two sides, however many there are: a sector takes
\* one way through them, and the drive's chain never comes back to itself.
THEOREM FiltersHaveOneInput == Spec => []OneInput
<1>1. Init => FedOnce
  BY BlockConstants DEF Init, FedOnce, OneInput, Ends
<1>2. FedOnce => OneInput
  BY DEF FedOnce
<1> QED  BY <1>1, <1>2, ConnectsStep, PTL DEF Spec

-----------------------------------------------------------------------------
(* The threaded reader. *)

EmuPlaces == {"idle", "fastpw", "drain", "take", "giveback", "requestlba", "requestseq", "requestnotify",
              "waitready", "hintlba", "hintseq", "hintnotify", "stopnotify", "cancel", "join", "closed"}

WorkPlaces == {"loop", "loadrequest", "loadhint", "decide", "window", "waitfree", "read", "prepare",
               "waiting", "exited"} \cup Preparing

EmuType ==
  /\ epc \in EmuPlaces /\ goal \in {"none", "fetch", "answered", "hint"}
  /\ lba \in LBAs /\ requestLba \in LBAs /\ hintLba \in LBAs /\ got \in LBAs \cup {Nothing}
  /\ demanding \in BOOLEAN /\ cancelled \in BOOLEAN /\ stopping \in BOOLEAN

WorkType ==
  /\ wpc \in WorkPlaces
  /\ raLba \in 0..MaxLba + 1 /\ lastReadLba \in 0..MaxLba + 1 /\ raCount \in 0..ReadAhead
  /\ demanded \in BOOLEAN /\ sawRequest \in BOOLEAN /\ sawHint \in BOOLEAN

MailType == request \in BOOLEAN /\ hint \in BOOLEAN /\ sig \in BOOLEAN

OwnType ==
  /\ held \in Slots \cup {Nothing} /\ taken \in Slots \cup {Nothing}
  /\ cache \in [Lines -> Slots \cup {Nothing}] /\ reserveCount \in 0..CacheSize
  /\ free \in Seq(Slots) /\ ready \in Seq(Slots)

SectorType == sector \in [Slots -> [lba : LBAs \cup {Nothing}, content : LBAs \cup {Nothing}, ok : BOOLEAN]]

\* A thread has a slot in its hand between two steps only.
HandInv ==
  /\ held # Nothing <=> epc = "giveback"
  /\ taken # Nothing <=> wpc = "read"
  /\ epc = "take" => ready # <<>>

\* The worker has decided to read: the address is on the image.
ReadInv == wpc \in {"waitfree", "read"} => raLba <= MaxLba /\ raCount > 0

\* What a slot holds that the worker has filled and let go
WholeAt(x) == x.lba \in LBAs /\ (IF x.ok THEN x.content = x.lba ELSE x.lba \in Flaky)

DataInv == \A s \in Slots : InReady(s) \/ InCache(s) => WholeAt(sector[s])

CallInv ==
  /\ epc \in {"idle", "fastpw", "stopnotify", "cancel", "join", "closed"} => goal = "none"
  /\ epc \in {"requestlba", "requestseq"} \/ demanding => goal = "fetch"
  /\ epc \in {"hintlba", "hintseq", "hintnotify"} => goal # "fetch"
  /\ goal # "answered" => got = Nothing

TypeInv == EmuType /\ WorkType /\ MailType /\ OwnType /\ SectorType
OwnInv  == OneOwner /\ Circulate /\ ReserveCoversCache
ReaderInv    == TypeInv /\ HandInv /\ ReadInv /\ OwnInv /\ DataInv /\ CallInv

owners == <<free, ready, held, taken, cache, reserveCount>>
-----------------------------------------------------------------------------
(* Queues of slots. *)

HasSlot(q, s)   == \E i \in DOMAIN q : q[i] = s
NoTwice(q) == \A i, j \in DOMAIN q : q[i] = q[j] => i = j

LEMMA AtHead ==
  ASSUME NEW q \in Seq(Slots), q # <<>>
  PROVE  Head(q) \in Slots /\ HasSlot(q, Head(q))
<1>1. 1 \in DOMAIN q /\ q[1] = Head(q)
  OBVIOUS
<1> QED BY <1>1 DEF HasSlot

LEMMA Dequeued ==
  ASSUME NEW q \in Seq(Slots), q # <<>>, NoTwice(q)
  PROVE  /\ Tail(q) \in Seq(Slots) /\ Len(Tail(q)) = Len(q) - 1
         /\ NoTwice(Tail(q))
         /\ \A s : HasSlot(Tail(q), s) <=> HasSlot(q, s) /\ s # Head(q)
<1>1. /\ Tail(q) \in Seq(Slots) /\ Len(Tail(q)) = Len(q) - 1 /\ Len(q) \in Nat /\ Len(q) > 0
      /\ DOMAIN q = 1..Len(q) /\ DOMAIN Tail(q) = 1..Len(q) - 1
      /\ \A i \in 1..Len(q) - 1 : Tail(q)[i] = q[i + 1]
      /\ Head(q) = q[1]
  OBVIOUS
<1>2. NoTwice(Tail(q))
  <2> SUFFICES ASSUME NEW i \in DOMAIN Tail(q), NEW j \in DOMAIN Tail(q), Tail(q)[i] = Tail(q)[j]
               PROVE  i = j
    BY DEF NoTwice
  <2>1. i + 1 \in DOMAIN q /\ j + 1 \in DOMAIN q /\ q[i + 1] = q[j + 1]
    BY <1>1
  <2>2. i + 1 = j + 1
    BY <2>1 DEF NoTwice
  <2> QED BY <1>1, <2>2
<1>3. ASSUME NEW s, HasSlot(Tail(q), s) PROVE HasSlot(q, s) /\ s # Head(q)
  <2>1. PICK i \in DOMAIN Tail(q) : Tail(q)[i] = s
    BY <1>3 DEF HasSlot
  <2>2. i + 1 \in DOMAIN q /\ q[i + 1] = s /\ i + 1 # 1 /\ 1 \in DOMAIN q
    BY <1>1, <2>1
  <2> QED BY <1>1, <2>2 DEF HasSlot, NoTwice
<1>4. ASSUME NEW s, HasSlot(q, s), s # Head(q) PROVE HasSlot(Tail(q), s)
  <2>1. PICK i \in DOMAIN q : q[i] = s
    BY <1>4 DEF HasSlot
  <2>2. i - 1 \in DOMAIN Tail(q) /\ Tail(q)[i - 1] = s
    BY <1>1, <1>4, <2>1
  <2> QED BY <2>2 DEF HasSlot
<1> QED BY <1>1, <1>2, <1>3, <1>4

LEMMA Enqueued ==
  ASSUME NEW q \in Seq(Slots), NEW x \in Slots, NoTwice(q), ~HasSlot(q, x)
  PROVE  /\ Append(q, x) \in Seq(Slots) /\ Len(Append(q, x)) = Len(q) + 1
         /\ NoTwice(Append(q, x))
         /\ \A s : HasSlot(Append(q, x), s) <=> HasSlot(q, s) \/ s = x
<1>1. /\ Append(q, x) \in Seq(Slots) /\ Len(Append(q, x)) = Len(q) + 1 /\ Len(q) \in Nat
      /\ DOMAIN q = 1..Len(q) /\ DOMAIN Append(q, x) = 1..Len(q) + 1
      /\ \A i \in 1..Len(q) : Append(q, x)[i] = q[i]
      /\ Append(q, x)[Len(q) + 1] = x
  OBVIOUS
<1>2. NoTwice(Append(q, x))
  BY <1>1 DEF NoTwice, HasSlot
<1>3. \A s : HasSlot(Append(q, x), s) <=> HasSlot(q, s) \/ s = x
  BY <1>1 DEF HasSlot
<1> QED BY <1>1, <1>2, <1>3

LEMMA Queues ==
  /\ \A s : (InFree(s) <=> HasSlot(free, s)) /\ (InReady(s) <=> HasSlot(ready, s))
  /\ OneOwner => NoTwice(free) /\ NoTwice(ready)
BY DEF InFree, InReady, HasSlot, NoTwice, OneOwner

\* Nobody's property has changed.
LEMMA SameOwners ==
  ASSUME OwnInv, UNCHANGED owners
  PROVE  OwnInv'
BY DEF OwnInv, owners, OneOwner, Circulate, ReserveCoversCache, Carried, InFree, InReady, InCache, InReserve

LEMMA SameData ==
  ASSUME DataInv, UNCHANGED <<ready, cache, sector>>
  PROVE  DataInv'
BY DEF DataInv, InReady, InCache, WholeAt
-----------------------------------------------------------------------------
USE DEF Nothing

\* The emulation thread's steps that move no slot
Talks ==
  \/ Call \/ CallPWOnly \/ FastPW \/ Drain \/ RequestLba \/ RequestSeq \/ RequestNotify \/ WaitReady
  \/ HintLba \/ HintSeq \/ HintNotify \/ Stop \/ StopNotify \/ CancelQueues \/ Join

\* What a fetch copies out of the cache
LEMMA Copied ==
  ASSUME TypeInv, DataInv, Holds(lba)
  PROVE  LET s == sector[cache[Line(lba)]] IN
         /\ s.lba = lba /\ (IF s.ok THEN s.content = lba ELSE lba \in Flaky)
<1>1. Line(lba) \in Lines
  BY SizesAssumption DEF TypeInv, EmuType, Line, LBAs, Lines
<1>2. cache[Line(lba)] \in Slots /\ InCache(cache[Line(lba)])
  BY <1>1 DEF TypeInv, OwnType, Holds, InCache
<1> QED BY <1>2 DEF DataInv, WholeAt, Holds

\* The answer of a fetch that finds its sector, or its next step
LEMMA CopyTyped ==
  ASSUME TypeInv, DataInv, CallInv, NEW otherwise \in EmuPlaces, CopyOrGo(otherwise), goal = "fetch"
  PROVE  /\ epc' \in {"drain", otherwise} /\ goal' \in {"fetch", "answered"} /\ demanding' \in {demanding, FALSE}
         /\ got' \in LBAs \cup {Nothing}
         /\ (goal' = "answered" => ~demanding') /\ (goal' # "answered" => got' = Nothing)
         /\ (epc' = "drain" \/ goal' = "fetch")
<1>1. CASE Holds(lba)
  <2>1. LET s == sector[cache[Line(lba)]] IN IF s.ok THEN s.content = lba ELSE lba \in Flaky
    BY <1>1, Copied
  <2> QED BY <1>1, <2>1 DEF CopyOrGo, TypeInv, EmuType
<1>2. CASE ~Holds(lba)
  BY <1>2 DEF CopyOrGo, CallInv, TypeInv, EmuType
<1> QED BY <1>1, <1>2

LEMMA TalkStep ==
  ASSUME ReaderInv, Talks
  PROVE  ReaderInv'
<1>1. UNCHANGED <<owners, workVars, sector>>
  BY DEF Talks, Call, CallPWOnly, FastPW, Drain, RequestLba, RequestSeq, RequestNotify, WaitReady, HintLba,
         HintSeq, HintNotify, Stop, StopNotify, CancelQueues, Join, owners, cacheVars, poolVars, workVars
<1>2. OwnInv' /\ DataInv' /\ OwnType' /\ SectorType' /\ WorkType' /\ ReadInv'
  BY <1>1, SameOwners, SameData DEF ReaderInv, TypeInv, OwnType, SectorType, WorkType, ReadInv, owners, workVars
<1>3. MailType'
  BY DEF Talks, Call, CallPWOnly, FastPW, Drain, RequestLba, RequestSeq, RequestNotify, WaitReady, HintLba,
         HintSeq, HintNotify, Stop, StopNotify, CancelQueues, Join, mailVars, MailType, ReaderInv, TypeInv, Notify
<1>4. EmuType' /\ CallInv' /\ (epc' # "giveback" /\ epc # "giveback") /\ (epc' = "take" => ready # <<>>)
  <2>1. CASE Drain
    <3>1. CASE ready # <<>> \/ goal # "fetch"
      BY <2>1, <3>1 DEF Drain, ReaderInv, TypeInv, EmuType, EmuPlaces, CallInv, mailVars, poolVars
    <3>2. CASE ready = <<>> /\ goal = "fetch"
      <4>1. CopyOrGo("requestlba") /\ UNCHANGED <<lba, requestLba, hintLba, cancelled, stopping>> /\ epc = "drain"
        BY <2>1, <3>2 DEF Drain, mailVars, poolVars
      <4>2. /\ epc' \in {"drain", "requestlba"} /\ goal' \in {"fetch", "answered"} /\ demanding' \in {demanding, FALSE}
            /\ got' \in LBAs \cup {Nothing}
            /\ (goal' = "answered" => ~demanding') /\ (goal' # "answered" => got' = Nothing)
            /\ (epc' = "drain" \/ goal' = "fetch")
        BY <4>1, <3>2, CopyTyped DEF ReaderInv, EmuPlaces
      <4> QED BY <4>1, <4>2 DEF ReaderInv, TypeInv, EmuType, EmuPlaces, CallInv
    <3> QED BY <3>1, <3>2
  <2>2. CASE Call \/ CallPWOnly \/ FastPW
    BY <2>2, SizesAssumption DEF Call, CallPWOnly, FastPW, Goto, ReaderInv, TypeInv, EmuType, EmuPlaces, CallInv, mailVars, poolVars,
           LBAs
  <2>3. CASE RequestLba \/ RequestNotify \/ WaitReady
    BY <2>3 DEF RequestLba, RequestNotify, WaitReady, Goto, ReaderInv, TypeInv, EmuType, EmuPlaces, CallInv,
           mailVars, poolVars
  <2>4. CASE RequestSeq
    BY <2>4 DEF RequestSeq, Goto, ReaderInv, TypeInv, EmuType, EmuPlaces, CallInv, poolVars
  <2>5. CASE HintLba \/ HintSeq \/ HintNotify
    BY <2>5, SizesAssumption DEF HintLba, HintSeq, HintNotify, Goto, ReaderInv, TypeInv, EmuType, EmuPlaces, CallInv, mailVars,
           poolVars, LBAs
  <2>6. CASE Stop \/ StopNotify \/ CancelQueues \/ Join
    <3>1. /\ epc \in {"idle", "stopnotify", "cancel", "join"} /\ epc' \in {"stopnotify", "cancel", "join", "closed"}
          /\ UNCHANGED <<goal, lba, demanding, got, mailVars>>
      BY <2>6 DEF Stop, StopNotify, CancelQueues, Join, Goto
    <3>2. cancelled' \in BOOLEAN /\ stopping' \in BOOLEAN
      BY <2>6 DEF Stop, StopNotify, CancelQueues, Join, ReaderInv, TypeInv, EmuType, poolVars
    <3> QED BY <3>1, <3>2 DEF ReaderInv, TypeInv, EmuType, EmuPlaces, CallInv, mailVars
  <2> QED BY <2>1, <2>2, <2>3, <2>4, <2>5, <2>6 DEF Talks
<1>5. HandInv'
  BY <1>1, <1>4 DEF ReaderInv, HandInv, owners, workVars
<1> QED BY <1>2, <1>3, <1>4, <1>5 DEF ReaderInv, TypeInv
-----------------------------------------------------------------------------
\* A slot goes from the ready queue to its line of the cache; the one it
\* evicts, or one of the reserve, goes to the thread's hand.
LEMMA Taken ==
  ASSUME ReaderInv, Take
  PROVE  OwnType' /\ OwnInv' /\ DataInv' /\ held' # Nothing
<1> DEFINE h == Head(ready)
           line == Line(sector[h].lba)
<1>1. /\ ready # <<>> /\ held = Nothing /\ h \in Slots /\ InReady(h)
      /\ ready' = Tail(ready) /\ UNCHANGED <<free, taken, sector>>
  BY AtHead, Queues DEF ReaderInv, HandInv, Take, Goto, TypeInv, OwnType, workVars
<1>2. line \in Lines
  BY <1>1, SizesAssumption DEF ReaderInv, DataInv, WholeAt, Line, Lines, LBAs
<1>3. /\ ready' \in Seq(Slots) /\ Len(ready') = Len(ready) - 1 /\ NoTwice(ready')
      /\ \A s : InReady(s)' <=> InReady(s) /\ s # h
  BY <1>1, Dequeued, Queues DEF ReaderInv, TypeInv, OwnType, OwnInv, HasSlot, InReady
<1>4. cache' = [cache EXCEPT ![line] = h] /\ cache \in [Lines -> Slots \cup {Nothing}]
  BY DEF Take, Evict, ReaderInv, TypeInv, OwnType
<1>5. cache' \in [Lines -> Slots \cup {Nothing}] /\ cache'[line] = h /\ \A l \in Lines \ {line} : cache'[l] = cache[l]
  BY <1>1, <1>2, <1>4
<1>6. /\ ~InCache(h) /\ ~InFree(h) /\ ~InReserve(h) /\ h # taken /\ h # Nothing
      /\ \A i, j \in Lines : cache[i] = cache[j] /\ cache[i] # Nothing => i = j
  BY <1>1 DEF ReaderInv, OwnInv, OneOwner, Slots
<1>7. \A i, j \in Lines : cache'[i] = cache'[j] /\ cache'[i] # Nothing => i = j
  BY <1>2, <1>5, <1>6 DEF InCache
<1>8. CASE cache[line] # Nothing
  <2>1. held' = cache[line] /\ held' \in Slots /\ held' # Nothing /\ InCache(held') /\ UNCHANGED reserveCount
    BY <1>2, <1>4, <1>8, SizesAssumption DEF Take, Evict, Slots, InCache
  <2>2. \A s \in Slots : InCache(s)' <=> s = h \/ (InCache(s) /\ s # held')
    <3>1. \A s \in Slots : (\E i \in Lines : cache'[i] = s) <=> s = h \/ (InCache(s) /\ s # held')
      BY <1>2, <1>5, <1>6, <2>1 DEF InCache, Slots
    <3> QED BY <3>1 DEF InCache
  <2>3. OneOwner'
    <3>1. \A s \in Slots : (InFree(s)' <=> InFree(s)) /\ (InReserve(s)' <=> InReserve(s))
      BY <1>1, <2>1 DEF InFree, InReserve
    <3>2. \A s \in Slots :
       /\ InFree(s)' => ~InReady(s)' /\ ~InCache(s)' /\ ~InReserve(s)' /\ s # held' /\ s # taken'
       /\ InReady(s)' => ~InCache(s)' /\ ~InReserve(s)' /\ s # held' /\ s # taken'
       /\ InCache(s)' => ~InReserve(s)' /\ s # held' /\ s # taken'
       /\ InReserve(s)' => s # held' /\ s # taken'
       /\ s = held' => s # taken'
      BY <1>1, <1>3, <1>6, <2>1, <2>2, <3>1 DEF ReaderInv, OwnInv, OneOwner
    <3> QED BY <1>1, <1>3, <1>7, <3>2 DEF ReaderInv, OwnInv, OneOwner, NoTwice
  <2>4. Circulate'
    BY <1>1, <1>3, <2>1 DEF ReaderInv, OwnInv, Circulate, Carried, TypeInv, OwnType
  <2>5. ReserveCoversCache'
    <3>1. {i \in Lines : cache'[i] = Nothing} = {i \in Lines : cache[i] = Nothing}
      BY <1>2, <1>5, <1>6, <1>8
    <3> QED BY <3>1, <2>1 DEF ReaderInv, OwnInv, ReserveCoversCache
  <2>6. DataInv'
    BY <1>1, <1>3, <2>2 DEF ReaderInv, DataInv, WholeAt
  <2> QED BY <1>1, <1>3, <1>5, <2>1, <2>3, <2>4, <2>5, <2>6 DEF OwnType, OwnInv, ReaderInv, TypeInv
<1>9. CASE cache[line] = Nothing
  <2>1. held' = Circulating + reserveCount - 1 /\ reserveCount' = reserveCount - 1
    BY <1>9 DEF Take, Evict
  <2>2. reserveCount \in 1..CacheSize /\ ReserveCoversCache'
    <3> DEFINE E == {i \in Lines : cache[i] = Nothing}
    <3>1. IsFiniteSet(E) /\ line \in E
      <4>1. IsFiniteSet(Lines) /\ E \subseteq Lines
        BY FS_Interval, SizesAssumption DEF Lines
      <4> QED BY <4>1, <1>2, <1>9, FS_Subset
    <3>2. {i \in Lines : cache'[i] = Nothing} = E \ {line}
      BY <1>2, <1>5, <1>6
    <3>3. Cardinality(E \ {line}) = Cardinality(E) - 1
      BY <3>1, FS_RemoveElement
    <3>4. reserveCount = Cardinality(E) /\ Cardinality(E) # 0
      BY <3>1, FS_EmptySet DEF ReaderInv, OwnInv, ReserveCoversCache
    <3>5. reserveCount \in 1..CacheSize
      BY <3>4, SizesAssumption DEF ReaderInv, TypeInv, OwnType
    <3>6. reserveCount' = Cardinality({i \in Lines : cache'[i] = Nothing})
      BY <2>1, <3>2, <3>3, <3>4
    <3> QED BY <3>5, <3>6 DEF ReserveCoversCache
  <2>3. held' \in Slots /\ held' # Nothing /\ InReserve(held')
    BY <2>1, <2>2, SizesAssumption DEF Slots, InReserve
  <2>4. \A s \in Slots : InReserve(s)' <=> InReserve(s) /\ s # held'
    BY <2>1, <2>2, SizesAssumption DEF Slots, InReserve
  <2>5. \A s \in Slots : InCache(s)' <=> s = h \/ InCache(s)
    <3>1. \A s \in Slots : (\E i \in Lines : cache'[i] = s) <=> s = h \/ InCache(s)
      BY <1>2, <1>5, <1>9 DEF InCache, Slots
    <3> QED BY <3>1 DEF InCache
  <2>6. OneOwner'
    <3>1. \A s \in Slots : InFree(s)' <=> InFree(s)
      BY <1>1 DEF InFree
    <3>2. \A s \in Slots :
       /\ InFree(s)' => ~InReady(s)' /\ ~InCache(s)' /\ ~InReserve(s)' /\ s # held' /\ s # taken'
       /\ InReady(s)' => ~InCache(s)' /\ ~InReserve(s)' /\ s # held' /\ s # taken'
       /\ InCache(s)' => ~InReserve(s)' /\ s # held' /\ s # taken'
       /\ InReserve(s)' => s # held' /\ s # taken'
       /\ s = held' => s # taken'
      BY <1>1, <1>3, <1>6, <2>3, <2>4, <2>5, <3>1 DEF ReaderInv, OwnInv, OneOwner
    <3> QED BY <1>1, <1>3, <1>7, <3>2 DEF ReaderInv, OwnInv, OneOwner, NoTwice
  <2>7. Circulate'
    BY <1>1, <1>3, <2>3 DEF ReaderInv, OwnInv, Circulate, Carried, TypeInv, OwnType
  <2>8. DataInv'
    BY <1>1, <1>3, <2>5 DEF ReaderInv, DataInv, WholeAt
  <2>9. reserveCount' \in 0..CacheSize
    BY <2>1, <2>2, SizesAssumption
  <2> QED BY <1>1, <1>3, <1>5, <2>2, <2>3, <2>6, <2>7, <2>8, <2>9 DEF OwnType, OwnInv, ReaderInv, TypeInv
<1> QED BY <1>8, <1>9

LEMMA TakeStep ==
  ASSUME ReaderInv, Take
  PROVE  ReaderInv'
<1>1. epc = "take" /\ epc' = "giveback"
      /\ UNCHANGED <<goal, lba, demanding, got, mailVars, workVars, cancelled, stopping, sector, sig>>
  BY DEF Take, Goto
<1>2. EmuType' /\ CallInv'
  BY <1>1 DEF ReaderInv, TypeInv, EmuType, EmuPlaces, CallInv, mailVars
<1>3. WorkType' /\ MailType' /\ SectorType' /\ ReadInv'
  BY <1>1 DEF ReaderInv, TypeInv, WorkType, MailType, SectorType, ReadInv, mailVars, workVars
<1>4. HandInv'
  BY <1>1, Taken DEF ReaderInv, HandInv, workVars
<1> QED BY <1>2, <1>3, <1>4, Taken DEF ReaderInv, TypeInv

\* Both queues have room for all that circulates, so no write is cut.
LEMMA Room ==
  ASSUME ReaderInv
  PROVE  /\ held # Nothing => Len(free) < Circulating
         /\ taken # Nothing => Len(ready) < Circulating
BY SizesAssumption DEF ReaderInv, OwnInv, Circulate, Carried, TypeInv, OwnType

LEMMA GivenBack ==
  ASSUME ReaderInv, GiveBack
  PROVE  OwnType' /\ OwnInv' /\ held' = Nothing
<1>1. /\ held \in Slots /\ held # Nothing /\ held' = Nothing /\ free' = Append(free, held)
      /\ UNCHANGED <<cache, reserveCount, ready, taken>>
  BY Room DEF GiveBack, Put, ReaderInv, HandInv, TypeInv, OwnType, workVars
<1>2. ~InFree(held) /\ ~InReady(held) /\ ~InCache(held) /\ ~InReserve(held) /\ held # taken
  BY <1>1 DEF ReaderInv, OwnInv, OneOwner
<1>3. /\ free' \in Seq(Slots) /\ Len(free') = Len(free) + 1 /\ NoTwice(free')
      /\ \A s : InFree(s)' <=> InFree(s) \/ s = held
  <2>1. free \in Seq(Slots) /\ NoTwice(free) /\ ~HasSlot(free, held)
    BY <1>1, <1>2, Queues DEF ReaderInv, TypeInv, OwnType, OwnInv
  <2>2. /\ free' \in Seq(Slots) /\ Len(free') = Len(free) + 1 /\ NoTwice(free')
        /\ \A s : HasSlot(free', s) <=> HasSlot(free, s) \/ s = held
    BY <1>1, <2>1, Enqueued
  <2> QED  BY <2>2 DEF HasSlot, InFree
<1>4. OneOwner'
  <2>1. \A s \in Slots : (InReady(s)' <=> InReady(s)) /\ (InCache(s)' <=> InCache(s)) /\ (InReserve(s)' <=> InReserve(s))
    BY <1>1 DEF InReady, InCache, InReserve
  <2>2. \A s \in Slots :
       /\ InFree(s)' => ~InReady(s)' /\ ~InCache(s)' /\ ~InReserve(s)' /\ s # held' /\ s # taken'
       /\ InReady(s)' => ~InCache(s)' /\ ~InReserve(s)' /\ s # held' /\ s # taken'
       /\ InCache(s)' => ~InReserve(s)' /\ s # held' /\ s # taken'
       /\ InReserve(s)' => s # held' /\ s # taken'
       /\ s = held' => s # taken'
    BY <1>1, <1>2, <1>3, <2>1 DEF ReaderInv, OwnInv, OneOwner, Slots
  <2> QED BY <1>1, <1>3, <2>2 DEF ReaderInv, OwnInv, OneOwner, NoTwice
<1>5. Circulate'
  BY <1>1, <1>3 DEF ReaderInv, OwnInv, Circulate, Carried, TypeInv, OwnType
<1>6. ReserveCoversCache'
  BY <1>1 DEF ReaderInv, OwnInv, ReserveCoversCache
<1> QED BY <1>1, <1>3, <1>4, <1>5, <1>6 DEF OwnType, OwnInv, ReaderInv, TypeInv

LEMMA GiveBackStep ==
  ASSUME ReaderInv, GiveBack
  PROVE  ReaderInv'
<1>1. epc = "giveback" /\ UNCHANGED <<lba, mailVars, workVars, ready, cache, cancelled, stopping, sector, sig>>
  BY DEF GiveBack
<1>2. EmuType' /\ CallInv' /\ epc' \notin {"giveback", "take"}
  <2>1. CASE demanding
    <3>1. CopyOrGo("waitready") /\ goal = "fetch"
      BY <2>1 DEF GiveBack, ReaderInv, CallInv
    <3>2. /\ epc' \in {"drain", "waitready"} /\ goal' \in {"fetch", "answered"} /\ demanding' \in {demanding, FALSE}
          /\ got' \in LBAs \cup {Nothing}
          /\ (goal' = "answered" => ~demanding') /\ (goal' # "answered" => got' = Nothing)
      BY <3>1, CopyTyped DEF ReaderInv, EmuPlaces
    <3> QED BY <1>1, <3>2 DEF ReaderInv, TypeInv, EmuType, EmuPlaces, CallInv, mailVars
  <2>2. CASE ~demanding
    <3>1. epc' = "drain" /\ UNCHANGED <<got, goal, demanding>>
      BY <2>2 DEF GiveBack
    <3> QED BY <1>1, <3>1 DEF ReaderInv, TypeInv, EmuType, EmuPlaces, CallInv, mailVars
  <2> QED BY <2>1, <2>2
<1>3. WorkType' /\ MailType' /\ SectorType' /\ ReadInv' /\ DataInv'
  BY <1>1, SameData DEF ReaderInv, TypeInv, WorkType, MailType, SectorType, ReadInv, mailVars, workVars
<1>4. HandInv'
  BY <1>1, <1>2, GivenBack DEF ReaderInv, HandInv, workVars
<1> QED BY <1>2, <1>3, <1>4, GivenBack DEF ReaderInv, TypeInv
-----------------------------------------------------------------------------
\* The worker's steps that move no slot
Looks ==
  \/ LoopHead \/ LoadRequest \/ LoadHint \/ Decide \/ ((Window \/ WaitFree) /\ wpc' # "read")
  \/ PrepareWait \/ RecheckNews \/ WaitReturn

LEMMA LookStep ==
  ASSUME ReaderInv, Looks
  PROVE  ReaderInv'
<1>1. UNCHANGED <<emuVars, requestLba, hintLba, cancelled, stopping, owners, sector>>
  BY DEF Looks, LoopHead, LoadRequest, LoadHint, Decide, Window, WaitFree, TakeFree, NoTake, PrepareWait,
         RecheckNews, WaitReturn, WorkerOnly, emuVars, owners
<1>2. EmuType' /\ CallInv' /\ OwnType' /\ SectorType' /\ OwnInv' /\ DataInv'
  BY <1>1, SameOwners, SameData DEF ReaderInv, TypeInv, EmuType, CallInv, OwnType, SectorType, emuVars, owners
<1>3. MailType'
  BY DEF Looks, LoopHead, LoadRequest, LoadHint, Decide, Window, WaitFree, PrepareWait, RecheckNews,
         WaitReturn, newsVars, MailType, ReaderInv, TypeInv
<1>4. WorkType' /\ ReadInv' /\ wpc # "read" /\ wpc' # "read"
  <2>1. CASE LoopHead \/ LoadRequest \/ LoadHint \/ PrepareWait \/ RecheckNews \/ WaitReturn
    <3>1. wpc' \in WorkPlaces \ {"read", "waitfree"} /\ wpc # "read" /\ UNCHANGED windowVars
      BY <2>1 DEF LoopHead, LoadRequest, LoadHint, PrepareWait, RecheckNews, WaitReturn, WGoto, WorkPlaces,
                  Preparing
    <3>2. sawRequest' \in BOOLEAN /\ sawHint' \in BOOLEAN
      BY <2>1 DEF LoopHead, LoadRequest, LoadHint, PrepareWait, RecheckNews, WaitReturn, newsVars, ReaderInv,
                  TypeInv, WorkType, MailType
    <3> QED BY <3>1, <3>2 DEF ReaderInv, TypeInv, WorkType, ReadInv, windowVars
  <2>2. CASE Decide
    <3>1. wpc = "decide" /\ wpc' = "window" /\ sawRequest' = FALSE /\ sawHint' = FALSE
      BY <2>2 DEF Decide, WGoto
    <3>2. /\ raLba' \in 0..MaxLba + 1 /\ lastReadLba' \in 0..MaxLba + 1 /\ raCount' \in 0..ReadAhead
          /\ demanded' \in BOOLEAN
      <4>1. CASE ServeRequest
        BY <4>1, SizesAssumption DEF ServeRequest, ReaderInv, TypeInv, EmuType, WorkType, LBAs
      <4>2. CASE ServeHint
        BY <4>2, SizesAssumption DEF ServeHint, ReaderInv, TypeInv, EmuType, WorkType, LBAs
      <4>3. CASE NothingNew
        BY <4>3 DEF NothingNew, ReaderInv, TypeInv, WorkType, windowVars
      <4> QED BY <2>2, <4>1, <4>2, <4>3 DEF Decide
    <3> QED BY <3>1, <3>2 DEF WorkType, ReadInv, WorkPlaces
  <2>3. CASE Window /\ wpc' # "read"
    <3>1. UNCHANGED <<sawRequest, sawHint, raLba, lastReadLba, demanded>> /\ wpc = "window"
      BY <2>3 DEF Window, newsVars
    <3>2. /\ wpc' \in {"prepare", "waitfree", "loop"} /\ raCount' \in {raCount, 0}
          /\ (wpc' = "waitfree" => InWindow /\ raCount' = raCount)
      BY <2>3 DEF Window, TakeFree
    <3> QED BY <3>1, <3>2, SizesAssumption DEF ReaderInv, TypeInv, WorkType, ReadInv, WorkPlaces, InWindow
  <2>4. CASE WaitFree /\ wpc' # "read"
    <3>1. wpc = "waitfree" /\ wpc' = "exited" /\ UNCHANGED <<sawRequest, sawHint, windowVars>>
      BY <2>4 DEF WaitFree, TakeFree, newsVars
    <3> QED BY <3>1 DEF ReaderInv, TypeInv, WorkType, ReadInv, WorkPlaces, windowVars
  <2> QED BY <2>1, <2>2, <2>3, <2>4 DEF Looks
<1>5. HandInv'
  BY <1>1, <1>4 DEF ReaderInv, HandInv, emuVars, owners
<1> QED BY <1>2, <1>3, <1>4, <1>5 DEF ReaderInv, TypeInv

\* A slot goes from the free queue to the worker's hand.
LEMMA FreeTaken ==
  ASSUME ReaderInv, (Window \/ WaitFree) /\ wpc' = "read"
  PROVE  ReaderInv'
<1> DEFINE h == Head(free)
<1>1. /\ wpc \in {"window", "waitfree"} /\ TakeFree /\ UNCHANGED <<emuVars, requestLba, hintLba, cancelled, stopping>>
      /\ UNCHANGED <<newsVars, windowVars, ready, sig>>
  BY DEF Window, WaitFree, TakeFree, WorkerOnly, windowVars
<1>2. raLba <= MaxLba /\ raCount > 0
  BY DEF Window, WaitFree, TakeFree, InWindow, ReaderInv, ReadInv
<1>3. /\ free # <<>> /\ taken = Nothing /\ h \in Slots /\ InFree(h) /\ taken' = h /\ h # Nothing
      /\ free' = Tail(free) /\ sector' = [sector EXCEPT ![h].content = Nothing]
      /\ UNCHANGED <<held, cache, reserveCount>>
  <2>1. /\ free # <<>> /\ taken' = h /\ free' = Tail(free)
        /\ sector' = [sector EXCEPT ![h].content = Nothing] /\ UNCHANGED <<held, cache, reserveCount>>
    BY <1>1 DEF TakeFree, emuVars
  <2>2. taken = Nothing
    BY <1>1 DEF ReaderInv, HandInv
  <2>3. free \in Seq(Slots)
    BY DEF ReaderInv, TypeInv, OwnType
  <2>4. h \in Slots /\ HasSlot(free, h)
    BY <2>1, <2>3, AtHead
  <2> HIDE DEF h
  <2>5. InFree(h)
    BY <2>4, Queues
  <2>6. h # Nothing
    BY <2>4, SizesAssumption DEF Slots, Nothing
  <2> QED  BY <2>1, <2>2, <2>4, <2>5, <2>6
<1>4. /\ free' \in Seq(Slots) /\ Len(free') = Len(free) - 1 /\ NoTwice(free')
      /\ \A s : InFree(s)' <=> InFree(s) /\ s # h
  BY <1>3, Dequeued, Queues DEF ReaderInv, TypeInv, OwnType, OwnInv, HasSlot, InFree
<1>5. ~InReady(h) /\ ~InCache(h) /\ ~InReserve(h) /\ h # held
  BY <1>3 DEF ReaderInv, OwnInv, OneOwner
<1>6. OneOwner'
  <2>1. \A s \in Slots : (InReady(s)' <=> InReady(s)) /\ (InCache(s)' <=> InCache(s)) /\ (InReserve(s)' <=> InReserve(s))
    BY <1>1, <1>3 DEF InReady, InCache, InReserve
  <2>2. \A s \in Slots :
       /\ InFree(s)' => ~InReady(s)' /\ ~InCache(s)' /\ ~InReserve(s)' /\ s # held' /\ s # taken'
       /\ InReady(s)' => ~InCache(s)' /\ ~InReserve(s)' /\ s # held' /\ s # taken'
       /\ InCache(s)' => ~InReserve(s)' /\ s # held' /\ s # taken'
       /\ InReserve(s)' => s # held' /\ s # taken'
       /\ s = held' => s # taken'
    BY <1>3, <1>4, <1>5, <2>1 DEF ReaderInv, OwnInv, OneOwner
  <2> QED BY <1>1, <1>3, <1>4, <2>2 DEF ReaderInv, OwnInv, OneOwner, NoTwice
<1>7. Circulate'
  BY <1>1, <1>3, <1>4 DEF ReaderInv, OwnInv, Circulate, Carried, TypeInv, OwnType
<1>8. ReserveCoversCache'
  BY <1>3 DEF ReaderInv, OwnInv, ReserveCoversCache
<1>9. SectorType' /\ \A s \in Slots \ {h} : sector'[s] = sector[s]
  BY <1>3 DEF SectorType, ReaderInv, TypeInv
<1>10. DataInv'
  <2>1. \A s \in Slots : (InReady(s)' \/ InCache(s)') => s # h /\ (InReady(s) \/ InCache(s))
    BY <1>1, <1>3, <1>5 DEF InReady, InCache
  <2> QED BY <1>9, <2>1 DEF ReaderInv, DataInv, WholeAt
<1>11. EmuType' /\ CallInv' /\ MailType' /\ WorkType' /\ ReadInv' /\ HandInv'
  BY <1>1, <1>2, <1>3 DEF ReaderInv, TypeInv, EmuType, CallInv, MailType, WorkType, ReadInv, HandInv, WorkPlaces,
     emuVars, newsVars, windowVars
<1>12. OwnType'
  BY <1>1, <1>3, <1>4 DEF OwnType, ReaderInv, TypeInv
<1> QED BY <1>6, <1>7, <1>8, <1>9, <1>10, <1>11, <1>12 DEF ReaderInv, TypeInv, OwnInv

\* A slot goes from the worker's hand to the ready queue, with the sector or
\* the image's error.
LEMMA SectorFetched ==
  ASSUME ReaderInv, ReadSector
  PROVE  ReaderInv'
<1>1. /\ taken \in Slots /\ taken # Nothing /\ taken' = Nothing /\ ready' = Append(ready, taken)
      /\ wpc = "read" /\ wpc' = "loop"
      /\ UNCHANGED <<emuVars, requestLba, hintLba, cancelled, stopping, newsVars, lastReadLba, free, sig>>
      /\ UNCHANGED <<held, cache, reserveCount>>
  BY Room DEF ReadSector, WGoto, Push, Put, WorkerOnly, ReaderInv, HandInv, TypeInv, OwnType, emuVars
<1>2. raLba \in LBAs /\ raCount > 0
  BY <1>1, SizesAssumption DEF ReaderInv, ReadInv, TypeInv, WorkType, LBAs
<1>3. /\ SectorType' /\ WholeAt(sector'[taken])
      /\ \A s \in Slots \ {taken} : sector'[s] = sector[s]
  <2>1. PICK ok \in BOOLEAN :
          /\ ok \/ raLba \in Flaky
          /\ sector' = [sector EXCEPT ![taken] =
                          [lba |-> raLba, content |-> IF ok THEN raLba ELSE Nothing, ok |-> ok]]
    BY DEF ReadSector, Address
  <2>2. sector'[taken] = [lba |-> raLba, content |-> IF ok THEN raLba ELSE Nothing, ok |-> ok]
    BY <1>1, <2>1 DEF ReaderInv, TypeInv, SectorType
  <2>3. sector'[taken] \in [lba : LBAs \cup {Nothing}, content : LBAs \cup {Nothing}, ok : BOOLEAN]
    BY <1>2, <2>2
  <2>4. SectorType' /\ \A s \in Slots \ {taken} : sector'[s] = sector[s]
    BY <1>1, <2>1, <2>2, <2>3 DEF ReaderInv, TypeInv, SectorType
  <2>5. WholeAt(sector'[taken])
    BY <1>2, <2>1, <2>2 DEF WholeAt
  <2> QED BY <2>4, <2>5
<1>4. ~InFree(taken) /\ ~InReady(taken) /\ ~InCache(taken) /\ ~InReserve(taken) /\ taken # held
  BY <1>1 DEF ReaderInv, OwnInv, OneOwner
<1>5. /\ ready' \in Seq(Slots) /\ Len(ready') = Len(ready) + 1 /\ NoTwice(ready')
      /\ \A s : InReady(s)' <=> InReady(s) \/ s = taken
  <2>1. ready \in Seq(Slots) /\ NoTwice(ready) /\ ~HasSlot(ready, taken)
    BY <1>4, Queues DEF ReaderInv, TypeInv, OwnType, OwnInv
  <2>2. /\ ready' \in Seq(Slots) /\ Len(ready') = Len(ready) + 1 /\ NoTwice(ready')
        /\ \A s : HasSlot(ready', s) <=> HasSlot(ready, s) \/ s = taken
    BY <1>1, <2>1, Enqueued
  <2> QED BY <2>2 DEF HasSlot, InReady
<1>6. \A s \in Slots : (InFree(s)' <=> InFree(s)) /\ (InCache(s)' <=> InCache(s)) /\ (InReserve(s)' <=> InReserve(s))
  BY <1>1 DEF InFree, InCache, InReserve
<1>7. OneOwner'
  <2>1. \A s \in Slots :
       /\ InFree(s)' => ~InReady(s)' /\ ~InCache(s)' /\ ~InReserve(s)' /\ s # held' /\ s # taken'
       /\ InReady(s)' => ~InCache(s)' /\ ~InReserve(s)' /\ s # held' /\ s # taken'
       /\ InCache(s)' => ~InReserve(s)' /\ s # held' /\ s # taken'
       /\ InReserve(s)' => s # held' /\ s # taken'
       /\ s = held' => s # taken'
    BY <1>1, <1>4, <1>5, <1>6 DEF ReaderInv, OwnInv, OneOwner, Slots
  <2> QED BY <1>1, <1>5, <2>1 DEF ReaderInv, OwnInv, OneOwner, NoTwice
<1>8. Circulate' /\ ReserveCoversCache'
  BY <1>1, <1>5 DEF ReaderInv, OwnInv, Circulate, ReserveCoversCache, Carried, TypeInv, OwnType
<1>9. DataInv'
  <2>1. \A s \in Slots : (InReady(s)' \/ InCache(s)') => s = taken \/ InReady(s) \/ InCache(s)
    BY <1>5, <1>6
  <2>2. \A s \in Slots : InReady(s)' \/ InCache(s)' => WholeAt(sector'[s])
    BY <1>3, <2>1 DEF ReaderInv, DataInv
  <2> QED BY <2>2 DEF DataInv, WholeAt
<1>10. raLba' \in 0..MaxLba + 1 /\ raCount' \in 0..ReadAhead /\ demanded' = FALSE
  BY <1>2, SizesAssumption DEF ReadSector, LBAs, ReaderInv, TypeInv, WorkType
<1>11. WorkType' /\ MailType' /\ ReadInv' /\ HandInv'
  <2>1. WorkType' /\ MailType' /\ ReadInv'
    BY <1>1, <1>10 DEF ReaderInv, TypeInv, WorkType, MailType, ReadInv, WorkPlaces, newsVars
  <2>2. HandInv'
    <3>1. ready' # <<>>
      BY <1>5 DEF ReaderInv, TypeInv, OwnType
    <3> QED BY <1>1, <3>1 DEF ReaderInv, HandInv, emuVars
  <2> QED BY <2>1, <2>2
<1>12. EmuType' /\ CallInv' /\ OwnType'
  BY <1>1, <1>5 DEF ReaderInv, TypeInv, EmuType, CallInv, OwnType, emuVars
<1> QED BY <1>3, <1>7, <1>8, <1>9, <1>11, <1>12 DEF ReaderInv, TypeInv, OwnInv
-----------------------------------------------------------------------------
LEMMA Opened ==
  ASSUME ReaderInit
  PROVE  ReaderInv
<1>1. EmuType /\ WorkType /\ MailType /\ HandInv /\ ReadInv /\ CallInv
  <2>1. EmuType /\ CallInv
    <3>1. /\ epc = "idle" /\ goal = "none" /\ lba = 0 /\ requestLba = 0 /\ hintLba = 0 /\ got = Nothing
          /\ demanding = FALSE /\ cancelled = FALSE /\ stopping = FALSE
      BY DEF ReaderInit
    <3>2. 0 \in LBAs
      BY SizesAssumption DEF LBAs
    <3> QED BY <3>1, <3>2 DEF EmuType, EmuPlaces, CallInv
  <2>2. WorkType /\ ReadInv
    <3>1. /\ wpc = "loop" /\ raLba = 0 /\ lastReadLba = MaxLba + 1 /\ raCount = 0
          /\ demanded = FALSE /\ sawRequest = FALSE /\ sawHint = FALSE
      BY DEF ReaderInit
    <3>2. 0 \in 0..MaxLba + 1 /\ MaxLba + 1 \in 0..MaxLba + 1 /\ 0 \in 0..ReadAhead
      BY SizesAssumption
    <3> QED BY <3>1, <3>2 DEF WorkType, WorkPlaces, ReadInv
  <2>3. MailType /\ HandInv
    BY DEF ReaderInit, MailType, HandInv
  <2> QED BY <2>1, <2>2, <2>3
<1>2. SectorType
  BY DEF ReaderInit, SectorType
<1>3. /\ free \in Seq(Slots) /\ Len(free) = Circulating /\ DOMAIN free = 1..Circulating
      /\ \A i \in 1..Circulating : free[i] = i - 1
      /\ ready = <<>> /\ \A i \in Lines : cache[i] = Nothing
  BY SizesAssumption DEF ReaderInit, Slots
<1>4. OwnType
  BY <1>3, SizesAssumption DEF ReaderInit, OwnType
<1>5. \A s \in Slots : ~InReady(s) /\ ~InCache(s) /\ (InFree(s) => s < Circulating)
  BY <1>3, SizesAssumption DEF InReady, InCache, InFree, Slots
<1>6. OneOwner
  <2>1. \A i, j \in DOMAIN free : free[i] = free[j] => i = j
    BY <1>3, SizesAssumption
  <2>2. \A i, j \in DOMAIN ready : ready[i] = ready[j] => i = j
    BY <1>3
  <2>3. \A i, j \in Lines : cache[i] = cache[j] /\ cache[i] # Nothing => i = j
    BY <1>3
  <2>4. held = Nothing /\ taken = Nothing /\ \A s \in Slots : s # Nothing
    BY DEF ReaderInit, Slots
  <2>5. \A s \in Slots : InFree(s) => ~InReserve(s)
    BY <1>5, SizesAssumption DEF InReserve, Slots
  <2> QED BY <1>5, <2>1, <2>2, <2>3, <2>4, <2>5 DEF OneOwner
<1>7. Circulate
  BY <1>3, SizesAssumption DEF ReaderInit, Circulate, Carried
<1>8. ReserveCoversCache
  <2>1. {i \in Lines : cache[i] = Nothing} = Lines
    BY <1>3
  <2>2. Cardinality(Lines) = CacheSize
    BY FS_Interval, SizesAssumption DEF Lines
  <2> QED BY <2>1, <2>2 DEF ReaderInit, ReserveCoversCache
<1>9. DataInv
  BY <1>5 DEF DataInv
<1> QED BY <1>1, <1>2, <1>4, <1>6, <1>7, <1>8, <1>9 DEF ReaderInv, TypeInv, OwnInv

LEMMA NextStep ==
  ASSUME ReaderInv, [ReaderNext]_readerVars
  PROVE  ReaderInv'
<1>1. CASE EmuCalls \/ EmuRuns
  BY <1>1, TalkStep, TakeStep, GiveBackStep DEF EmuCalls, EmuRuns, Talks
<1>2. CASE Worker \/ WaitReturn
  BY <1>2, LookStep, FreeTaken, SectorFetched DEF Worker, Looks
<1>3. CASE Closed \/ UNCHANGED readerVars
  <2>1. UNCHANGED <<emuVars, mailVars, workVars, owners, cancelled, stopping, sector, sig>>
    BY <1>3 DEF Closed, readerVars, owners, emuVars, workVars
  <2>2. OwnInv' /\ DataInv'
    BY <2>1, SameOwners, SameData DEF ReaderInv, owners
  <2> QED BY <2>1, <2>2 DEF ReaderInv, TypeInv, EmuType, WorkType, MailType, OwnType, SectorType, HandInv, ReadInv,
            CallInv, emuVars, mailVars, workVars, owners
<1> QED BY <1>1, <1>2, <1>3 DEF ReaderNext

LEMMA Inductive == ReaderSpec => []ReaderInv
<1>1. ReaderInit => ReaderInv
  BY Opened
<1>2. ReaderInv /\ [ReaderNext]_readerVars => ReaderInv'
  BY NextStep
<1> QED BY <1>1, <1>2, PTL DEF ReaderSpec

\* No slot is lost, invented or shared between the two threads of the
\* reader, and neither queue ever refuses one (cdromif.c lines 14, 69, 170).
THEOREM SlotsConservedHolds == ReaderSpec => []SlotsConserved
<1>1. ReaderInv => SlotsConserved
  BY DEF ReaderInv, OwnInv, SlotsConserved
<1> QED BY <1>1, Inductive, PTL

-----------------------------------------------------------------------------
\* What a caller of the reader sees
asked == <<goal, lba, got>>

LEMMA Unseen ==
  ASSUME UNCHANGED asked
  PROVE  UNCHANGED Service!vars
BY DEF asked, Service!vars

\* CopyOrGo answers the fetch, or nobody sees it.
LEMMA CopySeen ==
  ASSUME ReaderInv, NEW otherwise, CopyOrGo(otherwise), goal = "fetch", UNCHANGED lba
  PROVE  Service!Answer \/ UNCHANGED Service!vars
<1>1. CASE Holds(lba)
  <2>1. /\ goal' = "answered"
        /\ got' = lba \/ (lba \in Flaky /\ got' = Nothing)
    BY <1>1, Copied DEF CopyOrGo, ReaderInv
  <2> QED BY <2>1 DEF Service!Answer, Service!Failed
<1>2. CASE ~Holds(lba)
  BY <1>2, Unseen DEF CopyOrGo, asked
<1> QED BY <1>1, <1>2

LEMMA StepSeen ==
  ASSUME ReaderInv, [ReaderNext]_readerVars
  PROVE  [Service!Next]_(Service!vars)
<1>1. CASE Call
  <2>1. goal = "none" /\ lba' \in LBAs /\ goal' \in {"fetch", "hint"} /\ got' = got
    BY <1>1 DEF Call, Goto, ReaderInv, CallInv
  <2> QED BY <2>1 DEF Service!Next, Service!Ask, Service!vars
<1>2. CASE CallPWOnly
  BY <1>2 DEF CallPWOnly, Goto, ReaderInv, CallInv, Service!vars
<1>3. CASE FastPW
  <2>1. goal = "none" /\ lba \in LBAs /\ got' = got
    BY <1>3 DEF FastPW, ReaderInv, CallInv, TypeInv, EmuType
  <2> QED BY <1>3, <2>1 DEF FastPW, Service!Next, Service!Ask, Service!vars
<1>4. CASE Drain
  <2>1. CASE ready = <<>> /\ goal = "fetch"
    BY <1>4, <2>1, CopySeen DEF Drain, Service!Next
  <2>2. CASE ~(ready = <<>> /\ goal = "fetch")
    BY <1>4, <2>2, Unseen DEF Drain, asked
  <2> QED BY <2>1, <2>2
<1>5. CASE GiveBack
  <2>1. CASE demanding
    BY <1>5, <2>1, CopySeen DEF GiveBack, ReaderInv, CallInv, Service!Next
  <2>2. CASE ~demanding
    BY <1>5, <2>2, Unseen DEF GiveBack, asked
  <2> QED BY <2>1, <2>2
<1>6. CASE HintNotify
  <2>1. goal' = "none" /\ lba' = 0 /\ got' = Nothing /\ goal # "fetch" /\ (goal # "answered" => got = Nothing)
    BY <1>6 DEF HintNotify, Goto, ReaderInv, CallInv
  <2> QED BY <2>1 DEF Service!Next, Service!Done, Service!Failed, Service!vars
<1>7. CASE \/ Take \/ RequestLba \/ RequestSeq \/ RequestNotify \/ WaitReady \/ HintLba \/ HintSeq
           \/ Stop \/ StopNotify \/ CancelQueues \/ Join
  BY <1>7, Unseen DEF Take, RequestLba, RequestSeq, RequestNotify, WaitReady, HintLba, HintSeq, Stop, StopNotify,
                      CancelQueues, Join, cacheVars, asked
<1>8. CASE Worker \/ WaitReturn
  <2>1. UNCHANGED emuVars
    BY <1>8 DEF Worker, LoopHead, LoadRequest, LoadHint, Decide, Window, WaitFree, ReadSector, PrepareWait,
                RecheckNews, WaitReturn, WorkerOnly
  <2> QED BY <2>1, Unseen DEF emuVars, asked
<1>9. CASE Closed \/ UNCHANGED readerVars
  BY <1>9, Unseen DEF Closed, readerVars, emuVars, asked
<1> QED BY <1>1, <1>2, <1>3, <1>4, <1>5, <1>6, <1>7, <1>8, <1>9 DEF ReaderNext, EmuCalls, EmuRuns

\* Every read of the reader is one of the service it promises: what it
\* gives its caller is the sector asked for, or an error of the image
\* (cdromif.c, CDIF_MT_Fetch and CDIF_TakeSector).
THEOREM ReadsReturnTheirSector == ReaderSpec => Service!Init /\ [][Service!Next]_(Service!vars)
<1>1. ReaderInit => Service!Init
  BY DEF ReaderInit, Service!Init, Service!Failed
<1>2. ReaderInv /\ [ReaderNext]_readerVars => [Service!Next]_(Service!vars)
  BY StepSeen
<1> QED BY <1>1, <1>2, Inductive, PTL DEF ReaderSpec
=============================================================================
