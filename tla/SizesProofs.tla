---------------------------- MODULE SizesProofs ----------------------------
(***************************************************************************)
(* Indexes and sizes: an index that is stored is the one the client meant, *)
(* for archives of any length and any number of requests, and the sizes    *)
(* reported and shown are the sums they stand for, for any finite store.   *)
(*                                                                         *)
(* Both rest on sums over finite sets.  SumOver folds a set in an order    *)
(* that CHOOSE picks; the first section shows that the order is of no      *)
(* consequence.  Its inductions are on a set or a number that is minimal   *)
(* among those for which the claim fails (Smallest, Least).                *)
(***************************************************************************)
EXTENDS IndexAssembly, UsageReport, FiniteSetTheorems, WellFoundedInduction, TLAPS

-----------------------------------------------------------------------------
(* Sums. *)

\* Every set of numbers that is not empty has a least element.
LEMMA Least ==
  ASSUME NEW T, T \subseteq Nat, T # {}
  PROVE  \E n \in T : \A m \in T : n <= m
<1>1. PICK n \in T : \A m \in T : <<m, n>> \notin OpToRel(<, Nat)
  BY NatLessThanWellFounded, WFMin
<1>2. \A m \in T : ~(m < n)
  BY <1>1 DEF OpToRel
<1> QED
  BY <1>2

\* Among the finite subsets of a set, every collection that is not empty has a minimal one.
LEMMA Smallest ==
  ASSUME NEW S, IsFiniteSet(S), NEW C, C \subseteq SUBSET S, C # {}
  PROVE  \E T \in C : \A U \in C : U \subseteq T => U = T
<1>1. IsWellFoundedOn(StrictSubsetOrdering(S), SUBSET S)
  BY FS_StrictSubsetOrderingWellFounded, FS_FiniteSubsetsOfFinite
<1>2. PICK T \in C : \A U \in C : <<U, T>> \notin StrictSubsetOrdering(S)
  BY <1>1, WFMin
<1> QED
  BY <1>2 DEF StrictSubsetOrdering

\* The fold takes Some(s) out of s first; g is the function it defines by recursion.
Some(s) == CHOOSE x \in s : TRUE
Rec(f, g, s) == IF s = {} THEN 0 ELSE f[Some(s)] + g[s \ {Some(s)}]
IsSum(g, f, S) == g = [s \in SUBSET S |-> Rec(f, g, s)]

LEMMA SumDef ==
  ASSUME NEW f, NEW S
  PROVE  SumOver(f, S) = (CHOOSE g : IsSum(g, f, S))[S]
BY DEF SumOver, MapThenSumSet, MapThenFoldSet, IsSum, Rec, Some

\* There is something to add up.
Sized(f, S) == IsFiniteSet(S) /\ \A x \in S : f[x] \in Nat

\* The recursion, for the subsets of at most n elements.
Upto(S, n) == {s \in SUBSET S : Cardinality(s) <= n}

Partial(f, S, n) == \E g : g = [s \in Upto(S, n) |-> Rec(f, g, s)]

LEMMA SomeIn == ASSUME NEW s, s # {} PROVE Some(s) \in s
BY DEF Some

\* Solutions for the subsets of at most n elements extend to those of n + 1.
LEMMA PartialStep ==
  ASSUME NEW f, NEW S, IsFiniteSet(S), NEW n \in Nat, Partial(f, S, n)
  PROVE  Partial(f, S, n + 1)
<1>1. PICK g : g = [s \in Upto(S, n) |-> Rec(f, g, s)]
  BY DEF Partial
<1> DEFINE h == [s \in Upto(S, n + 1) |-> Rec(f, g, s)]
<1>2. \A s \in SUBSET S : IsFiniteSet(s) /\ Cardinality(s) \in Nat
  BY FS_Subset, FS_CardinalityType
<1>3. Upto(S, n) \subseteq Upto(S, n + 1)
  BY <1>2 DEF Upto
<1>4. ASSUME NEW s \in Upto(S, n + 1) PROVE Rec(f, g, s) = Rec(f, h, s)
  <2>1. CASE s = {}
    BY <2>1 DEF Rec
  <2>2. CASE s # {}
    <3> DEFINE t == s \ {Some(s)}
    <3>1. s \in SUBSET S /\ IsFiniteSet(s) /\ Some(s) \in s /\ Cardinality(s) <= n + 1
      BY <1>2, <2>2, SomeIn DEF Upto
    <3>2. Cardinality(t) = Cardinality(s) - 1
      BY <3>1, FS_RemoveElement
    <3>3. t \in Upto(S, n)
      BY <1>2, <3>1, <3>2 DEF Upto
    <3>4. g[t] = Rec(f, g, t)
      BY <1>1, <3>3
    <3>5. h[t] = Rec(f, g, t)
      BY <1>3, <3>3
    <3> HIDE DEF h
    <3> QED
      BY <2>2, <3>4, <3>5 DEF Rec
  <2> QED
    BY <2>1, <2>2
<1>5. h = [s \in Upto(S, n + 1) |-> Rec(f, h, s)]
  <2> HIDE DEF h
  <2>1. h = [s \in Upto(S, n + 1) |-> Rec(f, g, s)]
    BY DEF h
  <2> QED
    BY <1>4, <2>1
<1> QED
  BY <1>5 DEF Partial

\* The recursion defines a function, because the set is finite.
LEMMA SumExists ==
  ASSUME NEW f, NEW S, IsFiniteSet(S)
  PROVE  \E g : IsSum(g, f, S)
<1> DEFINE C == {n \in Nat : ~Partial(f, S, n)}
<1>1. \A s \in SUBSET S : /\ IsFiniteSet(s) /\ Cardinality(s) \in Nat
                          /\ Cardinality(s) <= Cardinality(S)
  BY FS_Subset, FS_CardinalityType
<1>2. Partial(f, S, 0)
  <2>1. Upto(S, 0) = {{}}
    BY <1>1, FS_EmptySet DEF Upto
  <2> DEFINE g == [s \in {{}} |-> 0]
  <2>2. \A s \in {{}} : Rec(f, g, s) = 0
    BY DEF Rec
  <2>3. g = [s \in {{}} |-> Rec(f, g, s)]
    BY <2>2
  <2> QED
    BY <2>1, <2>3 DEF Partial
<1>3. C = {}
  <2> SUFFICES ASSUME C # {} PROVE FALSE
    OBVIOUS
  <2>1. PICK n \in C : \A m \in C : n <= m
    BY Least
  <2>2. n \in Nat /\ n # 0 /\ n - 1 \in Nat
    BY <1>2, <2>1
  <2>3. Partial(f, S, n - 1)
    BY <2>1, <2>2
  <2>4. Partial(f, S, (n - 1) + 1)
    BY <2>2, <2>3, PartialStep
  <2> QED
    BY <2>1, <2>2, <2>4
<1>4. Cardinality(S) \in Nat
  BY FS_CardinalityType
<1>5. Upto(S, Cardinality(S)) = SUBSET S
  BY <1>1, <1>4 DEF Upto
<1>6. Partial(f, S, Cardinality(S))
  BY <1>3, <1>4
<1> QED
  BY <1>5, <1>6 DEF Partial, IsSum

\* There is one sum only, and the sum over a set is made of those over its subsets.
LEMMA SumUnique ==
  ASSUME NEW f, NEW S, IsFiniteSet(S), NEW T \in SUBSET S,
         NEW g, IsSum(g, f, S), NEW h, IsSum(h, f, T)
  PROVE  g[T] = h[T]
<1> DEFINE C == {s \in SUBSET T : g[s] # h[s]}
<1>1. C = {}
  <2> SUFFICES ASSUME C # {} PROVE FALSE
    OBVIOUS
  <2>1. IsFiniteSet(T)
    BY FS_Subset
  <2>2. PICK s \in C : \A t \in C : t \subseteq s => t = s
    <3>1. C \subseteq SUBSET T
      OBVIOUS
    <3> HIDE DEF C
    <3> QED
      BY <2>1, <3>1, Smallest
  <2>3. s \in SUBSET T /\ s \in SUBSET S /\ g[s] # h[s]
    BY <2>2
  <2>4. g[s] = Rec(f, g, s) /\ h[s] = Rec(f, h, s)
    BY <2>3 DEF IsSum
  <2>5. s # {}
    BY <2>3, <2>4 DEF Rec
  <2>6. g[s \ {Some(s)}] = h[s \ {Some(s)}]
    BY <2>2, <2>3, <2>5, SomeIn
  <2> QED
    BY <2>3, <2>4, <2>5, <2>6 DEF Rec
<1> QED
  BY <1>1

LEMMA SumSome ==
  ASSUME NEW f, NEW S, IsFiniteSet(S)
  PROVE  /\ S = {} => SumOver(f, S) = 0
         /\ S # {} => SumOver(f, S) = f[Some(S)] + SumOver(f, S \ {Some(S)})
<1> DEFINE g == CHOOSE g : IsSum(g, f, S)
           T == S \ {Some(S)}
           h == CHOOSE h : IsSum(h, f, T)
<1>1. IsSum(g, f, S)
  BY SumExists
<1>2. IsFiniteSet(T) /\ IsSum(h, f, T)
  BY SumExists, FS_RemoveElement
<1>3. g[S] = SumOver(f, S) /\ h[T] = SumOver(f, T)
  BY SumDef
<1>4. g[S] = Rec(f, g, S)
  <2> HIDE DEF g
  <2> QED
    BY <1>1 DEF IsSum
<1>5. g[T] = h[T]
  <2> HIDE DEF g, h
  <2> QED
    BY <1>1, <1>2, SumUnique
<1> HIDE DEF g, h
<1> QED
  BY <1>3, <1>4, <1>5 DEF Rec

LEMMA SumNat ==
  ASSUME NEW f, NEW S, Sized(f, S)
  PROVE  SumOver(f, S) \in Nat
<1> DEFINE C == {s \in SUBSET S : SumOver(f, s) \notin Nat}
<1>1. C = {}
  <2> SUFFICES ASSUME C # {} PROVE FALSE
    OBVIOUS
  <2>1. IsFiniteSet(S)
    BY DEF Sized
  <2>2. PICK s \in C : \A t \in C : t \subseteq s => t = s
    <3>1. C \subseteq SUBSET S
      OBVIOUS
    <3> HIDE DEF C
    <3> QED
      BY <2>1, <3>1, Smallest
  <2>3. s \in SUBSET S /\ SumOver(f, s) \notin Nat /\ IsFiniteSet(s)
    BY <2>1, <2>2, FS_Subset
  <2>4. s # {}
    <3>1. s = {} => SumOver(f, s) = 0
      BY <2>3, SumSome
    <3> QED
      BY <2>3, <3>1
  <2>5. Some(s) \in s /\ f[Some(s)] \in Nat
    BY <2>3, <2>4, SomeIn DEF Sized
  <2>6. SumOver(f, s \ {Some(s)}) \in Nat
    BY <2>2, <2>3, <2>5
  <2> QED
    BY <2>3, <2>4, <2>5, <2>6, SumSome
<1> QED
  BY <1>1

\* Whichever element is taken out of the set.
LEMMA SumTake ==
  ASSUME NEW f, NEW S, Sized(f, S), NEW x \in S
  PROVE  SumOver(f, S) = f[x] + SumOver(f, S \ {x})
<1> DEFINE C == {s \in SUBSET S : \E y \in s : SumOver(f, s) # f[y] + SumOver(f, s \ {y})}
<1>1. C = {}
  <2> SUFFICES ASSUME C # {} PROVE FALSE
    OBVIOUS
  <2>1. IsFiniteSet(S)
    BY DEF Sized
  <2>2. PICK s \in C : \A t \in C : t \subseteq s => t = s
    <3>1. C \subseteq SUBSET S
      OBVIOUS
    <3> HIDE DEF C
    <3> QED
      BY <2>1, <3>1, Smallest
  <2>3. s \in SUBSET S /\ IsFiniteSet(s)
    BY <2>1, <2>2, FS_Subset
  <2>4. PICK y \in s : SumOver(f, s) # f[y] + SumOver(f, s \ {y})
    BY <2>2
  <2>5. PICK p \in s : p = Some(s) /\ SumOver(f, s) = f[p] + SumOver(f, s \ {p})
    BY <2>3, <2>4, SomeIn, SumSome
  <2>6. y # p
    BY <2>4, <2>5
  <2>7. s \ {p} \notin C /\ s \ {y} \notin C
    BY <2>2, <2>4, <2>5
  <2>8. SumOver(f, s \ {p}) = f[y] + SumOver(f, (s \ {p}) \ {y})
    BY <2>3, <2>4, <2>6, <2>7
  <2>9. SumOver(f, s \ {y}) = f[p] + SumOver(f, (s \ {y}) \ {p})
    BY <2>3, <2>5, <2>6, <2>7
  <2>10. (s \ {y}) \ {p} = (s \ {p}) \ {y}
    OBVIOUS
  <2>11. Sized(f, (s \ {p}) \ {y})
    BY <2>3, FS_RemoveElement DEF Sized
  <2>12. SumOver(f, (s \ {p}) \ {y}) \in Nat /\ f[p] \in Nat /\ f[y] \in Nat
    BY <2>3, <2>11, SumNat DEF Sized
  <2> DEFINE r == SumOver(f, (s \ {p}) \ {y})
  <2>13. /\ SumOver(f, s) = f[p] + SumOver(f, s \ {p}) /\ SumOver(f, s \ {p}) = f[y] + r
         /\ SumOver(f, s \ {y}) = f[p] + r /\ r \in Nat
    BY <2>5, <2>8, <2>9, <2>10, <2>12
  <2> HIDE DEF r, C
  <2>14. SumOver(f, s) = f[p] + (f[y] + r) /\ f[y] + SumOver(f, s \ {y}) = f[y] + (f[p] + r)
    BY <2>13
  <2>15. f[p] + (f[y] + r) = f[y] + (f[p] + r)
    BY <2>12, <2>13
  <2> QED
    BY <2>4, <2>14, <2>15
<1> QED
  BY <1>1

\* Only the sizes of the elements count.
LEMMA SumSame ==
  ASSUME NEW f, NEW g, NEW S, IsFiniteSet(S), \A x \in S : f[x] = g[x]
  PROVE  SumOver(f, S) = SumOver(g, S)
<1> DEFINE C == {s \in SUBSET S : SumOver(f, s) # SumOver(g, s)}
<1>1. C = {}
  <2> SUFFICES ASSUME C # {} PROVE FALSE
    OBVIOUS
  <2>1. PICK s \in C : \A t \in C : t \subseteq s => t = s
    <3>1. C \subseteq SUBSET S
      OBVIOUS
    <3> HIDE DEF C
    <3> QED
      BY <3>1, Smallest
  <2>2. s \in SUBSET S /\ IsFiniteSet(s)
    BY <2>1, FS_Subset
  <2>3. s # {}
    BY <2>1, <2>2, SumSome
  <2>4. PICK p \in s : p = Some(s)
    BY <2>3, SomeIn
  <2>5. SumOver(f, s \ {p}) = SumOver(g, s \ {p}) /\ f[p] = g[p]
    BY <2>1, <2>2, <2>4
  <2> QED
    BY <2>1, <2>2, <2>3, <2>4, <2>5, SumSome
<1> QED
  BY <1>1

LEMMA SumAdd ==
  ASSUME NEW f, NEW S, NEW x, x \notin S, Sized(f, S), f[x] \in Nat
  PROVE  SumOver(f, S \cup {x}) = f[x] + SumOver(f, S)
<1>1. (S \cup {x}) \ {x} = S
  OBVIOUS
<1>2. Sized(f, S \cup {x})
  BY FS_AddElement DEF Sized
<1> QED
  BY <1>1, <1>2, SumTake

-----------------------------------------------------------------------------
(* The report. *)

\* What the loops of the collector have counted so far.
CountedArchives == IF stage = "archives" THEN Marked \ todo ELSE Marked
CountedChunks   == CASE stage = "archives" -> {} [] stage = "chunks" -> Known \ todo
                     [] OTHER -> Known

ConfigOK ==
  /\ refs \in [Index -> SUBSET Chunk] /\ late \subseteq Snap /\ mode \in Modes
  /\ stage = "archives" => todo \subseteq Marked
  /\ stage = "chunks" => todo \subseteq Known

ReportOK ==
  /\ DOMAIN usage = {Owner[i] : i \in CountedArchives}
  /\ total = SumOver(Bytes, CountedChunks)
  /\ \A s \in DOMAIN usage :
       /\ usage[s] \in [Modes -> Nat]
       /\ usage[s].logical    = SumOver(Logical, {i \in CountedArchives : Owner[i] = s})
       /\ usage[s].referenced = SumOver(Bytes, Content({s}) \cap CountedChunks)
       /\ usage[s].exclusive  = SumOver(Bytes, Freed(s) \cap CountedChunks)

\* What the snapshots hold alone, together.
Shares == SumOver([s \in DOMAIN usage |-> usage[s].exclusive], DOMAIN usage)

\* Jobs are with the pools as long as these run; then the sizes are added up.
Added == [s \in Snap |-> SumOver(found, Archives(s))]

PoolOK ==
  /\ busy \in [Worker -> SUBSET (Index \cup Snap)] /\ jobs \subseteq Index \cup Snap
  /\ found \in [Index -> Nat]
  /\ stage \notin {"crypt", "sizes"} => Waited
  /\ stage \in {"report", "plain"} => size = Added
  /\ stage = "shown" => size = [s \in Snap |-> IF s \in DOMAIN usage THEN usage[s][mode] ELSE Added[s]]

UsageInv == UsageTypeOK /\ ConfigOK /\ ReportOK /\ Shares <= total /\ PoolOK

LEMMA UsageStart == UsageInit => UsageInv
<1> SUFFICES ASSUME UsageInit PROVE UsageInv
  OBVIOUS
<1>1. CountedArchives = {} /\ CountedChunks = {}
  BY DEF UsageInit, CountedArchives, CountedChunks
<1>2. DOMAIN usage = {}
  BY DEF UsageInit
<1>3. SumOver(Bytes, {}) = 0 /\ Shares = 0
  BY <1>2, SumSome, FS_EmptySet DEF Shares
<1>4. UsageTypeOK
  BY <1>2, FS_EmptySet DEF UsageInit, UsageTypeOK
<1>5. ConfigOK /\ PoolOK
  BY DEF UsageInit, ConfigOK, PoolOK, Waited
<1>6. ReportOK
  BY <1>1, <1>2, <1>3 DEF UsageInit, ReportOK
<1>7. Shares <= total
  BY <1>3 DEF UsageInit
<1> QED
  BY <1>4, <1>5, <1>6, <1>7 DEF UsageInv

LEMMA Sizable ==
  /\ \A S : S \subseteq Chunk => Sized(Bytes, S)
  /\ \A S : S \subseteq Index => Sized(Logical, S)
BY UsageAssumption, FS_Subset DEF Sized

\* What the loops find out about a chunk, in terms of the snapshots.
LEMMA WhoHolds ==
  ASSUME ConfigOK
  PROVE  /\ Marked \subseteq Index /\ Known \subseteq Chunk /\ Content(Retained) = Known
         /\ \A i \in Marked : Owner[i] \in Retained
         /\ \A s \in Retained : Archives(s) = {i \in Marked : Owner[i] = s}
         /\ \A c \in Chunk : Owners(c) \subseteq {Owner[i] : i \in Marked}
         /\ \A s \in Retained : Content({s}) \subseteq Known /\ Freed(s) \subseteq Known
         /\ \A c \in Known, s \in Retained : c \in Content({s}) <=> s \in Owners(c)
         /\ \A c \in Known, s \in Retained : c \in Freed(s) <=> Owners(c) = {s}
<1>1. refs \in [Index -> SUBSET Chunk] /\ late \subseteq Snap /\ Owner \in [Index -> Snap]
  BY UsageAssumption DEF ConfigOK
<1>2. Marked \subseteq Index /\ Known \subseteq Chunk /\ \A i \in Marked : Owner[i] \in Retained
  BY <1>1 DEF Marked, Known, Retained
<1>3. Content(Retained) = Known
  BY <1>1, <1>2 DEF Content, Known
<1>4. \A s \in Retained : Archives(s) = {i \in Marked : Owner[i] = s}
  BY <1>1 DEF Archives, Marked, Retained
<1>5. \A c \in Chunk : Owners(c) \subseteq {Owner[i] : i \in Marked}
  BY DEF Owners
<1>6. ASSUME NEW S, S \subseteq Retained, NEW c
      PROVE  c \in Content(S) <=> \E i \in Marked : Owner[i] \in S /\ c \in refs[i]
  BY <1>6 DEF Content
<1>7. ASSUME NEW s, NEW c
      PROVE  s \in Owners(c) <=> \E i \in Marked : Owner[i] = s /\ c \in refs[i]
  BY DEF Owners
<1>8. \A s \in Retained : Content({s}) \subseteq Known /\ Freed(s) \subseteq Known
  BY <1>1, <1>2, <1>3, <1>6 DEF Freed, Known
<1>9. \A c \in Known, s \in Retained : c \in Content({s}) <=> s \in Owners(c)
  BY <1>6, <1>7
<1>10. ASSUME NEW c \in Known, NEW s \in Retained PROVE c \in Freed(s) <=> Owners(c) = {s}
  <2>1. c \in Freed(s) <=> c \notin Content(Retained \ {s})
    BY <1>3 DEF Freed
  <2>2. c \in Content(Retained \ {s}) <=> \E t \in Owners(c) : t # s
    BY <1>2, <1>6, <1>7
  <2>3. Owners(c) # {}
    BY <1>7 DEF Known
  <2> QED
    BY <2>1, <2>2, <2>3
<1> QED
  BY <1>2, <1>3, <1>4, <1>5, <1>8, <1>9, <1>10

\* Steps that count nothing.
LEMMA CountsKept ==
  ASSUME UsageInv, UNCHANGED <<config, usage, total>>,
         CountedArchives' = CountedArchives, CountedChunks' = CountedChunks
  PROVE  ReportOK' /\ (Shares <= total)'
<1>1. UNCHANGED <<refs, late, mode, options, usage, total>>
  BY DEF config
<1>2. \A s : Content({s})' = Content({s}) /\ Freed(s)' = Freed(s)
  BY <1>1 DEF Content, Freed, Retained, Marked
<1>3. ReportOK'
  BY <1>1, <1>2 DEF UsageInv, ReportOK
<1> QED
  BY <1>1, <1>3 DEF UsageInv, Shares

\* Add, figure by figure.
LEMMA AddsUp ==
  ASSUME UsageInv, NEW S, NEW fig, fig \in [Modes -> Nat], usage' = Add(usage, S, fig)
  PROVE  /\ DOMAIN usage' = DOMAIN usage \cup S
         /\ \A s \in DOMAIN usage' : usage'[s] \in [Modes -> Nat]
         /\ \A s \in DOMAIN usage' : s \notin S => usage'[s] = usage[s]
         /\ \A s \in S, m \in Modes :
              usage'[s][m] = IF s \in DOMAIN usage THEN usage[s][m] + fig[m] ELSE fig[m]
<1>1. Nothing \in [Modes -> Nat] /\ \A m \in Modes : Nothing[m] = 0
  BY DEF Nothing, Modes
<1>2. \A s : Get(usage, s) \in [Modes -> Nat]
  BY <1>1 DEF Get, UsageInv, ReportOK
<1>3. \A s \in DOMAIN usage \cup S :
        usage'[s] = IF s \in S THEN [m \in Modes |-> Get(usage, s)[m] + fig[m]] ELSE usage[s]
  BY DEF Add
<1>4. DOMAIN usage' = DOMAIN usage \cup S
  BY DEF Add
<1>5. \A s \in S, m \in Modes : usage'[s][m] = Get(usage, s)[m] + fig[m]
  BY <1>3
<1>6. \A s \in S, m \in Modes : Get(usage, s)[m] = IF s \in DOMAIN usage THEN usage[s][m] ELSE 0
  BY <1>1 DEF Get
<1>7. ASSUME NEW s \in DOMAIN usage' PROVE usage'[s] \in [Modes -> Nat]
  <2>1. \A m \in Modes : Get(usage, s)[m] + fig[m] \in Nat
    BY <1>2
  <2>2. s \in S => usage'[s] = [m \in Modes |-> Get(usage, s)[m] + fig[m]]
    BY <1>3
  <2>3. s \notin S => s \in DOMAIN usage /\ usage'[s] = usage[s]
    BY <1>3, <1>4
  <2> QED
    BY <2>1, <2>2, <2>3 DEF UsageInv, ReportOK
<1>8. \A s \in DOMAIN usage' : s \notin S => usage'[s] = usage[s]
  BY <1>3, <1>4
<1>9. ASSUME NEW s \in S, NEW m \in Modes
      PROVE  usage'[s][m] = IF s \in DOMAIN usage THEN usage[s][m] + fig[m] ELSE fig[m]
  <2>1. fig[m] \in Nat
    OBVIOUS
  <2> QED
    BY <1>5, <1>6, <2>1
<1> QED
  BY <1>4, <1>7, <1>8, <1>9

\* Counting leaves the pools alone.
LEMMA PoolKept ==
  ASSUME UsageInv, UNCHANGED <<poolVars, size>>, stage \in {"archives", "chunks"},
         stage' \in {"archives", "chunks", "listed"}
  PROVE  PoolOK'
BY DEF UsageInv, PoolOK, poolVars, Waited

LEMMA CountArchiveInv ==
  ASSUME UsageInv, NEW i \in Index, CountArchive(i)
  PROVE  UsageInv'
<1> DEFINE o == Owner[i]
           fig == [Nothing EXCEPT !.logical = Logical[i]]
<1>1. /\ stage = "archives" /\ stage' = "archives" /\ i \in todo /\ todo' = todo \ {i}
      /\ usage' = Add(usage, {o}, fig)
      /\ UNCHANGED <<refs, late, mode, options, total, jobs, busy, found, crypt, size>>
  BY DEF CountArchive, config, poolVars
<1>2. ConfigOK /\ i \in Marked /\ todo \subseteq Marked
  BY <1>1 DEF UsageInv, ConfigOK
<1>3. ConfigOK'
  BY <1>1, <1>2 DEF ConfigOK, Marked
<1>4. /\ CountedArchives = Marked \ todo /\ CountedArchives' = (Marked \ todo) \cup {i}
      /\ CountedChunks = {} /\ CountedChunks' = {}
  BY <1>1, <1>2 DEF CountedArchives, CountedChunks, Marked
<1>6. fig \in [Modes -> Nat] /\ fig["logical"] = Logical[i] /\ fig["referenced"] = 0
      /\ fig["exclusive"] = 0
  BY UsageAssumption DEF Modes, Nothing
<1>7. /\ DOMAIN usage' = DOMAIN usage \cup {o}
      /\ \A s \in DOMAIN usage' : usage'[s] \in [Modes -> Nat]
      /\ \A s \in DOMAIN usage \ {o} : usage'[s] = usage[s]
      /\ \A m \in Modes : usage'[o][m] = IF o \in DOMAIN usage THEN usage[o][m] + fig[m] ELSE fig[m]
  <2> DEFINE S == {o}
  <2>1. fig \in [Modes -> Nat] /\ usage' = Add(usage, S, fig)
    BY <1>1, <1>6
  <2> HIDE DEF fig, o, S
  <2>2. /\ DOMAIN usage' = DOMAIN usage \cup S
        /\ \A s \in DOMAIN usage' : usage'[s] \in [Modes -> Nat]
        /\ \A s \in DOMAIN usage' : s \notin S => usage'[s] = usage[s]
        /\ \A s \in S, m \in Modes :
             usage'[s][m] = IF s \in DOMAIN usage THEN usage[s][m] + fig[m] ELSE fig[m]
    BY <2>1, AddsUp
  <2> QED
    BY <2>2 DEF S
<1> HIDE DEF fig
<1>8. o \in Retained /\ o \in Snap
  BY <1>2, WhoHolds DEF Retained
<1>9. UsageTypeOK'
  BY <1>1, <1>7, <1>8 DEF UsageInv, UsageTypeOK, Retained
<1>10. SumOver(Bytes, {}) = 0
  BY SumSome, FS_EmptySet
<1>11. \A s \in DOMAIN usage : usage[s].referenced = 0 /\ usage[s].exclusive = 0
  BY <1>4, <1>10 DEF UsageInv, ReportOK
<1>12. \A s \in DOMAIN usage' : usage'[s].referenced = 0 /\ usage'[s].exclusive = 0
  BY <1>6, <1>7, <1>11 DEF Modes
<1>13. ASSUME NEW s \in DOMAIN usage'
       PROVE  usage'[s].logical = SumOver(Logical, {j \in CountedArchives' : Owner[j] = s})
  <2> DEFINE J == {j \in Marked \ todo : Owner[j] = s}
             J1 == {j \in CountedArchives' : Owner[j] = s}
  <2>1. ASSUME s # o PROVE usage'[s].logical = SumOver(Logical, J1)
    <3>1. J1 = J
      BY <1>4, <2>1
    <3> QED
      BY <1>4, <1>7, <2>1, <3>1 DEF UsageInv, ReportOK
  <2>2. ASSUME s = o PROVE usage'[s].logical = SumOver(Logical, J1)
    <3>1. J1 = J \cup {i} /\ i \notin J /\ J \subseteq Index
      BY <1>1, <1>4, <2>2 DEF Marked
    <3>2. SumOver(Logical, J \cup {i}) = Logical[i] + SumOver(Logical, J) /\ SumOver(Logical, J) \in Nat
      <4>1. Sized(Logical, J) /\ Logical[i] \in Nat
        BY <3>1, Sizable, UsageAssumption
      <4> HIDE DEF J
      <4> QED
        BY <3>1, <4>1, SumAdd, SumNat
    <3>3. CASE o \in DOMAIN usage
      <4>1. usage[o].logical = SumOver(Logical, J)
        BY <1>4, <2>2, <3>3 DEF UsageInv, ReportOK
      <4>2. usage'[o].logical = usage[o].logical + Logical[i]
        BY <1>6, <1>7, <3>3 DEF Modes
      <4>3. Logical[i] \in Nat
        BY UsageAssumption
      <4> HIDE DEF J, J1, o
      <4> QED
        BY <2>2, <3>1, <3>2, <4>1, <4>2, <4>3
    <3>4. CASE o \notin DOMAIN usage
      <4>1. J = {}
        BY <1>4, <2>2, <3>4 DEF UsageInv, ReportOK
      <4>2. SumOver(Logical, J) = 0
        BY <4>1, SumSome, FS_EmptySet
      <4>3. usage'[o].logical = Logical[i] /\ Logical[i] \in Nat
        BY <1>6, <1>7, <3>4, UsageAssumption DEF Modes
      <4> HIDE DEF J, J1, o
      <4> QED
        BY <2>2, <3>1, <3>2, <4>2, <4>3
    <3> QED
      BY <3>3, <3>4
  <2> HIDE DEF J1
  <2>3. usage'[s].logical = SumOver(Logical, J1)
    BY <2>1, <2>2
  <2> QED
    BY <2>3 DEF J1
<1>14. ReportOK'
  <2>1. DOMAIN usage' = {Owner[j] : j \in CountedArchives'}
    BY <1>4, <1>7 DEF UsageInv, ReportOK
  <2>2. total' = SumOver(Bytes, CountedChunks')
    BY <1>1, <1>4 DEF UsageInv, ReportOK
  <2> QED
    BY <1>4, <1>7, <1>10, <1>12, <1>13, <2>1, <2>2 DEF ReportOK
<1>15. (Shares <= total)'
  <2> DEFINE D == DOMAIN usage
             D1 == D \cup {o}
             f == [s \in D |-> usage[s].exclusive]
             g == [s \in D1 |-> usage'[s].exclusive]
  <2>1. D1 \subseteq Snap /\ IsFiniteSet(D1) /\ IsFiniteSet(D \ {o})
    BY <1>8, UsageAssumption, FS_Subset DEF UsageInv, UsageTypeOK, Retained
  <2>2. \A s \in D1 : g[s] = 0
    BY <1>7, <1>12
  <2>3. Sized(g, D1)
    BY <2>1, <2>2 DEF Sized
  <2>4. \A s \in D : f[s] = 0
    BY <1>11
  <2>5. CASE o \in D
    <3>1. D1 = D /\ \A s \in D : g[s] = f[s]
      BY <2>2, <2>4, <2>5
    <3>2. SumOver(g, D1) = SumOver(f, D)
      <4> HIDE DEF f, g, D, D1
      <4> QED
        BY <2>1, <3>1, SumSame
    <3> QED
      BY <1>1, <1>7, <3>2 DEF UsageInv, Shares
  <2>6. CASE o \notin D
    <3>1. D1 \ {o} = D
      BY <2>6
    <3>2. SumOver(g, D1) = g[o] + SumOver(g, D1 \ {o})
      <4> HIDE DEF f, g
      <4> QED
        BY <2>3, SumTake
    <3>3. IsFiniteSet(D) /\ \A s \in D : g[s] = f[s]
      BY <2>1, <2>2, <2>4, <3>1
    <3>4. SumOver(g, D) = SumOver(f, D) /\ g[o] = 0
      <4>1. g[o] = 0
        BY <2>2
      <4> HIDE DEF f, g, D
      <4> QED
        BY <3>3, <4>1, SumSame
    <3>5. SumOver(f, D) \in Nat
      <4>1. Sized(f, D)
        BY <2>4, <3>3 DEF Sized
      <4> HIDE DEF f, D
      <4> QED
        BY <4>1, SumNat
    <3>6. SumOver(g, D1) = SumOver(f, D)
      BY <3>1, <3>2, <3>4, <3>5
    <3> QED
      BY <1>1, <1>7, <3>6 DEF UsageInv, Shares
  <2> QED
    BY <2>5, <2>6
<1>16. PoolOK'
  BY <1>1, PoolKept DEF poolVars
<1> QED
  BY <1>3, <1>9, <1>14, <1>15, <1>16 DEF UsageInv

LEMMA CountChunkInv ==
  ASSUME UsageInv, NEW c \in Chunk, CountChunk(c)
  PROVE  UsageInv'
<1> DEFINE S == Owners(c)
           e == IF OneOwner(c) THEN Bytes[c] ELSE 0
           fig == [Nothing EXCEPT !.referenced = Bytes[c], !.exclusive = e]
           D == DOMAIN usage
           K == Known \ todo
<1>1. /\ stage = "chunks" /\ stage' = "chunks" /\ c \in todo /\ todo' = todo \ {c}
      /\ usage' = Add(usage, S, fig) /\ total' = total + Bytes[c]
      /\ UNCHANGED <<refs, late, mode, options, jobs, busy, found, crypt, size>>
  BY DEF CountChunk, config, poolVars
<1>2. ConfigOK /\ c \in Known /\ todo \subseteq Known /\ c \notin K /\ Bytes[c] \in Nat
  BY <1>1, UsageAssumption DEF UsageInv, ConfigOK
<1>3. ConfigOK'
  BY <1>1, <1>2 DEF ConfigOK, Known, Marked
<1>4. /\ CountedArchives = Marked /\ CountedArchives' = Marked
      /\ CountedChunks = K /\ CountedChunks' = K \cup {c}
  BY <1>1, <1>2 DEF CountedArchives, CountedChunks, Marked, Known
<1>5. /\ fig \in [Modes -> Nat] /\ fig["logical"] = 0 /\ fig["referenced"] = Bytes[c]
      /\ fig["exclusive"] = IF OneOwner(c) THEN Bytes[c] ELSE 0
  <2>1. e \in Nat
    BY <1>2
  <2>2. fig["exclusive"] = e
    BY DEF Nothing
  <2> HIDE DEF e
  <2> DEFINE h == [Nothing EXCEPT !.referenced = Bytes[c]]
  <2>3. h \in [Modes -> Nat] /\ fig = [h EXCEPT !.exclusive = e]
    BY <1>2 DEF Modes, Nothing
  <2>4. fig["logical"] = 0 /\ fig["referenced"] = Bytes[c]
    BY DEF Nothing
  <2>5. fig \in [Modes -> Nat]
    <3> HIDE DEF h, fig
    <3> QED
      BY <2>1, <2>3 DEF Modes
  <2> QED
    BY <2>2, <2>4, <2>5 DEF e
<1>6. S \subseteq D /\ D \subseteq Retained /\ D = {Owner[i] : i \in Marked}
  BY <1>2, <1>4, WhoHolds DEF UsageInv, ReportOK, UsageTypeOK
<1>7. /\ DOMAIN usage' = D
      /\ \A s \in D : usage'[s] \in [Modes -> Nat]
      /\ \A s \in D \ S : usage'[s] = usage[s]
      /\ \A s \in S, m \in Modes : usage'[s][m] = usage[s][m] + fig[m]
  <2>1. fig \in [Modes -> Nat] /\ usage' = Add(usage, S, fig)
    BY <1>1, <1>5
  <2> HIDE DEF fig, S
  <2>2. /\ DOMAIN usage' = DOMAIN usage \cup S
        /\ \A s \in DOMAIN usage' : usage'[s] \in [Modes -> Nat]
        /\ \A s \in DOMAIN usage' : s \notin S => usage'[s] = usage[s]
        /\ \A s \in S, m \in Modes :
             usage'[s][m] = IF s \in DOMAIN usage THEN usage[s][m] + fig[m] ELSE fig[m]
    BY <2>1, AddsUp
  <2> QED
    BY <1>6, <2>2
<1>8. OneOwner(c) <=> \E s \in D : S = {s}
  <2>1. IsFiniteSet(S)
    BY <1>6, UsageAssumption, FS_Subset DEF Retained
  <2> QED
    BY <1>6, <2>1, FS_Singleton DEF OneOwner
<1>9. ASSUME NEW s \in D
      PROVE  /\ usage'[s].logical = usage[s].logical
             /\ s \in S => usage'[s].referenced = usage[s].referenced + Bytes[c]
             /\ s \notin S => usage'[s].referenced = usage[s].referenced
             /\ S = {s} => usage'[s].exclusive = usage[s].exclusive + Bytes[c]
             /\ S # {s} => usage'[s].exclusive = usage[s].exclusive
  <2>1. usage[s] \in [Modes -> Nat]
    BY DEF UsageInv, ReportOK
  <2>2. usage[s].logical \in Nat /\ usage[s].referenced \in Nat /\ usage[s].exclusive \in Nat
    BY <2>1 DEF Modes
  <2>3. CASE s \notin S
    BY <1>7, <2>3
  <2>4. CASE s \in S
    <3>1. /\ usage'[s].logical = usage[s].logical + fig["logical"]
          /\ usage'[s].referenced = usage[s].referenced + fig["referenced"]
          /\ usage'[s].exclusive = usage[s].exclusive + fig["exclusive"]
      BY <1>7, <2>4 DEF Modes
    <3>2. OneOwner(c) <=> S = {s}
      BY <1>8, <2>4
    <3> HIDE DEF fig, S
    <3> QED
      BY <1>5, <2>2, <2>4, <3>1, <3>2
  <2> QED
    BY <2>3, <2>4
<1> HIDE DEF fig
<1>10. ASSUME NEW X, X \subseteq Known
       PROVE  /\ c \in X => SumOver(Bytes, X \cap (K \cup {c})) = SumOver(Bytes, X \cap K) + Bytes[c]
              /\ c \notin X => SumOver(Bytes, X \cap (K \cup {c})) = SumOver(Bytes, X \cap K)
  <2> DEFINE Y == X \cap K
  <2>1. Sized(Bytes, Y) /\ c \notin Y
    BY <1>2, Sizable, WhoHolds
  <2>2. c \in X => X \cap (K \cup {c}) = Y \cup {c}
    OBVIOUS
  <2>3. c \notin X => X \cap (K \cup {c}) = Y
    OBVIOUS
  <2> HIDE DEF Y, K
  <2>4. SumOver(Bytes, Y \cup {c}) = Bytes[c] + SumOver(Bytes, Y) /\ SumOver(Bytes, Y) \in Nat
    BY <1>2, <2>1, SumAdd, SumNat
  <2>5. SumOver(Bytes, Y \cup {c}) = SumOver(Bytes, Y) + Bytes[c]
    BY <1>2, <2>4
  <2> QED
    BY <2>2, <2>3, <2>5 DEF Y
<1>11. UsageTypeOK'
  BY <1>1, <1>7 DEF UsageInv, UsageTypeOK, Retained
<1>12. \A s : Content({s})' = Content({s}) /\ Freed(s)' = Freed(s)
  BY <1>1 DEF Content, Freed, Retained, Marked
<1>13. total' = SumOver(Bytes, CountedChunks')
  <2>1. total = SumOver(Bytes, Known \cap K) /\ Known \cap (K \cup {c}) = K \cup {c}
    BY <1>2, <1>4 DEF UsageInv, ReportOK
  <2> HIDE DEF K
  <2> QED
    BY <1>1, <1>2, <1>4, <1>10, <2>1
<1>14. ASSUME NEW s \in D
       PROVE  /\ usage'[s].referenced = SumOver(Bytes, Content({s}) \cap (K \cup {c}))
              /\ usage'[s].exclusive  = SumOver(Bytes, Freed(s) \cap (K \cup {c}))
  <2>1. /\ usage[s].referenced = SumOver(Bytes, Content({s}) \cap K)
        /\ usage[s].exclusive  = SumOver(Bytes, Freed(s) \cap K)
    BY <1>4 DEF UsageInv, ReportOK
  <2>2. /\ Content({s}) \subseteq Known /\ Freed(s) \subseteq Known
        /\ c \in Content({s}) <=> s \in S
        /\ c \in Freed(s) <=> S = {s}
    BY <1>2, <1>6, WhoHolds
  <2>3. /\ s \in S => usage'[s].referenced = usage[s].referenced + Bytes[c]
        /\ s \notin S => usage'[s].referenced = usage[s].referenced
        /\ S = {s} => usage'[s].exclusive = usage[s].exclusive + Bytes[c]
        /\ S # {s} => usage'[s].exclusive = usage[s].exclusive
    BY <1>9
  <2> DEFINE C == Content({s})
             F == Freed(s)
  <2> HIDE DEF K, S, C, F
  <2>4. usage'[s].referenced = SumOver(Bytes, C \cap (K \cup {c}))
    BY <1>10, <2>1, <2>2, <2>3 DEF C
  <2>5. usage'[s].exclusive = SumOver(Bytes, F \cap (K \cup {c}))
    BY <1>10, <2>1, <2>2, <2>3 DEF F
  <2> QED
    BY <2>4, <2>5 DEF C, F
<1>15. ReportOK'
  <2>1. DOMAIN usage' = {Owner[i] : i \in CountedArchives'}
    BY <1>4, <1>6, <1>7
  <2>2. ASSUME NEW s \in D
        PROVE  usage'[s].logical = SumOver(Logical, {i \in CountedArchives' : Owner[i] = s})
    BY <1>4, <1>9 DEF UsageInv, ReportOK
  <2> HIDE DEF K
  <2> QED
    BY <1>4, <1>7, <1>12, <1>13, <1>14, <2>1, <2>2 DEF ReportOK
<1>16. (Shares <= total)'
  <2> DEFINE f == [s \in D |-> usage[s].exclusive]
             g == [s \in D |-> usage'[s].exclusive]
  <2>1. IsFiniteSet(D)
    BY <1>6, UsageAssumption, FS_Subset DEF Retained
  <2>2. \A s \in D : f[s] \in Nat /\ g[s] \in Nat
    BY <1>7 DEF UsageInv, ReportOK, Modes
  <2>3. Sized(f, D) /\ Sized(g, D)
    BY <2>1, <2>2 DEF Sized
  <2>4. SumOver(f, D) \in Nat /\ SumOver(f, D) = Shares /\ SumOver(g, D) = Shares'
    <3>1. SumOver(f, D) = Shares /\ SumOver(g, D) = Shares'
      BY <1>7 DEF Shares
    <3> HIDE DEF f, g, D
    <3> QED
      BY <2>3, <3>1, SumNat
  <2>5. total \in Nat /\ Shares <= total
    <3>1. Sized(Bytes, K)
      BY <1>2, Sizable, WhoHolds
    <3> HIDE DEF K
    <3> QED
      BY <1>4, <3>1, SumNat DEF UsageInv, ReportOK
  <2>6. CASE \E o \in D : S = {o}
    <3>1. PICK o \in D : S = {o}
      BY <2>6
    <3>2. g[o] = f[o] + Bytes[c] /\ \A s \in D \ {o} : g[s] = f[s]
      BY <1>9, <3>1
    <3> HIDE DEF f, g, D
    <3>3. SumOver(g, D) = g[o] + SumOver(g, D \ {o}) /\ SumOver(f, D) = f[o] + SumOver(f, D \ {o})
      BY <2>3, SumTake
    <3>4. IsFiniteSet(D \ {o}) /\ Sized(f, D \ {o})
      BY <2>1, <2>2, FS_RemoveElement DEF Sized
    <3>5. SumOver(g, D \ {o}) = SumOver(f, D \ {o})
      BY <3>2, <3>4, SumSame
    <3>6. SumOver(f, D \ {o}) \in Nat /\ f[o] \in Nat
      BY <2>2, <3>4, SumNat
    <3>7. SumOver(g, D) = SumOver(f, D) + Bytes[c]
      BY <1>2, <3>2, <3>3, <3>5, <3>6
    <3> QED
      BY <1>1, <1>2, <2>4, <2>5, <3>7
  <2>7. CASE ~\E o \in D : S = {o}
    <3>1. \A s \in D : g[s] = f[s]
      BY <1>9, <2>7
    <3> HIDE DEF f, g, D
    <3>2. SumOver(g, D) = SumOver(f, D)
      BY <2>1, <3>1, SumSame
    <3> QED
      BY <1>1, <1>2, <2>4, <2>5, <3>2
  <2> QED
    BY <2>6, <2>7
<1>17. PoolOK'
  BY <1>1, PoolKept DEF poolVars
<1> QED
  BY <1>3, <1>11, <1>15, <1>16, <1>17 DEF UsageInv

LEMMA NextLoopInv ==
  ASSUME UsageInv, NextLoop
  PROVE  UsageInv'
<1>1. UNCHANGED <<refs, late, mode, options, usage, total, jobs, busy, found, crypt, size>>
  BY DEF NextLoop, config, poolVars
<1>2. \/ stage = "archives" /\ todo = {} /\ stage' = "chunks" /\ todo' = Known
      \/ stage = "chunks" /\ todo = {} /\ stage' = "listed" /\ todo' = {}
  BY DEF NextLoop
<1>3. Marked' = Marked /\ Known' = Known
  BY <1>1 DEF Marked, Known
<1>4. CountedArchives' = CountedArchives /\ CountedChunks' = CountedChunks
  <2>1. CASE stage = "archives"
    BY <1>2, <1>3, <2>1 DEF CountedArchives, CountedChunks
  <2>2. CASE stage = "chunks"
    BY <1>2, <1>3, <2>2 DEF CountedArchives, CountedChunks
  <2> QED
    BY <1>2, <2>1, <2>2
<1>5. ReportOK' /\ (Shares <= total)'
  BY <1>1, <1>4, CountsKept DEF config
<1>6. ConfigOK'
  BY <1>1, <1>2, <1>3 DEF UsageInv, ConfigOK
<1>7. UsageTypeOK'
  BY <1>1, <1>2 DEF UsageInv, UsageTypeOK, Retained
<1>8. PoolOK'
  BY <1>1, <1>2, PoolKept DEF poolVars
<1> QED
  BY <1>5, <1>6, <1>7, <1>8 DEF UsageInv

\* The list is made when everything is counted.
Listing == {"listed", "crypt", "sizes", "report", "shown", "plain"}

LEMMA ListKeeps ==
  ASSUME UsageInv, UNCHANGED <<config, reportVars>>, stage \in Listing, stage' \in Listing
  PROVE  ConfigOK' /\ ReportOK' /\ (Shares <= total)'
<1>1. UNCHANGED <<refs, late, mode, options, todo, usage, total>>
  BY DEF config, reportVars
<1>2. CountedArchives' = CountedArchives /\ CountedChunks' = CountedChunks
  BY <1>1 DEF CountedArchives, CountedChunks, Listing, Marked, Known
<1>3. ConfigOK'
  BY <1>1 DEF UsageInv, ConfigOK, Listing
<1> QED
  BY <1>1, <1>2, <1>3, CountsKept

LEMMA StartPoolInv ==
  ASSUME UsageInv, CryptModes \/ ArchiveSizes
  PROVE  UsageInv'
<1>1. /\ stage \in {"listed", "crypt"} /\ stage' \in {"crypt", "sizes"}
      /\ jobs' \subseteq Index \cup Snap
      /\ UNCHANGED <<refs, late, mode, options, todo, usage, total, busy, found, crypt, size>>
  BY DEF CryptModes, ArchiveSizes, StartPool, config, reportVars
<1>2. \A w \in Worker : busy[w] = {}
  BY DEF UsageInv, PoolOK, CryptModes, ArchiveSizes, StartPool, Waited
<1>3. ConfigOK' /\ ReportOK' /\ (Shares <= total)'
  BY <1>1, ListKeeps DEF Listing, config, reportVars
<1>4. UsageTypeOK'
  BY <1>1, <1>2 DEF UsageInv, UsageTypeOK, Retained
<1>5. PoolOK'
  BY <1>1 DEF UsageInv, PoolOK
<1> QED
  BY <1>3, <1>4, <1>5 DEF UsageInv

LEMMA ReceiveInv ==
  ASSUME UsageInv, NEW w \in Worker, NEW j \in jobs, Receive(w, j)
  PROVE  UsageInv'
<1>1. /\ stage \in {"crypt", "sizes"} /\ stage' = stage /\ busy[w] = {}
      /\ jobs' = jobs \ {j} /\ busy' = [busy EXCEPT ![w] = {j}]
      /\ UNCHANGED <<refs, late, mode, options, todo, usage, total, found, crypt, size>>
  BY DEF Receive, config, reportVars
<1>2. /\ busy'[w] = {j} /\ \A v \in Worker : v # w => busy'[v] = busy[v]
      /\ busy' \in [Worker -> SUBSET (Index \cup Snap)]
  BY <1>1 DEF UsageInv, PoolOK
<1>3. ConfigOK' /\ ReportOK' /\ (Shares <= total)'
  BY <1>1, ListKeeps DEF Listing, config, reportVars
<1>4. UsageTypeOK'
  <2>1. \A v \in Worker : v # w => busy'[v] \cap busy'[w] = {}
    BY <1>2 DEF UsageInv, UsageTypeOK
  <2>2. \A v1, v2 \in Worker : v1 # v2 => busy'[v1] \cap busy'[v2] = {}
    BY <1>2, <2>1 DEF UsageInv, UsageTypeOK
  <2>3. Cardinality({j}) <= 1
    BY FS_Singleton
  <2>4. \A v \in Worker : Cardinality(busy'[v]) <= 1 /\ busy'[v] \cap jobs' = {}
    BY <1>1, <1>2, <2>3 DEF UsageInv, UsageTypeOK
  <2> QED
    BY <1>1, <2>2, <2>4 DEF UsageInv, UsageTypeOK, Retained
<1>5. PoolOK'
  BY <1>1, <1>2 DEF UsageInv, PoolOK
<1> QED
  BY <1>3, <1>4, <1>5 DEF UsageInv

LEMMA LookUpInv ==
  ASSUME UsageInv, NEW w \in Worker, NEW ok \in BOOLEAN, LookUp(w, ok)
  PROVE  UsageInv'
<1>1. /\ busy[w] # {} /\ busy' = [busy EXCEPT ![w] = {}] /\ stage' = stage
      /\ found' = [i \in Index |-> IF ok /\ i \in busy[w] THEN Logical[i] ELSE found[i]]
      /\ UNCHANGED <<refs, late, mode, options, todo, usage, total, jobs, size>>
  BY DEF LookUp, config, reportVars
<1>2. stage \in {"crypt", "sizes"}
  BY <1>1 DEF UsageInv, PoolOK, Waited
<1>3. /\ busy'[w] = {} /\ \A v \in Worker : v # w => busy'[v] = busy[v]
      /\ busy' \in [Worker -> SUBSET (Index \cup Snap)]
  BY <1>1 DEF UsageInv, PoolOK
<1>4. ConfigOK' /\ ReportOK' /\ (Shares <= total)'
  BY <1>1, <1>2, ListKeeps DEF Listing, config, reportVars
<1>5. found' \in [Index -> Nat] /\ \A i \in Index : found'[i] \in {0, Logical[i]}
  BY <1>1, UsageAssumption DEF UsageInv, PoolOK, UsageTypeOK
<1>6. UsageTypeOK'
  BY <1>1, <1>3, <1>5, FS_EmptySet DEF UsageInv, UsageTypeOK, Retained
<1>7. PoolOK'
  BY <1>1, <1>2, <1>3, <1>5 DEF UsageInv, PoolOK
<1> QED
  BY <1>4, <1>6, <1>7 DEF UsageInv

LEMMA AddSizesInv ==
  ASSUME UsageInv, AddSizes
  PROVE  UsageInv'
<1>1. /\ stage = "sizes" /\ stage' = "report" /\ Waited /\ size' = Added
      /\ UNCHANGED <<refs, late, mode, options, todo, usage, total, jobs, busy, found, crypt>>
  BY DEF AddSizes, config, reportVars, poolVars, Added
<1>2. ConfigOK' /\ ReportOK' /\ (Shares <= total)'
  BY <1>1, ListKeeps DEF Listing, config, reportVars
<1>3. UsageTypeOK'
  BY <1>1 DEF UsageInv, UsageTypeOK, Retained
<1>4. PoolOK'
  BY <1>1 DEF UsageInv, PoolOK, Waited, Added
<1> QED
  BY <1>2, <1>3, <1>4 DEF UsageInv

LEMMA ApplyModeInv ==
  ASSUME UsageInv, ApplyMode \/ KeepSizes
  PROVE  UsageInv'
<1>1. /\ stage = "report" /\ size = Added /\ Waited
      /\ \/ stage' = "plain" /\ size' = size
         \/ stage' = "shown" /\ size' = [s \in Snap |-> Figure(s)]
      /\ UNCHANGED <<refs, late, mode, options, todo, usage, total, jobs, busy, found, crypt>>
  BY DEF ApplyMode, KeepSizes, config, reportVars, poolVars, UsageInv, PoolOK
<1>2. ConfigOK' /\ ReportOK' /\ (Shares <= total)'
  BY <1>1, ListKeeps DEF Listing, config, reportVars
<1>3. UsageTypeOK'
  BY <1>1 DEF UsageInv, UsageTypeOK, Retained
<1>4. PoolOK'
  <2>1. Added' = Added /\ Waited'
    BY <1>1 DEF Added, Waited
  <2>2. \A s \in Snap : Figure(s) = IF s \in DOMAIN usage THEN usage[s][mode] ELSE Added[s]
    BY <1>1 DEF Figure
  <2> QED
    BY <1>1, <2>1, <2>2 DEF UsageInv, PoolOK
<1> QED
  BY <1>2, <1>3, <1>4 DEF UsageInv

LEMMA UsageStep == UsageInv /\ [UsageNext]_usageVars => UsageInv'
<1> SUFFICES ASSUME UsageInv, [UsageNext]_usageVars PROVE UsageInv'
  OBVIOUS
<1>1. CASE UNCHANGED usageVars
  <2>1. UNCHANGED <<refs, late, mode, options, stage, todo, usage, total, jobs, busy, found, crypt, size>>
    BY <1>1 DEF usageVars, config, reportVars, poolVars
  <2>2. CountedArchives' = CountedArchives /\ CountedChunks' = CountedChunks
    BY <2>1 DEF CountedArchives, CountedChunks, Marked, Known
  <2>3. ReportOK' /\ (Shares <= total)'
    BY <2>1, <2>2, CountsKept DEF config
  <2>4. UsageTypeOK' /\ ConfigOK' /\ PoolOK'
    BY <2>1 DEF UsageInv, UsageTypeOK, Retained, ConfigOK, Marked, Known, PoolOK, Waited, Added
  <2> QED
    BY <2>3, <2>4 DEF UsageInv
<1> QED
  BY <1>1, CountArchiveInv, CountChunkInv, NextLoopInv, AddSizesInv, ReceiveInv, LookUpInv,
     StartPoolInv, ApplyModeInv DEF UsageNext

LEMMA UsageInductive == UsageSpec => []UsageInv
BY UsageStart, UsageStep, PTL DEF UsageSpec

\* Type correctness: a job of the pools is in one place at a time, and the report speaks of
\* snapshots that the collector has seen.
THEOREM UsageTypeCorrect == UsageSpec => []UsageTypeOK
<1>1. UsageInv => UsageTypeOK
  BY DEF UsageInv
<1> QED
  BY <1>1, UsageInductive, PTL

\* For any finite store: whichever indexes share chunks, and in whatever order the
\* collector ranges over its maps, the figures of the report are the sums they stand for,
\* and the exclusive shares together never exceed what is stored.
THEOREM ReportIsExact == UsageSpec => []ReportExact
<1>1. ASSUME UsageInv PROVE ReportExact
  <2> SUFFICES ASSUME stage \notin {"archives", "chunks"}
               PROVE  /\ total = SumOver(Bytes, Content(Retained))
                      /\ \A s \in DOMAIN usage :
                           /\ usage[s].exclusive  = SumOver(Bytes, Freed(s))
                           /\ usage[s].referenced = SumOver(Bytes, Content({s}))
                           /\ usage[s].logical    = SumOver(Logical, Archives(s))
                      /\ Shares <= total
    BY DEF ReportExact, Shares
  <2>1. ConfigOK /\ CountedArchives = Marked /\ CountedChunks = Known
    BY <1>1 DEF UsageInv, CountedArchives, CountedChunks
  <2>2. total = SumOver(Bytes, Content(Retained)) /\ Shares <= total
    BY <1>1, <2>1, WhoHolds DEF UsageInv, ReportOK
  <2>3. ASSUME NEW s \in DOMAIN usage
        PROVE  /\ usage[s].exclusive  = SumOver(Bytes, Freed(s))
               /\ usage[s].referenced = SumOver(Bytes, Content({s}))
               /\ usage[s].logical    = SumOver(Logical, Archives(s))
    <3>1. s \in Retained
      BY <1>1 DEF UsageInv, UsageTypeOK
    <3>2. /\ Content({s}) \cap Known = Content({s}) /\ Freed(s) \cap Known = Freed(s)
          /\ Archives(s) = {i \in Marked : Owner[i] = s}
      BY <2>1, <3>1, WhoHolds
    <3> QED
      BY <1>1, <2>1, <3>2 DEF UsageInv, ReportOK
  <2> QED
    BY <2>2, <2>3
<1> QED
  BY <1>1, UsageInductive, PTL

\* For any number of workers: the size shown for a snapshot is the figure of the selected
\* mode, or the sum of what was looked up; no result of the pool is lost or read early.
THEOREM SizesAreShown == UsageSpec => []SizesShown
<1>1. ASSUME UsageInv PROVE SizesShown
  BY <1>1 DEF UsageInv, PoolOK, SizesShown, ListDone, Added
<1> QED
  BY <1>1, UsageInductive, PTL

-----------------------------------------------------------------------------
(* The index. *)

\* The assignments that the archive consists of.
All == {<<Where(i), image[i]>> : i \in DOMAIN image}

ArchiveOK ==
  /\ image \in IF kind = "dynamic" THEN Streams ELSE Images
  /\ kind = "reuse" => baseSize \in BaseSizes /\ base \in ImagesOf(baseSize)
  /\ kind # "reuse" => baseSize = 0
  /\ handling \in [Handler -> SUBSET All]

\* No assignment is lost between the client and the map, unless two requests wrote it at
\* the same time.
SentOK ==
  Open /\ ~raced =>
    \A i \in DOMAIN image :
      \/ <<Where(i), image[i]>> \in unsent
      \/ \E q \in Handler : <<Where(i), image[i]>> \in handling[q]
      \/ Where(i) \in DOMAIN assigned
      \/ Reused(i)

\* The size in the header of the index.
Header == IF kind = "fixed" THEN DiskSize ELSE baseSize

\* What the entries of an index are, unless two requests wrote the map of an archive
\* whose blocks are not looked up one by one.
Kept(entries) ==
  /\ ~Resized /\ (~raced \/ kind = "fixed") => entries = Expected
  /\ Resized /\ ~raced => \A i \in DOMAIN entries \cap DOMAIN image : entries[i] = image[i]

\* An index is stored with the client's checksum.
ObjectOK ==
  status = "stored" => \E entries : object = IndexObject(entries, Header) /\ Kept(entries)

IndexInv == IndexTypeOK /\ ArchiveOK /\ SentOK /\ ObjectOK

LEMMA Less ==
  ASSUME NEW a \in Nat, NEW b \in Nat, NEW d \in Nat \ {0}
  PROVE  a * d \in Nat /\ (a < b <=> a * d < b * d)
<1>1. ASSUME NEW x \in Nat, NEW y \in Nat, x < y PROVE x * d < y * d
  <2>1. PICK k \in Nat : y = x + k /\ k # 0
    <3>1. y - x \in Nat /\ y = x + (y - x) /\ y - x # 0
      BY <1>1
    <3> QED
      BY <3>1
  <2>2. y * d = x * d + k * d
    BY <2>1
  <2>3. k * d > 0
    BY <2>1
  <2> QED
    BY <2>2, <2>3
<1>2. a * d \in Nat /\ b * d \in Nat
  OBVIOUS
<1>3. a < b => a * d < b * d
  BY <1>1
<1>4. b < a => b * d < a * d
  BY <1>1
<1>5. a = b => a * d = b * d
  OBVIOUS
<1> QED
  BY <1>2, <1>3, <1>4, <1>5

\* The blocks of an image are numbered from 0 without a gap.
LEMMA BlocksAre == Cardinality(Blocks) \in Nat /\ Blocks = 0 .. Cardinality(Blocks) - 1
<1> DEFINE C == {n \in Nat : n * Chunksize >= DiskSize}
<1>1. Chunksize \in Nat \ {0} /\ DiskSize \in Nat
  BY IndexAssumption
<1>2. DiskSize \in C
  <2>1. DiskSize * Chunksize >= DiskSize
    BY <1>1
  <2> QED
    BY <1>1, <2>1
<1>3. PICK n \in C : \A m \in C : n <= m
  <2>1. C \subseteq Nat /\ C # {}
    BY <1>2
  <2> HIDE DEF C
  <2> QED
    BY <2>1, Least
<1>4. n \in Nat /\ n <= DiskSize /\ n * Chunksize >= DiskSize
  BY <1>2, <1>3
<1>5. ASSUME NEW i \in Nat PROVE i * Chunksize < DiskSize <=> i < n
  <2>1. i * Chunksize \in Nat /\ n * Chunksize \in Nat
    BY <1>1, <1>4
  <2>2. CASE i < n
    <3>1. i \notin C
      BY <1>3, <1>4, <2>2
    <3> QED
      BY <1>1, <2>1, <2>2, <3>1
  <2>3. CASE i >= n
    <3>1. i = n \/ n < i
      BY <1>4, <2>3
    <3>2. n * Chunksize <= i * Chunksize
      BY <1>1, <1>4, <2>1, <3>1, Less
    <3> QED
      BY <1>1, <1>4, <2>1, <2>3, <3>2
  <2> QED
    BY <1>4, <2>2, <2>3
<1>6. Blocks = 0 .. n - 1
  <2> HIDE DEF C
  <2> QED
    BY <1>1, <1>4, <1>5 DEF Blocks, BlocksOf
<1>7. Cardinality(0 .. n - 1) = n
  BY <1>4, FS_Interval
<1> QED
  BY <1>4, <1>6, <1>7

-----------------------------------------------------------------------------
(* Offsets. *)

LEMMA ImageOK ==
  ASSUME ArchiveOK
  PROVE  /\ Len(image) \in Nat /\ DOMAIN image = 1 .. Len(image)
         /\ image = [i \in 1 .. Len(image) |-> image[i]]
         /\ \A i \in DOMAIN image : image[i] \in Digest
         /\ kind # "dynamic" => Len(image) = Cardinality(Blocks)
<1>1. CASE kind = "dynamic"
  <2>1. PICK n \in 0 .. MaxChunks : image \in [1 .. n -> Digest]
    BY <1>1 DEF ArchiveOK, Streams
  <2>2. n \in Nat /\ DOMAIN image = 1 .. n /\ image \in Seq(Digest)
    BY <2>1, IndexAssumption
  <2>3. Len(image) = n
    BY <2>2
  <2> QED
    BY <1>1, <2>1, <2>2, <2>3
<1>2. CASE kind # "dynamic"
  <2>1. PICK n \in Nat : n = Cardinality(Blocks) /\ image \in [1 .. n -> Digest]
    BY <1>2, BlocksAre DEF ArchiveOK, Images, ImagesOf, Blocks
  <2>2. DOMAIN image = 1 .. n /\ image \in Seq(Digest)
    BY <2>1
  <2>3. Len(image) = n
    BY <2>2
  <2> QED
    BY <2>1, <2>2, <2>3
<1> QED
  BY <1>1, <1>2

\* A chunk of a stream begins where the one before it ends.
LEMMA StartStep ==
  ASSUME ArchiveOK
  PROVE  /\ Start(1) = 0 /\ \A i \in 1 .. Len(image) + 1 : Start(i) \in Nat
         /\ \A i \in 1 .. Len(image) :
              Start(i + 1) = Start(i) + ChunkSize[image[i]] /\ ChunkSize[image[i]] \in Nat \ {0}
<1> DEFINE f == [j \in DOMAIN image |-> ChunkSize[image[j]]]
           n == Len(image)
<1>1. n \in Nat /\ DOMAIN image = 1 .. n /\ \A i \in 1 .. n : f[i] \in Nat \ {0}
  BY ImageOK, IndexAssumption
<1>2. \A i : Start(i) = SumOver(f, 1 .. i - 1)
  BY DEF Start
<1>3. \A i \in 1 .. n : f[i] = ChunkSize[image[i]]
  BY <1>1
<1> HIDE DEF f, n
<1>4. \A i \in 1 .. n + 1 : Sized(f, 1 .. i - 1)
  BY <1>1, FS_Interval DEF Sized
<1>5. \A i \in 1 .. n + 1 : Start(i) \in Nat
  BY <1>2, <1>4, SumNat
<1>6. Start(1) = 0
  <2>1. 1 .. 1 - 1 = {}
    OBVIOUS
  <2> QED
    BY <1>2, <2>1, SumSome, FS_EmptySet
<1>7. ASSUME NEW i \in 1 .. n PROVE Start(i + 1) = Start(i) + f[i]
  <2> DEFINE S == 1 .. i - 1
             T == 1 .. (i + 1) - 1
  <2>1. T = S \cup {i} /\ i \notin S /\ Sized(f, S) /\ f[i] \in Nat
    BY <1>1, <1>4
  <2>2. Start(i) = SumOver(f, S) /\ Start(i + 1) = SumOver(f, T) /\ Start(i) \in Nat
    <3>1. Start(i) = SumOver(f, S)
      BY <1>2
    <3>2. Start(i + 1) = SumOver(f, T)
      BY <1>2
    <3> QED
      BY <1>1, <1>5, <3>1, <3>2
  <2> HIDE DEF S, T
  <2>3. SumOver(f, S \cup {i}) = f[i] + SumOver(f, S)
    BY <2>1, SumAdd
  <2> QED
    BY <2>1, <2>2, <2>3
<1> QED
  BY <1>1, <1>3, <1>5, <1>6, <1>7 DEF n

LEMMA StartGrows ==
  ASSUME ArchiveOK, NEW i \in 1 .. Len(image) + 1, NEW j \in 1 .. Len(image) + 1, i < j
  PROVE  Start(i) < Start(j)
<1> DEFINE n == Len(image)
           C == {k \in i + 1 .. n + 1 : ~(Start(i) < Start(k))}
<1>1. n \in Nat
  BY ImageOK
<1>2. /\ \A k \in 1 .. n + 1 : Start(k) \in Nat
      /\ \A k \in 1 .. n : Start(k + 1) = Start(k) + ChunkSize[image[k]]
                           /\ ChunkSize[image[k]] \in Nat \ {0}
  BY StartStep
<1> HIDE DEF n
<1>3. ASSUME NEW k \in 1 .. n PROVE Start(k) < Start(k + 1)
  <2> DEFINE d == ChunkSize[image[k]]
  <2>1. Start(k) \in Nat /\ Start(k + 1) = Start(k) + d /\ d \in Nat \ {0}
    BY <1>1, <1>2
  <2> HIDE DEF d
  <2> QED
    BY <2>1
<1>4. C = {}
  <2> SUFFICES ASSUME C # {} PROVE FALSE
    OBVIOUS
  <2>1. PICK k \in C : \A m \in C : k <= m
    <3>1. C \subseteq Nat
      BY <1>1 DEF n
    <3> HIDE DEF C
    <3> QED
      BY <3>1, Least
  <2>2. k \in i + 1 .. n + 1 /\ ~(Start(i) < Start(k)) /\ k - 1 \in 1 .. n /\ i \in 1 .. n
    BY <1>1, <2>1 DEF n
  <2>3. Start(k - 1) < Start(k)
    BY <1>1, <1>3, <2>2
  <2>4. k - 1 = i \/ Start(i) < Start(k - 1)
    BY <1>1, <2>1, <2>2
  <2>5. Start(i) \in Nat /\ Start(k) \in Nat /\ Start(k - 1) \in Nat
    BY <1>1, <1>2, <2>2
  <2> HIDE DEF C
  <2> QED
    BY <2>2, <2>3, <2>4, <2>5
<1> QED
  BY <1>1, <1>4 DEF n

LEMMA WhereApart ==
  ASSUME ArchiveOK, NEW i \in DOMAIN image, NEW j \in DOMAIN image, i # j
  PROVE  Where(i) # Where(j)
<1>1. Len(image) \in Nat /\ DOMAIN image = 1 .. Len(image)
  BY ImageOK
<1>2. i \in 1 .. Len(image) + 1 /\ j \in 1 .. Len(image) + 1 /\ (i < j \/ j < i)
  BY <1>1
<1>3. CASE kind = "dynamic"
  <2>1. Start(i) \in Nat /\ Start(j) \in Nat
    BY <1>2, StartStep
  <2>2. Start(i) < Start(j) \/ Start(j) < Start(i)
    BY <1>2, StartGrows
  <2> QED
    BY <1>3, <2>1, <2>2 DEF Where
<1>4. CASE kind # "dynamic"
  <2>1. i - 1 \in Nat /\ j - 1 \in Nat /\ (i - 1 < j - 1 \/ j - 1 < i - 1)
    BY <1>1, <1>2
  <2>2. Offset(i) \in Nat /\ Offset(j) \in Nat /\ (Offset(i) < Offset(j) \/ Offset(j) < Offset(i))
    BY <2>1, IndexAssumption, Less DEF Offset
  <2> QED
    BY <1>4, <2>2 DEF Where
<1> QED
  BY <1>3, <1>4

\* What is in the map is what the client has there.
LEMMA AssignedAs ==
  ASSUME IndexInv
  PROVE  /\ DOMAIN assigned \subseteq {Where(i) : i \in DOMAIN image}
         /\ \A i \in DOMAIN image : Where(i) \in DOMAIN assigned => assigned[Where(i)] = image[i]
<1>1. \A o \in DOMAIN assigned : \E i \in DOMAIN image : o = Where(i) /\ assigned[o] = image[i]
  <2> SUFFICES ASSUME NEW o \in DOMAIN assigned
               PROVE  \E i \in DOMAIN image : o = Where(i) /\ assigned[o] = image[i]
    OBVIOUS
  <2>1. PICK i \in DOMAIN image : <<o, assigned[o]>> = <<Where(i), image[i]>>
    BY DEF IndexInv, IndexTypeOK
  <2> QED
    BY <2>1
<1>2. ArchiveOK
  BY DEF IndexInv
<1> QED
  BY <1>1, <1>2, WhereApart

LEMMA Same ==
  ASSUME UNCHANGED <<kind, image>>
  PROVE  All' = All /\ Expected' = Expected /\ \A i : Where(i)' = Where(i)
<1>1. \A i : Where(i)' = Where(i)
  BY DEF Where, Start, Offset
<1>2. Expected' = Expected
  BY DEF Expected, Start
<1> QED
  BY <1>1, <1>2 DEF All

Statuses == {"open", "stored", "refused", "panicked", "aborted"}

LEMMA TypeKept ==
  ASSUME IndexInv, UNCHANGED <<kind, image, baseSize, base, prev>>,
         usable' \subseteq Digest, sizes' \subseteq usable', raced' \in BOOLEAN,
         status' \in Statuses, (status' = "stored") <=> object' # <<>>,
         unsent' \subseteq All, handling' \in [Handler -> SUBSET All],
         \A o \in DOMAIN assigned' : <<o, assigned'[o]>> \in All
  PROVE  IndexTypeOK' /\ ArchiveOK'
<1>1. All' = All
  BY Same
<1>2. ArchiveOK'
  BY <1>1 DEF IndexInv, ArchiveOK
<1>3. /\ unsent' \subseteq All' /\ \A q \in Handler : handling'[q] \subseteq All'
      /\ \A o \in DOMAIN assigned' : <<o, assigned'[o]>> \in All'
  BY <1>1
<1>4. /\ unsent' \subseteq {<<Where(i), image[i]>> : i \in DOMAIN image}'
      /\ \A q \in Handler : handling'[q] \subseteq {<<Where(i), image[i]>> : i \in DOMAIN image}'
      /\ \A o \in DOMAIN assigned' :
           <<o, assigned'[o]>> \in {<<Where(i), image[i]>> : i \in DOMAIN image}'
  BY <1>3 DEF All
<1>5. IndexTypeOK'
  BY <1>4 DEF IndexInv, IndexTypeOK, Statuses
<1> QED
  BY <1>2, <1>5

LEMMA Types ==
  ASSUME IndexInv
  PROVE  /\ kind \in Kinds /\ usable \subseteq Digest /\ sizes \subseteq usable /\ prev \subseteq Digest
         /\ raced \in BOOLEAN /\ status \in Statuses /\ ((status = "stored") <=> object # <<>>)
         /\ unsent \subseteq All /\ handling \in [Handler -> SUBSET All]
         /\ \A o \in DOMAIN assigned : <<o, assigned[o]>> \in All
BY DEF IndexInv, IndexTypeOK, ArchiveOK, All, Statuses

LEMMA IndexStart == IndexInit => IndexInv
<1> SUFFICES ASSUME IndexInit PROVE IndexInv
  OBVIOUS
<1>1. PICK sent \in SUBSET DOMAIN image :
        /\ \A i \in DOMAIN image \ sent : Reused(i)
        /\ unsent = {<<Where(i), image[i]>> : i \in sent}
  BY DEF IndexInit
<1>2. unsent \subseteq All /\ handling \in [Handler -> SUBSET All] /\ DOMAIN assigned = {}
  BY <1>1 DEF IndexInit, All
<1>3. ArchiveOK
  BY <1>2 DEF IndexInit, ArchiveOK
<1>4. SentOK
  BY <1>1 DEF SentOK
<1>5. /\ image \in Images \cup Streams
      /\ baseSize \in BaseSizes \cup {0} /\ base \in ImagesOf(baseSize) \cup {<<>>}
  BY DEF IndexInit
<1>6. IndexTypeOK
  BY <1>2, <1>5 DEF IndexInit, IndexTypeOK, All
<1>7. ObjectOK
  BY DEF IndexInit, ObjectOK
<1> QED
  BY <1>3, <1>4, <1>6, <1>7 DEF IndexInv

LEMMA ChunksInv ==
  ASSUME IndexInv, (\E known \in BOOLEAN : Previous(known)) \/ (\E d \in Digest : UploadChunk(d))
  PROVE  IndexInv'
<1>1. /\ status = "open" /\ usable' \subseteq Digest /\ sizes' \subseteq usable'
      /\ UNCHANGED <<kind, image, baseSize, base, prev, unsent, handling, assigned, raced, status, object>>
  BY Types DEF Previous, UploadChunk, Open, archive
<1>2. IndexTypeOK' /\ ArchiveOK'
  BY <1>1, Types, TypeKept
<1>3. SentOK'
  BY <1>1, Same DEF IndexInv, SentOK, Open, Reused
<1>4. ObjectOK'
  BY <1>1 DEF ObjectOK
<1> QED
  BY <1>2, <1>3, <1>4 DEF IndexInv

LEMMA SendInv ==
  ASSUME IndexInv, NEW q \in Handler, NEW batch \in SUBSET unsent, SendBatch(q, batch)
  PROVE  IndexInv'
<1>1. /\ status = "open" /\ handling[q] = {} /\ unsent' = unsent \ batch
      /\ handling' = [handling EXCEPT ![q] = batch]
      /\ UNCHANGED <<kind, image, baseSize, base, prev, usable, sizes, assigned, raced, status, object>>
  BY DEF SendBatch, Open, archive
<1>2. /\ handling' \in [Handler -> SUBSET All] /\ unsent' \subseteq All /\ handling'[q] = batch
      /\ \A p \in Handler : p # q => handling'[p] = handling[p]
  BY <1>1, Types
<1>3. IndexTypeOK' /\ ArchiveOK'
  BY <1>1, <1>2, Types, TypeKept
<1>4. SentOK'
  BY <1>1, <1>2, Same DEF IndexInv, SentOK, Open, Reused
<1>5. ObjectOK'
  BY <1>1 DEF ObjectOK
<1> QED
  BY <1>3, <1>4, <1>5 DEF IndexInv

\* Writing one assignment into the map.
LEMMA PutGives ==
  ASSUME NEW f, NEW a \in All, \A o \in DOMAIN f : <<o, f[o]>> \in All
  PROVE  /\ DOMAIN Put(f, a) = DOMAIN f \cup {a[1]}
         /\ \A o \in DOMAIN Put(f, a) : <<o, Put(f, a)[o]>> \in All
<1>1. a = <<a[1], a[2]>>
  BY DEF All
<1>2. DOMAIN Put(f, a) = DOMAIN f \cup {a[1]}
  BY DEF Put
<1>3. \A o \in DOMAIN f \cup {a[1]} : Put(f, a)[o] = IF o = a[1] THEN a[2] ELSE f[o]
  BY DEF Put
<1> QED
  BY <1>1, <1>2, <1>3

LEMMA StoreInv ==
  ASSUME IndexInv, NEW q \in Handler, NEW a \in handling[q], Store(q, a)
  PROVE  IndexInv'
<1>1. /\ status = "open" /\ assigned' = Put(assigned, a)
      /\ handling' = [handling EXCEPT ![q] = handling[q] \ {a}]
      /\ UNCHANGED <<kind, image, baseSize, base, prev, usable, sizes, unsent, raced, status, object>>
  BY DEF Store, Open, archive
<1>2. /\ handling' \in [Handler -> SUBSET All] /\ handling'[q] = handling[q] \ {a} /\ a \in All
      /\ \A p \in Handler : p # q => handling'[p] = handling[p]
  BY <1>1, Types
<1>3. /\ DOMAIN assigned' = DOMAIN assigned \cup {a[1]}
      /\ \A o \in DOMAIN assigned' : <<o, assigned'[o]>> \in All
  BY <1>1, <1>2, Types, PutGives
<1>4. IndexTypeOK' /\ ArchiveOK'
  BY <1>1, <1>2, <1>3, Types, TypeKept
<1>5. SentOK'
  <2> SUFFICES ASSUME ~raced, NEW i \in DOMAIN image
               PROVE  \/ <<Where(i), image[i]>> \in unsent
                      \/ \E p \in Handler : <<Where(i), image[i]>> \in handling'[p]
                      \/ Where(i) \in DOMAIN assigned'
                      \/ Reused(i)
    BY <1>1, Same DEF SentOK, Reused
  <2>1. \/ <<Where(i), image[i]>> \in unsent
        \/ \E p \in Handler : <<Where(i), image[i]>> \in handling[p]
        \/ Where(i) \in DOMAIN assigned
        \/ Reused(i)
    BY <1>1 DEF IndexInv, SentOK, Open
  <2>2. <<Where(i), image[i]>> = a => Where(i) \in DOMAIN assigned'
    BY <1>3
  <2> QED
    BY <1>2, <1>3, <2>1, <2>2
<1>6. ObjectOK'
  BY <1>1 DEF ObjectOK
<1> QED
  BY <1>4, <1>5, <1>6 DEF IndexInv

LEMMA ClashInv ==
  ASSUME IndexInv, NEW q1 \in Handler, NEW q2 \in Handler,
         NEW a1 \in handling[q1], NEW a2 \in handling[q2], Clash(q1, q2, a1, a2)
  PROVE  IndexInv'
<1>1. /\ status = "open" /\ raced' = TRUE
      /\ handling' = [handling EXCEPT ![q1] = handling[q1] \ {a1}, ![q2] = handling[q2] \ {a2}]
      /\ UNCHANGED <<kind, image, baseSize, base, prev, usable, sizes, unsent, status, object>>
  BY DEF Clash, Open, archive
<1>2. handling' \in [Handler -> SUBSET All] /\ a1 \in All /\ a2 \in All
  <2> DEFINE h == [handling EXCEPT ![q1] = handling[q1] \ {a1}]
  <2>1. h \in [Handler -> SUBSET All]
    BY Types
  <2>2. handling' = [h EXCEPT ![q2] = handling[q2] \ {a2}]
    BY <1>1
  <2> HIDE DEF h
  <2> QED
    BY <2>1, <2>2, Types
<1>3. \A o \in DOMAIN assigned' : <<o, assigned'[o]>> \in All
  <2> DEFINE one == Put(assigned, a1)
             all == Put(one, a2)
  <2>1. \A o \in DOMAIN one : <<o, one[o]>> \in All
    BY <1>2, Types, PutGives
  <2>2. \A o \in DOMAIN all : <<o, all[o]>> \in All
    <3> HIDE DEF one
    <3> QED
      BY <1>2, <2>1, PutGives
  <2>3. PICK S \in SUBSET DOMAIN all : assigned' = [o \in S |-> all[o]]
    BY DEF Clash
  <2> HIDE DEF all
  <2> QED
    BY <2>2, <2>3
<1>4. IndexTypeOK' /\ ArchiveOK'
  BY <1>1, <1>2, <1>3, Types, TypeKept
<1>5. SentOK' /\ ObjectOK'
  BY <1>1 DEF SentOK, ObjectOK
<1> QED
  BY <1>4, <1>5 DEF IndexInv

\* The process ends, or the writer is closed without an index.
LEMMA GivenUpInv ==
  ASSUME IndexInv, status = "open", status' \in {"aborted", "refused", "panicked"},
         raced' \in BOOLEAN, object' = object,
         UNCHANGED <<kind, image, baseSize, base, prev, usable, sizes, unsent, handling, assigned>>
  PROVE  IndexInv'
<1>1. (status' = "stored") <=> object' # <<>>
  BY Types
<1>2. IndexTypeOK' /\ ArchiveOK'
  BY <1>1, Types, TypeKept DEF Statuses
<1>3. SentOK' /\ ObjectOK'
  BY DEF SentOK, ObjectOK, Open
<1> QED
  BY <1>2, <1>3 DEF IndexInv

-----------------------------------------------------------------------------
(* What is stored. *)

LEMMA StoredInv ==
  ASSUME IndexInv, NEW k, Closing(k), NEW entries,
         Stored(entries, Header), Kept(entries)
  PROVE  IndexInv'
<1>1. /\ status = "open" /\ status' = "stored" /\ object' = IndexObject(entries, Header)
      /\ UNCHANGED <<kind, image, baseSize, base, prev, usable, sizes, unsent, handling, assigned, raced>>
  BY DEF Closing, Stored, Open, archive
<1>2. object' # <<>>
  <2>1. object'.kind = kind /\ DOMAIN object' = {"kind", "csum", "meta", "size", "entries"}
    BY <1>1 DEF IndexObject
  <2>2. DOMAIN <<>> = {}
    OBVIOUS
  <2> QED
    BY <2>1, <2>2
<1>3. IndexTypeOK' /\ ArchiveOK'
  BY <1>1, <1>2, Types, TypeKept DEF Statuses
<1>4. SentOK'
  BY <1>1 DEF SentOK, Open
<1>5. ObjectOK'
  <2>1. Expected' = Expected
    BY <1>1, Same
  <2>2. IndexObject(entries, Header)' = IndexObject(entries, Header)
    BY <1>1, <2>1 DEF IndexObject, Header
  <2>3. Kept(entries)'
    BY <1>1, <2>1 DEF Kept, Resized
  <2> QED
    BY <1>1, <2>2, <2>3 DEF ObjectOK
<1> QED
  BY <1>3, <1>4, <1>5 DEF IndexInv

LEMMA FixedEntriesAre ==
  ASSUME IndexInv, kind = "fixed", ~Hole
  PROVE  FixedEntries = image
<1> DEFINE n == Len(image)
           g == [i \in 1 .. n |-> Offset(i)]
<1>1. /\ n \in Nat /\ DOMAIN image = 1 .. n /\ Blocks = 0 .. n - 1
      /\ image = [i \in 1 .. n |-> image[i]]
  BY ImageOK, BlocksAre DEF IndexInv
<1>2. \A i \in 1 .. n : Offset(i) \in DOMAIN assigned
  BY <1>1 DEF Hole, Offset
<1>3. \A i \in 1 .. n : Where(i) = Offset(i)
  BY DEF Where
<1>4. \A i \in 1 .. n : assigned[Offset(i)] = image[i]
  BY <1>1, <1>2, <1>3, AssignedAs
<1>5. DOMAIN assigned = {Offset(i) : i \in 1 .. n}
  <2>1. \A o \in DOMAIN assigned : \E i \in 1 .. n : o = Offset(i)
    BY <1>1, <1>3, AssignedAs
  <2> HIDE DEF n
  <2> QED
    BY <1>2, <2>1
<1>6. \A i, j \in 1 .. n : i # j => Offset(i) # Offset(j)
  BY <1>1, <1>3, WhereApart DEF IndexInv
<1>7. Cardinality(DOMAIN assigned) = n
  <2>1. g \in Bijection(1 .. n, DOMAIN assigned)
    <3> HIDE DEF n
    <3>1. g \in [1 .. n -> DOMAIN assigned] /\ \A i \in 1 .. n : g[i] = Offset(i)
      BY <1>2
    <3> HIDE DEF g
    <3>2. \A i, j \in 1 .. n : g[i] = g[j] => i = j
      BY <1>6, <3>1
    <3>3. \A o \in DOMAIN assigned : \E i \in 1 .. n : g[i] = o
      BY <1>5, <3>1
    <3> QED
      BY <3>1, <3>2, <3>3 DEF Bijection, Injection, Surjection, IsInjective
  <2>2. ExistsBijection(1 .. n, DOMAIN assigned)
    BY <2>1 DEF ExistsBijection
  <2>3. IsFiniteSet(1 .. n) /\ Cardinality(1 .. n) = n
    BY <1>1, FS_Interval
  <2> QED
    BY <2>2, <2>3, FS_Bijection
<1>8. \A k \in 1 .. n : k - 1 \in Blocks
  BY <1>1
<1> HIDE DEF n
<1> QED
  BY <1>1, <1>2, <1>4, <1>7, <1>8 DEF FixedEntries

LEMMA AllAssigned ==
  ASSUME IndexInv, ~raced, NEW k, Closing(k), NEW i \in DOMAIN image
  PROVE  Where(i) \in DOMAIN assigned \/ Reused(i)
BY DEF IndexInv, SentOK, Closing

LEMMA ReusedEntriesAre ==
  ASSUME IndexInv, ~raced, Closing("reuse")
  PROVE  /\ DOMAIN ReusedEntries = DOMAIN base
         /\ \A i \in DOMAIN base \cap DOMAIN image : ReusedEntries[i] = image[i]
         /\ ~Resized => ReusedEntries = image
<1>1. kind = "reuse" /\ image \in Images /\ base \in ImagesOf(baseSize)
  BY DEF Closing, IndexInv, ArchiveOK
<1>2. /\ image = [i \in DOMAIN image |-> image[i]]
      /\ ~Resized => DOMAIN base = DOMAIN image
  BY <1>1 DEF Images, ImagesOf, Resized
<1>3. \A i \in DOMAIN image : Where(i) = Offset(i)
  BY <1>1 DEF Where
<1>4. ASSUME NEW i \in DOMAIN image
      PROVE  (IF Offset(i) \in DOMAIN assigned THEN assigned[Offset(i)] ELSE base[i]) = image[i]
  BY <1>3, AssignedAs, AllAssigned DEF Reused
<1> QED
  BY <1>2, <1>4 DEF ReusedEntries

\* There is one way to write a set of numbers in ascending order.
LEMMA SortedIs ==
  ASSUME NEW n \in Nat, NEW g, DOMAIN g = 1 .. n, \A i \in 1 .. n : g[i] \in Nat,
         \A i, j \in 1 .. n : i < j => g[i] < g[j],
         NEW S, S = {g[i] : i \in 1 .. n}
  PROVE  DOMAIN Sorted(S) = 1 .. n /\ \A i \in 1 .. n : Sorted(S)[i] = g[i]
<1> DEFINE Up(s) == \A i, j \in DOMAIN s : i < j => s[i] < s[j]
           g1 == [i \in 1 .. n |-> g[i]]
           s == Sorted(S)
<1>1. g1 \in Bijection(1 .. n, S) /\ g1 \in [1 .. n -> S] /\ Up(g1)
  <2>1. g1 \in [1 .. n -> S] /\ \A i \in 1 .. n : g1[i] = g[i]
    OBVIOUS
  <2> HIDE DEF g1
  <2>2. \A i, j \in 1 .. n : g1[i] = g1[j] => i = j
    <3> SUFFICES ASSUME NEW i \in 1 .. n, NEW j \in 1 .. n, g[i] = g[j] PROVE i = j
      BY <2>1
    <3>1. g[i] \in Nat /\ ~(i < j) /\ ~(j < i)
      OBVIOUS
    <3> QED
      BY <3>1
  <2>3. \A x \in S : \E i \in 1 .. n : g1[i] = x
    BY <2>1
  <2>4. Up(g1)
    BY <2>1
  <2> HIDE DEF Up
  <2> QED
    BY <2>1, <2>2, <2>3, <2>4 DEF Bijection, Injection, Surjection, IsInjective
<1>2. IsFiniteSet(1 .. n) /\ Cardinality(1 .. n) = n
  BY FS_Interval
<1>3. IsFiniteSet(S) /\ Cardinality(S) = n
  BY <1>1, <1>2, FS_Bijection DEF ExistsBijection
<1>4. s \in [1 .. n -> S] /\ Up(s)
  <2>1. s = CHOOSE t \in [1 .. n -> S] : Up(t)
    BY <1>3 DEF Sorted
  <2> HIDE DEF Up, s, g1
  <2> QED
    BY <1>1, <2>1
<1> HIDE DEF s
<1>5. \A i, j \in 1 .. n : i < j => s[i] < s[j]
  BY <1>4
<1>6. \A i \in 1 .. n : s[i] \in Nat /\ \E j \in 1 .. n : s[i] = g[j]
  BY <1>4
<1>7. \A i, j \in 1 .. n : i # j => s[i] # s[j]
  <2> SUFFICES ASSUME NEW i \in 1 .. n, NEW j \in 1 .. n, i # j PROVE s[i] # s[j]
    OBVIOUS
  <2>1. i < j \/ j < i
    OBVIOUS
  <2>2. s[i] \in Nat /\ s[j] \in Nat
    BY <1>6
  <2> QED
    BY <1>5, <2>1, <2>2
<1>8. s \in Injection(1 .. n, S)
  <2>1. \A i, j \in 1 .. n : s[i] = s[j] => i = j
    BY <1>7
  <2> QED
    BY <1>4, <2>1 DEF Injection, IsInjective
<1>9. s \in Surjection(1 .. n, S)
  BY <1>2, <1>3, <1>8, FS_Injection
<1>10. \A i \in 1 .. n : \E j \in 1 .. n : s[j] = g[i]
  BY <1>9 DEF Surjection
<1> DEFINE C == {i \in 1 .. n : s[i] # g[i]}
<1>11. C = {}
  <2> SUFFICES ASSUME C # {} PROVE FALSE
    OBVIOUS
  <2>1. PICK i \in C : \A m \in C : i <= m
    <3>1. C \subseteq Nat
      OBVIOUS
    <3> HIDE DEF C
    <3> QED
      BY <3>1, Least
  <2>2. i \in 1 .. n /\ s[i] # g[i] /\ \A m \in 1 .. n : m < i => s[m] = g[m]
    BY <2>1
  <2> HIDE DEF C
  <2>3. PICK j \in 1 .. n : s[i] = g[j]
    BY <1>6, <2>2
  <2>4. PICK m \in 1 .. n : s[m] = g[i]
    BY <1>10, <2>2
  <2>5. i < j
    <3>1. j # i
      BY <2>2, <2>3
    <3>2. ~(j < i)
      BY <1>7, <2>2, <2>3
    <3> QED
      BY <2>2, <3>1, <3>2
  <2>6. i < m
    <3>1. m # i
      BY <2>2, <2>4
    <3>2. ~(m < i)
      <4> SUFFICES ASSUME m < i PROVE FALSE
        OBVIOUS
      <4>1. g[m] < g[i] /\ s[m] = g[m] /\ g[m] \in Nat
        BY <2>2
      <4> QED
        BY <2>4, <4>1
    <3> QED
      BY <2>2, <3>1, <3>2
  <2>7. s[i] < s[m] /\ g[i] < g[j] /\ g[i] \in Nat /\ g[j] \in Nat
    BY <1>5, <2>2, <2>5, <2>6
  <2> QED
    BY <2>3, <2>4, <2>7
<1> QED
  BY <1>4, <1>11 DEF s

LEMMA DynamicEntriesAre ==
  ASSUME IndexInv, ~raced, Closing("dynamic")
  PROVE  DynamicEntries = Expected
<1> DEFINE n == Len(image)
           g == [i \in 1 .. n |-> Start(i)]
           keys == Sorted(DOMAIN assigned)
<1>1. ArchiveOK /\ kind = "dynamic"
  BY DEF IndexInv, Closing
<1>2. n \in Nat /\ DOMAIN image = 1 .. n
  BY <1>1, ImageOK
<1>3. \A i \in 1 .. n : Where(i) = Start(i)
  BY <1>1 DEF Where
<1>4. \A i \in 1 .. n : Start(i) \in DOMAIN assigned /\ assigned[Start(i)] = image[i]
  BY <1>1, <1>2, <1>3, AllAssigned, AssignedAs DEF Reused
<1>5. DOMAIN assigned = {g[i] : i \in 1 .. n}
  <2>1. DOMAIN assigned = {Start(i) : i \in 1 .. n}
    BY <1>2, <1>3, <1>4, AssignedAs
  <2> QED
    BY <2>1
<1>6. DOMAIN g = 1 .. n /\ \A i \in 1 .. n : g[i] \in Nat
  BY <1>1, <1>2, StartStep
<1>7. \A i, j \in 1 .. n : i < j => g[i] < g[j]
  <2>1. \A i, j \in 1 .. n : i < j => Start(i) < Start(j)
    BY <1>1, <1>2, StartGrows
  <2> QED
    BY <2>1
<1>8. DOMAIN keys = 1 .. n /\ \A i \in 1 .. n : keys[i] = Start(i)
  <2>1. DOMAIN keys = 1 .. n /\ \A i \in 1 .. n : keys[i] = g[i]
    <3> DEFINE S == DOMAIN assigned
    <3>1. S = {g[i] : i \in 1 .. n}
      BY <1>5
    <3> HIDE DEF n, g, S
    <3>2. DOMAIN Sorted(S) = 1 .. n /\ \A i \in 1 .. n : Sorted(S)[i] = g[i]
      BY <1>2, <1>6, <1>7, <3>1, SortedIs
    <3> QED
      BY <3>2 DEF S
  <2> QED
    BY <2>1
<1>9. \A i \in 1 .. n : EndOffset(Start(i)) = Start(i + 1)
  BY <1>1, <1>4, StartStep DEF EndOffset
<1>10. DynamicEntries = [i \in DOMAIN keys |-> [end |-> EndOffset(keys[i]), digest |-> assigned[keys[i]]]]
  BY DEF DynamicEntries
<1> HIDE DEF keys, n
<1>11. DynamicEntries = [i \in 1 .. n |-> [end |-> Start(i + 1), digest |-> image[i]]]
  BY <1>4, <1>8, <1>9, <1>10
<1> QED
  BY <1>1, <1>11 DEF Expected, n

LEMMA CloseInv ==
  ASSUME IndexInv, FixedClose \/ ReuseClose \/ DynamicClose
  PROVE  IndexInv'
<1>1. CASE FixedClose
  <2>1. kind = "fixed" /\ Expected = image
    BY <1>1 DEF FixedClose, Closing, Expected
  <2>2. FixedEntries = Expected
    BY <1>1, <2>1, FixedEntriesAre DEF FixedClose
  <2> QED
    BY <1>1, <2>1, <2>2, StoredInv DEF FixedClose, Header, Kept, Resized
<1>2. CASE ReuseClose
  <2>1. kind = "reuse" /\ Expected = image
    BY <1>2 DEF ReuseClose, Closing, Expected
  <2>2. Kept(ReusedEntries)
    BY <1>2, <2>1, ReusedEntriesAre DEF ReuseClose, Kept
  <2> QED
    BY <1>2, <2>1, <2>2, StoredInv DEF ReuseClose, Header
<1>3. CASE DynamicClose
  <2>1. kind = "dynamic"
    BY <1>3 DEF DynamicClose, Closing
  <2>2. ~raced => DynamicEntries = Expected
    BY <1>3, DynamicEntriesAre DEF DynamicClose
  <2>3. baseSize = 0
    BY <2>1 DEF IndexInv, ArchiveOK
  <2> QED
    BY <1>3, <2>1, <2>2, <2>3, StoredInv DEF DynamicClose, Header, Kept, Resized
<1> QED
  BY <1>1, <1>2, <1>3

LEMMA EndedInv ==
  ASSUME IndexInv, \/ FixedRefused \/ DynamicPanics \/ CloseFails
                   \/ \E q1, q2 \in Handler : ClashNoticed(q1, q2)
  PROVE  IndexInv'
<1>1. CASE \E q1, q2 \in Handler : ClashNoticed(q1, q2)
  BY <1>1, GivenUpInv DEF ClashNoticed, Open, archive
<1>2. ASSUME NEW k, Closing(k), NEW st \in {"refused", "panicked"}, Ended(st) PROVE IndexInv'
  <2>1. /\ status = "open" /\ status' = st /\ object' = object
        /\ UNCHANGED <<kind, image, baseSize, base, prev, usable, sizes, unsent, handling, assigned, raced>>
    BY <1>2 DEF Closing, Ended, Open, archive
  <2>2. raced' \in BOOLEAN
    BY <2>1, Types
  <2> QED
    BY <1>2, <2>1, <2>2, GivenUpInv
<1> QED
  BY <1>1, <1>2 DEF FixedRefused, DynamicPanics, CloseFails

LEMMA IndexStep == IndexInv /\ [IndexNext]_indexVars => IndexInv'
<1> SUFFICES ASSUME IndexInv, [IndexNext]_indexVars PROVE IndexInv'
  OBVIOUS
<1>1. CASE UNCHANGED indexVars
  <2>1. /\ UNCHANGED <<kind, image, baseSize, base, prev, usable, sizes, unsent, handling, assigned>>
        /\ UNCHANGED <<raced, status, object>>
    BY <1>1 DEF indexVars, archive
  <2>2. IndexTypeOK' /\ ArchiveOK'
    BY <2>1, Types, TypeKept
  <2>3. SentOK'
    BY <2>1, Same DEF IndexInv, SentOK, Open, Reused
  <2>4. ObjectOK'
    <3>1. Expected' = Expected
      BY <2>1, Same
    <3> QED
      BY <2>1, <3>1 DEF IndexInv, ObjectOK, IndexObject, Header, Kept, Resized
  <2> QED
    BY <2>2, <2>3, <2>4 DEF IndexInv
<1> QED
  BY <1>1, ChunksInv, SendInv, StoreInv, ClashInv, CloseInv, EndedInv DEF IndexNext

LEMMA IndexInductive == IndexSpec => []IndexInv
BY IndexStart, IndexStep, PTL DEF IndexSpec

\* Type correctness: whatever is on its way to the map, or in it, is at the offset that
\* the client has given it.
THEOREM IndexTypeCorrect == IndexSpec => []IndexTypeOK
<1>1. IndexInv => IndexTypeOK
  BY DEF IndexInv
<1> QED
  BY <1>1, IndexInductive, PTL

\* What an index with the client's checksum says: the client's chunks, and its size.
LEMMA ExpectedIsSound ==
  ASSUME IndexInv, status = "stored", ~Resized, object.entries = Expected
  PROVE  Sound(object)
<1> DEFINE n == Len(image)
<1>1. PICK entries : object = IndexObject(entries, Header)
  BY DEF IndexInv, ObjectOK
<1>2. /\ object.kind = kind /\ object.csum = Expected /\ object.meta = Expected
      /\ object.size = Header
  BY <1>1 DEF IndexObject
<1>3. SumMatches(object)
  BY <1>2 DEF SumMatches
<1>4. CASE kind # "dynamic"
  <2>1. Expected = image /\ Total = DiskSize /\ object.size = DiskSize
    BY <1>2, <1>4, Types DEF Expected, Total, Header, Resized, Kinds
  <2> QED
    BY <1>2, <1>3, <1>4, <2>1 DEF Sound, Digests, LogicalSize, ReportedSize
<1>5. CASE kind = "dynamic"
  <2>1. n \in Nat /\ DOMAIN image = 1 .. n /\ image = [i \in 1 .. n |-> image[i]] /\ Start(1) = 0
    BY ImageOK, StartStep DEF IndexInv
  <2>2. object.entries = [i \in 1 .. n |-> [end |-> Start(i + 1), digest |-> image[i]]]
    BY <1>5 DEF Expected
  <2>3. Total = Start(n + 1)
    BY <1>5 DEF Total
  <2>4. Digests(object) = image
    <3> HIDE DEF n
    <3>1. Digests(object) = [i \in DOMAIN object.entries |-> object.entries[i].digest]
      BY <1>2, <1>5 DEF Digests
    <3>2. DOMAIN object.entries = 1 .. n /\ \A i \in 1 .. n : object.entries[i].digest = image[i]
      BY <2>2
    <3> QED
      BY <2>1, <3>1, <3>2
  <2>5. LastEnd(object) = Total
    <3> HIDE DEF n
    <3>1. Len(object.entries) = n
      BY <2>1, <2>2
    <3>2. CASE n = 0
      <4>1. object.entries = <<>>
        BY <2>2, <3>2
      <4>2. n + 1 = 1
        BY <3>2
      <4> QED
        BY <2>1, <2>3, <4>1, <4>2 DEF LastEnd
    <3>3. CASE n # 0
      <4>1. n \in 1 .. n
        BY <2>1, <3>3
      <4>2. object.entries # <<>> /\ object.entries[n].end = Start(n + 1)
        <5>1. DOMAIN object.entries = 1 .. n /\ object.entries[n].end = Start(n + 1)
          BY <2>2, <4>1
        <5>2. DOMAIN <<>> = {}
          OBVIOUS
        <5> QED
          BY <4>1, <5>1, <5>2
      <4> QED
        BY <2>3, <3>1, <4>2 DEF LastEnd
    <3> QED
      BY <3>2, <3>3
  <2> QED
    BY <1>2, <1>3, <1>5, <2>4, <2>5 DEF Sound, LogicalSize, ReportedSize
<1> QED
  BY <1>4, <1>5

LEMMA EntriesAre ==
  ASSUME IndexInv, status = "stored"
  PROVE  Kept(object.entries)
BY DEF IndexInv, ObjectOK, IndexObject

\* For archives of any length, with any number of requests: an index that is acknowledged
\* is the client's, passes the collector's checksum and states the size of the archive,
\* unless two requests wrote the map at the same moment; if the index it reuses is of
\* another size, it holds the client's chunks as far as both reach.
THEOREM IndexIsAsMeant == IndexSpec => []StoredAsMeant
<1>1. ASSUME IndexInv PROVE StoredAsMeant
  BY <1>1, EntriesAre, ExpectedIsSound DEF StoredAsMeant, Kept, Agrees
<1> QED
  BY <1>1, IndexInductive, PTL

\* Even then a fixed index that reuses none is not stored with an entry missing: the
\* blocks of the image are counted, and each of them is looked up.
THEOREM FixedHasNoHole == IndexSpec => []NoHoleStored
<1>1. ASSUME IndexInv PROVE NoHoleStored
  BY <1>1, EntriesAre, ExpectedIsSound DEF NoHoleStored, Kept, Resized
<1> QED
  BY <1>1, IndexInductive, PTL
=============================================================================
