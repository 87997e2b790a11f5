------------------------- MODULE AddressSpace_proofs -------------------------
(***************************************************************************)
(* Address spaces for any number of processes, frames, tables and          *)
(* programs: no frame has two uses, calls that succeed lose none, and what *)
(* programs see of it all is one private memory each.                      *)
(***************************************************************************)
EXTENDS AddressSpace, FiniteSetTheorems, TLAPS

-----------------------------------------------------------------------------
(* Numbers. *)
LEMMA LeastNatural ==
  ASSUME NEW S, S \subseteq Nat, S # {}
  PROVE  \E x \in S : \A y \in S : x <= y
<1>1. PICK x \in S : \A y \in S : ~(<<y, x>> \in OpToRel(<, Nat))
  BY NatLessThanWellFounded, WFMin
<1>2. \A y \in S : ~(y < x)
  BY <1>1 DEF OpToRel
<1> QED BY <1>2

(* What holds before a loop and is kept by every turn holds behind it.     *)
LEMMA TurnByTurn ==
  ASSUME NEW n \in Nat, NEW S, 0 \in S,
         \A k \in 1 .. n : k - 1 \in S => k \in S
  PROVE  n \in S /\ \A k \in 0 .. n : k \in S
<1> DEFINE Bad == {k \in 0 .. n : k \notin S}
<1>1. Bad = {}
  <2> SUFFICES ASSUME Bad # {} PROVE FALSE
    OBVIOUS
  <2>1. PICK k \in Bad : \A j \in Bad : k <= j
    <3>1. Bad \subseteq Nat
      OBVIOUS
    <3> QED BY <3>1, LeastNatural
  <2>2. k \in 1 .. n /\ k - 1 \in 0 .. n
    BY <2>1
  <2>3. k - 1 \in S
    BY <2>1, <2>2
  <2> QED BY <2>1, <2>2, <2>3
<1> QED BY <1>1

LEMMA FrameNumbers ==
  /\ Frames \in Nat \ {0}
  /\ \A f \in Frame : f \in Nat /\ 1 <= f /\ f <= Frames
  /\ None \notin Frame
BY AddressSpaceAssumption DEF Frame, None

LEMMA HighestOfSet ==
  ASSUME NEW S, S \subseteq Frame, S # {}
  PROVE  \E x \in S : \A y \in S : x >= y
<1>1. Frames \in Nat /\ \A x \in S : x \in Nat /\ x <= Frames
  BY FrameNumbers
<1> DEFINE D == {Frames - x : x \in S}
<1>2. D \subseteq Nat /\ D # {}
  BY <1>1
<1>3. PICK d \in D : \A e \in D : d <= e
  BY <1>2, LeastNatural
<1>4. PICK x \in S : d = Frames - x
  BY <1>3
<1>5. \A y \in S : Frames - x <= Frames - y
  BY <1>3, <1>4
<1> QED BY <1>1, <1>5

LEMMA FramesFinite ==
  ASSUME NEW S, S \subseteq Frame
  PROVE  IsFiniteSet(S) /\ Cardinality(S) \in Nat
<1>1. IsFiniteSet(Frame)
  BY FS_Interval, AddressSpaceAssumption DEF Frame
<1> QED BY <1>1, FS_Subset, FS_CardinalityType

(* Nth finds one frame for every number, and every frame by one.           *)
LEMMA NthExists ==
  ASSUME NEW S, S \subseteq Frame, NEW i \in 1 .. Cardinality(S)
  PROVE  \E f \in S : Cardinality({g \in S : g >= f}) = i
<1> DEFINE Above(f) == {g \in S : g >= f}
           Missing == {j \in 1 .. Cardinality(S) : ~ \E f \in S : Cardinality(Above(f)) = j}
<1>0. IsFiniteSet(S) /\ Cardinality(S) \in Nat
  BY FramesFinite
<1> SUFFICES ASSUME Missing # {} PROVE FALSE
  OBVIOUS
<1>n. \A x \in S : x \in Nat
  BY FrameNumbers
<1>1. PICK j \in Missing : \A k \in Missing : j <= k
  <2>1. Missing \subseteq Nat
    BY <1>0
  <2> HIDE DEF Missing
  <2> QED BY <2>1, LeastNatural
<1>2. CASE j = 1
  <2>1. S # {}
    BY <1>0, <1>2, FS_EmptySet
  <2>2. PICK x \in S : \A y \in S : x >= y
    BY <2>1, HighestOfSet
  <2>3. Above(x) = {x}
    BY <1>n, <2>2
  <2>4. Cardinality(Above(x)) = 1
    BY <2>3, FS_Singleton
  <2> QED BY <1>1, <1>2, <2>4
<1>3. CASE j # 1
  <2>1. j - 1 \in 1 .. Cardinality(S) /\ j - 1 \notin Missing
    BY <1>0, <1>1, <1>3
  <2>2. PICK f \in S : Cardinality(Above(f)) = j - 1
    BY <2>1
  <2> DEFINE below == {g \in S : g < f}
  <2>3. below # {}
    <3>1. SUFFICES ASSUME below = {} PROVE FALSE
      OBVIOUS
    <3>2. Above(f) = S
      BY <1>n, <3>1
    <3>3. Cardinality(S) = j - 1
      BY <2>2, <3>2
    <3> QED BY <1>0, <1>1, <3>3
  <2>4. PICK h \in below : \A g \in below : h >= g
    BY <2>3, HighestOfSet
  <2>5. Above(h) = Above(f) \cup {h} /\ h \notin Above(f)
    BY <1>n, <2>4
  <2>6. IsFiniteSet(Above(f))
    BY FramesFinite
  <2>7. Cardinality(Above(h)) = Cardinality(Above(f)) + 1
    BY <2>5, <2>6, FS_AddElement
  <2>8. Cardinality(Above(h)) = j
    BY <1>0, <1>1, <2>2, <2>7
  <2> QED BY <1>1, <2>4, <2>8
<1> QED BY <1>2, <1>3

LEMMA NthFrame ==
  ASSUME NEW S, S \subseteq Frame
  PROVE  /\ \A i \in 1 .. Cardinality(S) : Nth(S, i) \in S
         /\ \A i, j \in 1 .. Cardinality(S) : Nth(S, i) = Nth(S, j) => i = j
         /\ \A f \in S : \E i \in 1 .. Cardinality(S) : Nth(S, i) = f
<1>0. IsFiniteSet(S) /\ Cardinality(S) \in Nat
  BY FramesFinite
<1>1. ASSUME NEW i \in 1 .. Cardinality(S)
      PROVE  Nth(S, i) \in S /\ Cardinality({g \in S : g >= Nth(S, i)}) = i
  <2>1. \E f \in S : Cardinality({g \in S : g >= f}) = i
    BY NthExists
  <2> QED BY <2>1 DEF Nth
<1>n. \A x \in S : x \in Nat
  BY FrameNumbers
<1>2. ASSUME NEW i \in 1 .. Cardinality(S), NEW j \in 1 .. Cardinality(S), Nth(S, i) = Nth(S, j)
      PROVE  i = j
  BY <1>1, <1>2
<1>3. ASSUME NEW f \in S PROVE \E i \in 1 .. Cardinality(S) : Nth(S, i) = f
  <2> DEFINE above == {g \in S : g >= f}
             i == Cardinality(above)
  <2>1. i \in 1 .. Cardinality(S)
    <3>1. above \in SUBSET S /\ f \in above
      BY <1>n
    <3>2. IsFiniteSet(above) /\ i \in Nat /\ i <= Cardinality(S)
      BY <1>0, <3>1, FS_Subset, FS_CardinalityType
    <3>3. i # 0
      BY <3>1, <3>2, FS_EmptySet
    <3> QED BY <1>0, <3>2, <3>3
  <2>2. PICK h \in S : h = Nth(S, i) /\ Cardinality({g \in S : g >= h}) = i
    BY <1>1, <2>1
  <2>3. CASE h < f
    <3>1. above \in SUBSET {g \in S : g >= h} /\ h \notin above /\ h \in {g \in S : g >= h}
      BY <1>n, <2>2, <2>3
    <3>2. IsFiniteSet({g \in S : g >= h})
      BY FramesFinite
    <3> QED BY <2>2, <3>1, <3>2, FS_Subset
  <2>4. CASE f < h
    <3>1. {g \in S : g >= h} \in SUBSET above /\ f \in above /\ f \notin {g \in S : g >= h}
      BY <1>n, <2>2, <2>4
    <3>2. IsFiniteSet(above)
      BY FramesFinite
    <3> QED BY <2>2, <3>1, <3>2, FS_Subset
  <2>5. CASE h = f
    BY <2>1, <2>2, <2>5
  <2> QED BY <1>n, <2>3, <2>4, <2>5
<1> QED BY <1>1, <1>2, <1>3

-----------------------------------------------------------------------------
(* Machines: what a call works on. *)

Machines ==
  [used : SUBSET Frame, bound : 1 .. (Frames + 1), tables : [Directory -> Frame \cup {None}],
   space : [Page -> Frame \cup {None}], ok : BOOLEAN, null : BOOLEAN]

(* A page table or a page of the process m is about.                       *)
Table(m, f) == f # None /\ \E d \in Directory : m.tables[d] = f
Mapping(m, f) == f # None /\ \E v \in Page : m.space[v] = f

(* The machine of a process and the frames F of everybody else.            *)
Sound(m, F) ==
  /\ m \in Machines
  /\ F \subseteq m.used
  /\ \A f : Table(m, f) \/ Mapping(m, f) => f \in m.used \ F
  /\ \A f : ~ (Table(m, f) /\ Mapping(m, f))
  /\ \A d, e \in Directory : m.tables[d] = m.tables[e] /\ m.tables[d] # None => d = e
  /\ \A v, w \in Page : m.space[v] = m.space[w] /\ m.space[v] # None => v = w
  /\ \A v \in Page : m.space[v] # None => m.tables[directory_of(v)] # None

LEMMA PageNumbers ==
  /\ LastPage \in Nat /\ FirstPage \in Nat \ {0} /\ FirstPage <= LastPage
  /\ \A v \in Page : v \in Nat /\ FirstPage <= v /\ v <= LastPage /\ directory_of(v) \in Directory
  /\ \A v \in Nat : FirstPage <= v /\ v <= LastPage => v \in Page
<1>1. TableSize \in Nat \ {0} /\ Tables \in Nat \ {0, 1}
  BY AddressSpaceAssumption
<1>2. Tables * TableSize \in Nat /\ TableSize + TableSize <= Tables * TableSize
  BY <1>1
<1>3. LastPage \in Nat /\ FirstPage \in Nat \ {0} /\ FirstPage <= LastPage
  BY <1>1, <1>2 DEF LastPage, FirstPage
<1>4. \A v \in Page : v \in Nat /\ FirstPage <= v /\ v <= LastPage
  BY <1>3 DEF Page
<1>5. ASSUME NEW v \in Page PROVE directory_of(v) \in Directory
  <2>1. v \in Nat /\ TableSize <= v /\ v <= Tables * TableSize - 1
    BY <1>4 DEF FirstPage, LastPage
  <2>2. v \div TableSize \in 1 .. Tables - 1
    BY <1>1, <2>1
  <2> QED BY <2>2 DEF directory_of, Directory
<1>6. \A v \in Nat : FirstPage <= v /\ v <= LastPage => v \in Page
  BY <1>3 DEF Page
<1> QED BY <1>3, <1>4, <1>5, <1>6

LEMMA LowestBound ==
  ASSUME NEW b \in 1 .. (Frames + 1), NEW S, S \subseteq Frame
  PROVE  Min({b} \cup S) \in 1 .. (Frames + 1)
<1>1. {b} \cup S \subseteq Nat /\ {b} \cup S \subseteq 1 .. (Frames + 1)
  BY FrameNumbers
<1>2. \E x \in {b} \cup S : \A y \in {b} \cup S : x <= y
  BY <1>1, LeastNatural
<1>3. Min({b} \cup S) \in {b} \cup S
  BY <1>2 DEF Min
<1> QED BY <1>1, <1>3

LEMMA PageAllocMachine ==
  ASSUME NEW m \in Machines, NEW S, S \subseteq Frame
  PROVE  LET r == page_alloc(m, S)
         IN  /\ r \in Machines /\ r.used = m.used \cup S
             /\ r.tables = m.tables /\ r.space = m.space /\ (r.ok <=> m.ok)
<1>1. Min({m.bound} \cup S) \in 1 .. (Frames + 1)
  BY LowestBound DEF Machines
<1> QED BY <1>1 DEF page_alloc, Machines

LEMMA PageFreeMachine ==
  ASSUME NEW m \in Machines, NEW f \in Frame
  PROVE  LET r == page_free(m, f)
         IN  /\ r \in Machines
             /\ r.tables = m.tables /\ r.space = m.space /\ (r.null <=> m.null)
             /\ \/ ~r.ok /\ r.used = m.used
                \/ r.ok /\ r.used = m.used \ {f}
<1>1. Frames + 1 \in 1 .. (Frames + 1)
  BY FrameNumbers
<1> QED BY <1>1 DEF page_free, Machines

LEMMA HighestFree ==
  ASSUME NEW m \in Machines, NEW n \in Nat
  PROVE  /\ Highest(m, n) \subseteq Frame /\ Highest(m, n) \cap m.used = {}
         /\ IsFiniteSet(Highest(m, n)) /\ Cardinality(Highest(m, n)) \in 0 .. n
<1> DEFINE H == Highest(m, n)
<1>1. H \subseteq Frame /\ H \cap m.used = {}
  BY DEF Highest
<1>2. IsFiniteSet(H) /\ Cardinality(H) \in Nat
  BY <1>1, FramesFinite
<1>3. Cardinality(H) <= n
  <2>1. CASE H = {}
    BY <2>1, FS_EmptySet
  <2>2. CASE H # {}
    <3>1. H \subseteq Nat
      BY <1>1, FrameNumbers
    <3>2. PICK x \in H : \A y \in H : x <= y
      BY <2>2, <3>1, LeastNatural
    <3> DEFINE above == {g \in Frame \ m.used : g > x}
    <3>3. IsFiniteSet(above) /\ Cardinality(above) \in Nat
      BY FramesFinite
    <3>4. Cardinality(above) < n
      BY <3>2 DEF Highest
    <3>5. H \ {x} \in SUBSET above
      BY <1>1, <3>1, <3>2
    <3>6. Cardinality(H \ {x}) <= Cardinality(above) /\ Cardinality(H \ {x}) = Cardinality(H) - 1
      BY <1>2, <3>2, <3>3, <3>5, FS_Subset, FS_RemoveElement
    <3> QED BY <1>2, <3>3, <3>4, <3>6
  <2> QED BY <2>1, <2>2
<1> QED BY <1>1, <1>2, <1>3

(* A loop of n turns from a: G[k] is what turn k does, D[k] what is known  *)
(* after k turns.                                                          *)
Loop(n, a, G, f) == f = [k \in 0 .. n |-> IF k = 0 THEN a ELSE G[k][f[k - 1]]]
Keeps(n, G, D) == \A k \in 1 .. n : \A x \in D[k - 1] : G[k][x] \in D[k]

LEMMA LoopIsDefined ==
  ASSUME NEW n \in Nat, NEW a, NEW D, NEW G, a \in D[0], Keeps(n, G, D)
  PROVE  \E f : Loop(n, a, G, f) /\ \A k \in 0 .. n : f[k] \in D[k]
<1>0. \A k \in 1 .. n : \A x \in D[k - 1] : G[k][x] \in D[k]
  BY DEF Keeps
<1> DEFINE At(f, k) == IF k = 0 THEN a ELSE G[k][f[k - 1]]
           Defined == {j \in Nat : \E f : /\ f = [k \in 0 .. j |-> At(f, k)]
                                          /\ \A k \in 0 .. j : f[k] \in D[k]}
<1>1. 0 \in Defined
  <2> DEFINE g == [k \in 0 .. 0 |-> a]
  <2>1. g = [k \in 0 .. 0 |-> At(g, k)] /\ \A k \in 0 .. 0 : g[k] \in D[k]
    OBVIOUS
  <2> QED BY <2>1
<1>2. ASSUME NEW j \in 1 .. n, j - 1 \in Defined PROVE j \in Defined
  <2>1. PICK f : f = [k \in 0 .. j - 1 |-> At(f, k)] /\ \A k \in 0 .. j - 1 : f[k] \in D[k]
    BY <1>2
  <2> DEFINE g == [k \in 0 .. j |-> At(f, k)]
  <2>2. \A k \in 0 .. j - 1 : g[k] = f[k]
    <3> SUFFICES ASSUME NEW k \in 0 .. j - 1 PROVE g[k] = f[k]
      OBVIOUS
    <3>1. k \in 0 .. j
      OBVIOUS
    <3>2. f[k] = At(f, k)
      BY <2>1
    <3> QED BY <3>1, <3>2
  <2>3. \A k \in 0 .. j : At(g, k) = At(f, k)
    <3> SUFFICES ASSUME NEW k \in 0 .. j PROVE At(g, k) = At(f, k)
      OBVIOUS
    <3>1. CASE k = 0
      BY <3>1
    <3>2. CASE k # 0
      <4>1. k - 1 \in 0 .. j - 1
        BY <3>2
      <4>2. g[k - 1] = f[k - 1]
        BY <2>2, <4>1
      <4> HIDE DEF g
      <4> QED BY <4>2
    <3> QED BY <3>1, <3>2
  <2>4. g = [k \in 0 .. j |-> At(g, k)]
    BY <2>3
  <2>5. j - 1 \in 0 .. j - 1 /\ j \in 0 .. j /\ j # 0
    OBVIOUS
  <2>6. g[j] \in D[j]
    <3>1. g[j] = G[j][f[j - 1]]
      BY <2>5
    <3>2. f[j - 1] \in D[j - 1]
      BY <2>1, <2>5
    <3> QED BY <1>0, <3>1, <3>2
  <2>7. \A k \in 0 .. j : g[k] \in D[k]
    <3>1. \A k \in 0 .. j : k = j \/ k \in 0 .. j - 1
      OBVIOUS
    <3> HIDE DEF g
    <3> SUFFICES ASSUME NEW k \in 0 .. j PROVE g[k] \in D[k]
      OBVIOUS
    <3>2. CASE k = j
      BY <2>6, <3>2
    <3>3. CASE k \in 0 .. j - 1
      BY <2>1, <2>2, <3>3
    <3> QED BY <3>1, <3>2, <3>3
  <2> HIDE DEF g
  <2>8. j \in Nat
    OBVIOUS
  <2> QED BY <2>4, <2>7, <2>8
<1>3. n \in Defined
  <2> HIDE DEF Defined
  <2> QED BY <1>1, <1>2, TurnByTurn
<1> QED BY <1>3 DEF Loop

(* Giving frames back touches nothing else, whichever of them is refused.  *)
LEMMA FreeAllMachine ==
  ASSUME NEW m \in Machines, NEW fs
  PROVE  LET r == free_all(m, fs)
         IN  /\ r \in Machines /\ r.tables = m.tables /\ r.space = m.space
             /\ r.used \subseteq m.used /\ m.used \ fs \subseteq r.used
<1> DEFINE step(k, x) == LET f == Frames + 1 - k IN IF f \in fs THEN page_free(x, f) ELSE x
           freed[k \in 0 .. Frames] == IF k = 0 THEN m ELSE step(k, freed[k - 1])
           Good == {r \in Machines : /\ r.tables = m.tables /\ r.space = m.space
                                     /\ r.used \subseteq m.used /\ m.used \ fs \subseteq r.used}
<1>1. Frames \in Nat /\ \A k \in 1 .. Frames : Frames + 1 - k \in Frame
  BY FrameNumbers DEF Frame
<1>2. m \in Good
  OBVIOUS
<1>3. ASSUME NEW k \in 1 .. Frames, NEW x \in Good PROVE step(k, x) \in Good
  <2> DEFINE f == Frames + 1 - k
  <2>1. f \in Frame
    BY <1>1
  <2> HIDE DEF f
  <2>2. CASE f \in fs
    <3>1. page_free(x, f) \in Good
      BY <2>1, <2>2, PageFreeMachine
    <3> QED BY <2>2, <3>1 DEF f
  <2>3. CASE f \notin fs
    BY <2>3 DEF f
  <2> QED BY <2>2, <2>3
<1> DEFINE D == [k \in 0 .. Frames |-> Good]
           G == [k \in 1 .. Frames |-> [x \in Good |-> step(k, x)]]
<1>4. \E f : f = [k \in 0 .. Frames |-> IF k = 0 THEN m ELSE step(k, f[k - 1])]
  <2> HIDE DEF step, Good
  <2>1. m \in D[0] /\ Keeps(Frames, G, D)
    BY <1>1, <1>2, <1>3 DEF Keeps
  <2>2. PICK f : Loop(Frames, m, G, f) /\ \A k \in 0 .. Frames : f[k] \in D[k]
    <3>1. Frames \in Nat
      BY <1>1
    <3> HIDE DEF D, G, freed
    <3> QED BY <2>1, <3>1, LoopIsDefined
  <2>3. \A k \in 1 .. Frames : G[k][f[k - 1]] = step(k, f[k - 1])
    <3> SUFFICES ASSUME NEW k \in 1 .. Frames PROVE G[k][f[k - 1]] = step(k, f[k - 1])
      OBVIOUS
    <3>1. k - 1 \in 0 .. Frames
      BY <1>1
    <3>2. f[k - 1] \in Good
      BY <2>2, <3>1
    <3> QED BY <3>2
  <2>4. f = [k \in 0 .. Frames |-> IF k = 0 THEN m ELSE step(k, f[k - 1])]
    <3> HIDE DEF G
    <3>1. \A k \in 0 .. Frames : k # 0 => k \in 1 .. Frames
      BY <1>1
    <3> QED BY <2>2, <2>3, <3>1 DEF Loop
  <2> QED BY <2>4
<1>5. freed = [k \in 0 .. Frames |-> IF k = 0 THEN m ELSE step(k, freed[k - 1])]
  <2> HIDE DEF step
  <2> QED BY <1>4, Zenon
<1>6. free_all(m, fs) = freed[Frames]
  BY DEF free_all
<1> HIDE DEF freed, step, Good
<1>7. freed[Frames] \in Good
  <2> DEFINE S == {k \in 0 .. Frames : freed[k] \in Good}
  <2>1. 0 \in S
    BY <1>1, <1>2, <1>5
  <2>2. ASSUME NEW k \in 1 .. Frames, k - 1 \in S PROVE k \in S
    <3>1. k \in 0 .. Frames /\ k # 0
      BY <1>1
    <3>2. freed[k] = step(k, freed[k - 1])
      BY <1>5, <3>1
    <3> QED BY <1>3, <2>2, <3>1, <3>2
  <2>3. Frames \in S
    <3> HIDE DEF S
    <3> QED BY <1>1, <2>1, <2>2, TurnByTurn
  <2> QED BY <2>3
<1> QED BY <1>6, <1>7 DEF Good

-----------------------------------------------------------------------------
(* Mapping frames. *)

(* The frame a missing table gets: the lowest table the highest frame.     *)
Dealt(absent, new, d) == Nth(new, Cardinality({e \in absent : e <= d}))

(* Every missing table gets a frame, and every new frame is such a table.  *)
LEMMA TablesDealt ==
  ASSUME NEW absent, absent \subseteq Directory, NEW new, new \subseteq Frame,
         Cardinality(new) = Cardinality(absent)
  PROVE  /\ \A d \in absent : Dealt(absent, new, d) \in new
         /\ \A d, e \in absent : Dealt(absent, new, d) = Dealt(absent, new, e) => d = e
         /\ \A f \in new : \E d \in absent : Dealt(absent, new, d) = f
<1> DEFINE upto(d) == {e \in absent : e <= d}
           rank(d) == Cardinality(upto(d))
           table(d) == Nth(new, rank(d))
<1>1. IsFiniteSet(absent) /\ Cardinality(absent) \in Nat /\ \A d \in absent : d \in Nat
  <2>1. Tables \in Nat \ {0, 1}
    BY AddressSpaceAssumption
  <2>2. IsFiniteSet(1 .. (Tables - 1))
    BY <2>1, FS_Interval
  <2>3. absent \subseteq 1 .. (Tables - 1)
    BY DEF Directory
  <2>4. IsFiniteSet(absent) /\ Cardinality(absent) \in Nat
    BY <2>2, <2>3, FS_Subset, FS_CardinalityType
  <2> QED BY <2>1, <2>3, <2>4
<1>2. IsFiniteSet(new)
  BY FramesFinite
<1>3. ASSUME NEW d \in absent
      PROVE  IsFiniteSet(upto(d)) /\ rank(d) \in 1 .. Cardinality(absent)
  <2>1. upto(d) \in SUBSET absent /\ d \in upto(d)
    BY <1>1
  <2>2. IsFiniteSet(upto(d)) /\ rank(d) \in Nat /\ rank(d) <= Cardinality(absent)
    BY <1>1, <2>1, FS_Subset, FS_CardinalityType
  <2>3. rank(d) # 0
    BY <2>1, <2>2, FS_EmptySet
  <2> QED BY <1>1, <2>2, <2>3
<1>4. ASSUME NEW d \in absent, NEW e \in absent, d < e PROVE rank(d) # rank(e)
  <2>1. upto(d) \in SUBSET upto(e) /\ e \in upto(e) /\ e \notin upto(d)
    BY <1>1, <1>4
  <2> QED BY <1>3, <2>1, FS_Subset
<1>5. \A d \in absent : table(d) \in new
  BY <1>3, NthFrame
<1>6. ASSUME NEW d \in absent, NEW e \in absent, table(d) = table(e) PROVE d = e
  <2>1. rank(d) = rank(e)
    BY <1>3, <1>6, NthFrame
  <2> QED BY <1>1, <1>4, <2>1
<1> DEFINE T == [d \in absent |-> table(d)]
<1>7. T \in Injection(absent, new)
  BY <1>5, <1>6 DEF Injection, IsInjective
<1>8. T \in Surjection(absent, new)
  <2> HIDE DEF T
  <2> QED BY <1>2, <1>7, FS_Injection
<1>9. ASSUME NEW f \in new PROVE \E d \in absent : table(d) = f
  BY <1>8 DEF Surjection
<1> QED BY <1>5, <1>6, <1>9 DEF Dealt

LEMMA SoundTables ==
  ASSUME NEW F, NEW m, Sound(m, F)
  PROVE  /\ m \in Machines /\ F \subseteq m.used
         /\ \A d \in Directory : m.tables[d] # None => m.tables[d] \in m.used \ F
         /\ \A v \in Page : m.space[v] # None => m.space[v] \in m.used \ F
         /\ \A d \in Directory, v \in Page : m.tables[d] = m.space[v] => m.space[v] = None
BY DEF Sound, Table, Mapping

(* Sound, as it is proved of a machine.                                    *)
LEMMA SoundBy ==
  ASSUME NEW F, NEW m \in Machines, F \subseteq m.used,
         \A d \in Directory : m.tables[d] # None => m.tables[d] \in m.used \ F,
         \A v \in Page : m.space[v] # None => m.space[v] \in m.used \ F,
         \A d \in Directory, v \in Page : m.tables[d] = m.space[v] => m.space[v] = None,
         \A d, e \in Directory : m.tables[d] = m.tables[e] /\ m.tables[d] # None => d = e,
         \A v, w \in Page : m.space[v] = m.space[w] /\ m.space[v] # None => v = w,
         \A v \in Page : m.space[v] # None => m.tables[directory_of(v)] # None
  PROVE  Sound(m, F)
BY DEF Sound, Table, Mapping

(* The tables add_virtual_memory creates.                                  *)
Created(m, absent, new) ==
  [page_alloc(m, new) EXCEPT
     !.tables = [d \in Directory |-> IF d \in absent THEN Dealt(absent, new, d) ELSE @[d]]]

LEMMA TablesCreated ==
  ASSUME NEW F, NEW m, Sound(m, F),
         NEW absent, absent \subseteq {d \in Directory : m.tables[d] = None},
         NEW new, new \subseteq Frame \ m.used, Cardinality(new) = Cardinality(absent)
  PROVE  LET r == Created(m, absent, new)
         IN  /\ Sound(r, F)
             /\ r.used = m.used \cup new /\ r.space = m.space /\ (r.null <=> m.null)
             /\ \A d \in Directory : r.tables[d] # None <=> m.tables[d] # None \/ d \in absent
             /\ \A f : f \in new \/ Table(m, f) => Table(r, f)
<1> DEFINE table(d) == Dealt(absent, new, d)
<1>1. m \in Machines /\ absent \subseteq Directory /\ new \subseteq Frame
  BY SoundTables
<1>2. /\ \A d \in absent : table(d) \in new
      /\ \A d, e \in absent : table(d) = table(e) => d = e
      /\ \A f \in new : \E d \in absent : table(d) = f
  BY <1>1, TablesDealt
<1> DEFINE a == page_alloc(m, new)
           tabs == [d \in Directory |-> IF d \in absent THEN table(d) ELSE m.tables[d]]
           r == [a EXCEPT !.tables = tabs]
<1>3. a \in Machines /\ a.used = m.used \cup new /\ a.tables = m.tables /\ a.space = m.space
  BY <1>1, PageAllocMachine
<1>4. a.null <=> m.null
  BY <1>1 DEF page_alloc, Machines
<1>5. Created(m, absent, new) = r
  BY <1>3 DEF Created
<1> HIDE DEF a, table
<1>6. tabs \in [Directory -> Frame \cup {None}]
  BY <1>1, <1>2 DEF Machines
<1>7. /\ r \in Machines /\ r.used = m.used \cup new /\ r.space = m.space /\ (r.null <=> m.null)
      /\ r.tables = tabs
  BY <1>3, <1>4, <1>6 DEF Machines
<1> HIDE DEF r
<1>8. /\ \A d \in absent : tabs[d] = table(d) /\ tabs[d] \in new /\ m.tables[d] = None
      /\ \A d \in Directory : d \notin absent => tabs[d] = m.tables[d]
  BY <1>2
<1> HIDE DEF tabs
<1>9. new \cap m.used = {} /\ None \notin new
  BY FrameNumbers
<1>10. Sound(r, F)
  <2>1. F \subseteq r.used
    BY <1>7, SoundTables
  <2>2. \A d \in Directory : r.tables[d] # None => r.tables[d] \in r.used \ F
    BY <1>7, <1>8, <1>9, SoundTables
  <2>3. \A v \in Page : r.space[v] # None => r.space[v] \in r.used \ F
    BY <1>7, SoundTables
  <2>4. \A d \in Directory, v \in Page : r.tables[d] = r.space[v] => r.space[v] = None
    BY <1>7, <1>8, <1>9, SoundTables
  <2>5. ASSUME NEW d \in Directory, NEW e \in Directory,
               r.tables[d] = r.tables[e], r.tables[d] # None
        PROVE  d = e
    <3>1. CASE d \in absent /\ e \in absent
      BY <1>2, <1>7, <1>8, <2>5, <3>1
    <3>2. CASE d \notin absent /\ e \notin absent
      BY <1>7, <1>8, <2>5, <3>2 DEF Sound
    <3>3. \A g, h \in Directory : g \in absent /\ h \notin absent => tabs[g] # tabs[h]
      BY <1>8, <1>9, SoundTables
    <3> QED BY <1>7, <2>5, <3>1, <3>2, <3>3
  <2>6. \A v, w \in Page : r.space[v] = r.space[w] /\ r.space[v] # None => v = w
    BY <1>7 DEF Sound
  <2>7. \A v \in Page : r.space[v] # None => r.tables[directory_of(v)] # None
    BY <1>7, <1>8, PageNumbers DEF Sound
  <2> QED BY <1>7, <2>1, <2>2, <2>3, <2>4, <2>5, <2>6, <2>7, SoundBy
<1>11. \A d \in Directory : r.tables[d] # None <=> m.tables[d] # None \/ d \in absent
  BY <1>7, <1>8, <1>9
<1>12. ASSUME NEW f, f \in new \/ Table(m, f) PROVE Table(r, f)
  <2>1. CASE f \in new
    BY <1>2, <1>7, <1>8, <1>9, <2>1 DEF Table
  <2>2. CASE Table(m, f)
    BY <1>7, <1>8, <2>2 DEF Table
  <2> QED BY <1>12, <2>1, <2>2
<1> QED BY <1>5, <1>7, <1>10, <1>11, <1>12

(* The pages add_virtual_memory maps, their tables being there.            *)
PageRange(frames, base) == {v \in Page : base <= v /\ v < base + Cardinality(frames)}
Entered(m, frames, base) ==
  [m EXCEPT
     !.ok = TRUE,
     !.space = [v \in Page |-> IF v \in PageRange(frames, base) THEN Nth(frames, v - base + 1)
                              ELSE @[v]]]

Enters(m, r, F, frames, base) ==
  /\ Sound(r, F)
  /\ r.used = m.used /\ r.tables = m.tables /\ (r.null <=> m.null) /\ r.ok
  /\ \A v \in Page : v \notin PageRange(frames, base) => r.space[v] = m.space[v]
  /\ \A v \in PageRange(frames, base) : r.space[v] \in frames
  /\ FirstPage <= base /\ base + Cardinality(frames) <= LastPage + 1
       => \A f \in frames : Mapping(r, f)

LEMMA PagesEntered ==
  ASSUME NEW F, NEW m, NEW frames, frames \subseteq Frame, Sound(m, F \cup frames),
         frames \cap F = {}, NEW base \in Nat,
         \A v \in PageRange(frames, base) :
           m.space[v] = None /\ m.tables[directory_of(v)] # None
  PROVE  Enters(m, Entered(m, frames, base), F, frames, base)
<1> DEFINE n == Cardinality(frames)
           range == PageRange(frames, base)
           pages == [v \in Page |-> IF v \in range THEN Nth(frames, v - base + 1) ELSE m.space[v]]
           r == [m EXCEPT !.ok = TRUE, !.space = pages]
<1>1. m \in Machines
  BY SoundTables
<1>2. n \in Nat
  BY FramesFinite
<1>3. Entered(m, frames, base) = r
  BY DEF Entered
<1>4. \A v \in range : v \in Page /\ v - base + 1 \in 1 .. n
  BY <1>2, PageNumbers DEF PageRange
<1> HIDE DEF range
<1>5. \A v \in range : pages[v] = Nth(frames, v - base + 1) /\ pages[v] \in frames
  BY <1>4, NthFrame
<1>6. \A v \in Page : v \notin range => pages[v] = m.space[v]
  OBVIOUS
<1>7. pages \in [Page -> Frame \cup {None}]
  BY <1>1, <1>5, <1>6 DEF Machines
<1>8. /\ r \in Machines /\ r.used = m.used /\ r.tables = m.tables /\ (r.null <=> m.null)
      /\ r.ok /\ r.space = pages
  BY <1>1, <1>7 DEF Machines
<1> HIDE DEF r
<1>9. ASSUME NEW v \in range, NEW w \in range, pages[v] = pages[w] PROVE v = w
  <2>1. v - base + 1 = w - base + 1
    BY <1>4, <1>5, <1>9, NthFrame
  <2> QED BY <1>4, <2>1, PageNumbers
<1> HIDE DEF pages
<1>10. frames \subseteq m.used /\ None \notin frames
  BY SoundTables, FrameNumbers
<1>11. Sound(r, F)
  <2>1. F \subseteq r.used
    BY <1>8, SoundTables
  <2>2. \A d \in Directory : r.tables[d] # None => r.tables[d] \in r.used \ F
    BY <1>8, SoundTables
  <2>3. \A v \in Page : r.space[v] # None => r.space[v] \in r.used \ F
    BY <1>5, <1>6, <1>8, <1>10, SoundTables
  <2>4. \A d \in Directory, v \in Page : r.tables[d] = r.space[v] => r.space[v] = None
    BY <1>5, <1>6, <1>8, <1>10, SoundTables
  <2>5. \A d, e \in Directory : r.tables[d] = r.tables[e] /\ r.tables[d] # None => d = e
    BY <1>8 DEF Sound
  <2>6. ASSUME NEW v \in Page, NEW w \in Page, r.space[v] = r.space[w], r.space[v] # None
        PROVE  v = w
    <3>1. CASE v \in range /\ w \in range
      BY <1>8, <1>9, <2>6, <3>1
    <3>2. CASE v \notin range /\ w \notin range
      BY <1>6, <1>8, <2>6, <3>2 DEF Sound
    <3>3. \A x, y \in Page : x \in range /\ y \notin range => pages[x] # pages[y]
      BY <1>5, <1>6, <1>10, SoundTables
    <3> QED BY <1>8, <2>6, <3>1, <3>2, <3>3
  <2>7. \A v \in Page : r.space[v] # None => r.tables[directory_of(v)] # None
    BY <1>6, <1>8 DEF Sound, range
  <2> QED BY <1>8, <2>1, <2>2, <2>3, <2>4, <2>5, <2>6, <2>7, SoundBy
<1>12. ASSUME FirstPage <= base, base + n <= LastPage + 1, NEW f \in frames
       PROVE  Mapping(r, f)
  <2>1. PICK i \in 1 .. n : Nth(frames, i) = f
    BY NthFrame
  <2>2. base + i - 1 \in range
    <3>1. base + i - 1 \in Nat /\ FirstPage <= base + i - 1 /\ base + i - 1 <= LastPage
      BY <1>2, <1>12, PageNumbers
    <3> QED BY <1>2, <3>1, PageNumbers DEF range, PageRange
  <2>3. pages[base + i - 1] = Nth(frames, base + i - 1 - base + 1)
    BY <1>5, <2>2
  <2>4. base + i - 1 - base + 1 = i
    OBVIOUS
  <2>5. r.space[base + i - 1] = f /\ base + i - 1 \in Page
    BY <1>4, <1>8, <2>1, <2>2, <2>3, <2>4
  <2> QED BY <1>10, <2>5 DEF Mapping
<1>13. Enters(m, r, F, frames, base)
  BY <1>5, <1>6, <1>8, <1>11, <1>12 DEF Enters, range
<1> QED BY <1>3, <1>13 DEF r

(* What an allocation may do to a machine of a process that does not own   *)
(* F: nothing that was mapped moves, and only a success maps anything.     *)
Extends(m, r, F) ==
  /\ Sound(r, F)
  /\ m.used \subseteq r.used
  /\ \A v \in Page : m.space[v] # None => r.space[v] = m.space[v]
  /\ ~r.ok => r.space = m.space
  /\ r.null => ~r.ok

(* No frame is lost: what nobody needs any more is not in use any more.    *)
Unneeded(m, f) == f \in m.used /\ ~Table(m, f) /\ ~Mapping(m, f)
Lossless(m, r) == \A f : Unneeded(r, f) => Unneeded(m, f)

(* It also uses up the frames it was given.                                *)
Added(m, r, F, frames, base) ==
  /\ Extends(m, r, F)
  /\ r.ok => /\ \A v \in Page : r.space[v] # None
                  <=> m.space[v] # None \/ (base <= v /\ v < base + Cardinality(frames))
             /\ \A f \in r.used : f \in m.used \/ Table(r, f)
             /\ \A f : Table(m, f) \/ Mapping(m, f) => Table(r, f) \/ Mapping(r, f)
             /\ FirstPage <= base /\ base + Cardinality(frames) <= LastPage + 1
                  => \A f \in frames : Mapping(r, f)

LEMMA AddMaps ==
  ASSUME NEW F, NEW m, NEW frames, frames \subseteq Frame, Sound(m, F \cup frames),
         frames \cap F = {}, ~m.null, NEW base \in Nat
  PROVE  Added(m, add_virtual_memory(m, frames, base), F, frames, base)
<1> DEFINE range == {v \in Page : base <= v /\ v < base + Cardinality(frames)}
           present == {v \in range : m.space[v] # None}
           walked == {v \in range : \A t \in present : v <= t}
           absent == {d \in {directory_of(v) : v \in walked} : m.tables[d] = None}
           new == Highest(m, Cardinality(absent))
           created == Created(m, absent, new)
           refused == [m EXCEPT !.ok = FALSE, !.null = TRUE]
           stopped == [created EXCEPT !.ok = FALSE]
           entered == Entered(created, frames, base)
           r == add_virtual_memory(m, frames, base)
<1>0. m \in Machines
  BY SoundTables
<1>1. r = IF Cardinality(new) < Cardinality(absent) THEN refused
          ELSE IF present # {} \/ frames = {} THEN stopped
          ELSE entered
  BY DEF add_virtual_memory, Created, Dealt, Entered, PageRange
<1> SUFFICES Added(m, r, F, frames, base)
  OBVIOUS
<1> HIDE DEF r
<1>2. absent \subseteq {d \in Directory : m.tables[d] = None}
  BY PageNumbers
<1>3. IsFiniteSet(absent) /\ Cardinality(absent) \in Nat
  <2>1. Tables \in Nat \ {0, 1}
    BY AddressSpaceAssumption
  <2>2. IsFiniteSet(1 .. (Tables - 1))
    BY <2>1, FS_Interval
  <2>3. absent \subseteq 1 .. (Tables - 1)
    BY <1>2 DEF Directory
  <2> HIDE DEF absent
  <2> QED BY <2>2, <2>3, FS_Subset, FS_CardinalityType
<1>4. new \subseteq Frame \ m.used /\ Cardinality(new) \in 0 .. Cardinality(absent)
  <2> HIDE DEF absent
  <2> QED BY <1>0, <1>3, HighestFree
<1>5. Sound(m, F)
  <2>1. \A f \in m.used \ (F \cup frames) : f \in m.used \ F
    OBVIOUS
  <2> QED BY <2>1 DEF Sound
<1>6. CASE Cardinality(new) < Cardinality(absent)
  <2>1. r = refused
    BY <1>1, <1>6
  <2>2. /\ refused \in Machines /\ ~refused.ok /\ refused.used = m.used
        /\ refused.tables = m.tables /\ refused.space = m.space
    BY <1>0 DEF Machines
  <2> HIDE DEF refused
  <2>3. Sound(refused, F)
    BY <1>5, <2>2 DEF Sound, Table, Mapping
  <2>4. Added(m, refused, F, frames, base)
    BY <2>2, <2>3 DEF Extends, Added
  <2> QED BY <2>1, <2>4
<1>7. CASE ~(Cardinality(new) < Cardinality(absent))
  <2> HIDE DEF refused, stopped, entered
  <2>1. Cardinality(new) = Cardinality(absent)
    BY <1>3, <1>4, <1>7
  <2>2. /\ Sound(created, F \cup frames)
        /\ created.used = m.used \cup new /\ created.space = m.space /\ ~created.null
        /\ \A d \in Directory : created.tables[d] # None <=> m.tables[d] # None \/ d \in absent
        /\ \A f : f \in new \/ Table(m, f) => Table(created, f)
    <3> HIDE DEF absent, new
    <3> QED BY <1>2, <1>4, <2>1, TablesCreated
  <2> HIDE DEF created
  <2>3. CASE present # {} \/ frames = {}
    <3>1. r = stopped
      BY <1>1, <1>7, <2>3
    <3>2. created \in Machines
      BY <2>2, SoundTables
    <3>3. /\ stopped \in Machines /\ ~stopped.ok /\ ~stopped.null /\ stopped.used = created.used
          /\ stopped.tables = created.tables /\ stopped.space = created.space
      BY <2>2, <3>2 DEF Machines, stopped
    <3>4. Sound(stopped, F)
      <4>1. \A f \in created.used \ (F \cup frames) : f \in created.used \ F
        OBVIOUS
      <4> QED BY <2>2, <3>3, <4>1 DEF Sound, Table, Mapping
    <3>5. Added(m, stopped, F, frames, base)
      BY <2>2, <3>3, <3>4 DEF Extends, Added
    <3> QED BY <3>1, <3>5
  <2>4. CASE present = {} /\ frames # {}
    <3>1. r = entered
      BY <1>1, <1>7, <2>4
    <3>2. \A v \in range : created.space[v] = None /\ created.tables[directory_of(v)] # None
      <4> SUFFICES ASSUME NEW v \in range
                   PROVE  created.space[v] = None /\ created.tables[directory_of(v)] # None
        OBVIOUS
      <4>1. v \in walked /\ m.space[v] = None
        BY <2>4
      <4>2. directory_of(v) \in Directory
        BY PageNumbers
      <4>3. m.tables[directory_of(v)] # None \/ directory_of(v) \in absent
        BY <4>1
      <4> HIDE DEF absent, range
      <4> QED BY <2>2, <4>1, <4>2, <4>3
    <3>3. /\ Sound(entered, F)
          /\ entered.used = created.used /\ entered.tables = created.tables
          /\ (entered.null <=> created.null) /\ entered.ok
          /\ \A v \in Page : v \notin range => entered.space[v] = created.space[v]
          /\ \A v \in range : entered.space[v] \in frames
          /\ FirstPage <= base /\ base + Cardinality(frames) <= LastPage + 1
               => \A f \in frames : Mapping(entered, f)
      <4>1. range = PageRange(frames, base)
        BY DEF PageRange
      <4>2. Sound(created, F \cup frames)
        BY <2>2
      <4> HIDE DEF range, present, walked, absent, new
      <4>3. Enters(created, entered, F, frames, base)
        BY <3>2, <4>1, <4>2, PagesEntered DEF entered
      <4> QED BY <4>1, <4>3 DEF Enters
    <3>4. None \notin frames
      BY FrameNumbers
    <3>5. \A v \in range : m.space[v] = None
      BY <2>4
    <3>6. \A v \in Page : m.space[v] # None => entered.space[v] = m.space[v]
      <4> HIDE DEF range
      <4> QED BY <2>2, <3>3, <3>5
    <3>7. \A v \in Page : entered.space[v] # None <=> m.space[v] # None \/ v \in range
      <4> HIDE DEF range
      <4> QED BY <2>2, <3>3, <3>4, <3>6
    <3>8. \A f \in entered.used : f \in m.used \/ Table(entered, f)
      BY <2>2, <3>3 DEF Table
    <3>9. \A f : Table(m, f) \/ Mapping(m, f) => Table(entered, f) \/ Mapping(entered, f)
      <4>1. \A f : Table(m, f) => Table(created, f)
        BY <2>2
      <4>2. \A f : Table(created, f) => Table(entered, f)
        BY <3>3 DEF Table
      <4>3. \A f : Mapping(m, f) => Mapping(entered, f)
        BY <3>6 DEF Mapping
      <4> QED BY <4>1, <4>2, <4>3
    <3>10. Extends(m, entered, F)
      BY <2>2, <3>3, <3>6 DEF Extends
    <3>11. \A v \in Page : entered.space[v] # None
             <=> m.space[v] # None \/ (base <= v /\ v < base + Cardinality(frames))
      BY <3>7
    <3> HIDE DEF range, present, walked, absent, new
    <3>12. Added(m, entered, F, frames, base)
      BY <3>3, <3>8, <3>9, <3>10, <3>11 DEF Added
    <3> QED BY <3>1, <3>12
  <2> QED BY <2>3, <2>4
<1> QED BY <1>6, <1>7

(* A successful vmalloc maps n pages, and loses none if they are there.    *)
Allocates(m, r, F, n, base) ==
  /\ Extends(m, r, F)
  /\ r.ok => /\ \A v \in Page : r.space[v] # None
                  <=> m.space[v] # None \/ (base <= v /\ v < base + n)
             /\ FirstPage <= base /\ base + n <= LastPage + 1 => Lossless(m, r)

LEMMA MallocMaps ==
  ASSUME NEW F, NEW m, Sound(m, F), ~m.null, NEW n \in Nat, NEW base \in Nat
  PROVE  Allocates(m, malloc(m, n, base), F, n, base)
<1> DEFINE got == Highest(m, n)
           taken == page_alloc(m, got)
           freed == free_all(taken, got)
           refused == [freed EXCEPT !.ok = FALSE]
           added == add_virtual_memory(taken, got, base)
<1>1. m \in Machines
  BY SoundTables
<1>2. got \subseteq Frame /\ got \cap m.used = {} /\ Cardinality(got) \in 0 .. n
  BY <1>1, HighestFree
<1>3. malloc(m, n, base) = IF Cardinality(got) < n THEN refused ELSE added
  BY DEF malloc
<1> HIDE DEF got
<1>4. /\ taken \in Machines /\ taken.used = m.used \cup got
      /\ taken.tables = m.tables /\ taken.space = m.space
  BY <1>1, <1>2, PageAllocMachine
<1>5. ~taken.null
  BY <1>1 DEF page_alloc, Machines
<1> HIDE DEF taken
<1>6. CASE Cardinality(got) < n
  <2>1. /\ freed \in Machines /\ freed.tables = m.tables /\ freed.space = m.space
        /\ m.used \subseteq freed.used
    BY <1>2, <1>4, FreeAllMachine
  <2> HIDE DEF freed
  <2>2. /\ refused \in Machines /\ refused.tables = m.tables /\ refused.space = m.space
        /\ refused.used = freed.used /\ ~refused.ok
    BY <2>1 DEF Machines
  <2> HIDE DEF refused
  <2>3. Sound(refused, F)
    BY <2>1, <2>2 DEF Sound, Table, Mapping
  <2>4. Allocates(m, refused, F, n, base)
    BY <2>1, <2>2, <2>3 DEF Allocates, Extends
  <2> QED BY <1>3, <1>6, <2>4
<1>7. CASE ~(Cardinality(got) < n)
  <2>1. Cardinality(got) = n
    BY <1>2, <1>7
  <2>2. Sound(taken, F \cup got)
    <3>1. \A f \in m.used \ F : f \in taken.used \ (F \cup got)
      BY <1>2, <1>4
    <3>2. F \cup got \subseteq taken.used
      BY <1>4, SoundTables
    <3> QED BY <1>4, <3>1, <3>2 DEF Sound, Table, Mapping
  <2>3. got \cap F = {}
    BY <1>2, SoundTables
  <2>4. Added(taken, added, F, got, base)
    BY <1>2, <1>5, <2>2, <2>3, AddMaps
  <2> HIDE DEF added
  <2>5. Extends(m, added, F)
    BY <1>4, <2>4 DEF Added, Extends
  <2>6. ASSUME added.ok, FirstPage <= base, base + n <= LastPage + 1, NEW f, Unneeded(added, f)
        PROVE  Unneeded(m, f)
    <3>1. f \in taken.used
      BY <2>4, <2>6 DEF Added, Unneeded
    <3>2. f \notin got
      BY <2>1, <2>4, <2>6 DEF Added, Unneeded
    <3>3. ~Table(taken, f) /\ ~Mapping(taken, f)
      BY <2>4, <2>6 DEF Added, Unneeded
    <3> QED BY <1>4, <3>1, <3>2, <3>3 DEF Unneeded, Table, Mapping
  <2>7. added.ok => \A v \in Page : added.space[v] # None
                      <=> m.space[v] # None \/ (base <= v /\ v < base + n)
    BY <1>4, <2>1, <2>4 DEF Added
  <2>8. Allocates(m, added, F, n, base)
    BY <2>5, <2>6, <2>7 DEF Allocates, Lossless
  <2> QED BY <1>3, <1>7, <2>8
<1> QED BY <1>6, <1>7

(* kfree gives back a page that is mapped, or nothing.                     *)
LEMMA KfreeReleases ==
  ASSUME NEW F, NEW m, Sound(m, F), NEW v \in Page
  PROVE  LET r == kfree(m, v)
         IN  /\ Sound(r, F) /\ Lossless(m, r) /\ (r.null <=> m.null)
             /\ r.space = m.space \/ r.space = [m.space EXCEPT ![v] = None]
<1> DEFINE f == m.space[v]
           refused == [m EXCEPT !.ok = FALSE]
           freed == page_free(m, f)
           emptied == [freed EXCEPT !.space[v] = None]
           Goal(r) == /\ Sound(r, F) /\ Lossless(m, r) /\ (r.null <=> m.null)
                      /\ r.space = m.space \/ r.space = [m.space EXCEPT ![v] = None]
<1>1. m \in Machines
  BY SoundTables
<1>2. kfree(m, v) = IF f = None THEN refused ELSE IF freed.ok THEN emptied ELSE freed
  BY DEF kfree
<1>3. CASE f = None
  <2>1. /\ refused \in Machines /\ refused.tables = m.tables /\ refused.space = m.space
        /\ refused.used = m.used /\ (refused.null <=> m.null)
    BY <1>1 DEF Machines
  <2> HIDE DEF refused
  <2>2. Goal(refused)
    BY <2>1 DEF Sound, Lossless, Unneeded, Table, Mapping
  <2> QED BY <1>2, <1>3, <2>2
<1>4. CASE f # None
  <2>1. f \in m.used \ F /\ f \in Frame
    BY <1>1, <1>4, SoundTables DEF Machines
  <2>2. /\ freed \in Machines /\ freed.tables = m.tables /\ freed.space = m.space
        /\ (freed.null <=> m.null)
        /\ \/ ~freed.ok /\ freed.used = m.used
           \/ freed.ok /\ freed.used = m.used \ {f}
    BY <1>1, <2>1, PageFreeMachine
  <2> HIDE DEF freed
  <2>3. CASE ~freed.ok
    <3>1. Goal(freed)
      BY <2>2, <2>3 DEF Sound, Lossless, Unneeded, Table, Mapping
    <3> QED BY <1>2, <1>4, <2>3, <3>1
  <2>4. CASE freed.ok
    <3>1. /\ emptied \in Machines /\ emptied.tables = m.tables
          /\ emptied.space = [m.space EXCEPT ![v] = None]
          /\ emptied.used = m.used \ {f} /\ (emptied.null <=> m.null)
      BY <1>1, <2>2, <2>4 DEF Machines
    <3>2. emptied.space[v] = None /\ \A w \in Page : w # v => emptied.space[w] = m.space[w]
      BY <1>1, <3>1 DEF Machines
    <3> HIDE DEF emptied
    <3>3. \A w \in Page : w # v => m.space[w] # f
      BY <1>4 DEF Sound
    <3>4. Sound(emptied, F)
      <4>1. F \subseteq emptied.used
        BY <2>1, <3>1, SoundTables
      <4>2. \A d \in Directory : emptied.tables[d] # None => emptied.tables[d] \in emptied.used \ F
        BY <1>4, <3>1, SoundTables
      <4>3. \A w \in Page : emptied.space[w] # None => emptied.space[w] \in emptied.used \ F
        BY <3>1, <3>2, <3>3, SoundTables
      <4>4. \A d \in Directory, w \in Page :
              emptied.tables[d] = emptied.space[w] => emptied.space[w] = None
        BY <3>1, <3>2, SoundTables
      <4>5. \A d, e \in Directory :
              emptied.tables[d] = emptied.tables[e] /\ emptied.tables[d] # None => d = e
        BY <3>1 DEF Sound
      <4>6. \A x, w \in Page : emptied.space[x] = emptied.space[w] /\ emptied.space[x] # None => x = w
        BY <3>2 DEF Sound
      <4>7. \A w \in Page : emptied.space[w] # None => emptied.tables[directory_of(w)] # None
        BY <3>1, <3>2 DEF Sound
      <4> QED BY <3>1, <4>1, <4>2, <4>3, <4>4, <4>5, <4>6, <4>7, SoundBy
    <3>5. Lossless(m, emptied)
      BY <3>1, <3>2 DEF Lossless, Unneeded, Table, Mapping
    <3>6. Goal(emptied)
      BY <3>1, <3>4, <3>5
    <3> QED BY <1>2, <1>4, <2>4, <3>6
  <2> QED BY <2>3, <2>4
<1> QED BY <1>3, <1>4

-----------------------------------------------------------------------------
(* Whole address spaces. *)

(* What reset_address_space does to a machine.                             *)
LEMMA ResetReleases ==
  ASSUME NEW F, NEW m, Sound(m, F)
  PROVE  LET r == reset_address_space(m)
         IN  Sound(r, F) /\ Lossless(m, r) /\ (r.null <=> m.null)
<1> DEFINE step(k, x) == IF Mapped(x.space, k) THEN kfree(x, k) ELSE x
           reset[v \in 0 .. LastPage] ==
             IF v = 0 THEN m
             ELSE IF Mapped(reset[v - 1].space, v) THEN kfree(reset[v - 1], v) ELSE reset[v - 1]
           Good == {r \in Machines : Sound(r, F) /\ Lossless(m, r) /\ (r.null <=> m.null)}
           D == [k \in 0 .. LastPage |-> Good]
           G == [k \in 1 .. LastPage |-> [x \in Good |-> step(k, x)]]
<1>1. LastPage \in Nat
  BY PageNumbers
<1>2. m \in Good
  BY SoundTables DEF Lossless
<1>3. ASSUME NEW k \in 1 .. LastPage, NEW x \in Good PROVE step(k, x) \in Good
  <2>1. CASE Mapped(x.space, k)
    <3> DEFINE r == kfree(x, k)
    <3>1. k \in Page
      BY <2>1 DEF Mapped
    <3>2. Sound(r, F) /\ Lossless(x, r) /\ (r.null <=> x.null)
      BY <3>1, KfreeReleases
    <3> HIDE DEF r
    <3>3. r \in Good
      BY <3>2, SoundTables DEF Lossless
    <3> QED BY <2>1, <3>3 DEF r
  <2>2. CASE ~Mapped(x.space, k)
    BY <2>2
  <2> QED BY <2>1, <2>2
<1>4. \E f : f = [k \in 0 .. LastPage |-> IF k = 0 THEN m ELSE step(k, f[k - 1])]
  <2> HIDE DEF step, Good, reset
  <2>1. m \in D[0] /\ Keeps(LastPage, G, D)
    BY <1>1, <1>2, <1>3 DEF Keeps
  <2>2. PICK f : Loop(LastPage, m, G, f) /\ \A k \in 0 .. LastPage : f[k] \in D[k]
    <3> HIDE DEF D, G
    <3> QED BY <1>1, <2>1, LoopIsDefined
  <2>3. ASSUME NEW k \in 1 .. LastPage PROVE G[k][f[k - 1]] = step(k, f[k - 1])
    <3>1. k - 1 \in 0 .. LastPage
      BY <1>1
    <3>2. f[k - 1] \in Good
      BY <2>2, <3>1
    <3> QED BY <3>2
  <2>4. f = [k \in 0 .. LastPage |-> IF k = 0 THEN m ELSE step(k, f[k - 1])]
    <3> HIDE DEF G
    <3>1. \A k \in 0 .. LastPage : k # 0 => k \in 1 .. LastPage
      BY <1>1
    <3> QED BY <2>2, <2>3, <3>1 DEF Loop
  <2> QED BY <2>4
<1>5. reset = [k \in 0 .. LastPage |-> IF k = 0 THEN m ELSE step(k, reset[k - 1])]
  BY <1>4, Zenon
<1>6. reset_address_space(m) = reset[LastPage]
  BY DEF reset_address_space
<1> HIDE DEF reset, step, Good
<1>7. reset[LastPage] \in Good
  <2> DEFINE S == {k \in 0 .. LastPage : reset[k] \in Good}
  <2>1. 0 \in S
    BY <1>1, <1>2, <1>5
  <2>2. ASSUME NEW k \in 1 .. LastPage, k - 1 \in S PROVE k \in S
    <3>1. k \in 0 .. LastPage /\ k # 0
      BY <1>1
    <3>2. reset[k] = step(k, reset[k - 1])
      BY <1>5, <3>1
    <3> QED BY <1>3, <2>2, <3>1, <3>2
  <2>3. LastPage \in S
    <3> HIDE DEF S
    <3> QED BY <1>1, <2>1, <2>2, TurnByTurn
  <2> QED BY <2>3
<1> QED BY <1>6, <1>7 DEF Good

(* A copy that succeeds has the pages of the parent, no others, and has    *)
(* lost no frame.                                                          *)
LEMMA CopyMaps ==
  ASSUME NEW F, NEW child, Sound(child, F), child.ok, ~child.null,
         \A v \in Page : child.space[v] = None, NEW parent
  PROVE  LET r == copy_address_space(child, parent)
         IN  /\ Sound(r, F) /\ (r.null => ~r.ok)
             /\ r.ok => /\ \A v \in Page : r.space[v] # None <=> parent[v] # None
                        /\ Lossless(child, r)
<1> DEFINE step(k, x) == IF Mapped(parent, k) /\ x.ok THEN malloc(x, 1, k) ELSE x
           copied[v \in 0 .. LastPage] ==
             IF v = 0 THEN child
             ELSE IF Mapped(parent, v) /\ copied[v - 1].ok THEN malloc(copied[v - 1], 1, v)
                                                           ELSE copied[v - 1]
           D == [k \in 0 .. LastPage |->
                  {r \in Machines :
                     /\ Sound(r, F) /\ (r.null => ~r.ok)
                     /\ r.ok => /\ \A v \in Page : r.space[v] # None <=> parent[v] # None /\ v <= k
                                /\ Lossless(child, r)}]
           G == [k \in 1 .. LastPage |-> [x \in D[k - 1] |-> step(k, x)]]
<1>1. LastPage \in Nat /\ \A k \in 1 .. LastPage : k \in 0 .. LastPage /\ k - 1 \in 0 .. LastPage
  BY PageNumbers
<1>2. child \in D[0]
  <2>1. \A v \in Page : ~(v <= 0)
    BY PageNumbers
  <2> QED BY <1>1, <2>1, SoundTables DEF Lossless
<1>3. ASSUME NEW k \in 1 .. LastPage, NEW x \in D[k - 1] PROVE step(k, x) \in D[k]
  <2> DEFINE r == malloc(x, 1, k)
  <2>1. /\ x \in Machines /\ Sound(x, F) /\ (x.null => ~x.ok)
        /\ x.ok => /\ \A v \in Page : x.space[v] # None <=> parent[v] # None /\ v <= k - 1
                   /\ Lossless(child, x)
    BY <1>1
  <2>n. k \in Nat /\ \A v \in Page : v \in Nat
    BY PageNumbers
  <2>2. CASE Mapped(parent, k) /\ x.ok
    <3>1. k \in Page /\ parent[k] # None
      BY <2>2 DEF Mapped
    <3>2. Allocates(x, r, F, 1, k)
      BY <2>1, <2>2, <2>n, MallocMaps
    <3> HIDE DEF r
    <3>3. r \in Machines /\ Sound(r, F) /\ (r.null => ~r.ok)
      BY <3>2, SoundTables DEF Allocates, Extends
    <3>4. ASSUME r.ok, NEW v \in Page PROVE r.space[v] # None <=> parent[v] # None /\ v <= k
      <4>1. r.space[v] # None <=> x.space[v] # None \/ (k <= v /\ v < k + 1)
        BY <3>2, <3>4 DEF Allocates
      <4>2. k <= v /\ v < k + 1 <=> v = k
        BY <2>n
      <4>3. v <= k <=> v <= k - 1 \/ v = k
        BY <2>n
      <4> QED BY <2>1, <2>2, <3>1, <4>1, <4>2, <4>3
    <3>5. r.ok => Lossless(child, r)
      <4>1. FirstPage <= k /\ k + 1 <= LastPage + 1
        BY <1>1, <2>n, <3>1, PageNumbers
      <4> QED BY <2>1, <2>2, <3>2, <4>1 DEF Allocates, Lossless
    <3>6. r \in D[k]
      BY <1>1, <3>3, <3>4, <3>5
    <3> HIDE DEF D
    <3> QED BY <2>2, <3>6 DEF r
  <2>3. CASE ~(Mapped(parent, k) /\ x.ok)
    <3>1. ASSUME x.ok, NEW v \in Page PROVE x.space[v] # None <=> parent[v] # None /\ v <= k
      <4>1. v = k => parent[v] = None
        BY <2>3, <3>1 DEF Mapped
      <4>2. v <= k <=> v <= k - 1 \/ v = k
        BY <2>n
      <4> QED BY <2>1, <3>1, <4>1, <4>2
    <3>2. x \in D[k]
      BY <1>1, <2>1, <3>1
    <3> HIDE DEF D
    <3> QED BY <2>3, <3>2
  <2> HIDE DEF D
  <2> QED BY <2>2, <2>3
<1>4. \E f : f = [k \in 0 .. LastPage |-> IF k = 0 THEN child ELSE step(k, f[k - 1])]
  <2> HIDE DEF step, D, copied
  <2>1. child \in D[0] /\ Keeps(LastPage, G, D)
    BY <1>1, <1>2, <1>3 DEF Keeps
  <2>2. PICK f : Loop(LastPage, child, G, f) /\ \A k \in 0 .. LastPage : f[k] \in D[k]
    <3> HIDE DEF G
    <3> QED BY <1>1, <2>1, LoopIsDefined
  <2>3. ASSUME NEW k \in 1 .. LastPage PROVE G[k][f[k - 1]] = step(k, f[k - 1])
    BY <1>1, <2>2
  <2>4. f = [k \in 0 .. LastPage |-> IF k = 0 THEN child ELSE step(k, f[k - 1])]
    <3> HIDE DEF G
    <3>1. \A k \in 0 .. LastPage : k # 0 => k \in 1 .. LastPage
      BY <1>1
    <3> QED BY <2>2, <2>3, <3>1 DEF Loop
  <2> QED BY <2>4
<1>5. copied = [k \in 0 .. LastPage |-> IF k = 0 THEN child ELSE step(k, copied[k - 1])]
  BY <1>4, Zenon
<1>6. copy_address_space(child, parent) = copied[LastPage]
  BY DEF copy_address_space
<1> HIDE DEF copied, step, D
<1>7. copied[LastPage] \in D[LastPage]
  <2> DEFINE S == {k \in 0 .. LastPage : copied[k] \in D[k]}
  <2>1. 0 \in S
    BY <1>1, <1>2, <1>5
  <2>2. ASSUME NEW k \in 1 .. LastPage, k - 1 \in S PROVE k \in S
    <3>1. k \in 0 .. LastPage /\ k # 0
      BY <1>1
    <3>2. copied[k] = step(k, copied[k - 1])
      BY <1>5, <3>1
    <3> QED BY <1>3, <2>2, <3>1, <3>2
  <2>3. LastPage \in S
    <3> HIDE DEF S
    <3> QED BY <1>1, <2>1, <2>2, TurnByTurn
  <2> QED BY <2>3
<1>8. \A v \in Page : v <= LastPage
  BY PageNumbers
<1>9. LastPage \in 0 .. LastPage
  BY <1>1
<1> QED BY <1>6, <1>7, <1>8, <1>9 DEF D

(* Where an area of size n at address v lies, in pages.                    *)
LEMMA RoundedDown ==
  ASSUME NEW P \in Nat \ {0}, NEW v \in Nat, NEW a \in Nat, a * P <= v
  PROVE  v \div P \in Nat /\ a <= v \div P
OBVIOUS

LEMMA RoundedUp ==
  ASSUME NEW P \in Nat \ {0}, NEW v \in Nat, NEW n \in Nat, NEW e \in Nat, v + n <= e * P
  PROVE  (n + P - 1) \div P \in Nat /\ (v \div P) + ((n + P - 1) \div P) <= e
OBVIOUS

LEMMA AreaPages ==
  ASSUME NEW v \in Nat, NEW n \in Nat,
         FirstPage * PageSize <= v, v + n <= StackBase + PageSize
  PROVE  /\ v \div PageSize \in Nat /\ Pages(n) \in Nat
         /\ FirstPage <= v \div PageSize
         /\ v \div PageSize + Pages(n) <= LastPage + 1
<1>1. PageSize \in Nat \ {0} /\ LastPage \in Nat /\ FirstPage \in Nat
  BY AddressSpaceAssumption, PageNumbers
<1>2. v + n <= (LastPage + 1) * PageSize
  BY <1>1 DEF StackBase
<1>3. v \div PageSize \in Nat /\ FirstPage <= v \div PageSize
  BY <1>1, RoundedDown
<1>4. LastPage + 1 \in Nat
  BY <1>1
<1>5. Pages(n) \in Nat /\ v \div PageSize + Pages(n) <= LastPage + 1
  BY <1>1, <1>2, <1>4, RoundedUp DEF Pages
<1> QED BY <1>3, <1>5

(* Copying a segment in reaches only frames of the process.                *)
LEMMA CopyInReaches ==
  ASSUME NEW F \in SUBSET Frame, NEW m, Sound(m, F), NEW contents \in [Frame -> Value],
         NEW segment \in Segment
  PROVE  LET r == copy_in(m, contents, segment)
         IN  r \in [Frame -> Value] /\ \A f \in F : r[f] = contents[f]
<1> DEFINE first == segment.vaddr \div PageSize
           last == (segment.vaddr + segment.filesz - 1) \div PageSize
           written == {v \in Page : /\ first <= v /\ v <= last
                                    /\ \A w \in first .. v : m.space[w] # None}
           r == [f \in Frame |-> IF \E v \in written : m.space[v] = f THEN segment.data
                                 ELSE contents[f]]
<1>1. copy_in(m, contents, segment) = r
  BY DEF copy_in
<1>2. written \subseteq Page
  OBVIOUS
<1> HIDE DEF written
<1>3. segment.data \in Value
  BY DEF Segment
<1>4. r \in [Frame -> Value]
  BY <1>3
<1>5. ASSUME NEW f \in F PROVE r[f] = contents[f]
  <2>1. f # None /\ f \in Frame
    BY FrameNumbers
  <2>2. \A v \in written : m.space[v] # f
    BY <1>2, <2>1, SoundTables
  <2> QED BY <2>1, <2>2
<1> QED BY <1>1, <1>4, <1>5

(* What is so after any number of segments, the machine having been m and  *)
(* the contents c before.                                                  *)
Loads(m, c, F) ==
  {l \in [m : Machines, heap : Nat, contents : [Frame -> Value], success : BOOLEAN] :
     /\ Sound(l.m, F)
     /\ l.heap = 0 \/ FirstPage * PageSize <= l.heap
     /\ \A f \in F : l.contents[f] = c[f]
     /\ l.m.null => ~l.success
     /\ l.success => Lossless(m, l.m)}

LEMMA SegmentLoads ==
  ASSUME NEW F \in SUBSET Frame, NEW m, NEW c, NEW l \in Loads(m, c, F),
         NEW segment \in Segment, FirstPage * PageSize <= segment.vaddr,
         segment.vaddr + segment.memsz <= StackBase + PageSize
  PROVE  load_segment(l, segment) \in Loads(m, c, F)
<1> DEFINE n == Pages(segment.memsz)
           base == segment.vaddr \div PageSize
           area == malloc(l.m, n, base)
           heap == Max({l.heap, segment.vaddr + segment.memsz})
           contents == IF segment.type = "PT_LOAD" THEN copy_in(area, l.contents, segment)
                       ELSE l.contents
           success == l.success /\ area.ok /\ segment.type \in {"PT_LOAD", "PT_NULL"}
           r == [m |-> area, heap |-> heap, contents |-> contents, success |-> success]
<1>1. load_segment(l, segment) = IF l.m.null THEN l ELSE r
  BY DEF load_segment
<1>2. CASE l.m.null
  BY <1>1, <1>2
<1>3. CASE ~l.m.null
  <2>1. segment.vaddr \in Nat /\ segment.memsz \in Nat
    BY DEF Segment
  <2>2. base \in Nat /\ n \in Nat /\ FirstPage <= base /\ base + n <= LastPage + 1
    BY <2>1, AreaPages
  <2>3. /\ Sound(l.m, F) /\ l.heap \in Nat /\ l.contents \in [Frame -> Value]
        /\ l.heap = 0 \/ FirstPage * PageSize <= l.heap
        /\ \A f \in F : l.contents[f] = c[f]
        /\ l.success => Lossless(m, l.m)
    BY DEF Loads
  <2> HIDE DEF base, n
  <2>4. Allocates(l.m, area, F, n, base)
    BY <1>3, <2>2, <2>3, MallocMaps
  <2> HIDE DEF area
  <2>5. Sound(area, F) /\ (area.null => ~area.ok) /\ area \in Machines
    BY <2>4, SoundTables DEF Allocates, Extends
  <2>6. success => Lossless(m, area)
    BY <2>2, <2>3, <2>4 DEF Allocates, Lossless
  <2>7. heap \in Nat /\ FirstPage * PageSize <= heap
    <3> DEFINE e == segment.vaddr + segment.memsz
    <3>1. e \in Nat /\ FirstPage * PageSize <= e
      <4>1. FirstPage * PageSize \in Nat
        BY AddressSpaceAssumption, PageNumbers
      <4> QED BY <2>1, <4>1
    <3> HIDE DEF e
    <3>2. \E x \in {l.heap, e} : \A y \in {l.heap, e} : x >= y
      BY <2>3, <3>1
    <3>3. Max({l.heap, e}) \in {l.heap, e} /\ \A y \in {l.heap, e} : Max({l.heap, e}) >= y
      BY <3>2 DEF Max
    <3>4. heap \in {l.heap, e} /\ heap >= e
      BY <3>3 DEF e
    <3>5. FirstPage * PageSize \in Nat
      BY AddressSpaceAssumption, PageNumbers
    <3> HIDE DEF heap
    <3> QED BY <2>3, <3>1, <3>4, <3>5
  <2>8. contents \in [Frame -> Value] /\ \A f \in F : contents[f] = c[f]
    <3> DEFINE filled == copy_in(area, l.contents, segment)
    <3>1. filled \in [Frame -> Value] /\ \A f \in F : filled[f] = l.contents[f]
      BY <2>3, <2>5, CopyInReaches
    <3>2. contents = filled \/ contents = l.contents
      OBVIOUS
    <3> HIDE DEF filled, contents
    <3> QED BY <2>3, <3>1, <3>2
  <2>9. success \in BOOLEAN /\ (success => area.ok)
    OBVIOUS
  <2> HIDE DEF heap, contents, success
  <2>10. r \in [m : Machines, heap : Nat, contents : [Frame -> Value], success : BOOLEAN]
    BY <2>5, <2>7, <2>8, <2>9
  <2>11. r.m = area /\ r.heap = heap /\ r.contents = contents /\ (r.success <=> success)
    BY <2>9
  <2>12. r \in Loads(m, c, F)
    <3> HIDE DEF r
    <3> QED BY <2>5, <2>6, <2>7, <2>8, <2>9, <2>10, <2>11 DEF Loads
  <2> QED BY <1>1, <1>3, <2>12
<1> QED BY <1>2, <1>3

LEMMA SegmentsLoad ==
  ASSUME NEW F \in SUBSET Frame, NEW m, NEW c, NEW start \in Loads(m, c, F),
         NEW program \in Programs
  PROVE  load_segments(start, program) \in Loads(m, c, F)
<1> DEFINE step(k, x) == load_segment(x, program[k])
           n == Len(program)
           loaded[i \in 0 .. Len(program)] ==
             IF i = 0 THEN start ELSE load_segment(loaded[i - 1], program[i])
           Good == Loads(m, c, F)
           D == [k \in 0 .. n |-> Good]
           G == [k \in 1 .. n |-> [x \in Good |-> step(k, x)]]
<1>1. n \in Nat
  BY ProgramsAssumption
<1>2. ASSUME NEW k \in 1 .. n, NEW x \in Good PROVE step(k, x) \in Good
  <2>1. /\ program[k] \in Segment
        /\ FirstPage * PageSize <= program[k].vaddr
        /\ program[k].vaddr + program[k].memsz <= StackBase + PageSize
    BY ProgramsAssumption
  <2> QED BY <2>1, SegmentLoads
<1>3. \E f : f = [k \in 0 .. n |-> IF k = 0 THEN start ELSE step(k, f[k - 1])]
  <2> HIDE DEF step, Good, loaded, n
  <2>1. start \in D[0] /\ Keeps(n, G, D)
    BY <1>1, <1>2 DEF Keeps, Good
  <2>2. PICK f : Loop(n, start, G, f) /\ \A k \in 0 .. n : f[k] \in D[k]
    <3> HIDE DEF D, G
    <3> QED BY <1>1, <2>1, LoopIsDefined
  <2>3. ASSUME NEW k \in 1 .. n PROVE G[k][f[k - 1]] = step(k, f[k - 1])
    <3>1. k - 1 \in 0 .. n
      BY <1>1
    <3>2. f[k - 1] \in Good
      BY <2>2, <3>1
    <3> QED BY <3>2
  <2>4. f = [k \in 0 .. n |-> IF k = 0 THEN start ELSE step(k, f[k - 1])]
    <3> HIDE DEF G
    <3>1. \A k \in 0 .. n : k # 0 => k \in 1 .. n
      BY <1>1
    <3> QED BY <2>2, <2>3, <3>1 DEF Loop
  <2> QED BY <2>4
<1>4. loaded = [k \in 0 .. n |-> IF k = 0 THEN start ELSE step(k, loaded[k - 1])]
  BY <1>3, Zenon
<1>5. load_segments(start, program) = loaded[n]
  BY DEF load_segments
<1> HIDE DEF loaded, step, n
<1>6. loaded[n] \in Good
  <2> DEFINE S == {k \in 0 .. n : loaded[k] \in Good}
  <2>1. 0 \in S
    BY <1>1, <1>4
  <2>2. ASSUME NEW k \in 1 .. n, k - 1 \in S PROVE k \in S
    <3>1. k \in 0 .. n /\ k # 0
      BY <1>1
    <3>2. loaded[k] = step(k, loaded[k - 1])
      BY <1>4, <3>1
    <3> QED BY <1>2, <2>2, <3>1, <3>2
  <2>3. n \in S
    <3> HIDE DEF S
    <3> QED BY <1>1, <2>1, <2>2, TurnByTurn
  <2> QED BY <2>3
<1> QED BY <1>5, <1>6

-----------------------------------------------------------------------------
(* The processes. *)

Owned(m, f) == Table(m, f) \/ Mapping(m, f)

(* What is in use for anything but the tables and pages of p.              *)
Foreign(p) ==
  {f \in Frame : \/ \E q \in born : ptable[q] = f
                 \/ \E q \in born : q # p /\ Owned(Machine(q), f)}

(* FramesExclusive, as one process after another sees it.                  *)
Exclusive ==
  /\ \A p, q \in born : ptable[p] = ptable[q] /\ ptable[p] # None => p = q
  /\ \A p \in born : Sound(Machine(p), Foreign(p))

UnbornEmpty == \A p \in Process \ born, v \in Page : space[p][v] = None

HeapAboveKernel == \A p \in Process : heap_top[p] = 0 \/ FirstPage * PageSize <= heap_top[p]

AddressInv == TypeOK /\ Exclusive /\ UnbornEmpty /\ HeapAboveKernel

(* The parts of the type invariant that calls change through a machine.    *)
MemoryOK ==
  /\ born \subseteq Process
  /\ used \subseteq Frame
  /\ cur_user_bound \in 1 .. (Frames + 1)
  /\ ptable \in [Process -> Frame \cup {None}]
  /\ tables \in [Process -> [Directory -> Frame \cup {None}]]
  /\ space \in [Process -> [Page -> Frame \cup {None}]]
  /\ null_table \in BOOLEAN

LEMMA TypedMemory == TypeOK => MemoryOK
BY DEF TypeOK, MemoryOK

LEMMA MachineTyped ==
  ASSUME MemoryOK, NEW p \in Process
  PROVE  /\ Machine(p) \in Machines /\ ~Machine(p).null
         /\ Machine(p).used = used /\ Machine(p).tables = tables[p] /\ Machine(p).space = space[p]
BY DEF MemoryOK, Machine, Machines

(* A machine with the same tables and pages is as sound, if what is in use *)
(* still holds them.                                                       *)
LEMMA StillSound ==
  ASSUME NEW m, NEW r \in Machines, NEW F, NEW G, Sound(m, F),
         r.tables = m.tables, r.space = m.space, G \subseteq r.used,
         \A f : Owned(m, f) => f \in r.used \ G
  PROVE  Sound(r, G)
BY DEF Sound, Owned, Table, Mapping

LEMMA OwnedFrames ==
  ASSUME NEW F, NEW m, Sound(m, F), NEW f, Owned(m, f)
  PROVE  f \in Frame /\ f \in m.used \ F
BY DEF Sound, Owned, Table, Mapping, Machines

LEMMA OwnFrames ==
  ASSUME MemoryOK, NEW p \in born
  PROVE  /\ \A d \in Directory : tables[p][d] # None => Owned(Machine(p), tables[p][d])
         /\ \A v \in Page : space[p][v] # None => Owned(Machine(p), space[p][v])
         /\ \A f : Owned(Machine(p), f) => f # None /\ ( \/ \E d \in Directory : tables[p][d] = f
                                                        \/ \E v \in Page : space[p][v] = f)
<1>1. p \in Process
  BY DEF MemoryOK
<1> QED BY <1>1, MachineTyped DEF Owned, Table, Mapping

IsDirectory(e, p) == e = <<p, "directory", 0>> /\ FrameOf(e) = ptable[p]
IsTable(e, p) == \E d \in Directory : e = <<p, "table", d>> /\ FrameOf(e) = tables[p][d]
IsPage(e, p) == \E v \in Page : e = <<p, "page", v>> /\ FrameOf(e) = space[p][v]

LEMMA EntryFrames ==
  /\ \A e \in Entries : \E p \in born : IsDirectory(e, p) \/ IsTable(e, p) \/ IsPage(e, p)
  /\ \A p \in born : \E e \in Entries : FrameOf(e) = ptable[p]
  /\ \A p \in born : \A d \in Directory : \E e \in Entries : FrameOf(e) = tables[p][d]
  /\ \A p \in born : \A v \in Page : \E e \in Entries : FrameOf(e) = space[p][v]
<1>1. \A p \in born : /\ FrameOf(<<p, "directory", 0>>) = ptable[p]
                      /\ \A d \in Directory : FrameOf(<<p, "table", d>>) = tables[p][d]
                      /\ \A v \in Page : FrameOf(<<p, "page", v>>) = space[p][v]
  BY DEF FrameOf
<1>2. \A e \in Entries : \E p \in born :
        \/ e = <<p, "directory", 0>>
        \/ \E d \in Directory : e = <<p, "table", d>>
        \/ \E v \in Page : e = <<p, "page", v>>
  BY DEF Entries
<1>3. \A p \in born : /\ <<p, "directory", 0>> \in Entries
                      /\ \A d \in Directory : <<p, "table", d>> \in Entries
                      /\ \A v \in Page : <<p, "page", v>> \in Entries
  BY DEF Entries
<1>4. ASSUME NEW e \in Entries
      PROVE  \E p \in born : IsDirectory(e, p) \/ IsTable(e, p) \/ IsPage(e, p)
  <2>1. PICK p \in born :
          \/ e = <<p, "directory", 0>>
          \/ \E d \in Directory : e = <<p, "table", d>>
          \/ \E v \in Page : e = <<p, "page", v>>
    BY <1>2
  <2>2. CASE e = <<p, "directory", 0>>
    BY <1>1, <2>2 DEF IsDirectory
  <2>3. CASE \E d \in Directory : e = <<p, "table", d>>
    <3>1. PICK d \in Directory : e = <<p, "table", d>>
      BY <2>3
    <3>2. FrameOf(e) = tables[p][d]
      BY <1>1, <3>1
    <3> QED BY <3>1, <3>2 DEF IsTable
  <2>4. CASE \E v \in Page : e = <<p, "page", v>>
    <3>1. PICK v \in Page : e = <<p, "page", v>>
      BY <2>4
    <3>2. FrameOf(e) = space[p][v]
      BY <1>1, <3>1
    <3> QED BY <3>1, <3>2 DEF IsPage
  <2> QED BY <2>1, <2>2, <2>3, <2>4
<1>5. \A p \in born : \E e \in Entries : FrameOf(e) = ptable[p]
  BY <1>1, <1>3
<1>6. \A p \in born : \A d \in Directory : \E e \in Entries : FrameOf(e) = tables[p][d]
  BY <1>1, <1>3
<1>7. \A p \in born : \A v \in Page : \E e \in Entries : FrameOf(e) = space[p][v]
  BY <1>1, <1>3
<1> QED BY <1>4, <1>5, <1>6, <1>7

LEMMA EntryOwned ==
  ASSUME MemoryOK, NEW p \in born, NEW e, IsTable(e, p) \/ IsPage(e, p), FrameOf(e) # None
  PROVE  Owned(Machine(p), FrameOf(e))
BY OwnFrames DEF IsTable, IsPage

(* Referenced, by what processes own.                                      *)
ReferencedOwned ==
  MemoryOK => \A f : f \in Referenced <=>
    f # None /\ \E p \in born : ptable[p] = f \/ Owned(Machine(p), f)

LEMMA ReferencedFrames == ReferencedOwned
<1> SUFFICES ASSUME MemoryOK
             PROVE  \A f : f \in Referenced <=>
                      f # None /\ \E p \in born : ptable[p] = f \/ Owned(Machine(p), f)
  BY DEF ReferencedOwned
<1>1. ASSUME NEW f \in Referenced
      PROVE  f # None /\ \E p \in born : ptable[p] = f \/ Owned(Machine(p), f)
  <2>1. PICK e \in Entries : FrameOf(e) = f /\ f # None
    BY DEF Referenced
  <2>2. PICK p \in born : IsDirectory(e, p) \/ IsTable(e, p) \/ IsPage(e, p)
    BY EntryFrames
  <2>3. ptable[p] = f \/ Owned(Machine(p), f)
    BY <2>1, <2>2, EntryOwned DEF IsDirectory
  <2> QED BY <2>1, <2>3
<1>2. ASSUME NEW f, f # None, \E p \in born : ptable[p] = f \/ Owned(Machine(p), f)
      PROVE  f \in Referenced
  <2>1. PICK p \in born : ptable[p] = f \/ Owned(Machine(p), f)
    BY <1>2
  <2>2. \E e \in Entries : FrameOf(e) = f
    <3>1. CASE ptable[p] = f
      BY <3>1, EntryFrames
    <3>2. CASE Owned(Machine(p), f)
      <4>1. (\E d \in Directory : tables[p][d] = f) \/ \E v \in Page : space[p][v] = f
        BY <3>2, OwnFrames
      <4> QED BY <4>1, EntryFrames
    <3> QED BY <2>1, <3>1, <3>2
  <2> QED BY <1>2, <2>2 DEF Referenced
<1> QED BY <1>1, <1>2

LEMMA ReferencedAlways == []ReferencedOwned
BY ReferencedFrames, PTL

LEMMA ExclusiveFrames ==
  ASSUME TypeOK, Exclusive
  PROVE  FramesExclusive
<1>1. MemoryOK /\ \A p \in born : p \in Process
  BY TypedMemory DEF TypeOK
<1>2. ASSUME NEW p \in born
      PROVE  /\ \A f : Owned(Machine(p), f) => f \in used /\ f \notin Foreign(p)
             /\ ptable[p] # None => ptable[p] \in Foreign(p) /\ ptable[p] \in used
             /\ \A q \in born : q # p => \A f : Owned(Machine(p), f) => f \in Foreign(q)
             /\ \A q \in born : ptable[p] # None => ptable[p] \in Foreign(q)
  <2>1. Machine(p).used = used /\ Sound(Machine(p), Foreign(p))
    BY <1>1, MachineTyped DEF Exclusive
  <2>2. \A f : Owned(Machine(p), f) => f \in Frame /\ f \in used /\ f \notin Foreign(p)
    BY <2>1, OwnedFrames
  <2>3. ptable[p] # None => ptable[p] \in Frame
    BY <1>1 DEF TypeOK
  <2>4. Foreign(p) \subseteq used
    BY <2>1 DEF Sound
  <2> QED BY <2>2, <2>3, <2>4 DEF Foreign
<1>3. ASSUME NEW p \in born
      PROVE  /\ \A d, e \in Directory : tables[p][d] = tables[p][e] /\ tables[p][d] # None => d = e
             /\ \A v, w \in Page : space[p][v] = space[p][w] /\ space[p][v] # None => v = w
             /\ \A d \in Directory, v \in Page : tables[p][d] = space[p][v] => space[p][v] = None
             /\ \A v \in Page : space[p][v] # None => tables[p][directory_of(v)] # None
  <2>1. Sound(Machine(p), Foreign(p)) /\ Machine(p).tables = tables[p] /\ Machine(p).space = space[p]
    BY <1>1, MachineTyped DEF Exclusive
  <2>2. \A d \in Directory, v \in Page : tables[p][d] = space[p][v] => space[p][v] = None
    BY <2>1, SoundTables
  <2> QED BY <2>1, <2>2 DEF Sound
<1>4. ASSUME NEW e \in Entries, NEW f \in Entries, FrameOf(e) = FrameOf(f), FrameOf(e) # None
      PROVE  e = f
  <2>1. PICK p \in born : IsDirectory(e, p) \/ IsTable(e, p) \/ IsPage(e, p)
    BY EntryFrames
  <2>2. PICK q \in born : IsDirectory(f, q) \/ IsTable(f, q) \/ IsPage(f, q)
    BY EntryFrames
  <2>3. CASE IsDirectory(e, p) /\ IsDirectory(f, q)
    BY <1>4, <2>3 DEF IsDirectory, Exclusive
  <2>4. CASE IsDirectory(e, p) /\ ~IsDirectory(f, q)
    <3>1. FrameOf(e) \in Foreign(q)
      BY <1>2, <1>4, <2>4 DEF IsDirectory
    <3>2. Owned(Machine(q), FrameOf(e))
      BY <1>4, <2>2, <2>4, <1>1, EntryOwned
    <3> QED BY <1>2, <3>1, <3>2
  <2>5. CASE ~IsDirectory(e, p) /\ IsDirectory(f, q)
    <3>1. FrameOf(e) \in Foreign(p)
      BY <1>2, <1>4, <2>5 DEF IsDirectory
    <3>2. Owned(Machine(p), FrameOf(e))
      BY <1>4, <2>1, <2>5, <1>1, EntryOwned
    <3> QED BY <1>2, <3>1, <3>2
  <2>6. CASE ~IsDirectory(e, p) /\ ~IsDirectory(f, q)
    <3>1. Owned(Machine(p), FrameOf(e)) /\ Owned(Machine(q), FrameOf(e))
      BY <1>4, <2>1, <2>2, <2>6, <1>1, EntryOwned
    <3>2. p = q
      BY <1>2, <3>1
    <3>3. CASE IsTable(e, p) /\ IsTable(f, p)
      BY <1>3, <1>4, <3>3 DEF IsTable
    <3>4. CASE IsPage(e, p) /\ IsPage(f, p)
      BY <1>3, <1>4, <3>4 DEF IsPage
    <3>5. CASE IsTable(e, p) /\ IsPage(f, p)
      BY <1>3, <1>4, <3>5 DEF IsTable, IsPage
    <3>6. CASE IsPage(e, p) /\ IsTable(f, p)
      BY <1>3, <1>4, <3>6 DEF IsTable, IsPage
    <3> QED BY <2>1, <2>2, <2>6, <3>2, <3>3, <3>4, <3>5, <3>6
  <2> QED BY <2>3, <2>4, <2>5, <2>6
<1>5. Referenced \subseteq used
  BY <1>1, <1>2, ReferencedFrames DEF ReferencedOwned
<1> QED BY <1>3, <1>4, <1>5 DEF FramesExclusive

(* A call that worked on a sound machine leaves frames exclusive.          *)
LEMMA BecameKeeps ==
  ASSUME TypeOK, Exclusive, UnbornEmpty, NEW p \in born, NEW m, Sound(m, Foreign(p)), Became(p, m)
  PROVE  /\ MemoryOK' /\ Exclusive' /\ UnbornEmpty'
         /\ \A f : Owned(m, f) => f \in Referenced'
         /\ Foreign(p) \subseteq Referenced'
<1>1. p \in Process /\ born \subseteq Process /\ m \in Machines /\ MemoryOK
  BY TypedMemory, SoundTables DEF TypeOK
<1>2. /\ born' = born /\ ptable' = ptable /\ used' = m.used /\ cur_user_bound' = m.bound
      /\ tables' = [tables EXCEPT ![p] = m.tables] /\ space' = [space EXCEPT ![p] = m.space]
      /\ null_table' = m.null
  BY DEF Became
<1>3. MemoryOK'
  BY <1>1, <1>2 DEF MemoryOK, TypeOK, Machines
<1>4. ASSUME NEW q \in Process
      PROVE  /\ Machine(q)' \in Machines /\ Machine(q)'.used = m.used
             /\ Machine(q)'.tables = IF q = p THEN m.tables ELSE Machine(q).tables
             /\ Machine(q)'.space = IF q = p THEN m.space ELSE Machine(q).space
  <2>1. Machine(q).tables = tables[q] /\ Machine(q).space = space[q]
    BY <1>1, MachineTyped
  <2>2. /\ tables'[q] = IF q = p THEN m.tables ELSE tables[q]
        /\ space'[q] = IF q = p THEN m.space ELSE space[q]
    BY <1>1, <1>2 DEF TypeOK
  <2>3. Machine(q)' \in Machines /\ Machine(q)'.used = m.used
        /\ Machine(q)'.tables = tables'[q] /\ Machine(q)'.space = space'[q]
    BY <1>2, <1>3 DEF MemoryOK, Machine, Machines
  <2> QED BY <2>1, <2>2, <2>3
<1>5. ASSUME NEW q \in Process
      PROVE  \A f : Owned(Machine(q)', f) <=> IF q = p THEN Owned(m, f) ELSE Owned(Machine(q), f)
  BY <1>4 DEF Owned, Table, Mapping
<1>6. \A f : Owned(m, f) => f \in Frame /\ f \in m.used /\ f \notin Foreign(p)
  BY <1>1, OwnedFrames
<1>7. \A q \in born : q # p => \A f : Owned(Machine(q), f) => f \in Foreign(p) /\ f \notin Foreign(q)
  <2> SUFFICES ASSUME NEW q \in born, q # p, NEW f, Owned(Machine(q), f)
               PROVE  f \in Foreign(p) /\ f \notin Foreign(q)
    OBVIOUS
  <2>1. Sound(Machine(q), Foreign(q))
    BY DEF Exclusive
  <2>2. f \in Frame /\ f \notin Foreign(q)
    BY <2>1, OwnedFrames
  <2> QED BY <2>2 DEF Foreign
<1>8. Foreign(p) \subseteq m.used
  BY SoundTables
<1>9. ASSUME NEW q \in born
      PROVE  Foreign(q)' = {f \in Frame : \/ \E r \in born : ptable[r] = f
                                          \/ \E r \in born : r # q /\ Owned(Machine(r)', f)}
  BY <1>2 DEF Foreign
<1>10. ASSUME NEW q \in born, q # p
       PROVE  \A f \in Foreign(q)' : f \in Foreign(q) \cup Foreign(p) \/ Owned(m, f)
  BY <1>1, <1>5, <1>9, <1>10 DEF Foreign
<1>11. Foreign(p)' = Foreign(p)
  BY <1>1, <1>5, <1>9 DEF Foreign
<1>12. ASSUME NEW q \in born PROVE Sound(Machine(q)', Foreign(q)')
  <2>1. CASE q = p
    <3>1. \A f : Owned(m, f) => f \in Machine(p)'.used \ Foreign(p)'
      BY <1>1, <1>4, <1>6, <1>11
    <3>2. Foreign(p)' \subseteq Machine(p)'.used
      BY <1>1, <1>4, <1>8, <1>11
    <3>3. Machine(p)' \in Machines /\ Machine(p)'.tables = m.tables /\ Machine(p)'.space = m.space
      BY <1>1, <1>4
    <3>4. Sound(Machine(p)', Foreign(p)')
      BY <3>1, <3>2, <3>3, StillSound
    <3> QED BY <2>1, <3>4
  <2>2. CASE q # p
    <3>1. Sound(Machine(q), Foreign(q)) /\ q \in Process
      BY <1>1 DEF Exclusive
    <3>2. /\ Machine(q)' \in Machines /\ Machine(q)'.tables = Machine(q).tables
          /\ Machine(q)'.space = Machine(q).space /\ Machine(q)'.used = m.used
      BY <1>4, <2>2, <3>1
    <3>3. \A f \in Foreign(q)' : f \in Foreign(p) \/ Owned(m, f)
      <4> SUFFICES ASSUME NEW f \in Foreign(q)' PROVE f \in Foreign(p) \/ Owned(m, f)
        OBVIOUS
      <4>1. f \in Frame
        BY <1>9
      <4>2. CASE \E r \in born : ptable[r] = f
        BY <4>1, <4>2 DEF Foreign
      <4>3. CASE \E r \in born : r # q /\ Owned(Machine(r)', f)
        <5>1. PICK r \in born : r # q /\ Owned(Machine(r)', f)
          BY <4>3
        <5>2. r \in Process
          BY <1>1
        <5> QED BY <1>5, <1>7, <5>1, <5>2
      <4> QED BY <1>9, <4>2, <4>3
    <3>4. Foreign(q)' \subseteq m.used
      BY <1>6, <1>8, <3>3
    <3>5. \A f : Owned(Machine(q), f) => f \in m.used \ Foreign(q)'
      <4> SUFFICES ASSUME NEW f, Owned(Machine(q), f) PROVE f \in m.used /\ f \notin Foreign(q)'
        OBVIOUS
      <4>1. f \in Foreign(p) /\ f \notin Foreign(q) /\ f \in m.used
        BY <1>7, <1>8, <2>2
      <4>2. ASSUME f \in Foreign(q)' PROVE FALSE
        <5>1. ~Owned(m, f)
          BY <1>6, <4>1
        <5>2. CASE \E r \in born : ptable[r] = f
          BY <1>9, <4>1, <4>2, <5>2 DEF Foreign
        <5>3. CASE \E r \in born : r # q /\ Owned(Machine(r)', f)
          <6>1. PICK r \in born : r # q /\ Owned(Machine(r)', f)
            BY <5>3
          <6>2. r \in Process /\ f \in Frame
            BY <1>1, <1>9, <4>2
          <6>3. Owned(Machine(r), f)
            BY <1>5, <5>1, <6>1, <6>2
          <6> QED BY <4>1, <6>1, <6>2, <6>3 DEF Foreign
        <5> QED BY <1>9, <4>2, <5>2, <5>3
      <4> QED BY <4>1, <4>2
    <3> QED BY <3>1, <3>2, <3>4, <3>5, StillSound
  <2> QED BY <2>1, <2>2
<1>13. Exclusive'
  <2>1. \A q, r \in born' : ptable'[q] = ptable'[r] /\ ptable'[q] # None => q = r
    BY <1>2 DEF Exclusive
  <2> QED BY <1>2, <1>12, <2>1 DEF Exclusive
<1>14. UnbornEmpty'
  BY <1>1, <1>2 DEF UnbornEmpty, TypeOK
<1>15. \A f : f \in Referenced' <=>
         f # None /\ \E q \in born : ptable[q] = f \/ Owned(Machine(q)', f)
  <2>1. ReferencedOwned'
    BY ReferencedAlways, PTL
  <2> QED BY <1>2, <1>3, <2>1 DEF ReferencedOwned
<1>16. \A f : Owned(m, f) => f \in Referenced'
  BY <1>1, <1>5, <1>6, <1>15, FrameNumbers
<1>17. Foreign(p) \subseteq Referenced'
  <2> SUFFICES ASSUME NEW f \in Foreign(p) PROVE f \in Referenced'
    OBVIOUS
  <2>1. f # None /\ \E q \in born : ptable[q] = f \/ (q # p /\ Owned(Machine(q), f))
    BY FrameNumbers DEF Foreign
  <2> QED BY <1>1, <1>5, <1>15, <2>1
<1> QED BY <1>3, <1>13, <1>14, <1>16, <1>17

(* Marking more frames does not disturb anybody.                           *)
LEMMA UsedGrows ==
  ASSUME TypeOK, Exclusive, UnbornEmpty, UNCHANGED <<born, ptable, tables, space>>,
         used \subseteq used', used' \subseteq Frame, cur_user_bound' \in 1 .. (Frames + 1),
         null_table' \in BOOLEAN
  PROVE  MemoryOK' /\ Exclusive' /\ UnbornEmpty'
<1>1. MemoryOK /\ \A q \in born : q \in Process
  BY TypedMemory DEF TypeOK
<1>2. MemoryOK' /\ UnbornEmpty'
  BY <1>1 DEF MemoryOK, UnbornEmpty
<1>3. ASSUME NEW q \in Process
      PROVE  /\ Machine(q)' \in Machines /\ Machine(q)'.used = used'
             /\ Machine(q)'.tables = Machine(q).tables /\ Machine(q)'.space = Machine(q).space
             /\ Machine(q).used = used
             /\ \A f : Owned(Machine(q)', f) <=> Owned(Machine(q), f)
  <2>1. /\ Machine(q)' \in Machines /\ Machine(q)'.used = used'
        /\ Machine(q)'.tables = tables[q] /\ Machine(q)'.space = space[q]
    BY <1>2 DEF MemoryOK, Machine, Machines
  <2>2. /\ Machine(q).used = used /\ Machine(q).tables = tables[q] /\ Machine(q).space = space[q]
    BY <1>1, MachineTyped
  <2> QED BY <2>1, <2>2 DEF Owned, Table, Mapping
<1>4. \A q \in born : Foreign(q)' = Foreign(q)
  BY <1>1, <1>3 DEF Foreign
<1>5. ASSUME NEW q \in born PROVE Sound(Machine(q)', Foreign(q)')
  <2>1. Sound(Machine(q), Foreign(q))
    BY DEF Exclusive
  <2>2. Foreign(q)' \subseteq used'
    BY <1>1, <1>3, <1>4, <2>1, SoundTables
  <2>3. \A f : Owned(Machine(q), f) => f \in used' \ Foreign(q)'
    BY <1>1, <1>3, <1>4, <2>1, OwnedFrames
  <2> QED BY <1>1, <1>3, <2>1, <2>2, <2>3, StillSound
<1> QED BY <1>2, <1>5 DEF Exclusive

(* What fork makes of the machine of process p: a directory and a copy.    *)
ForkOwn(p) == Highest(Machine(p), 1)
ForkEmpty(p) == [page_alloc(Machine(p), ForkOwn(p)) EXCEPT
                   !.tables = [d \in Directory |-> None], !.space = [v \in Page |-> None]]
ForkChild(p) == copy_address_space(ForkEmpty(p), space[p])

LEMMA ForkMakes ==
  ASSUME TypeOK, NEW p \in born
  PROVE  LET own == ForkOwn(p)
             child == ForkChild(p)
         IN  /\ own \subseteq Frame \ used /\ \A f, g \in own : f = g
             /\ Sound(child, used \cup own) /\ (child.null => ~child.ok)
             /\ child.ok => /\ \A v \in Page : child.space[v] # None <=> space[p][v] # None
                            /\ \A f \in child.used : f \in used \cup own \/ Owned(child, f)
<1> DEFINE own == ForkOwn(p)
           taken == page_alloc(Machine(p), own)
           empty == ForkEmpty(p)
           child == ForkChild(p)
<1>1. p \in Process /\ MemoryOK
  BY TypedMemory DEF TypeOK
<1>2. Machine(p) \in Machines /\ ~Machine(p).null /\ Machine(p).used = used
  BY <1>1, MachineTyped
<1>3. own \subseteq Frame /\ own \cap used = {} /\ IsFiniteSet(own) /\ Cardinality(own) \in 0 .. 1
  BY <1>2, HighestFree DEF ForkOwn
<1> HIDE DEF own
<1>4. \A f, g \in own : f = g
  <2>1. own = {} \/ \E f : own = {f}
    <3>1. CASE Cardinality(own) = 0
      BY <1>3, <3>1, FS_EmptySet
    <3>2. CASE Cardinality(own) = 1
      BY <1>3, <3>2, FS_Singleton
    <3> QED BY <1>3, <3>1, <3>2
  <2> QED BY <2>1
<1>5. taken \in Machines /\ taken.used = used \cup own /\ taken.ok /\ ~taken.null
  <2>1. taken \in Machines /\ taken.used = used \cup own /\ (taken.ok <=> Machine(p).ok)
    BY <1>2, <1>3, PageAllocMachine
  <2>2. Machine(p).ok
    BY DEF Machine
  <2>3. ~taken.null
    BY <1>2 DEF page_alloc, Machines
  <2> QED BY <2>1, <2>2, <2>3
<1>6. empty = [taken EXCEPT !.tables = [d \in Directory |-> None], !.space = [v \in Page |-> None]]
  BY DEF ForkEmpty, own
<1> HIDE DEF taken, empty
<1>7. /\ empty \in Machines /\ empty.used = used \cup own /\ empty.ok /\ ~empty.null
      /\ \A d \in Directory : empty.tables[d] = None
      /\ \A v \in Page : empty.space[v] = None
  BY <1>5, <1>6 DEF Machines
<1>8. Sound(empty, used \cup own)
  BY <1>7 DEF Sound, Table, Mapping
<1>9. child = copy_address_space(empty, space[p])
  BY DEF ForkChild, empty
<1> HIDE DEF child
<1>10. /\ Sound(child, used \cup own) /\ (child.null => ~child.ok)
       /\ child.ok => /\ \A v \in Page : child.space[v] # None <=> space[p][v] # None
                      /\ Lossless(empty, child)
  BY <1>7, <1>8, <1>9, CopyMaps
<1>11. ASSUME child.ok, NEW f \in child.used PROVE f \in used \cup own \/ Owned(child, f)
  BY <1>7, <1>10, <1>11 DEF Lossless, Unneeded, Owned
<1> QED BY <1>3, <1>4, <1>10, <1>11 DEF own, child

(* The contents after a fork: frames that were in use keep theirs, the     *)
(* copy gets its parent's.                                                 *)
LEMMA ForkCopies ==
  ASSUME TypeOK, NEW p \in born, NEW q \in Process, fork(p, q)
  PROVE  /\ content' \in [Frame -> Value]
         /\ \A f \in used : content'[f] = content[f]
         /\ \A v \in Page : space[p][v] # None /\ ForkChild(p).space[v] # None
              => content'[ForkChild(p).space[v]] = content[space[p][v]]
<1> DEFINE child == ForkChild(p)
           copied(f) == \E v \in Page : space[p][v] # None /\ child.space[v] = f
           of(f) == CHOOSE v \in Page : child.space[v] = f
<1>1. content' = [f \in Frame |-> IF copied(f) THEN content[space[p][of(f)]] ELSE content[f]]
  BY DEF fork, ForkChild, ForkEmpty, ForkOwn
<1>2. Sound(child, used \cup ForkOwn(p))
  BY ForkMakes
<1> HIDE DEF child
<1>3. \A v \in Page : child.space[v] # None => child.space[v] \in Frame /\ child.space[v] \notin used
  BY <1>2, SoundTables DEF Machines
<1>4. \A v, w \in Page : child.space[v] = child.space[w] /\ child.space[v] # None => v = w
  BY <1>2 DEF Sound
<1>5. ASSUME NEW v \in Page, child.space[v] # None PROVE of(child.space[v]) = v
  BY <1>4, <1>5
<1> HIDE DEF of
<1>6. \A v \in Page : space[p][v] # None => space[p][v] \in Frame
  BY DEF TypeOK
<1>7. ASSUME NEW v \in Page, space[p][v] # None, child.space[v] # None
      PROVE  content'[child.space[v]] = content[space[p][v]]
  <2>1. copied(child.space[v]) /\ child.space[v] \in Frame
    BY <1>3, <1>7
  <2> HIDE DEF copied
  <2> QED BY <1>1, <1>5, <1>7, <2>1
<1>8. ASSUME NEW f \in used PROVE content'[f] = content[f]
  <2>1. f \in Frame /\ f # None
    BY FrameNumbers DEF TypeOK
  <2>2. ~copied(f)
    BY <1>3, <2>1
  <2> HIDE DEF copied
  <2> QED BY <1>1, <2>1, <2>2
<1>9. ASSUME NEW f \in Frame PROVE content'[f] \in Value
  <2>1. content \in [Frame -> Value]
    BY DEF TypeOK
  <2>2. CASE copied(f)
    <3>1. PICK v \in Page : space[p][v] # None /\ child.space[v] = f
      BY <2>2
    <3>2. content'[f] = content[space[p][v]]
      BY <1>7, <3>1, FrameNumbers
    <3> QED BY <1>6, <2>1, <3>1, <3>2
  <2>3. CASE ~copied(f)
    <3> HIDE DEF copied
    <3>1. content'[f] = content[f]
      BY <1>1, <2>3
    <3> QED BY <2>1, <3>1
  <2> QED BY <2>2, <2>3
<1>10. content' \in [Frame -> Value]
  <2>1. DOMAIN content' = Frame /\ content' = [f \in Frame |-> content'[f]]
    <3> HIDE DEF copied
    <3> QED BY <1>1
  <2> QED BY <1>9, <2>1
<1> QED BY <1>7, <1>8, <1>10 DEF child

LEMMA ForkKeeps ==
  ASSUME TypeOK, Exclusive, UnbornEmpty, NEW p \in born, NEW q \in Process, fork(p, q)
  PROVE  /\ MemoryOK' /\ Exclusive' /\ UnbornEmpty'
         /\ call'.success => used' \ Referenced' \subseteq used \ Referenced
<1> DEFINE own == ForkOwn(p)
           child == ForkChild(p)
           done == own # {} /\ child.ok
<1>1. p \in Process /\ MemoryOK /\ \A r \in born : r \in Process
  BY TypedMemory DEF TypeOK
<1>2. /\ own \subseteq Frame \ used /\ \A f, g \in own : f = g
      /\ Sound(child, used \cup own) /\ (child.null => ~child.ok) /\ child \in Machines
      /\ child.ok => /\ \A v \in Page : child.space[v] # None <=> space[p][v] # None
                     /\ \A f \in child.used : f \in used \cup own \/ Owned(child, f)
  BY ForkMakes, SoundTables
<1>3. /\ q \notin born
      /\ call' = [op |-> "fork", success |-> done]
      /\ null_table' = (own = {} \/ child.null)
      /\ used' = child.used /\ cur_user_bound' = child.bound
      /\ done => /\ born' = born \cup {q}
                 /\ ptable' = [ptable EXCEPT ![q] = CHOOSE f \in own : TRUE]
                 /\ tables' = [tables EXCEPT ![q] = child.tables]
                 /\ space' = [space EXCEPT ![q] = child.space]
      /\ ~done => UNCHANGED <<born, ptable, tables, space>>
  BY DEF fork, ForkChild, ForkEmpty, ForkOwn
<1> HIDE DEF own, child
<1>4. used \cup own \subseteq child.used
  BY <1>2, SoundTables
<1>5. /\ used' \subseteq Frame /\ cur_user_bound' \in 1 .. (Frames + 1) /\ null_table' \in BOOLEAN
      /\ used \subseteq used'
  BY <1>2, <1>3, <1>4 DEF Machines
<1>6. CASE ~done
  <2>1. MemoryOK' /\ Exclusive' /\ UnbornEmpty'
    BY <1>3, <1>5, <1>6, UsedGrows
  <2>2. call'.success <=> done
    BY <1>3
  <2> QED BY <1>6, <2>1, <2>2
<1>7. CASE done
  <2> DEFINE dir == CHOOSE f \in own : TRUE
  <2>1. dir \in own /\ own = {dir} /\ child.ok
    BY <1>2, <1>7
  <2> HIDE DEF dir
  <2>2. /\ born' = born \cup {q} /\ ptable' = [ptable EXCEPT ![q] = dir]
        /\ tables' = [tables EXCEPT ![q] = child.tables]
        /\ space' = [space EXCEPT ![q] = child.space] /\ used' = child.used
    BY <1>3, <1>7 DEF dir
  <2> HIDE DEF done
  <2>3. MemoryOK'
    BY <1>1, <1>2, <1>5, <2>1, <2>2 DEF MemoryOK, Machines
  <2>4. UnbornEmpty'
    BY <1>1, <2>2 DEF UnbornEmpty, TypeOK
  <2>5. ASSUME NEW r \in Process
        PROVE  /\ Machine(r)' \in Machines /\ Machine(r)'.used = child.used
               /\ Machine(r)'.tables = IF r = q THEN child.tables ELSE Machine(r).tables
               /\ Machine(r)'.space = IF r = q THEN child.space ELSE Machine(r).space
    <3>1. Machine(r).tables = tables[r] /\ Machine(r).space = space[r]
      BY <1>1, MachineTyped
    <3>2. /\ tables'[r] = IF r = q THEN child.tables ELSE tables[r]
          /\ space'[r] = IF r = q THEN child.space ELSE space[r]
      BY <2>2 DEF TypeOK
    <3>3. Machine(r)' \in Machines /\ Machine(r)'.used = child.used
          /\ Machine(r)'.tables = tables'[r] /\ Machine(r)'.space = space'[r]
      BY <2>2, <2>3 DEF MemoryOK, Machine, Machines
    <3> QED BY <3>1, <3>2, <3>3
  <2>6. ASSUME NEW r \in Process
        PROVE  \A f : Owned(Machine(r)', f) <=> IF r = q THEN Owned(child, f) ELSE Owned(Machine(r), f)
    BY <2>5 DEF Owned, Table, Mapping
  <2>7. \A f : Owned(child, f) => f \in Frame /\ f \in child.used /\ f \notin used /\ f \notin own
    BY <1>2, OwnedFrames
  <2>8. ASSUME NEW r \in born
        PROVE  /\ Sound(Machine(r), Foreign(r)) /\ Foreign(r) \subseteq used
               /\ \A f : Owned(Machine(r), f) => f \in Frame /\ f \in used /\ f \notin Foreign(r)
               /\ ptable[r] # None => ptable[r] \in used
    <3>1. Sound(Machine(r), Foreign(r)) /\ Machine(r).used = used
      BY <1>1, MachineTyped DEF Exclusive
    <3>2. Foreign(r) \subseteq used
      BY <3>1, SoundTables
    <3>3. ptable[r] # None => ptable[r] \in Foreign(r)
      BY <1>1 DEF Foreign, TypeOK
    <3> QED BY <3>1, <3>2, <3>3, OwnedFrames
  <2>9. \A r \in born : r # q /\ r \in Process /\ ptable'[r] = ptable[r]
    BY <1>1, <1>3, <2>2 DEF TypeOK
  <2>10. ptable'[q] = dir /\ dir \in Frame /\ dir \notin used
    BY <1>2, <2>1, <2>2 DEF TypeOK
  <2>11. ASSUME NEW r \in born' PROVE Sound(Machine(r)', Foreign(r)')
    <3>1. \A f \in Foreign(r)' : /\ f \in Frame
                                 /\ \/ \E t \in born' : ptable'[t] = f
                                    \/ \E t \in born' : t # r /\ Owned(Machine(t)', f)
      BY DEF Foreign
    <3>2. CASE r = q
      <4>1. ASSUME NEW f \in Foreign(r)' PROVE f \in used \cup own
        <5>1. CASE \E t \in born' : ptable'[t] = f
          BY <2>1, <2>2, <2>8, <2>9, <2>10, <3>1, <5>1, FrameNumbers
        <5>2. CASE \E t \in born' : t # r /\ Owned(Machine(t)', f)
          <6>1. PICK t \in born : Owned(Machine(t), f)
            BY <2>2, <2>6, <2>9, <3>2, <5>2
          <6> QED BY <2>8, <6>1
        <5> QED BY <3>1, <5>1, <5>2
      <4>2. Foreign(r)' \subseteq Machine(r)'.used
        BY <1>4, <2>5, <3>2, <4>1
      <4>3. \A f : Owned(child, f) => f \in Machine(r)'.used \ Foreign(r)'
        BY <2>5, <2>7, <3>2, <4>1
      <4>4. /\ Machine(r)' \in Machines /\ Machine(r)'.tables = child.tables
            /\ Machine(r)'.space = child.space
        BY <2>5, <3>2
      <4> QED BY <1>2, <4>2, <4>3, <4>4, StillSound
    <3>3. CASE r # q
      <4>1. r \in born
        BY <2>2, <3>3
      <4>2. ASSUME NEW f \in Foreign(r)'
            PROVE  f \in Foreign(r) \/ f \in own \/ Owned(child, f)
        <5>1. CASE \E t \in born' : ptable'[t] = f
          BY <2>1, <2>2, <2>9, <2>10, <3>1, <5>1 DEF Foreign
        <5>2. CASE \E t \in born' : t # r /\ Owned(Machine(t)', f)
          <6>1. PICK t \in born' : t # r /\ Owned(Machine(t)', f)
            BY <5>2
          <6>2. CASE t = q
            BY <2>6, <6>1, <6>2
          <6>3. CASE t # q
            <7>1. t \in born /\ Owned(Machine(t), f)
              BY <2>2, <2>6, <2>9, <6>1, <6>3
            <7> QED BY <3>1, <6>1, <7>1 DEF Foreign
          <6> QED BY <6>2, <6>3
        <5> QED BY <3>1, <5>1, <5>2
      <4>3. Foreign(r)' \subseteq Machine(r)'.used
        BY <1>4, <2>5, <2>7, <2>8, <2>9, <4>1, <4>2
      <4>4. \A f : Owned(Machine(r), f) => f \in Machine(r)'.used \ Foreign(r)'
        BY <1>2, <1>4, <2>5, <2>7, <2>8, <2>9, <4>1, <4>2
      <4>5. /\ Machine(r)' \in Machines /\ Machine(r)'.tables = Machine(r).tables
            /\ Machine(r)'.space = Machine(r).space
        BY <2>5, <2>9, <4>1
      <4> QED BY <2>8, <4>1, <4>3, <4>4, <4>5, StillSound
    <3> QED BY <3>2, <3>3
  <2>12. \A r, t \in born' : ptable'[r] = ptable'[t] /\ ptable'[r] # None => r = t
    BY <2>2, <2>8, <2>9, <2>10 DEF Exclusive
  <2>13. Exclusive'
    BY <2>11, <2>12 DEF Exclusive
  <2>14. \A f : f \in Referenced' <=>
           f # None /\ \E r \in born' : ptable'[r] = f \/ Owned(Machine(r)', f)
    <3>1. ReferencedOwned'
      BY ReferencedAlways, PTL
    <3> QED BY <2>3, <3>1 DEF ReferencedOwned
  <2>15. Referenced \subseteq Referenced'
    <3>1. \A f \in Referenced : f # None /\ \E r \in born : ptable[r] = f \/ Owned(Machine(r), f)
      BY <1>1, ReferencedFrames DEF ReferencedOwned
    <3> QED BY <2>2, <2>6, <2>9, <2>14, <3>1
  <2>16. \A f \in child.used : f \in used \/ f \in Referenced'
    <3>1. dir \in Referenced'
      BY <2>2, <2>10, <2>14, FrameNumbers
    <3>2. \A f : Owned(child, f) => f \in Referenced'
      BY <2>2, <2>6, <2>7, <2>14, FrameNumbers
    <3> QED BY <1>2, <2>1, <3>1, <3>2
  <2> QED BY <2>2, <2>3, <2>4, <2>13, <2>15, <2>16
<1> QED BY <1>6, <1>7

(* A call that lost no frame of the process lost none at all.              *)
LEMMA BecameLosesNothing ==
  ASSUME TypeOK, Exclusive, UnbornEmpty, NEW p \in born, NEW m, Sound(m, Foreign(p)),
         Became(p, m), Lossless(Machine(p), m)
  PROVE  used' \ Referenced' \subseteq used \ Referenced
<1>1. p \in Process /\ MemoryOK
  BY TypedMemory DEF TypeOK
<1>2. used' = m.used /\ Machine(p).used = used
  BY <1>1, MachineTyped DEF Became
<1>3. (\A f : Owned(m, f) => f \in Referenced') /\ Foreign(p) \subseteq Referenced'
  BY BecameKeeps
<1>4. ASSUME NEW f \in used', f \notin Referenced' PROVE f \in used /\ f \notin Referenced
  <2>1. Unneeded(m, f)
    BY <1>2, <1>3, <1>4 DEF Unneeded, Owned
  <2>2. f \in used /\ ~Owned(Machine(p), f)
    BY <1>2, <2>1 DEF Lossless, Unneeded, Owned
  <2>3. ASSUME f \in Referenced PROVE FALSE
    <3>1. PICK q \in born : ptable[q] = f \/ Owned(Machine(q), f)
      BY <1>1, <2>3, ReferencedFrames DEF ReferencedOwned
    <3>2. f \in Foreign(p)
      BY <1>1, <2>2, <3>1 DEF Foreign, MemoryOK
    <3> QED BY <1>3, <1>4, <3>2
  <2> QED BY <2>2, <2>3
<1> QED BY <1>4

LEMMA NothingReferenced ==
  ASSUME UNCHANGED <<born, ptable, tables, space>>
  PROVE  Referenced' = Referenced
BY DEF Referenced, Entries, FrameOf

LEMMA WholePages ==
  ASSUME NEW P \in Nat \ {0}, NEW k \in Nat
  PROVE  (k * P) \div P = k
OBVIOUS

LEMMA ExecveKeeps ==
  ASSUME TypeOK, Exclusive, UnbornEmpty, HeapAboveKernel, NEW p \in born,
         NEW program \in Programs, execve(p, program)
  PROVE  /\ MemoryOK' /\ Exclusive' /\ UnbornEmpty' /\ HeapAboveKernel'
         /\ content' \in [Frame -> Value] /\ heap_top' \in [Process -> Nat]
         /\ \A f \in Foreign(p) : content'[f] = content[f]
         /\ call'.op = "execve" /\ call' \in [op : Call, success : BOOLEAN]
         /\ call'.success => used' \ Referenced' \subseteq used \ Referenced
         /\ \E m : Became(p, m) /\ Sound(m, Foreign(p))
<1> DEFINE F == Foreign(p)
           start == [m |-> reset_address_space(Machine(p)), heap |-> 0, contents |-> content,
                     success |-> TRUE]
           loaded == load_segments(start, program)
           stack == malloc(loaded.m, 1, StackBase \div PageSize)
           m == IF loaded.success THEN stack ELSE loaded.m
           done == loaded.success /\ stack.ok
<1>1. p \in Process /\ MemoryOK /\ F \in SUBSET Frame
  BY TypedMemory DEF TypeOK, Foreign
<1>2. /\ Became(p, m)
      /\ heap_top' = [heap_top EXCEPT ![p] = loaded.heap]
      /\ content' = loaded.contents
      /\ call' = [op |-> "execve", success |-> done]
  BY DEF execve
<1>3. Sound(Machine(p), F)
  BY DEF Exclusive
<1>4. start \in Loads(Machine(p), content, F)
  <2> DEFINE r == reset_address_space(Machine(p))
  <2>1. Sound(r, F) /\ Lossless(Machine(p), r) /\ (r.null <=> Machine(p).null)
    BY <1>3, ResetReleases
  <2>2. r \in Machines /\ ~r.null
    BY <1>1, <2>1, SoundTables, MachineTyped
  <2> HIDE DEF r
  <2>3. content \in [Frame -> Value]
    BY DEF TypeOK
  <2>4. [m |-> r, heap |-> 0, contents |-> content, success |-> TRUE]
          \in Loads(Machine(p), content, F)
    <3> DEFINE l == [m |-> r, heap |-> 0, contents |-> content, success |-> TRUE]
    <3>1. l \in [m : Machines, heap : Nat, contents : [Frame -> Value], success : BOOLEAN]
      BY <2>2, <2>3
    <3>2. l.m = r /\ l.heap = 0 /\ l.contents = content /\ l.success
      OBVIOUS
    <3> HIDE DEF l
    <3>3. l \in Loads(Machine(p), content, F)
      BY <2>1, <2>2, <3>1, <3>2 DEF Loads
    <3> QED BY <3>3 DEF l
  <2> QED BY <2>4 DEF r
<1> HIDE DEF F, start
<1>5. loaded \in Loads(Machine(p), content, F)
  BY <1>1, <1>4, SegmentsLoad
<1> HIDE DEF loaded
<1>6. /\ loaded.heap \in Nat /\ loaded.contents \in [Frame -> Value] /\ loaded.success \in BOOLEAN
      /\ loaded.m \in Machines /\ Sound(loaded.m, F)
      /\ loaded.heap = 0 \/ FirstPage * PageSize <= loaded.heap
      /\ \A f \in F : loaded.contents[f] = content[f]
      /\ loaded.m.null => ~loaded.success
      /\ loaded.success => Lossless(Machine(p), loaded.m)
  BY <1>5 DEF Loads
<1>7. ASSUME loaded.success PROVE Allocates(loaded.m, stack, F, 1, LastPage)
  <2>1. LastPage \in Nat /\ PageSize \in Nat \ {0}
    BY PageNumbers, AddressSpaceAssumption
  <2>2. StackBase \div PageSize = LastPage
    BY <2>1, WholePages DEF StackBase
  <2> QED BY <1>6, <1>7, <2>1, <2>2, MallocMaps
<1> HIDE DEF stack
<1>8. Sound(m, F)
  BY <1>6, <1>7 DEF Allocates, Extends
<1>9. done => Lossless(Machine(p), m)
  <2>1. LastPage \in Nat /\ FirstPage <= LastPage
    BY PageNumbers
  <2>2. LastPage + 1 <= LastPage + 1
    BY <2>1
  <2>3. ASSUME done PROVE Lossless(loaded.m, stack)
    BY <1>7, <2>1, <2>2, <2>3 DEF Allocates
  <2> QED BY <1>6, <2>3 DEF Lossless
<1> HIDE DEF m
<1>10. MemoryOK' /\ Exclusive' /\ UnbornEmpty'
  BY <1>2, <1>8, BecameKeeps DEF F
<1>11. done => used' \ Referenced' \subseteq used \ Referenced
  BY <1>2, <1>8, <1>9, BecameLosesNothing DEF F
<1>12. done \in BOOLEAN
  OBVIOUS
<1> HIDE DEF done
<1>13. call' \in [op : Call, success : BOOLEAN] /\ call'.op = "execve" /\ (call'.success <=> done)
  BY <1>2, <1>12 DEF Call
<1>14. heap_top' \in [Process -> Nat]
  BY <1>1, <1>2, <1>6 DEF TypeOK
<1>15. HeapAboveKernel'
  <2>1. \A q \in Process : heap_top'[q] = IF q = p THEN loaded.heap ELSE heap_top[q]
    BY <1>2 DEF TypeOK
  <2> QED BY <1>6, <2>1 DEF HeapAboveKernel
<1> QED BY <1>2, <1>6, <1>8, <1>10, <1>11, <1>13, <1>14, <1>15 DEF F

LEMMA SbrkPagesKeeps ==
  ASSUME TypeOK, Exclusive, UnbornEmpty, HeapAboveKernel, NEW p \in born,
         NEW incr \in Increments, sbrk_pages(p, incr)
  PROVE  /\ MemoryOK' /\ Exclusive' /\ UnbornEmpty' /\ HeapAboveKernel'
         /\ heap_top' \in [Process -> Nat]
         /\ call'.op = "sbrk" /\ call' \in [op : Call, success : BOOLEAN]
         /\ call'.success => used' \ Referenced' \subseteq used \ Referenced
         /\ \E m : Became(p, m) /\ Extends(Machine(p), m, Foreign(p))
<1> DEFINE mod == heap_top[p] % PageSize
           avail == IF mod = 0 THEN 0 ELSE PageSize - mod
           n == Pages(incr - avail)
           base == (heap_top[p] + avail) \div PageSize
           grown == malloc(Machine(p), n, base)
<1>1. p \in Process /\ MemoryOK /\ incr \in Nat /\ PageSize \in Nat \ {0} /\ heap_top[p] \in Nat
  BY TypedMemory, AddressSpaceAssumption DEF TypeOK
<1>2. /\ heap_top[p] # 0 /\ incr > 0 /\ (mod # 0 => avail < incr)
      /\ heap_top[p] + incr <= StackBase + PageSize
      /\ Became(p, grown)
      /\ heap_top' = [heap_top EXCEPT ![p] = @ + incr - avail]
      /\ call' = [op |-> "sbrk", success |-> grown.ok]
  BY DEF sbrk_pages
<1>3. mod \in 0 .. (PageSize - 1)
  BY <1>1
<1> HIDE DEF mod
<1>4. avail \in Nat /\ avail <= incr
  BY <1>1, <1>2, <1>3
<1> HIDE DEF avail
<1>5. FirstPage * PageSize \in Nat /\ FirstPage * PageSize <= heap_top[p]
  BY <1>1, <1>2, PageNumbers DEF HeapAboveKernel
<1>6. n \in Nat /\ base \in Nat /\ FirstPage <= base /\ base + n <= LastPage + 1
  <2>1. StackBase + PageSize \in Nat
    BY <1>1, PageNumbers DEF StackBase
  <2>2. heap_top[p] + avail \in Nat /\ incr - avail \in Nat
        /\ FirstPage * PageSize <= heap_top[p] + avail
        /\ (heap_top[p] + avail) + (incr - avail) <= StackBase + PageSize
    BY <1>1, <1>2, <1>4, <1>5, <2>1
  <2> QED BY <2>2, AreaPages
<1> HIDE DEF n, base
<1>7. Sound(Machine(p), Foreign(p)) /\ ~Machine(p).null
  BY <1>1, MachineTyped DEF Exclusive
<1>8. Allocates(Machine(p), grown, Foreign(p), n, base)
  BY <1>6, <1>7, MallocMaps
<1> HIDE DEF grown
<1>9. Extends(Machine(p), grown, Foreign(p)) /\ Sound(grown, Foreign(p)) /\ grown \in Machines
  BY <1>8, SoundTables DEF Allocates, Extends
<1>10. MemoryOK' /\ Exclusive' /\ UnbornEmpty'
  BY <1>2, <1>9, BecameKeeps
<1>11. grown.ok => used' \ Referenced' \subseteq used \ Referenced
  BY <1>2, <1>6, <1>8, <1>9, BecameLosesNothing DEF Allocates
<1>12. call' \in [op : Call, success : BOOLEAN] /\ call'.op = "sbrk" /\ (call'.success <=> grown.ok)
  BY <1>2, <1>9 DEF Call, Machines
<1>13. heap_top[p] + incr - avail \in Nat /\ FirstPage * PageSize <= heap_top[p] + incr - avail
  BY <1>1, <1>4, <1>5
<1>14. heap_top' \in [Process -> Nat]
  BY <1>1, <1>2, <1>13 DEF TypeOK
<1>15. HeapAboveKernel'
  <2>1. \A q \in Process : heap_top'[q] = IF q = p THEN heap_top[p] + incr - avail ELSE heap_top[q]
    BY <1>2 DEF TypeOK
  <2> QED BY <1>13, <2>1 DEF HeapAboveKernel
<1> QED BY <1>2, <1>9, <1>10, <1>11, <1>12, <1>14, <1>15

LEMMA QuietKeeps ==
  ASSUME TypeOK, Exclusive, UnbornEmpty,
         UNCHANGED <<born, used, cur_user_bound, ptable, tables, space, null_table>>
  PROVE  /\ MemoryOK' /\ Exclusive' /\ UnbornEmpty'
         /\ used' \ Referenced' \subseteq used \ Referenced
<1>1. used \subseteq used' /\ used' \subseteq Frame /\ cur_user_bound' \in 1 .. (Frames + 1)
      /\ null_table' \in BOOLEAN
  BY DEF TypeOK
<1>2. MemoryOK' /\ Exclusive' /\ UnbornEmpty'
  BY <1>1, UsedGrows
<1>3. Referenced' = Referenced
  BY NothingReferenced
<1> QED BY <1>2, <1>3

LEMMA SbrkZeroKeeps ==
  ASSUME TypeOK, Exclusive, UnbornEmpty, NEW p \in born, sbrk_zero(p)
  PROVE  /\ MemoryOK' /\ Exclusive' /\ UnbornEmpty'
         /\ used' \ Referenced' \subseteq used \ Referenced
<1> DEFINE v == heap_top[p] \div PageSize
           m == kfree(Machine(p), v)
<1>1. \/ v \in Page /\ Became(p, m)
      \/ UNCHANGED <<born, used, cur_user_bound, ptable, tables, space, null_table>>
  BY DEF sbrk_zero
<1>2. CASE v \in Page /\ Became(p, m)
  <2>1. Sound(Machine(p), Foreign(p))
    BY DEF Exclusive
  <2>2. Sound(m, Foreign(p)) /\ Lossless(Machine(p), m)
    BY <1>2, <2>1, KfreeReleases
  <2> HIDE DEF m
  <2> QED BY <1>2, <2>2, BecameKeeps, BecameLosesNothing
<1>3. CASE UNCHANGED <<born, used, cur_user_bound, ptable, tables, space, null_table>>
  BY <1>3, QuietKeeps
<1> QED BY <1>1, <1>2, <1>3

-----------------------------------------------------------------------------
(* The invariant. *)

LEMMA InitAddressInv == Init => AddressInv
<1> SUFFICES ASSUME Init PROVE AddressInv
  OBVIOUS
<1>1. Frames \in Frame /\ Frames \in 1 .. (Frames + 1) /\ Frame # {} /\ process0 \in Process
  BY FrameNumbers, AddressSpaceAssumption DEF Frame
<1>2. (CHOOSE x \in Value : TRUE) \in Value
  BY AddressSpaceAssumption
<1>3. TypeOK
  <2>1. MemoryOK
    BY <1>1 DEF Init, MemoryOK
  <2>2. content \in [Frame -> Value] /\ heap_top \in [Process -> Nat]
    BY <1>2 DEF Init
  <2>3. call \in [op : Call, success : BOOLEAN] /\ calls \in 0 .. MaxCalls
    BY AddressSpaceAssumption DEF Init, Call
  <2> QED BY <2>1, <2>2, <2>3 DEF TypeOK, MemoryOK
<1>4. UnbornEmpty
  BY DEF Init, UnbornEmpty
<1>5. HeapAboveKernel
  BY DEF Init, HeapAboveKernel
<1>6. Exclusive
  <2>1. born = {process0} /\ used = {Frames} /\ ptable[process0] = Frames
    BY <1>1 DEF Init
  <2>2. /\ \A d \in Directory : tables[process0][d] = None
        /\ \A v \in Page : space[process0][v] = None
    BY <1>1 DEF Init
  <2>3. Foreign(process0) \subseteq {Frames}
    BY <2>1 DEF Foreign
  <2>4. /\ Machine(process0) \in Machines /\ Machine(process0).used = used
        /\ Machine(process0).tables = tables[process0]
        /\ Machine(process0).space = space[process0]
    BY <1>1, <1>3, TypedMemory, MachineTyped
  <2>5. Sound(Machine(process0), Foreign(process0))
    BY <2>1, <2>2, <2>3, <2>4 DEF Sound, Table, Mapping
  <2> QED BY <2>1, <2>5 DEF Exclusive
<1> QED BY <1>3, <1>4, <1>5, <1>6 DEF AddressInv

(* What every step keeps, and what a step that succeeds does not lose.     *)
LEMMA StepKeeps ==
  ASSUME AddressInv, [Next]_vars
  PROVE  AddressInv' /\ [call'.success => used' \ Referenced' \subseteq used \ Referenced]_vars
<1> USE DEF AddressInv
<1> DEFINE Loss == call'.success => used' \ Referenced' \subseteq used \ Referenced
           Rest == /\ content' \in [Frame -> Value] /\ heap_top' \in [Process -> Nat]
                   /\ call' \in [op : Call, success : BOOLEAN] /\ HeapAboveKernel'
                   /\ MemoryOK' /\ Exclusive' /\ UnbornEmpty' /\ Loss
<1>1. CASE UNCHANGED vars
  <2>1. UNCHANGED <<born, used, cur_user_bound, ptable, tables, space, null_table>>
    BY <1>1 DEF vars
  <2>2. MemoryOK' /\ Exclusive' /\ UnbornEmpty'
    BY <2>1, QuietKeeps
  <2>3. TypeOK'
    BY <1>1, <2>2 DEF TypeOK, MemoryOK, vars
  <2>4. HeapAboveKernel'
    BY <1>1 DEF HeapAboveKernel, vars
  <2> QED BY <1>1, <2>2, <2>3, <2>4
<1>2. ASSUME NEW p \in born, system_call(p) PROVE Rest /\ calls' \in 0 .. MaxCalls
  <2>1. calls' \in 0 .. MaxCalls
    BY <1>2, AddressSpaceAssumption DEF system_call, TypeOK
  <2>2. ASSUME NEW q \in Process, fork(p, q) PROVE Rest
    <3>1. MemoryOK' /\ Exclusive' /\ UnbornEmpty' /\ Loss
      BY <2>2, ForkKeeps
    <3>2. content' \in [Frame -> Value]
      BY <2>2, ForkCopies
    <3>3. call' \in [op : Call, success : BOOLEAN]
      BY <2>2 DEF fork, Call
    <3>4. heap_top' \in [Process -> Nat] /\ HeapAboveKernel'
      BY <2>2 DEF fork, TypeOK, HeapAboveKernel
    <3> QED BY <3>1, <3>2, <3>3, <3>4
  <2>3. ASSUME NEW program \in Programs, execve(p, program) PROVE Rest
    BY <2>3, ExecveKeeps
  <2>4. ASSUME NEW incr \in Increments, sbrk_available(p, incr) PROVE Rest
    <3>1. /\ UNCHANGED <<born, used, cur_user_bound, ptable, tables, space, null_table>>
          /\ content' = content /\ heap_top' = [heap_top EXCEPT ![p] = @ + incr]
          /\ heap_top[p] # 0
      BY <2>4 DEF sbrk_available
    <3>2. MemoryOK' /\ Exclusive' /\ UnbornEmpty' /\ Loss
      BY <3>1, QuietKeeps
    <3>3. call' \in [op : Call, success : BOOLEAN]
      BY <2>4 DEF sbrk_available, Call
    <3>4. p \in Process /\ incr \in Nat /\ FirstPage * PageSize \in Nat
      BY AddressSpaceAssumption, PageNumbers DEF TypeOK
    <3>5. heap_top' \in [Process -> Nat] /\ HeapAboveKernel'
      BY <3>1, <3>4 DEF TypeOK, HeapAboveKernel
    <3>6. content' \in [Frame -> Value]
      BY <3>1 DEF TypeOK
    <3> QED BY <3>2, <3>3, <3>5, <3>6
  <2>5. ASSUME NEW incr \in Increments, sbrk_pages(p, incr) PROVE Rest
    <3>1. content' \in [Frame -> Value]
      BY <2>5 DEF sbrk_pages, TypeOK
    <3> QED BY <2>5, <3>1, SbrkPagesKeeps
  <2>6. ASSUME sbrk_zero(p) PROVE Rest
    <3>1. MemoryOK' /\ Exclusive' /\ UnbornEmpty' /\ Loss
      BY <2>6, SbrkZeroKeeps
    <3>2. content' = content /\ heap_top' = heap_top /\ call' \in [op : Call, success : BOOLEAN]
      BY <2>6 DEF sbrk_zero, Call
    <3> QED BY <3>1, <3>2 DEF TypeOK, HeapAboveKernel
  <2>7. ASSUME sbrk_refused(p) PROVE Rest
    <3>1. UNCHANGED <<born, used, cur_user_bound, ptable, tables, space, null_table>>
      BY <2>7 DEF sbrk_refused
    <3>2. MemoryOK' /\ Exclusive' /\ UnbornEmpty' /\ Loss
      BY <3>1, QuietKeeps
    <3>3. content' = content /\ heap_top' = heap_top /\ call' \in [op : Call, success : BOOLEAN]
      BY <2>7 DEF sbrk_refused, Call
    <3> QED BY <3>2, <3>3 DEF TypeOK, HeapAboveKernel
  <2> QED BY <1>2, <2>1, <2>2, <2>3, <2>4, <2>5, <2>6, <2>7 DEF system_call
<1>3. ASSUME NEW p \in born, NEW v \in Page, NEW x \in Value, write(p, v, x)
      PROVE  Rest /\ calls' \in 0 .. MaxCalls
  <2>1. /\ UNCHANGED <<born, used, cur_user_bound, ptable, tables, space, null_table>>
        /\ content' = [content EXCEPT ![space[p][v]] = x] /\ heap_top' = heap_top
        /\ call' \in [op : Call, success : BOOLEAN] /\ calls' = calls
    BY <1>3 DEF write, Call
  <2>2. MemoryOK' /\ Exclusive' /\ UnbornEmpty' /\ Loss
    BY <2>1, QuietKeeps
  <2>3. content' \in [Frame -> Value]
    BY <2>1 DEF TypeOK
  <2> QED BY <2>1, <2>2, <2>3 DEF TypeOK, HeapAboveKernel
<1>4. CASE Next
  <2>1. Rest /\ calls' \in 0 .. MaxCalls
    BY <1>2, <1>3, <1>4 DEF Next
  <2>2. TypeOK'
    BY <2>1 DEF TypeOK, MemoryOK
  <2> QED BY <2>1, <2>2
<1> QED BY <1>1, <1>4

LEMMA AddressInvariant == Spec => []AddressInv
<1>1. AddressInv /\ [Next]_vars => AddressInv'
  BY StepKeeps
<1> QED BY InitAddressInv, <1>1, PTL DEF Spec

(* The variables keep their types: the bound stays inside memory or just   *)
(* behind it, page tables and pages are frames, the heap is no negative    *)
(* address, whatever allocation failed.                                    *)
THEOREM TypeCorrect == Spec => []TypeOK
<1>1. AddressInv => TypeOK
  BY DEF AddressInv
<1> QED BY AddressInvariant, <1>1, PTL

(* Whatever forks, programs loaded, sbrk and failures come before: no      *)
(* frame is page directory, table or page of two, none that is referred to *)
(* can be allocated, and no page hangs in a table that does not exist.     *)
THEOREM FramesStayExclusive == Spec => []FramesExclusive
<1>1. AddressInv => FramesExclusive
  BY ExclusiveFrames DEF AddressInv
<1> QED BY AddressInvariant, <1>1, PTL

(* Only calls that fail lose frames (fork, execve and sbrk do when memory  *)
(* runs out on the way): a call that reports success has in use what       *)
(* somebody refers to, and what was lost before.                           *)
THEOREM SuccessKeepsFrames == Spec => SuccessLosesNothing
<1>1. AddressInv /\ [Next]_vars => [call'.success => Lost' \subseteq Lost]_vars
  BY StepKeeps DEF Lost
<1> QED BY AddressInvariant, <1>1, PTL DEF Spec, SuccessLosesNothing

-----------------------------------------------------------------------------
(* Private memories. *)

Memory == [p \in Process |-> [v \in Page |->
            IF space[p][v] = None THEN "unmapped" ELSE content[space[p][v]]]]

(* Pages seen only by p: what a step that leaves everybody else's frames   *)
(* alone does to the memories.                                             *)
LEMMA BecameIsOwn ==
  ASSUME TypeOK, Exclusive, UnbornEmpty, NEW p \in born, NEW m, Sound(m, Foreign(p)),
         Became(p, m), content' \in [Frame -> Value],
         \A f \in Foreign(p) : content'[f] = content[f]
  PROVE  Private!Own(p)
<1>1. p \in Process /\ MemoryOK /\ m \in Machines
  BY TypedMemory, SoundTables DEF TypeOK
<1>2. born' = born /\ space' = [space EXCEPT ![p] = m.space]
  BY DEF Became
<1>3. ASSUME NEW q \in Process, q # p, NEW v \in Page
      PROVE  space'[q][v] = space[q][v]
             /\ (space[q][v] # None => content'[space[q][v]] = content[space[q][v]])
  <2>1. space'[q] = space[q]
    BY <1>2, <1>3 DEF TypeOK
  <2>2. CASE space[q][v] # None
    <3>1. q \in born
      BY <2>2 DEF UnbornEmpty
    <3>2. space[q][v] \in Frame /\ Owned(Machine(q), space[q][v])
      BY <1>1, <2>2, <3>1, OwnFrames DEF MemoryOK
    <3>3. space[q][v] \in Foreign(p)
      BY <1>3, <3>1, <3>2 DEF Foreign
    <3> QED BY <2>1, <3>3
  <2> QED BY <2>1, <2>2
<1>4. Memory'[p] \in [Page -> Value \cup {"unmapped"}]
  <2>1. Memory'[p] = [v \in Page |-> IF space'[p][v] = None THEN "unmapped"
                                     ELSE content'[space'[p][v]]]
    BY <1>1 DEF Memory
  <2>2. \A v \in Page : space'[p][v] \in Frame \cup {None}
    BY <1>1, <1>2 DEF TypeOK, Machines
  <2> QED BY <2>1, <2>2
<1>5. Memory' = [Memory EXCEPT ![p] = Memory'[p]]
  <2>1. \A q \in Process : q # p => Memory'[q] = Memory[q]
    BY <1>3 DEF Memory
  <2>2. Memory' = [q \in Process |-> Memory'[q]] /\ Memory = [q \in Process |-> Memory[q]]
    BY DEF Memory
  <2> HIDE DEF Memory
  <2> QED BY <2>1, <2>2
<1> QED BY <1>2, <1>4, <1>5 DEF Memory, Private!Own, Private!Contents

LEMMA QuietRefuses ==
  ASSUME UNCHANGED <<born, space, content>>, call'.op \in {"sbrk", "fork"}
  PROVE  Private!Refuse
BY DEF Private!Refuse

LEMMA ForkForks ==
  ASSUME TypeOK, Exclusive, UnbornEmpty, NEW p \in born, NEW q \in Process, fork(p, q)
  PROVE  Private!Refuse \/ Private!Fork(p, q)
<1> DEFINE own == ForkOwn(p)
           child == ForkChild(p)
           done == own # {} /\ child.ok
<1>1. p \in Process /\ MemoryOK
  BY TypedMemory DEF TypeOK
<1>2. /\ q \notin born /\ call'.op = "fork"
      /\ done => born' = born \cup {q} /\ space' = [space EXCEPT ![q] = child.space]
      /\ ~done => UNCHANGED <<born, space>>
  BY DEF fork, ForkChild, ForkEmpty, ForkOwn
<1>3. /\ child.ok => \A v \in Page : child.space[v] # None <=> space[p][v] # None
      /\ child \in Machines
  BY ForkMakes, SoundTables
<1>4. /\ content' \in [Frame -> Value]
      /\ \A f \in used : content'[f] = content[f]
      /\ \A v \in Page : space[p][v] # None /\ child.space[v] # None
           => content'[child.space[v]] = content[space[p][v]]
  BY ForkCopies
<1> HIDE DEF own, child
<1>5. ASSUME NEW r \in Process, NEW v \in Page, space[r][v] # None
      PROVE  content'[space[r][v]] = content[space[r][v]]
  <2>1. r \in born
    BY <1>5 DEF UnbornEmpty
  <2>2. Owned(Machine(r), space[r][v]) /\ Machine(r).used = used /\ Sound(Machine(r), Foreign(r))
    BY <1>1, <1>5, <2>1, OwnFrames, MachineTyped DEF Exclusive
  <2>3. space[r][v] \in used
    BY <2>2, OwnedFrames
  <2> QED BY <1>4, <2>3
<1>6. CASE ~done
  <2>1. born' = born /\ space' = space
    BY <1>2, <1>6
  <2>2. Memory' = Memory
    BY <1>5, <2>1 DEF Memory
  <2>3. Private!Refuse
    BY <1>2, <2>1, <2>2 DEF Private!Refuse, Memory
  <2> QED BY <2>3
<1>7. CASE done
  <2>1. born' = born \cup {q} /\ space' = [space EXCEPT ![q] = child.space] /\ child.ok
    BY <1>2, <1>7
  <2>2. \A r \in Process : r # q => Memory'[r] = Memory[r]
    <3> SUFFICES ASSUME NEW r \in Process, r # q PROVE Memory'[r] = Memory[r]
      OBVIOUS
    <3>1. space'[r] = space[r]
      BY <2>1 DEF TypeOK
    <3> QED BY <1>5, <3>1 DEF Memory
  <2>3. Memory'[q] = Memory[p]
    <3>1. space'[q] = child.space
      BY <2>1 DEF TypeOK
    <3>2. \A v \in Page : child.space[v] # None <=> space[p][v] # None
      BY <1>3, <2>1
    <3> QED BY <1>1, <1>4, <3>1, <3>2 DEF Memory
  <2>4. Memory' = [Memory EXCEPT ![q] = Memory[p]]
    <3>1. Memory' = [r \in Process |-> Memory'[r]] /\ Memory = [r \in Process |-> Memory[r]]
      BY DEF Memory
    <3> HIDE DEF Memory
    <3> QED BY <2>2, <2>3, <3>1
  <2>5. Private!Fork(p, q)
    BY <1>2, <2>1, <2>4 DEF Private!Fork, Memory
  <2> QED BY <2>5
<1> QED BY <1>6, <1>7

LEMMA WriteWrites ==
  ASSUME TypeOK, Exclusive, UnbornEmpty, NEW p \in born, NEW v \in Page, NEW x \in Value,
         write(p, v, x)
  PROVE  Private!Write(p, v, x)
<1> DEFINE f == space[p][v]
<1>1. p \in Process /\ MemoryOK
  BY TypedMemory DEF TypeOK
<1>2. /\ f # None /\ content' = [content EXCEPT ![f] = x] /\ call'.op = "write"
      /\ born' = born /\ space' = space
  BY DEF write
<1>3. f \in Frame /\ Owned(Machine(p), f)
  BY <1>1, <1>2, OwnFrames DEF MemoryOK
<1>4. Sound(Machine(p), Foreign(p)) /\ Machine(p).space = space[p]
  BY <1>1, MachineTyped DEF Exclusive
<1>5. f \notin Foreign(p)
  BY <1>3, <1>4, OwnedFrames
<1>6. ASSUME NEW q \in Process, NEW w \in Page, space[q][w] = f PROVE q = p /\ w = v
  <2>1. q \in born
    BY <1>2, <1>6 DEF UnbornEmpty
  <2>2. Owned(Machine(q), f)
    BY <1>1, <1>2, <1>6, <2>1, OwnFrames
  <2>3. q = p
    BY <1>3, <1>5, <2>1, <2>2 DEF Foreign
  <2>4. w = v
    BY <1>2, <1>4, <1>6, <2>3 DEF Sound
  <2> QED BY <2>3, <2>4
<1>7. /\ content'[f] = x /\ content[f] \in Value
      /\ \A g \in Frame : g # f => content'[g] = content[g]
  BY <1>2, <1>3 DEF TypeOK
<1>8. \A q \in Process, w \in Page : space[q][w] \in Frame \cup {None}
  BY DEF TypeOK
<1> HIDE DEF f
<1>9. Memory[p][v] # "unmapped"
  BY <1>1, <1>2, <1>7, AddressSpaceAssumption DEF Memory, f
<1>10. Memory' = [Memory EXCEPT ![p][v] = x]
  <2>1. \A q \in Process, w \in Page :
          Memory'[q][w] = IF q = p /\ w = v THEN x ELSE Memory[q][w]
    BY <1>2, <1>6, <1>7, <1>8 DEF Memory, f
  <2>2. /\ Memory' = [q \in Process |-> [w \in Page |-> Memory'[q][w]]]
        /\ Memory = [q \in Process |-> [w \in Page |-> Memory[q][w]]]
    BY DEF Memory
  <2> HIDE DEF Memory
  <2> QED BY <1>1, <2>1, <2>2
<1> QED BY <1>2, <1>9, <1>10 DEF Private!Write, Memory

LEMMA ZeroShrinks ==
  ASSUME TypeOK, Exclusive, UnbornEmpty, NEW p \in born, sbrk_zero(p)
  PROVE  Private!Refuse \/ Private!Shrink(p)
<1> DEFINE v == heap_top[p] \div PageSize
           m == kfree(Machine(p), v)
<1>1. p \in Process /\ MemoryOK
  BY TypedMemory DEF TypeOK
<1>2. /\ call'.op = "sbrk" /\ content' = content
      /\ \/ v \in Page /\ Became(p, m)
         \/ UNCHANGED <<born, space>>
  BY DEF sbrk_zero
<1>3. CASE UNCHANGED <<born, space>>
  BY <1>2, <1>3, QuietRefuses
<1>4. CASE v \in Page /\ Became(p, m)
  <2>1. Sound(Machine(p), Foreign(p)) /\ Machine(p).space = space[p]
    BY <1>1, MachineTyped DEF Exclusive
  <2>2. /\ Sound(m, Foreign(p))
        /\ m.space = space[p] \/ m.space = [space[p] EXCEPT ![v] = None]
    BY <1>4, <2>1, KfreeReleases
  <2> HIDE DEF m, v
  <2>3. Private!Own(p)
    <3>1. content' \in [Frame -> Value] /\ \A f \in Foreign(p) : content'[f] = content[f]
      BY <1>2 DEF TypeOK
    <3> QED BY <1>4, <2>2, <3>1, BecameIsOwn
  <2>4. born' = born /\ space' = [space EXCEPT ![p] = m.space]
    BY <1>4 DEF Became
  <2>5. CASE m.space = space[p]
    <3>1. space' = space
      BY <1>1, <2>4, <2>5 DEF TypeOK
    <3> QED BY <1>2, <2>4, <3>1, QuietRefuses
  <2>6. CASE m.space = [space[p] EXCEPT ![v] = None]
    <3>1. \A w \in Page : space'[p][w] = IF w = v THEN None ELSE space[p][w]
      BY <1>1, <2>4, <2>6 DEF TypeOK
    <3>2. Memory'[p] = [Memory[p] EXCEPT ![v] = "unmapped"]
      <4>1. \A w \in Page : Memory'[p][w] = IF w = v THEN "unmapped" ELSE Memory[p][w]
        BY <1>1, <1>2, <3>1 DEF Memory
      <4>2. /\ Memory'[p] = [w \in Page |-> Memory'[p][w]]
            /\ Memory[p] = [w \in Page |-> Memory[p][w]]
        BY <1>1 DEF Memory
      <4> HIDE DEF Memory
      <4> QED BY <4>1, <4>2
    <3>3. Private!Shrink(p)
      BY <1>2, <1>4, <2>3, <3>2 DEF Private!Shrink, Memory
    <3> QED BY <3>3
  <2> QED BY <2>2, <2>5, <2>6
<1> QED BY <1>2, <1>3, <1>4

LEMMA PagesGrow ==
  ASSUME TypeOK, Exclusive, UnbornEmpty, HeapAboveKernel, NEW p \in born,
         NEW incr \in Increments, sbrk_pages(p, incr)
  PROVE  Private!Grow(p)
<1>1. p \in Process /\ MemoryOK
  BY TypedMemory DEF TypeOK
<1>2. content' = content /\ call'.op = "sbrk"
  BY DEF sbrk_pages
<1>3. PICK m : Became(p, m) /\ Extends(Machine(p), m, Foreign(p))
  BY SbrkPagesKeeps
<1>4. Sound(m, Foreign(p)) /\ \A v \in Page : space[p][v] # None => m.space[v] = space[p][v]
  BY <1>1, <1>3, MachineTyped DEF Extends
<1>5. content' \in [Frame -> Value] /\ \A f \in Foreign(p) : content'[f] = content[f]
  BY <1>2 DEF TypeOK
<1>6. Private!Own(p)
  BY <1>3, <1>4, <1>5, BecameIsOwn
<1>7. space'[p] = m.space
  BY <1>1, <1>3 DEF Became, TypeOK
<1>8. \A v \in Page : Memory[p][v] # "unmapped" => Memory'[p][v] = Memory[p][v]
  BY <1>1, <1>2, <1>4, <1>7 DEF Memory
<1> QED BY <1>2, <1>6, <1>8 DEF Private!Grow, Memory

LEMMA ExecveReplaces ==
  ASSUME TypeOK, Exclusive, UnbornEmpty, HeapAboveKernel, NEW p \in born,
         NEW program \in Programs, execve(p, program)
  PROVE  Private!Replace(p)
<1>1. /\ call'.op = "execve" /\ content' \in [Frame -> Value]
      /\ \A f \in Foreign(p) : content'[f] = content[f]
      /\ \E m : Became(p, m) /\ Sound(m, Foreign(p))
  BY ExecveKeeps
<1>2. Private!Own(p)
  BY <1>1, BecameIsOwn
<1> QED BY <1>1, <1>2 DEF Private!Replace

LEMMA StepIsPrivate ==
  ASSUME AddressInv, [Next]_vars
  PROVE  [Private!Next]_<<born, Memory, call.op>>
<1> USE DEF AddressInv
<1>1. CASE UNCHANGED vars
  BY <1>1 DEF vars, Memory
<1>2. ASSUME NEW p \in born, system_call(p) PROVE Private!Next
  <2>1. ASSUME NEW q \in Process, fork(p, q) PROVE Private!Next
    BY <2>1, ForkForks DEF Private!Next
  <2>2. ASSUME NEW program \in Programs, execve(p, program) PROVE Private!Next
    BY <2>2, ExecveReplaces DEF Private!Next
  <2>3. ASSUME NEW incr \in Increments, sbrk_available(p, incr) PROVE Private!Next
    <3>1. UNCHANGED <<born, space, content>> /\ call'.op \in {"sbrk", "fork"}
      BY <2>3 DEF sbrk_available
    <3> QED BY <3>1, QuietRefuses DEF Private!Next
  <2>4. ASSUME NEW incr \in Increments, sbrk_pages(p, incr) PROVE Private!Next
    BY <2>4, PagesGrow DEF Private!Next
  <2>5. ASSUME sbrk_zero(p) PROVE Private!Next
    BY <2>5, ZeroShrinks DEF Private!Next
  <2>6. ASSUME sbrk_refused(p) PROVE Private!Next
    <3>1. UNCHANGED <<born, space, content>> /\ call'.op \in {"sbrk", "fork"}
      BY <2>6 DEF sbrk_refused
    <3> QED BY <3>1, QuietRefuses DEF Private!Next
  <2> QED BY <1>2, <2>1, <2>2, <2>3, <2>4, <2>5, <2>6 DEF system_call
<1>3. ASSUME NEW p \in born, NEW v \in Page, NEW x \in Value, write(p, v, x)
      PROVE  Private!Next
  BY <1>3, WriteWrites DEF Private!Next
<1>4. CASE Next
  <2>1. Private!Next
    BY <1>2, <1>3, <1>4 DEF Next
  <2> QED BY <2>1
<1> QED BY <1>1, <1>4

(* Address spaces implement one private memory for each process: a fork    *)
(* copies, sbrk adds pages or takes one, execve replaces, and no call, be  *)
(* it refused half way, shows in the memory of another process.            *)
THEOREM AddressSpacesArePrivate == Spec => ImplementsPrivateMemory
<1>1. Init => Private!Init
  BY AddressSpaceAssumption DEF Init, Private!Init, Private!Empty
<1>2. AddressInv /\ [Next]_vars => [Private!Next]_<<born, Memory, call.op>>
  BY StepIsPrivate
<1> QED BY AddressInvariant, <1>1, <1>2, PTL
        DEF Spec, ImplementsPrivateMemory, Private!Spec, Memory
=============================================================================
