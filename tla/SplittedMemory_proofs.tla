------------------------- MODULE SplittedMemory_proofs -------------------------
(***************************************************************************)
(* The heap and the pages of the splitted policy, for every page size,     *)
(* header size, region and set of requests.                                *)
(***************************************************************************)
EXTENDS SplittedMemory, WellFoundedInduction, TLAPS

(* The parts of the invariant are stated of a set of structures f that     *)
(* ends at b, so that the two merges of kernel_free can be taken one after *)
(* the other.                                                              *)
EndOf(f, h) == h + HeaderSize + f[h].size

(* What the structures look like.                                          *)
Typed(f) == /\ DOMAIN f \subseteq Nat
            /\ \A h \in DOMAIN f : f[h] \in [free : BOOLEAN, previous : Nat \cup {NULL},
                                             next : Nat \cup {NULL}, size : Nat]

(* HeapTiled, of f and b.                                                  *)
Linked(f, b) ==
  /\ 0 \in DOMAIN f
  /\ \A h \in DOMAIN f :
       /\ IF f[h].next = NULL
            THEN EndOf(f, h) = b
            ELSE /\ f[h].next = EndOf(f, h)
                 /\ f[h].next \in DOMAIN f
                 /\ f[f[h].next].previous = h
       /\ IF f[h].previous = NULL
            THEN h = 0
            ELSE /\ f[h].previous \in DOMAIN f
                 /\ f[f[h].previous].next = h

(* No structure reaches into another one or behind the bound: what keeps   *)
(* a second list apart from the one that starts at 0.                      *)
Ordered(f, b) ==
  /\ \A g, h \in DOMAIN f : g < h => EndOf(f, g) <= h
  /\ \A h \in DOMAIN f : EndOf(f, h) <= b
  /\ \E h \in DOMAIN f : f[h].next = NULL

Tiles(f, b) == Typed(f) /\ b \in Nat /\ Linked(f, b) /\ Ordered(f, b)

(* The two bounds, and that page_free has not made them useless.           *)
BoundsInv ==
  /\ cur_kernel_bound \in Addr /\ max_kernel_bound \in Addr /\ cur_user_bound \in Addr
  /\ page_bm \subseteq PageIndex
  /\ BoundsSeparate

LiveTyped == DOMAIN live \subseteq Nat /\ \A a \in DOMAIN live : live[a] \in Nat

HeapInv == /\ Tiles(fu, cur_kernel_bound)
           /\ Coalesced
           /\ BlocksBacked
           /\ LiveTyped

PagesInv == PagesAccounted /\ BoundsInv

(* What TypeOK says beyond that.                                           *)
KindsInv ==
  /\ fu = [h \in DOMAIN fu |-> fu[h]] /\ live = [a \in DOMAIN live |-> live[a]]
  /\ null_write \in BOOLEAN /\ passed_over \in BOOLEAN

MemoryInv == HeapInv /\ PagesInv /\ KindsInv

-----------------------------------------------------------------------------
(* Changing lists of structures. *)

(* Marking a structure free or used moves nothing.                         *)
LEMMA MarkTiles ==
  ASSUME NEW f, NEW b, Tiles(f, b), NEW h \in DOMAIN f, NEW free \in BOOLEAN
  PROVE  Tiles([f EXCEPT ![h].free = free], b)
<1>. DEFINE g == [f EXCEPT ![h].free = free]
<1>1. /\ DOMAIN g = DOMAIN f
      /\ \A x \in DOMAIN f : /\ g[x].next = f[x].next /\ g[x].previous = f[x].previous
                             /\ g[x].size = f[x].size /\ g[x].free \in BOOLEAN
                             /\ g[x] \in [free : BOOLEAN, previous : Nat \cup {NULL},
                                             next : Nat \cup {NULL}, size : Nat]
  BY DEF Tiles, Typed
<1>2. \A x \in DOMAIN f : EndOf(g, x) = EndOf(f, x)
  BY <1>1 DEF EndOf
<1>. HIDE DEF g
<1>3. Typed(g)
  BY <1>1 DEF Tiles, Typed
<1>4. Linked(g, b)
  BY <1>1, <1>2 DEF Tiles, Typed, Linked
<1>5. Ordered(g, b)
  BY <1>1, <1>2 DEF Tiles, Typed, Ordered
<1>. QED
  BY <1>3, <1>4, <1>5 DEF Tiles, g

(* A structure is followed by at most one other, behind it.                *)
LEMMA Neighbours ==
  ASSUME NEW f, NEW b, Tiles(f, b), NEW h \in DOMAIN f, f[h].next # NULL
  PROVE  /\ f[h].next \in DOMAIN f \ {h, 0}
         /\ h < f[h].next
         /\ f[h].next = EndOf(f, h)
         /\ f[f[h].next].next # h
         /\ f[f[h].next].previous = h
<1>1. HeaderSize \in Nat \ {0}
  BY MemoryAssumption DEF MemoryAssumption
<1>2. /\ h \in Nat /\ f[h].size \in Nat
      /\ f[h].next \in DOMAIN f /\ f[h].next = h + HeaderSize + f[h].size
      /\ f[f[h].next].previous = h
  BY DEF Tiles, Typed, Linked, EndOf
<1>3. h < f[h].next /\ f[h].next # 0
  BY <1>1, <1>2
<1>4. f[f[h].next].next # h
  <2>1. SUFFICES ASSUME f[f[h].next].next = h PROVE FALSE
    OBVIOUS
  <2>2. /\ h # NULL /\ f[h].next \in Nat /\ f[f[h].next].size \in Nat
    BY <1>1, <1>2 DEF Tiles, Typed, NULL
  <2>3. h = f[h].next + HeaderSize + f[f[h].next].size
    BY <2>1, <2>2, <1>2 DEF Tiles, Linked, EndOf
  <2>. QED
    BY <2>2, <2>3, <1>1, <1>2
<1>. QED
  BY <1>2, <1>3, <1>4 DEF EndOf

(* What is left of f when the structure at h has taken its successor in.   *)
Merged(g, f, h) ==
  /\ DOMAIN g = DOMAIN f \ {f[h].next}
  /\ \A x \in DOMAIN g : g[x].free = f[x].free
  /\ \A x \in DOMAIN g : x # h => g[x].next = f[x].next /\ g[x].size = f[x].size
  /\ g[h].next = f[f[h].next].next

(* Merging two neighbours tiles the same heap with one structure less.     *)
LEMMA MergeTiles ==
  ASSUME NEW f, NEW b, Tiles(f, b), NEW h \in DOMAIN f, f[h].next # NULL,
         NEW g, g = MergeNext(f, h)
  PROVE  Tiles(g, b) /\ Merged(g, f, h)
<1>. DEFINE n == f[h].next
            nn == f[n].next
<1>0. HeaderSize \in Nat \ {0} /\ NULL \notin Nat
  BY MemoryAssumption DEF MemoryAssumption, NULL
<1>1. /\ n \in DOMAIN f /\ n # h /\ n # 0 /\ h < n /\ nn # h
      /\ n = h + HeaderSize + f[h].size /\ f[n].previous = h
  BY Neighbours DEF EndOf
<1>2. nn # NULL => nn \in DOMAIN f /\ nn # n /\ n < nn /\ nn = EndOf(f, n) /\ f[nn].previous = n
  BY <1>1, Neighbours
<1>3. /\ DOMAIN f \subseteq Nat
      /\ \A x \in DOMAIN f : f[x] \in [free : BOOLEAN, previous : Nat \cup {NULL},
                                       next : Nat \cup {NULL}, size : Nat]
  BY DEF Tiles, Typed
<1>4. /\ DOMAIN g = DOMAIN f \ {n}
      /\ h \in DOMAIN g /\ 0 \in DOMAIN g
  BY <1>1 DEF MergeNext, Tiles, Linked
<1>5. /\ g[h].next = nn /\ g[h].previous = f[h].previous /\ g[h].free = f[h].free
      /\ g[h].size = f[h].size + HeaderSize + f[n].size
      /\ g[h] \in [free : BOOLEAN, previous : Nat \cup {NULL},
                   next : Nat \cup {NULL}, size : Nat]
  <2>1. g[h] = [f[h] EXCEPT !.size = @ + HeaderSize + f[n].size, !.next = nn]
    BY <1>1, <1>4 DEF MergeNext
  <2>2. /\ f[h] \in [free : BOOLEAN, previous : Nat \cup {NULL},
                     next : Nat \cup {NULL}, size : Nat]
        /\ nn \in Nat \cup {NULL}
        /\ f[h].size + HeaderSize + f[n].size \in Nat
    BY <1>0, <1>1, <1>3
  <2>. QED
    BY <2>1, <2>2
<1>6. \A x \in DOMAIN g : x # h =>
        /\ g[x].next = f[x].next /\ g[x].size = f[x].size /\ g[x].free = f[x].free
        /\ g[x].previous = IF x = nn THEN h ELSE f[x].previous
        /\ g[x] \in [free : BOOLEAN, previous : Nat \cup {NULL},
                     next : Nat \cup {NULL}, size : Nat]
  BY <1>0, <1>1, <1>3, <1>4 DEF MergeNext
<1>7. /\ EndOf(g, h) = EndOf(f, n)
      /\ \A x \in DOMAIN g : x # h => EndOf(g, x) = EndOf(f, x)
  BY <1>0, <1>1, <1>3, <1>4, <1>5, <1>6 DEF EndOf
<1>8. Typed(g)
  BY <1>3, <1>4, <1>5, <1>6 DEF Typed
<1>9. Linked(g, b)
  <2>1. SUFFICES ASSUME NEW x \in DOMAIN g
        PROVE  /\ IF g[x].next = NULL THEN EndOf(g, x) = b
                  ELSE /\ g[x].next = EndOf(g, x) /\ g[x].next \in DOMAIN g
                       /\ g[g[x].next].previous = x
               /\ IF g[x].previous = NULL THEN x = 0
                  ELSE g[x].previous \in DOMAIN g /\ g[g[x].previous].next = x
    BY <1>4 DEF Linked
  <2>2. /\ IF f[x].next = NULL THEN EndOf(f, x) = b
           ELSE /\ f[x].next = EndOf(f, x) /\ f[x].next \in DOMAIN f
                /\ f[f[x].next].previous = x
        /\ IF f[x].previous = NULL THEN x = 0
           ELSE f[x].previous \in DOMAIN f /\ f[f[x].previous].next = x
        /\ nn = NULL => EndOf(f, n) = b
    BY <1>1, <1>4 DEF Tiles, Linked
  <2>3. CASE x = h
    <3>1. f[h].previous # n
      BY <2>2, <2>3, <1>1, <1>3, <1>0
    <3>2. f[h].previous # h
      BY <2>2, <2>3, <1>1, <1>3, <1>0
    <3>. QED
      BY <2>2, <2>3, <3>1, <3>2, <1>0, <1>1, <1>2, <1>3, <1>4, <1>5, <1>6, <1>7
  <2>4. CASE x = nn
    <3>1. /\ nn # NULL /\ nn # h /\ nn # n /\ nn # 0 /\ nn \in DOMAIN f
          /\ f[nn].previous = n
      BY <2>4, <1>0, <1>1, <1>2, <1>3, <1>4
    <3>2. g[nn].previous = h /\ h \in DOMAIN g /\ g[h].next = nn /\ h # NULL
      BY <2>4, <3>1, <1>0, <1>3, <1>4, <1>5, <1>6
    <3>3. g[nn].next = f[nn].next /\ EndOf(g, nn) = EndOf(f, nn)
      BY <2>4, <3>1, <1>6, <1>7
    <3>4. CASE f[nn].next = NULL
      BY <2>2, <2>4, <3>1, <3>2, <3>3, <3>4
    <3>5. CASE f[nn].next # NULL
      <4>1. /\ f[nn].next = EndOf(f, nn) /\ f[nn].next \in DOMAIN f
            /\ f[f[nn].next].previous = nn
        BY <2>2, <2>4, <3>5
      <4>2. f[nn].next # n /\ f[nn].next # h /\ f[nn].next # nn
        <5>1. nn < f[nn].next
          BY <3>1, <3>5, Neighbours
        <5>2. h < n /\ n < nn /\ n \in Nat /\ h \in Nat /\ nn \in Nat /\ f[nn].next \in Nat
          BY <1>1, <1>2, <1>3, <3>1, <4>1
        <5>. QED
          BY <5>1, <5>2
      <4>3. f[nn].next \in DOMAIN g /\ g[f[nn].next].previous = nn
        BY <4>1, <4>2, <1>4, <1>6
      <4>4. g[nn].next = EndOf(g, nn) /\ f[nn].next # NULL
        BY <3>3, <3>5, <4>1
      <4>. QED
        BY <2>4, <3>2, <3>3, <4>3, <4>4
    <3>. QED
      BY <3>4, <3>5
  <2>5. CASE x # h /\ x # nn
    <3>1. f[x].next # n /\ f[x].previous # n
      BY <2>2, <2>5, <1>0, <1>1, <1>3, <1>4
    <3>2. f[x].previous # h
      BY <2>2, <2>5, <1>0, <1>1, <1>3, <1>4
    <3>3. f[x].next # nn \/ nn = NULL
      BY <2>2, <2>5, <1>0, <1>1, <1>2, <1>3, <1>4
    <3>. QED
      BY <2>2, <2>5, <3>1, <3>2, <3>3, <1>0, <1>1, <1>2, <1>3, <1>4, <1>5, <1>6, <1>7
  <2>. QED
    BY <2>3, <2>4, <2>5
<1>10. Ordered(g, b)
  <2>1. /\ \A x, y \in DOMAIN f : x < y => EndOf(f, x) <= y
        /\ \A x \in DOMAIN f : EndOf(f, x) <= b
    BY DEF Tiles, Ordered
  <2>2. ASSUME NEW x \in DOMAIN g, NEW y \in DOMAIN g, x < y PROVE EndOf(g, x) <= y
    <3>1. CASE x = h
      <4>1. EndOf(f, h) = n /\ EndOf(f, h) <= y /\ y # n
        BY <3>1, <2>1, <2>2, <1>1, <1>4 DEF EndOf
      <4>2. n < y
        BY <4>1, <1>1, <1>3, <1>4
      <4>. QED
        BY <4>2, <3>1, <2>1, <1>1, <1>4, <1>7
    <3>2. CASE x # h
      BY <3>2, <2>1, <2>2, <1>4, <1>7
    <3>. QED
      BY <3>1, <3>2
  <2>3. \A x \in DOMAIN g : EndOf(g, x) <= b
    BY <2>1, <1>1, <1>4, <1>7
  <2>4. \E x \in DOMAIN g : g[x].next = NULL
    <3>1. PICK x \in DOMAIN f : f[x].next = NULL
      BY DEF Tiles, Ordered
    <3>2. CASE x = n
      BY <3>1, <3>2, <1>4, <1>5
    <3>3. CASE x # n
      <4>1. x \in DOMAIN g /\ x # h
        BY <3>1, <3>3, <1>4
      <4>. QED
        BY <4>1, <3>1, <1>6
    <3>. QED
      BY <3>2, <3>3
  <2>. QED
    BY <2>2, <2>3, <2>4 DEF Ordered
<1>11. Tiles(g, b)
  BY <1>8, <1>9, <1>10 DEF Tiles
<1>. QED
  BY <1>4, <1>5, <1>6, <1>11 DEF Merged

(* The structures after kernel_malloc has appended one, and after it has    *)
(* split one.                                                              *)
Grown(f, b, l, n) ==
  Extend([f EXCEPT ![l].next = b], b,
         [free |-> FALSE, previous |-> l, next |-> NULL, size |-> n])

Split(f, h, n) ==
  LET m == Memory(h) + n
      nxt == f[h].next
  IN  Extend([x \in DOMAIN f |->
                CASE x = h -> [f[h] EXCEPT !.free = FALSE, !.size = n, !.next = m]
                  [] x = nxt -> [f[x] EXCEPT !.previous = m]
                  [] OTHER -> f[x]],
             m, [free |-> TRUE, previous |-> h, next |-> nxt,
                 size |-> f[h].size - n - HeaderSize])

(* What the first of the two has in common with f.                         *)
Appended(g, f, b, l, n) ==
  /\ b \notin DOMAIN f /\ DOMAIN g = DOMAIN f \cup {b}
  /\ ~g[b].free /\ g[b].next = NULL /\ g[b].size = n
  /\ \A x \in DOMAIN f : g[x].free = f[x].free /\ g[x].size = f[x].size
  /\ \A x \in DOMAIN f : g[x].next = IF x = l THEN b ELSE f[x].next

(* A structure behind the last one tiles the heap up to its end.           *)
LEMMA GrowTiles ==
  ASSUME NEW f, NEW b, Tiles(f, b), NEW n \in Nat,
         NEW l \in DOMAIN f, f[l].next = NULL,
         NEW g, g = Grown(f, b, l, n),
         NEW e, e = b + HeaderSize + n
  PROVE  Tiles(g, e) /\ Appended(g, f, b, l, n)
<1>. DEFINE r == [free |-> FALSE, previous |-> l, next |-> NULL, size |-> n]
            f1 == [f EXCEPT ![l].next = b]
<1>0. HeaderSize \in Nat \ {0} /\ NULL \notin Nat
  BY MemoryAssumption DEF MemoryAssumption, NULL
<1>1. /\ DOMAIN f \subseteq Nat /\ b \in Nat
      /\ \A x \in DOMAIN f : f[x] \in [free : BOOLEAN, previous : Nat \cup {NULL},
                                       next : Nat \cup {NULL}, size : Nat]
  BY DEF Tiles, Typed
<1>2. /\ \A x, y \in DOMAIN f : x < y => EndOf(f, x) <= y
      /\ \A x \in DOMAIN f : EndOf(f, x) <= b
  BY DEF Tiles, Ordered
<1>3. /\ \A x \in DOMAIN f : x < EndOf(f, x) /\ x < b /\ EndOf(f, x) \in Nat
      /\ b \notin DOMAIN f /\ EndOf(f, l) = b
  <2>1. \A x \in DOMAIN f : x < EndOf(f, x) /\ EndOf(f, x) \in Nat
    BY <1>0, <1>1 DEF EndOf
  <2>2. \A x \in DOMAIN f : x < b
    BY <2>1, <1>1, <1>2
  <2>3. EndOf(f, l) = b
    BY DEF Tiles, Linked
  <2>. QED
    BY <2>1, <2>2, <2>3, <1>1
<1>4. \A x \in DOMAIN f : x # l => f[x].next # NULL
  <2>1. SUFFICES ASSUME NEW x \in DOMAIN f, x # l, f[x].next = NULL PROVE FALSE
    OBVIOUS
  <2>2. EndOf(f, x) = b
    BY <2>1 DEF Tiles, Linked
  <2>3. x < l \/ l < x
    BY <2>1, <1>1
  <2>. QED
    BY <2>2, <2>3, <1>1, <1>2, <1>3
<1>5. /\ DOMAIN f1 = DOMAIN f
      /\ DOMAIN g = DOMAIN f \cup {b} /\ g[b] = r
      /\ \A x \in DOMAIN f : g[x] = f1[x]
  BY <1>3 DEF Extend, Grown
<1>6. \A x \in DOMAIN f :
        /\ g[x].next = (IF x = l THEN b ELSE f[x].next)
        /\ g[x].size = f[x].size /\ g[x].free = f[x].free /\ g[x].previous = f[x].previous
        /\ g[x] \in [free : BOOLEAN, previous : Nat \cup {NULL},
                     next : Nat \cup {NULL}, size : Nat]
  BY <1>1, <1>5
<1>7. /\ g[b].previous = l /\ g[b].next = NULL /\ g[b].size = n /\ g[b].free = FALSE
      /\ g[b] \in [free : BOOLEAN, previous : Nat \cup {NULL},
                   next : Nat \cup {NULL}, size : Nat]
  BY <1>1, <1>5
<1>8. EndOf(g, b) = e /\ \A x \in DOMAIN f : EndOf(g, x) = EndOf(f, x)
  BY <1>6, <1>7 DEF EndOf
<1>. HIDE DEF r, f1
<1>9. Typed(g) /\ e \in Nat
  BY <1>0, <1>1, <1>5, <1>6, <1>7 DEF Typed
<1>10. Linked(g, e)
  <2>1. 0 \in DOMAIN g
    BY <1>5 DEF Tiles, Linked
  <2>2. ASSUME NEW x \in DOMAIN f
        PROVE  /\ IF g[x].next = NULL THEN EndOf(g, x) = e
                  ELSE /\ g[x].next = EndOf(g, x) /\ g[x].next \in DOMAIN g
                       /\ g[g[x].next].previous = x
               /\ IF g[x].previous = NULL THEN x = 0
                  ELSE g[x].previous \in DOMAIN g /\ g[g[x].previous].next = x
    <3>1. /\ x # l => /\ f[x].next = EndOf(f, x) /\ f[x].next \in DOMAIN f
                      /\ f[f[x].next].previous = x
          /\ IF f[x].previous = NULL THEN x = 0
             ELSE f[x].previous \in DOMAIN f /\ f[f[x].previous].next = x
      BY <1>4 DEF Tiles, Linked
    <3>2. x # NULL
      BY <1>0, <1>1
    <3>3. f[x].previous # l
      BY <3>1, <3>2, <1>0, <1>1
    <3>. QED
      BY <3>1, <3>3, <1>0, <1>1, <1>3, <1>4, <1>5, <1>6, <1>7, <1>8
  <2>3. /\ g[b].next = NULL /\ EndOf(g, b) = e
        /\ g[b].previous = l /\ l # NULL /\ l \in DOMAIN g /\ g[l].next = b
    BY <1>0, <1>1, <1>5, <1>6, <1>7, <1>8
  <2>. QED
    BY <2>1, <2>2, <2>3, <1>5 DEF Linked
<1>11. Ordered(g, e)
  <2>1. ASSUME NEW x \in DOMAIN g, NEW y \in DOMAIN g, x < y PROVE EndOf(g, x) <= y
    BY <2>1, <1>1, <1>2, <1>3, <1>5, <1>8
  <2>2. \A x \in DOMAIN g : EndOf(g, x) <= e
    BY <1>0, <1>1, <1>2, <1>3, <1>5, <1>8
  <2>. QED
    BY <2>1, <2>2, <1>5, <1>7 DEF Ordered
<1>. QED
  BY <1>3, <1>5, <1>6, <1>7, <1>9, <1>10, <1>11 DEF Tiles, Appended, r, f1

(* What is split off a structure ends where that one ended.                *)
LEMMA SplitTiles ==
  ASSUME NEW f, NEW b, Tiles(f, b), NEW h \in DOMAIN f, NEW n \in Nat,
         f[h].size - n > HeaderSize,
         NEW m, m = Memory(h) + n,
         NEW g, g = Split(f, h, n)
  PROVE  /\ Tiles(g, b)
         /\ m \notin DOMAIN f /\ DOMAIN g = DOMAIN f \cup {m}
         /\ g[m].free /\ g[m].next = f[h].next
         /\ ~g[h].free /\ g[h].next = m /\ g[h].size = n
         /\ \A x \in DOMAIN f \ {h} : /\ g[x].free = f[x].free /\ g[x].size = f[x].size
                                      /\ g[x].next = f[x].next
<1>. DEFINE nxt == f[h].next
            r == [free |-> TRUE, previous |-> h, next |-> nxt,
                  size |-> f[h].size - n - HeaderSize]
            f1 == [x \in DOMAIN f |->
                     CASE x = h -> [f[h] EXCEPT !.free = FALSE, !.size = n, !.next = m]
                       [] x = nxt -> [f[x] EXCEPT !.previous = m]
                       [] OTHER -> f[x]]
<1>0. HeaderSize \in Nat \ {0} /\ NULL \notin Nat
  BY MemoryAssumption DEF MemoryAssumption, NULL
<1>1. /\ DOMAIN f \subseteq Nat /\ b \in Nat
      /\ \A x \in DOMAIN f : f[x] \in [free : BOOLEAN, previous : Nat \cup {NULL},
                                       next : Nat \cup {NULL}, size : Nat]
  BY DEF Tiles, Typed
<1>2. /\ \A x, y \in DOMAIN f : x < y => EndOf(f, x) <= y
      /\ \A x \in DOMAIN f : EndOf(f, x) <= b
  BY DEF Tiles, Ordered
<1>3. /\ \A x \in DOMAIN f : x < EndOf(f, x) /\ EndOf(f, x) \in Nat
      /\ h < m /\ m < EndOf(f, h) /\ m \in Nat
      /\ f[h].size - n - HeaderSize \in Nat /\ m = h + HeaderSize + n
  BY <1>0, <1>1 DEF EndOf, Memory
<1>4. m \notin DOMAIN f
  BY <1>1, <1>2, <1>3
<1>5. nxt # NULL => nxt \in DOMAIN f /\ nxt # h /\ h < nxt /\ nxt = EndOf(f, h)
                    /\ f[nxt].previous = h /\ f[nxt].next # h
  BY Neighbours
<1>6. /\ DOMAIN f1 = DOMAIN f /\ DOMAIN g = DOMAIN f \cup {m} /\ g[m] = r
      /\ \A x \in DOMAIN f : g[x] = f1[x]
  <2>1. g = Extend(f1, m, r)
    BY DEF Split
  <2>. HIDE DEF f1, r
  <2>2. DOMAIN g = DOMAIN f1 \cup {m} /\ g[m] = r
        /\ \A x \in DOMAIN f1 : x # m => g[x] = f1[x]
    BY <2>1 DEF Extend
  <2>3. DOMAIN f1 = DOMAIN f
    BY DEF f1
  <2>. QED
    BY <1>4, <2>2, <2>3
<1>7. /\ g[h].next = m /\ g[h].size = n /\ g[h].free = FALSE
      /\ g[h].previous = f[h].previous
      /\ g[h] \in [free : BOOLEAN, previous : Nat \cup {NULL},
                   next : Nat \cup {NULL}, size : Nat]
  <2>. DEFINE fh == [f[h] EXCEPT !.free = FALSE, !.size = n, !.next = m]
  <2>0. nxt # h
    BY <1>0, <1>1, <1>5
  <2>1. f1[h] = fh
    BY <2>0
  <2>2. g[h] = f1[h]
    BY <1>6
  <2>3. fh.next = m /\ fh.size = n /\ fh.free = FALSE /\ fh.previous = f[h].previous
        /\ fh \in [free : BOOLEAN, previous : Nat \cup {NULL},
                   next : Nat \cup {NULL}, size : Nat]
    BY <1>1, <1>3
  <2>. HIDE DEF fh, f1
  <2>. QED
    BY <2>1, <2>2, <2>3
<1>8. \A x \in DOMAIN f : x # h =>
        /\ g[x].next = f[x].next /\ g[x].size = f[x].size /\ g[x].free = f[x].free
        /\ g[x].previous = IF x = nxt THEN m ELSE f[x].previous
        /\ g[x] \in [free : BOOLEAN, previous : Nat \cup {NULL},
                     next : Nat \cup {NULL}, size : Nat]
  BY <1>1, <1>3, <1>6
<1>9. /\ g[m].previous = h /\ g[m].next = nxt /\ g[m].free = TRUE
      /\ g[m].size = f[h].size - n - HeaderSize
      /\ g[m] \in [free : BOOLEAN, previous : Nat \cup {NULL},
                   next : Nat \cup {NULL}, size : Nat]
  <2>1. nxt \in Nat \cup {NULL} /\ h \in Nat
    BY <1>1
  <2>2. g[m] = r
    BY <1>6
  <2>. HIDE DEF nxt
  <2>. QED
    BY <2>1, <2>2, <1>3
<1>10. /\ EndOf(g, h) = m /\ EndOf(g, m) = EndOf(f, h)
       /\ \A x \in DOMAIN f : x # h => EndOf(g, x) = EndOf(f, x)
  BY <1>0, <1>1, <1>3, <1>7, <1>8, <1>9 DEF EndOf
<1>. HIDE DEF r, f1
<1>11. Typed(g)
  BY <1>1, <1>3, <1>6, <1>7, <1>8, <1>9 DEF Typed
<1>12. Linked(g, b)
  <2>0. 0 \in DOMAIN g
    BY <1>6 DEF Tiles, Linked
  <2>1. \A x \in DOMAIN f :
           /\ IF f[x].next = NULL THEN EndOf(f, x) = b
              ELSE /\ f[x].next = EndOf(f, x) /\ f[x].next \in DOMAIN f
                   /\ f[f[x].next].previous = x
           /\ IF f[x].previous = NULL THEN x = 0
              ELSE f[x].previous \in DOMAIN f /\ f[f[x].previous].next = x
    BY DEF Tiles, Linked
  <2>2. /\ IF g[h].next = NULL THEN EndOf(g, h) = b
           ELSE /\ g[h].next = EndOf(g, h) /\ g[h].next \in DOMAIN g
                /\ g[g[h].next].previous = h
        /\ IF g[h].previous = NULL THEN h = 0
           ELSE g[h].previous \in DOMAIN g /\ g[g[h].previous].next = h
    <3>1. f[h].previous # h
      BY <2>1, <1>0, <1>1, <1>5
    <3>. QED
      BY <3>1, <2>1, <1>0, <1>1, <1>3, <1>6, <1>7, <1>8, <1>9, <1>10
  <2>3. /\ IF g[m].next = NULL THEN EndOf(g, m) = b
           ELSE /\ g[m].next = EndOf(g, m) /\ g[m].next \in DOMAIN g
                /\ g[g[m].next].previous = m
        /\ g[m].previous # NULL /\ g[m].previous \in DOMAIN g /\ g[g[m].previous].next = m
    BY <2>1, <1>0, <1>1, <1>3, <1>5, <1>6, <1>7, <1>8, <1>9, <1>10
  <2>4. ASSUME NEW x \in DOMAIN f, x # h
        PROVE  /\ IF g[x].next = NULL THEN EndOf(g, x) = b
                  ELSE /\ g[x].next = EndOf(g, x) /\ g[x].next \in DOMAIN g
                       /\ g[g[x].next].previous = x
               /\ IF g[x].previous = NULL THEN x = 0
                  ELSE g[x].previous \in DOMAIN g /\ g[g[x].previous].next = x
    <3>1. CASE x = nxt
      <4>1. f[x].next # nxt
        BY <2>1, <2>4, <3>1, <1>0, <1>1, <1>3, <1>5
      <4>2. IF g[x].next = NULL THEN EndOf(g, x) = b
            ELSE /\ g[x].next = EndOf(g, x) /\ g[x].next \in DOMAIN g
                 /\ g[g[x].next].previous = x
        BY <4>1, <2>1, <2>4, <3>1, <1>5, <1>6, <1>8, <1>10, <1>0, <1>1
      <4>3. g[x].previous = m /\ m # NULL /\ m \in DOMAIN g /\ g[m].next = x
        BY <2>4, <3>1, <1>0, <1>3, <1>6, <1>8, <1>9
      <4>. QED
        BY <4>2, <4>3
    <3>2. CASE x # nxt
      <4>1. f[x].previous # h
        BY <2>1, <2>4, <3>2, <1>0, <1>1
      <4>2. f[x].next # nxt \/ nxt = NULL
        BY <2>1, <2>4, <1>5
      <4>3. /\ g[x].next = f[x].next /\ EndOf(g, x) = EndOf(f, x)
            /\ g[x].previous = f[x].previous
        BY <2>4, <3>2, <1>8, <1>10
      <4>4. f[x].next # NULL => /\ f[x].next \in DOMAIN g
                                /\ g[f[x].next].previous = x
        <5>1. f[x].next = h => g[h].previous = x
          BY <2>1, <1>0, <1>1, <1>7
        <5>. QED
          BY <5>1, <4>2, <2>1, <2>4, <1>6, <1>8
      <4>5. f[x].previous # NULL => f[x].previous \in DOMAIN g /\ g[f[x].previous].next = x
        BY <4>1, <2>1, <1>6, <1>8
      <4>. QED
        BY <4>3, <4>4, <4>5, <2>1
    <3>. QED
      BY <3>1, <3>2
  <2>. QED
    BY <2>0, <2>2, <2>3, <2>4, <1>6, <1>9 DEF Linked
<1>13. Ordered(g, b)
  <2>1. ASSUME NEW x \in DOMAIN g, NEW y \in DOMAIN g, x < y PROVE EndOf(g, x) <= y
    <3>1. CASE x = m
      <4>1. y \in DOMAIN f /\ h < y
        BY <2>1, <3>1, <1>1, <1>3, <1>6
      <4>. QED
        BY <3>1, <4>1, <1>2, <1>10
    <3>2. CASE x = h
      <4>1. y = m \/ (y \in DOMAIN f /\ EndOf(f, h) <= y)
        BY <2>1, <3>2, <1>2, <1>6
      <4>. QED
        BY <4>1, <3>2, <1>1, <1>3, <1>10
    <3>3. CASE x \in DOMAIN f /\ x # h
      <4>1. CASE y = m
        <5>1. x < h
          <6>1. SUFFICES ASSUME h < x PROVE FALSE
            BY <3>3, <1>1
          <6>2. EndOf(f, h) <= x
            BY <6>1, <3>3, <1>2
          <6>. QED
            BY <6>2, <2>1, <4>1, <3>3, <1>1, <1>3
        <5>. QED
          BY <5>1, <4>1, <3>3, <1>1, <1>2, <1>3, <1>10
      <4>2. CASE y \in DOMAIN f
        BY <4>2, <3>3, <2>1, <1>2, <1>10
      <4>. QED
        BY <4>1, <4>2, <1>6
    <3>. QED
      BY <3>1, <3>2, <3>3, <1>6
  <2>2. \A x \in DOMAIN g : EndOf(g, x) <= b
    <3>1. m <= b
      BY <1>1, <1>2, <1>3
    <3>. QED
      BY <3>1, <1>2, <1>6, <1>10
  <2>3. \E x \in DOMAIN g : g[x].next = NULL
    <3>1. PICK x \in DOMAIN f : f[x].next = NULL
      BY DEF Tiles, Ordered
    <3>. QED
      BY <3>1, <1>6, <1>8, <1>9
  <2>. QED
    BY <2>1, <2>2, <2>3 DEF Ordered
<1>. QED
  BY <1>4, <1>6, <1>7, <1>8, <1>9, <1>11, <1>12, <1>13 DEF Tiles, r, f1

-----------------------------------------------------------------------------
(* The searches find something: CHOOSE of the lowest structure that fits,  *)
(* and of the highest free page.                                           *)
LEMMA Least ==
  ASSUME NEW S, S \subseteq Nat, S # {}
  PROVE  \E x \in S : \A y \in S : x <= y
<1>1. PICK x \in S : \A y \in S : ~(<<y, x>> \in OpToRel(<, Nat))
  BY NatLessThanWellFounded, WFMin
<1>2. \A y \in S : ~(y < x)
  BY <1>1 DEF OpToRel
<1>. QED
  BY <1>2

LEMMA FirstFitFits ==
  ASSUME NEW n, Fitting(n) # {}, DOMAIN fu \subseteq Nat
  PROVE  FirstFit(n) \in Fitting(n)
<1>1. Fitting(n) \subseteq Nat
  BY DEF Fitting
<1>2. \E h \in Fitting(n) : \A g \in Fitting(n) : h <= g
  BY <1>1, Least
<1>. QED
  BY <1>2 DEF FirstFit

LEMMA HighestFreeIsFree ==
  ASSUME FreePages # {}
  PROVE  HighestFree \in FreePages
<1>. DEFINE S == {Length - 1 - i : i \in FreePages}
<1>1. Length \in Nat /\ FreePages \subseteq 0 .. (Length - 1)
  BY MemoryAssumption DEF MemoryAssumption, FreePages, PageIndex
<1>2. S \subseteq Nat /\ S # {}
  <2>1. \A i \in FreePages : Length - 1 - i \in Nat
    BY <1>1
  <2>2. PICK i \in FreePages : TRUE
    OBVIOUS
  <2>3. Length - 1 - i \in S
    OBVIOUS
  <2>. QED
    BY <2>1, <2>3
<1>3. PICK x \in S : \A y \in S : x <= y
  BY <1>2, Least
<1>4. PICK i \in FreePages : x = Length - 1 - i
  OBVIOUS
<1>5. \A j \in FreePages : Length - 1 - i <= Length - 1 - j
  BY <1>3, <1>4
<1>6. \A j \in FreePages : j <= i
  BY <1>1, <1>5
<1>. QED
  BY <1>6 DEF HighestFree

-----------------------------------------------------------------------------
(* The heap. *)

LEMMA InitHeap == Init => HeapInv
<1>. SUFFICES ASSUME Init PROVE HeapInv
  OBVIOUS
<1>1. HeaderSize \in Nat \ {0} /\ NULL \notin Nat
  BY MemoryAssumption DEF MemoryAssumption, NULL
<1>2. /\ DOMAIN fu = {0}
      /\ fu[0] = [free |-> FALSE, previous |-> NULL, next |-> NULL, size |-> 1]
      /\ cur_kernel_bound = HeaderSize + 1
      /\ DOMAIN live = {HeaderSize} /\ live[HeaderSize] = 1
  BY DEF Init
<1>3. EndOf(fu, 0) = HeaderSize + 1
  BY <1>1, <1>2 DEF EndOf
<1>4. Tiles(fu, cur_kernel_bound)
  <2>1. Typed(fu) /\ cur_kernel_bound \in Nat
    <3>1. fu[0] \in [free : BOOLEAN, previous : Nat \cup {NULL},
                     next : Nat \cup {NULL}, size : Nat]
      <4>. DEFINE r == [free |-> FALSE, previous |-> NULL, next |-> NULL, size |-> 1]
      <4>1. r \in [free : BOOLEAN, previous : Nat \cup {NULL},
                   next : Nat \cup {NULL}, size : Nat]
        OBVIOUS
      <4>2. fu[0] = r
        BY <1>2
      <4>. QED
        BY <4>1, <4>2
    <3>2. DOMAIN fu \subseteq Nat /\ \A h \in DOMAIN fu : h = 0
      BY <1>2
    <3>3. cur_kernel_bound \in Nat
      BY <1>1, <1>2
    <3>. QED
      BY <3>1, <3>2, <3>3, Zenon DEF Typed
  <2>2. Linked(fu, cur_kernel_bound)
    BY <1>1, <1>2, <1>3 DEF Linked
  <2>3. Ordered(fu, cur_kernel_bound)
    BY <1>1, <1>2, <1>3 DEF Ordered
  <2>. QED
    BY <2>1, <2>2, <2>3 DEF Tiles
<1>5. Coalesced /\ LiveTyped
  BY <1>1, <1>2 DEF Coalesced, LiveTyped
<1>6. BlocksBacked
  BY <1>1, <1>2 DEF BlocksBacked, Memory
<1>. QED
  BY <1>4, <1>5, <1>6 DEF HeapInv

LEMMA GrowHeap ==
  ASSUME HeapInv, NEW n \in Nat, kernel_malloc_grow(n)
  PROVE  HeapInv'
<1>. DEFINE l == LastStructure
            b == cur_kernel_bound
<1>0. HeaderSize \in Nat \ {0} /\ NULL \notin Nat
  BY MemoryAssumption DEF MemoryAssumption, NULL
<1>1. l \in DOMAIN fu /\ fu[l].next = NULL
  BY DEF HeapInv, Tiles, Ordered, LastStructure
<1>2. /\ DOMAIN fu \subseteq Nat /\ b \in Nat
      /\ DOMAIN live \subseteq Nat /\ \A a \in DOMAIN live : live[a] \in Nat
  BY DEF HeapInv, Tiles, Typed, LiveTyped
<1>3. /\ fu' = Grown(fu, b, l, n)
      /\ cur_kernel_bound' = b + HeaderSize + n
      /\ live' = Extend(live, Memory(b), n)
  BY DEF kernel_malloc_grow, Grown
<1>4. /\ Tiles(fu', cur_kernel_bound')
      /\ b \notin DOMAIN fu /\ DOMAIN fu' = DOMAIN fu \cup {b}
      /\ ~fu'[b].free /\ fu'[b].next = NULL /\ fu'[b].size = n
      /\ \A x \in DOMAIN fu : fu'[x].free = fu[x].free /\ fu'[x].size = fu[x].size
      /\ \A x \in DOMAIN fu : fu'[x].next = IF x = l THEN b ELSE fu[x].next
  <2>1. Tiles(fu, b)
    BY DEF HeapInv
  <2>. HIDE DEF l, b
  <2>2. Tiles(fu', cur_kernel_bound') /\ Appended(fu', fu, b, l, n)
    BY <1>1, <1>3, <2>1, GrowTiles
  <2>. QED
    BY <2>2 DEF Appended
<1>5. /\ Memory(b) = b + HeaderSize
      /\ DOMAIN live' = DOMAIN live \cup {Memory(b)} /\ live'[Memory(b)] = n
      /\ \A a \in DOMAIN live : a # Memory(b) => live'[a] = live[a]
  BY <1>3 DEF Extend, Memory
<1>6. Coalesced'
  <2>1. \A x \in DOMAIN fu : fu[x].next # NULL => fu[x].next \in DOMAIN fu
    BY DEF HeapInv, Tiles, Linked
  <2>2. Coalesced
    BY DEF HeapInv
  <2>. QED
    BY <2>1, <2>2, <1>1, <1>4 DEF Coalesced
<1>7. BlocksBacked'
  <2>1. BlocksBacked
    BY DEF HeapInv
  <2>2. ASSUME NEW a \in DOMAIN live'
        PROVE  /\ a - HeaderSize \in DOMAIN fu' /\ ~fu'[a - HeaderSize].free
               /\ fu'[a - HeaderSize].size >= live'[a]
    <3>1. CASE a = Memory(b)
      <4>1. a - HeaderSize = b
        BY <3>1, <1>0, <1>2, <1>5
      <4>. QED
        BY <3>1, <4>1, <1>4, <1>5
    <3>2. CASE a # Memory(b)
      BY <3>2, <2>1, <1>4, <1>5 DEF BlocksBacked
    <3>. QED
      BY <3>1, <3>2
  <2>3. \A x \in DOMAIN fu' : ~fu'[x].free => Memory(x) \in DOMAIN live'
    BY <2>1, <1>4, <1>5 DEF BlocksBacked
  <2>. QED
    BY <2>2, <2>3 DEF BlocksBacked, Memory
<1>8. LiveTyped'
  BY <1>0, <1>2, <1>5 DEF LiveTyped
<1>. QED
  BY <1>4, <1>6, <1>7, <1>8 DEF HeapInv

LEMMA FitHeap ==
  ASSUME HeapInv, NEW n \in Nat, kernel_malloc_fit(n)
  PROVE  HeapInv'
<1>. DEFINE h == FirstFit(n)
            nxt == fu[h].next
            m == Memory(h) + n
<1>0. HeaderSize \in Nat \ {0} /\ NULL \notin Nat
  BY MemoryAssumption DEF MemoryAssumption, NULL
<1>1. /\ DOMAIN fu \subseteq Nat
      /\ \A x \in DOMAIN fu : fu[x] \in [free : BOOLEAN, previous : Nat \cup {NULL},
                                         next : Nat \cup {NULL}, size : Nat]
      /\ DOMAIN live \subseteq Nat /\ \A a \in DOMAIN live : live[a] \in Nat
  BY DEF HeapInv, Tiles, Typed, LiveTyped
<1>2. h \in Fitting(n)
  BY <1>1, FirstFitFits DEF kernel_malloc_fit
<1>3. h \in DOMAIN fu /\ fu[h].free /\ fu[h].size >= n /\ h \in Nat /\ fu[h].size \in Nat
  BY <1>1, <1>2 DEF Fitting
<1>4. /\ live' = Extend(live, Memory(h), n) /\ UNCHANGED cur_kernel_bound
      /\ Memory(h) = h + HeaderSize
  BY DEF kernel_malloc_fit, Memory
<1>5. /\ DOMAIN live' = DOMAIN live \cup {Memory(h)} /\ live'[Memory(h)] = n
      /\ \A a \in DOMAIN live : a # Memory(h) => live'[a] = live[a]
  BY <1>4 DEF Extend
<1>6. Coalesced /\ BlocksBacked
      /\ \A x \in DOMAIN fu : fu[x].next # NULL => fu[x].next \in DOMAIN fu
  BY DEF HeapInv, Tiles, Linked
<1>7. (* Cut to size or taken whole, h is used now and large enough.       *)
      /\ Tiles(fu', cur_kernel_bound)
      /\ DOMAIN fu \subseteq DOMAIN fu'
      /\ ~fu'[h].free /\ fu'[h].size >= n
      /\ \A x \in DOMAIN fu \ {h} : fu'[x].free = fu[x].free /\ fu'[x].size = fu[x].size
      /\ \A x \in DOMAIN fu' \ DOMAIN fu : fu'[x].free
      /\ Coalesced'
  <2>1. CASE fu[h].size - n > HeaderSize
    <3>1. ~(fu[h].size - n <= HeaderSize)
      BY <1>0, <1>3, <2>1
    <3>2. fu' = Split(fu, h, n)
      BY <3>1 DEF kernel_malloc_fit, Split
    <3>3. /\ Tiles(fu', cur_kernel_bound)
          /\ m \notin DOMAIN fu /\ DOMAIN fu' = DOMAIN fu \cup {m}
          /\ fu'[m].free /\ fu'[m].next = nxt
          /\ ~fu'[h].free /\ fu'[h].next = m /\ fu'[h].size = n
          /\ \A x \in DOMAIN fu \ {h} : /\ fu'[x].free = fu[x].free /\ fu'[x].size = fu[x].size
                                        /\ fu'[x].next = fu[x].next
      <4>1. Tiles(fu, cur_kernel_bound)
        BY DEF HeapInv
      <4>. HIDE DEF h
      <4>. QED
        BY <1>3, <2>1, <3>2, <4>1, SplitTiles
    <3>. HIDE DEF m, h
    <3>4. nxt # NULL => nxt # h /\ ~fu[nxt].free /\ nxt \in DOMAIN fu
      BY <1>3, <1>6 DEF Coalesced
    <3>5. Coalesced'
      <4>1. SUFFICES ASSUME NEW x \in DOMAIN fu', fu'[x].free, fu'[x].next # NULL
                     PROVE  ~fu'[fu'[x].next].free
        BY DEF Coalesced
      <4>2. CASE x = m
        BY <4>1, <4>2, <3>3, <3>4
      <4>3. CASE x \in DOMAIN fu
        <5>1. x # h /\ fu[x].free /\ fu[x].next # NULL /\ fu'[x].next = fu[x].next
          BY <4>1, <4>3, <3>3
        <5>2. fu[x].next \in DOMAIN fu /\ ~fu[fu[x].next].free
          BY <4>3, <5>1, <1>6 DEF Coalesced
        <5>. QED
          BY <5>1, <5>2, <3>3
      <4>. QED
        BY <4>2, <4>3, <3>3
    <3>6. fu'[h].size >= n
      BY <3>3
    <3>. QED
      BY <3>3, <3>5, <3>6
  <2>2. CASE fu[h].size - n <= HeaderSize
    <3>1. fu' = [fu EXCEPT ![h].free = FALSE]
      BY <1>0, <1>3, <2>2 DEF kernel_malloc_fit
    <3>2. Tiles(fu', cur_kernel_bound)
      BY <3>1, <1>3, MarkTiles DEF HeapInv
    <3>. HIDE DEF h
    <3>3. /\ DOMAIN fu' = DOMAIN fu
          /\ fu'[h].free = FALSE /\ fu'[h].size = fu[h].size
          /\ \A x \in DOMAIN fu : fu'[x].next = fu[x].next
          /\ \A x \in DOMAIN fu \ {h} : fu'[x].free = fu[x].free /\ fu'[x].size = fu[x].size
      BY <3>1, <1>1, <1>3
    <3>4. Coalesced'
      BY <3>3, <1>6 DEF Coalesced
    <3>. QED
      BY <3>2, <3>3, <3>4, <1>3
  <2>. QED
    BY <2>1, <2>2, <1>0, <1>3
<1>. HIDE DEF h
<1>8. BlocksBacked'
  <2>1. ASSUME NEW a \in DOMAIN live'
        PROVE  /\ a - HeaderSize \in DOMAIN fu' /\ ~fu'[a - HeaderSize].free
               /\ fu'[a - HeaderSize].size >= live'[a]
    <3>1. CASE a = Memory(h)
      <4>1. a - HeaderSize = h
        BY <3>1, <1>0, <1>3, <1>4
      <4>. QED
        BY <3>1, <4>1, <1>3, <1>5, <1>7
    <3>2. CASE a # Memory(h)
      <4>1. /\ a \in DOMAIN live /\ a - HeaderSize \in DOMAIN fu
            /\ ~fu[a - HeaderSize].free /\ fu[a - HeaderSize].size >= live[a]
        BY <3>2, <1>5, <1>6 DEF BlocksBacked
      <4>2. a - HeaderSize # h
        BY <4>1, <1>3
      <4>. QED
        BY <3>2, <4>1, <4>2, <1>5, <1>7
    <3>. QED
      BY <3>1, <3>2
  <2>2. \A x \in DOMAIN fu' : ~fu'[x].free => Memory(x) \in DOMAIN live'
    BY <1>5, <1>6, <1>7 DEF BlocksBacked
  <2>. QED
    BY <2>1, <2>2 DEF BlocksBacked, Memory
<1>9. LiveTyped'
  BY <1>0, <1>1, <1>3, <1>4, <1>5 DEF LiveTyped
<1>. QED
  BY <1>4, <1>7, <1>8, <1>9 DEF HeapInv

LEMMA FreeHeap ==
  ASSUME HeapInv, NEW a \in DOMAIN live, kernel_free(a)
  PROVE  HeapInv'
<1>. DEFINE h == a - HeaderSize
            p == fu[h].previous
            b == cur_kernel_bound
            backward == p # NULL /\ fu[p].free
            f1 == IF backward THEN MergeNext(fu, p) ELSE fu
            c == IF backward THEN p ELSE h
            forward == f1[c].next # NULL /\ f1[f1[c].next].free
            f2 == IF forward THEN MergeNext(f1, c) ELSE f1
<1>0. HeaderSize \in Nat \ {0} /\ NULL \notin Nat
  BY MemoryAssumption DEF MemoryAssumption, NULL
<1>1. /\ DOMAIN fu \subseteq Nat /\ DOMAIN live \subseteq Nat
      /\ \A g \in DOMAIN live : live[g] \in Nat
  BY DEF HeapInv, Tiles, Typed, LiveTyped
<1>2. /\ Tiles(fu, b) /\ Coalesced /\ BlocksBacked
      /\ h \in DOMAIN fu /\ ~fu[h].free
  BY DEF HeapInv, BlocksBacked
<1>3. /\ fu' = [f2 EXCEPT ![c].free = TRUE]
      /\ live' = Without(live, a) /\ UNCHANGED cur_kernel_bound
  BY DEF kernel_free
<1>4. \A x \in DOMAIN fu :
        /\ fu[x].next # NULL => fu[x].next \in DOMAIN fu /\ fu[fu[x].next].previous = x
        /\ fu[x].previous # NULL => fu[x].previous \in DOMAIN fu
                                    /\ fu[fu[x].previous].next = x
  BY <1>2 DEF Tiles, Linked
<1>. HIDE DEF h
<1>5. (* After the first merge, the block lies in c, whose neighbour in    *)
      (* front is in use.                                                  *)
      /\ Tiles(f1, b) /\ c \in DOMAIN f1
      /\ \A x \in DOMAIN f1 \ {c} : /\ x \in DOMAIN fu /\ x # h
                                    /\ f1[x].free = fu[x].free
                                    /\ f1[x].size = fu[x].size
      /\ \A x \in DOMAIN fu : ~fu[x].free /\ x # h => x \in DOMAIN f1 \ {c}
      /\ \A x \in DOMAIN f1 \ {c} : f1[x].free /\ f1[x].next # NULL =>
            f1[x].next # c /\ ~f1[f1[x].next].free
  <2>1. CASE backward
    <3>1. p \in DOMAIN fu /\ fu[p].next = h /\ fu[p].next # NULL /\ fu[p].free
      BY <2>1, <1>0, <1>1, <1>2, <1>4
    <3>2. f1 = MergeNext(fu, p) /\ c = p
      BY <2>1
    <3>. HIDE DEF f1, c, p
    <3>3. Tiles(f1, b) /\ Merged(f1, fu, p)
      BY <3>1, <3>2, <1>2, MergeTiles
    <3>4. /\ DOMAIN f1 = DOMAIN fu \ {h} /\ p # h
          /\ \A x \in DOMAIN f1 \ {p} : /\ f1[x].free = fu[x].free
                                        /\ f1[x].size = fu[x].size /\ f1[x].next = fu[x].next
      BY <3>1, <3>3, <1>2 DEF Merged
    <3>5. ASSUME NEW x \in DOMAIN f1 \ {p}, f1[x].free, f1[x].next # NULL
          PROVE  f1[x].next # p /\ ~f1[f1[x].next].free
      <4>1. fu[x].free /\ fu[x].next # NULL /\ x \in DOMAIN fu
        BY <3>4, <3>5
      <4>2. fu[x].next \in DOMAIN fu /\ ~fu[fu[x].next].free /\ fu[fu[x].next].previous = x
        BY <4>1, <1>2, <1>4 DEF Coalesced
      <4>3. fu[x].next # p /\ fu[x].next # h
        BY <4>2, <3>1, <3>5 DEF p
      <4>. QED
        BY <4>2, <4>3, <3>4, <3>5
    <3>. QED
      BY <3>1, <3>2, <3>3, <3>4, <3>5
  <2>2. CASE ~backward
    <3>1. f1 = fu /\ c = h
      BY <2>2
    <3>2. ASSUME NEW x \in DOMAIN fu \ {h}, fu[x].free, fu[x].next # NULL
          PROVE  fu[x].next # h /\ ~fu[fu[x].next].free
      <4>1. ~fu[fu[x].next].free /\ fu[fu[x].next].previous = x
        BY <3>2, <1>2, <1>4 DEF Coalesced
      <4>2. x # NULL
        BY <1>0, <1>1
      <4>. QED
        BY <4>1, <4>2, <3>2, <2>2
    <3>. HIDE DEF f1, c
    <3>. QED
      BY <3>1, <3>2, <1>2
  <2>. QED
    BY <2>1, <2>2
<1>. HIDE DEF f1, c
<1>6. (* After the second merge, the one behind it is in use as well.      *)
      /\ Tiles(f2, b) /\ c \in DOMAIN f2
      /\ \A x \in DOMAIN f2 \ {c} : /\ x \in DOMAIN f1
                                    /\ f2[x].free = f1[x].free
                                    /\ f2[x].size = f1[x].size /\ f2[x].next = f1[x].next
      /\ \A x \in DOMAIN f1 : ~f1[x].free => x \in DOMAIN f2
      /\ f2[c].next # NULL => f2[c].next # c /\ ~f2[f2[c].next].free
  <2>1. CASE forward
    <3>. DEFINE n == f1[c].next
    <3>1. n # NULL /\ f1[n].free
      BY <2>1
    <3>2. n \in DOMAIN f1 \ {c} /\ f1[n].next # c
      BY <3>1, <1>5, Neighbours
    <3>3. f2 = MergeNext(f1, c)
      BY <2>1
    <3>. HIDE DEF f2
    <3>4. Tiles(f2, b) /\ Merged(f2, f1, c)
      BY <3>1, <3>3, <1>5, MergeTiles
    <3>5. /\ DOMAIN f2 = DOMAIN f1 \ {n} /\ f2[c].next = f1[n].next
          /\ \A x \in DOMAIN f2 : f2[x].free = f1[x].free
          /\ \A x \in DOMAIN f2 \ {c} : f2[x].size = f1[x].size /\ f2[x].next = f1[x].next
      BY <3>4 DEF Merged
    <3>6. ASSUME f2[c].next # NULL PROVE f2[c].next # c /\ ~f2[f2[c].next].free
      <4>1. f1[n].next # NULL /\ ~f1[f1[n].next].free
        BY <3>1, <3>2, <3>5, <3>6, <1>5
      <4>2. c \in DOMAIN f2
        BY <3>2, <3>5, <1>5
      <4>3. f2[c].next \in DOMAIN f2
        BY <4>2, <3>4, <3>6 DEF Tiles, Linked
      <4>. QED
        BY <4>1, <4>3, <3>2, <3>5
    <3>. QED
      BY <3>1, <3>2, <3>4, <3>5, <3>6, <1>5
  <2>2. CASE ~forward
    <3>1. f2 = f1
      BY <2>2
    <3>2. f1[c].next # NULL => f1[c].next # c /\ ~f1[f1[c].next].free
      BY <2>2, <1>5, Neighbours
    <3>. HIDE DEF f2
    <3>. QED
      BY <3>1, <3>2, <1>5
  <2>. QED
    BY <2>1, <2>2
<1>. HIDE DEF f2
<1>7. Tiles(fu', cur_kernel_bound')
  BY <1>3, <1>6, MarkTiles
<1>8. /\ DOMAIN fu' = DOMAIN f2 /\ fu'[c].free /\ fu'[c].next = f2[c].next
      /\ \A x \in DOMAIN f2 \ {c} : /\ fu'[x].free = f2[x].free /\ fu'[x].size = f2[x].size
                                    /\ fu'[x].next = f2[x].next
  <2>1. f2[c] \in [free : BOOLEAN, previous : Nat \cup {NULL},
                   next : Nat \cup {NULL}, size : Nat]
    BY <1>6 DEF Tiles, Typed
  <2>2. /\ DOMAIN fu' = DOMAIN f2
        /\ fu'[c] = [f2[c] EXCEPT !.free = TRUE]
        /\ \A x \in DOMAIN f2 \ {c} : fu'[x] = f2[x]
    BY <1>3, <1>6
  <2>3. fu'[c].free /\ fu'[c].next = f2[c].next
    BY <2>1, <2>2
  <2>. QED
    BY <2>2, <2>3, Zenon
<1>9. Coalesced'
  <2>1. ASSUME NEW x \in DOMAIN fu', fu'[x].free, fu'[x].next # NULL
        PROVE  ~fu'[fu'[x].next].free
    <3>1. fu'[x].next = f2[x].next /\ f2[x].next \in DOMAIN f2
      BY <2>1, <1>6, <1>8 DEF Tiles, Linked
    <3>2. f2[x].next # c /\ ~f2[f2[x].next].free
      <4>1. CASE x = c
        BY <4>1, <2>1, <3>1, <1>6
      <4>2. CASE x # c
        <5>1. f1[x].free /\ f1[x].next # NULL /\ f2[x].next = f1[x].next /\ x \in DOMAIN f1 \ {c}
          BY <4>2, <2>1, <3>1, <1>6, <1>8
        <5>2. f1[x].next # c /\ ~f1[f1[x].next].free
          BY <5>1, <1>5
        <5>. QED
          BY <5>1, <5>2, <3>1, <1>6
      <4>. QED
        BY <4>1, <4>2
    <3>. QED
      BY <3>1, <3>2, <1>8
  <2>. QED
    BY <2>1 DEF Coalesced
<1>10. /\ DOMAIN live' = DOMAIN live \ {a}
       /\ \A g \in DOMAIN live' : live'[g] = live[g]
  BY <1>3 DEF Without
<1>11. BlocksBacked'
  <2>1. ASSUME NEW g \in DOMAIN live'
        PROVE  /\ g - HeaderSize \in DOMAIN fu' /\ ~fu'[g - HeaderSize].free
               /\ fu'[g - HeaderSize].size >= live'[g]
    <3>. DEFINE x == g - HeaderSize
    <3>1. g \in DOMAIN live /\ g # a /\ live'[g] = live[g]
      BY <1>10
    <3>2. x \in DOMAIN fu /\ ~fu[x].free /\ fu[x].size >= live[g]
      BY <3>1, <1>2 DEF BlocksBacked
    <3>3. x # h
      BY <3>1, <1>0, <1>1 DEF h
    <3>. HIDE DEF x
    <3>4. /\ x \in DOMAIN f1 \ {c} /\ ~f1[x].free /\ f1[x].size = fu[x].size
      BY <3>2, <3>3, <1>5
    <3>5. x \in DOMAIN f2 \ {c} /\ ~f2[x].free /\ f2[x].size = fu[x].size
      BY <3>4, <1>6
    <3>6. x \in DOMAIN fu' /\ ~fu'[x].free /\ fu'[x].size >= live'[g]
      BY <3>1, <3>2, <3>5, <1>8
    <3>. QED
      BY <3>6 DEF x
  <2>2. ASSUME NEW x \in DOMAIN fu', ~fu'[x].free
        PROVE  Memory(x) \in DOMAIN live'
    <3>1. x \in DOMAIN f1 \ {c} /\ ~f1[x].free
      BY <2>2, <1>6, <1>8
    <3>2. x \in DOMAIN fu /\ x # h /\ ~fu[x].free
      BY <3>1, <1>5
    <3>3. Memory(x) \in DOMAIN live
      BY <3>2, <1>2 DEF BlocksBacked
    <3>4. Memory(x) # a
      BY <3>2, <1>0, <1>1 DEF h, Memory
    <3>. QED
      BY <3>3, <3>4, <1>10
  <2>. QED
    BY <2>1, <2>2 DEF BlocksBacked, Memory
<1>12. LiveTyped'
  BY <1>1, <1>10 DEF LiveTyped
<1>. QED
  BY <1>7, <1>9, <1>11, <1>12 DEF HeapInv

-----------------------------------------------------------------------------
(* The pages and the bounds. *)

(* Where page i lies in the region.                                        *)
LEMMA PagePlaces ==
  /\ Last \in Nat /\ HeaderSize + 1 <= Last
  /\ \A i \in PageIndex : /\ i * PageSize \in Addr
                          /\ i * PageSize + (Length - i) * PageSize = Last
<1>1. /\ PageSize \in Nat \ {0} /\ Length \in Nat \ {0} /\ HeaderSize \in Nat
      /\ HeaderSize + 1 <= Last
  BY MemoryAssumption DEF MemoryAssumption, Last
<1>2. Last \in Nat
  BY <1>1 DEF Last
<1>3. ASSUME NEW i \in PageIndex
      PROVE  i * PageSize \in Addr /\ i * PageSize + (Length - i) * PageSize = Last
  <2>1. i \in Nat /\ Length - i \in Nat
    BY <1>1 DEF PageIndex
  <2>2. i * PageSize \in Nat /\ (Length - i) * PageSize \in Nat
    BY <1>1, <2>1
  <2>3. i * PageSize + (Length - i) * PageSize = Length * PageSize
    BY <1>1, <2>1
  <2>. QED
    BY <1>2, <2>2, <2>3 DEF Addr, Last
<1>. QED
  BY <1>1, <1>2, <1>3

LEMMA InitPages == Init => PagesInv
<1>. SUFFICES ASSUME Init PROVE PagesInv
  OBVIOUS
<1>1. HeaderSize \in Nat
  BY MemoryAssumption DEF MemoryAssumption
<1>. QED
  BY <1>1, PagePlaces DEF Init, PagesInv, PagesAccounted, BoundsInv, BoundsSeparate, Addr

(* The heap grows up to cur_user_bound only.                               *)
LEMMA GrowPages ==
  ASSUME PagesInv, NEW n \in Nat, kernel_malloc_grow(n)
  PROVE  PagesInv'
<1>1. /\ UNCHANGED pageVars
      /\ cur_kernel_bound' = cur_kernel_bound + HeaderSize + n
      /\ cur_kernel_bound' <= cur_user_bound
      /\ max_kernel_bound' \in {cur_kernel_bound', max_kernel_bound}
  BY DEF kernel_malloc_grow
<1>2. HeaderSize \in Nat /\ Last \in Nat
  BY MemoryAssumption, PagePlaces DEF MemoryAssumption
<1>3. cur_kernel_bound' \in Addr /\ max_kernel_bound' \in Addr
  BY <1>1, <1>2 DEF PagesInv, BoundsInv, Addr
<1>. QED
  BY <1>1, <1>3 DEF PagesInv, PagesAccounted, BoundsInv, BoundsSeparate, pageVars, PageIndex, Addr

(* A page is taken above the heap and the bound follows it.                *)
LEMMA AllocPages ==
  ASSUME PagesInv, NEW kernel \in BOOLEAN, page_alloc(kernel)
  PROVE  PagesInv'
<1>. DEFINE i == HighestFree
            ret == i * PageSize
<1>1. i \in PageIndex /\ i \notin page_bm
  BY HighestFreeIsFree DEF page_alloc, FreePages
<1>2. ret \in Addr /\ \A j \in PageIndex : j * PageSize \in Addr
  BY <1>1, PagePlaces
<1>3. /\ cur_kernel_bound <= ret /\ UNCHANGED <<cur_kernel_bound, passed_over>>
      /\ page_bm' = page_bm \cup {i}
      /\ max_kernel_bound' = IF max_kernel_bound > ret THEN ret ELSE max_kernel_bound
      /\ cur_user_bound' = IF cur_user_bound > ret THEN ret ELSE cur_user_bound
      /\ pages' = IF kernel THEN pages ELSE pages \cup {i}
      /\ tables' = IF kernel THEN tables \cup {i} ELSE tables
  BY DEF page_alloc
<1>4. PagesAccounted'
  BY <1>1, <1>3 DEF PagesInv, PagesAccounted
<1>5. BoundsInv'
  <2>1. /\ cur_kernel_bound \in Addr /\ max_kernel_bound \in Addr /\ cur_user_bound \in Addr
        /\ page_bm \subseteq PageIndex /\ BoundsSeparate
    BY DEF PagesInv, BoundsInv
  <2>2. BoundsSeparate'
    <3>1. SUFFICES ASSUME ~passed_over
                   PROVE  /\ cur_kernel_bound <= cur_user_bound'
                          /\ \A j \in page_bm' : cur_user_bound' <= j * PageSize
      BY <1>3 DEF BoundsSeparate
    <3>2. /\ cur_kernel_bound <= cur_user_bound
          /\ \A j \in page_bm : cur_user_bound <= j * PageSize
      BY <2>1, <3>1 DEF BoundsSeparate
    <3>3. cur_user_bound' <= ret /\ cur_user_bound' <= cur_user_bound
      BY <1>2, <1>3, <2>1 DEF Addr
    <3>4. ASSUME NEW j \in page_bm' PROVE cur_user_bound' <= j * PageSize
      <4>1. j = i \/ (j \in page_bm /\ j \in PageIndex)
        BY <1>3, <2>1
      <4>2. cur_user_bound' \in Int /\ cur_user_bound \in Int
        BY <1>2, <1>3, <2>1 DEF Addr
      <4>3. CASE j \in page_bm /\ j \in PageIndex
        <5>1. j * PageSize \in Int /\ cur_user_bound <= j * PageSize
          BY <4>3, <1>2, <3>2 DEF Addr
        <5>. QED
          BY <5>1, <3>3, <4>2
      <4>. QED
        BY <4>1, <4>3, <3>3
    <3>. QED
      BY <1>2, <1>3, <2>1, <3>2, <3>4 DEF Addr
  <2>. QED
    BY <1>1, <1>2, <1>3, <2>1, <2>2 DEF BoundsInv
<1>. QED
  BY <1>4, <1>5 DEF PagesInv

(* A page is given back; the bound moves to the end of the region, which   *)
(* passed_over records when a page in use lies below.                      *)
LEMMA FreePage ==
  ASSUME PagesInv, NEW i \in pages, page_free(i)
  PROVE  PagesInv'
<1>. DEFINE new_bound == IF i * PageSize = cur_user_bound
                           THEN cur_user_bound + (Length - i) * PageSize ELSE cur_user_bound
<1>1. /\ UNCHANGED <<cur_kernel_bound, max_kernel_bound, tables>>
      /\ page_bm' = page_bm \ {i} /\ pages' = pages \ {i}
      /\ cur_user_bound' = new_bound
      /\ passed_over' = (passed_over \/ \E j \in page_bm \ {i} : j * PageSize < new_bound)
  BY DEF page_free, heapVars
<1>2. /\ cur_kernel_bound \in Addr /\ max_kernel_bound \in Addr /\ cur_user_bound \in Addr
      /\ page_bm \subseteq PageIndex /\ BoundsSeparate /\ PagesAccounted
  BY DEF PagesInv, BoundsInv
<1>3. i \in PageIndex /\ i \notin tables
  BY <1>2 DEF PagesAccounted
<1>4. new_bound \in {Last, cur_user_bound} /\ Last \in Nat
  BY <1>3, PagePlaces
<1>. HIDE DEF new_bound
<1>5. PagesAccounted'
  BY <1>1, <1>2, <1>3 DEF PagesAccounted
<1>6. BoundsSeparate'
  <2>1. SUFFICES ASSUME ~passed_over'
                 PROVE  /\ cur_kernel_bound <= new_bound
                        /\ \A j \in page_bm \ {i} : new_bound <= j * PageSize
    BY <1>1 DEF BoundsSeparate
  <2>2. ~passed_over /\ \A j \in page_bm \ {i} : ~(j * PageSize < new_bound)
    BY <2>1, <1>1
  <2>3. cur_kernel_bound <= cur_user_bound
    BY <2>2, <1>2 DEF BoundsSeparate
  <2>4. cur_kernel_bound <= new_bound
    BY <2>3, <1>2, <1>4 DEF Addr
  <2>5. ASSUME NEW j \in page_bm \ {i} PROVE new_bound <= j * PageSize
    <3>1. j * PageSize \in Int
      BY <1>2, PagePlaces DEF Addr
    <3>2. new_bound \in Int
      BY <1>2, <1>4 DEF Addr
    <3>. QED
      BY <2>2, <3>1, <3>2
  <2>. QED
    BY <2>4, <2>5
<1>7. new_bound \in Addr
  BY <1>2, <1>4 DEF Addr
<1>. QED
  BY <1>1, <1>2, <1>5, <1>6, <1>7 DEF PagesInv, BoundsInv

-----------------------------------------------------------------------------
LEMMA InitMemory == Init => MemoryInv
<1>1. Init => KindsInv
  BY DEF Init, KindsInv
<1>. QED
  BY <1>1, InitHeap, InitPages DEF MemoryInv

LEMMA KindsKept ==
  ASSUME KindsInv, [Next]_vars
  PROVE  KindsInv'
<1>1. CASE \E n \in Sizes : kernel_malloc_grow(n)
  BY <1>1 DEF kernel_malloc_grow, KindsInv, Extend, pageVars
<1>2. CASE \E n \in Sizes : kernel_malloc_fit(n)
  <2>. PICK n \in Sizes : kernel_malloc_fit(n)
    BY <1>2
  <2>1. live' = [x \in DOMAIN live' |-> live'[x]] /\ UNCHANGED passed_over
    BY DEF kernel_malloc_fit, Extend, pageVars
  <2>2. null_write' \in BOOLEAN
    BY DEF kernel_malloc_fit, KindsInv
  <2>3. fu' = [x \in DOMAIN fu' |-> fu'[x]]
    BY DEF kernel_malloc_fit, Extend
  <2>. QED
    BY <2>1, <2>2, <2>3 DEF KindsInv
<1>3. CASE \E a \in DOMAIN live : kernel_free(a)
  <2>. PICK a \in DOMAIN live : kernel_free(a)
    BY <1>3
  <2>1. live' = [x \in DOMAIN live' |-> live'[x]] /\ UNCHANGED <<null_write, passed_over>>
    BY DEF kernel_free, Without, pageVars
  <2>2. \E f, c : fu' = [f EXCEPT ![c].free = TRUE]
    BY DEF kernel_free
  <2>3. fu' = [x \in DOMAIN fu' |-> fu'[x]]
    BY <2>2
  <2>. QED
    BY <2>1, <2>3 DEF KindsInv
<1>4. CASE \E kernel \in BOOLEAN : page_alloc(kernel)
  BY <1>4 DEF page_alloc, KindsInv
<1>5. CASE \E i \in pages : page_free(i)
  BY <1>5 DEF page_free, KindsInv, heapVars
<1>6. CASE UNCHANGED vars
  BY <1>6 DEF vars, KindsInv, heapVars, pageVars
<1>. QED
  BY <1>1, <1>2, <1>3, <1>4, <1>5, <1>6 DEF Next

LEMMA StepMemory == MemoryInv /\ [Next]_vars => MemoryInv'
<1>. SUFFICES ASSUME MemoryInv, [Next]_vars PROVE MemoryInv'
  OBVIOUS
<1>. USE DEF MemoryInv
<1>0. Sizes \subseteq Nat
  BY MemoryAssumption DEF MemoryAssumption
<1>1. KindsInv'
  BY KindsKept
<1>2. CASE \E n \in Sizes : kernel_malloc_grow(n)
  BY <1>0, <1>1, <1>2, GrowHeap, GrowPages
<1>3. CASE \E n \in Sizes : kernel_malloc_fit(n)
  <2>1. HeapInv'
    BY <1>0, <1>3, FitHeap
  <2>2. UNCHANGED <<cur_kernel_bound, max_kernel_bound, pageVars>>
    BY <1>3 DEF kernel_malloc_fit
  <2>3. PagesInv'
    BY <2>2 DEF PagesInv, PagesAccounted, BoundsInv, BoundsSeparate, pageVars, PageIndex, Addr
  <2>. QED
    BY <1>1, <2>1, <2>3
<1>4. CASE \E a \in DOMAIN live : kernel_free(a)
  <2>1. HeapInv'
    BY <1>4, FreeHeap
  <2>2. UNCHANGED <<cur_kernel_bound, max_kernel_bound, pageVars>>
    BY <1>4 DEF kernel_free
  <2>3. PagesInv'
    BY <2>2 DEF PagesInv, PagesAccounted, BoundsInv, BoundsSeparate, pageVars, PageIndex, Addr
  <2>. QED
    BY <1>1, <2>1, <2>3
<1>5. ASSUME UNCHANGED <<fu, cur_kernel_bound, live>> PROVE HeapInv'
  BY <1>5 DEF HeapInv, Coalesced, BlocksBacked, LiveTyped, Memory
<1>6. CASE \E kernel \in BOOLEAN : page_alloc(kernel)
  <2>1. UNCHANGED <<fu, cur_kernel_bound, live>>
    BY <1>6 DEF page_alloc
  <2>. QED
    BY <1>1, <1>5, <1>6, <2>1, AllocPages
<1>7. CASE \E i \in pages : page_free(i)
  <2>1. UNCHANGED <<fu, cur_kernel_bound, live>>
    BY <1>7 DEF page_free, heapVars
  <2>. QED
    BY <1>1, <1>5, <1>7, <2>1, FreePage
<1>8. CASE UNCHANGED vars
  <2>1. UNCHANGED <<fu, cur_kernel_bound, live>>
    BY <1>8 DEF vars, heapVars
  <2>2. PagesInv'
    BY <1>8 DEF PagesInv, PagesAccounted, BoundsInv, BoundsSeparate, vars, heapVars,
                pageVars, PageIndex, Addr
  <2>. QED
    BY <1>1, <1>5, <2>1, <2>2
<1>. QED
  BY <1>2, <1>3, <1>4, <1>6, <1>7, <1>8 DEF Next

-----------------------------------------------------------------------------
(* Theorems *)

(* The invariant: an ordered tiling of the heap by its structures, the     *)
(* clients' blocks and pages, and the two bounds.                          *)
THEOREM MemoryInvariant == Spec => []MemoryInv
  BY InitMemory, StepMemory, PTL DEF Spec

(* Splits and merges in any order leave structures that follow each other  *)
(* without gaps, doubly linked, up to the bound (kernel_malloc,            *)
(* kernel_free).                                                           *)
THEOREM HeapIsTiled == Spec => []HeapTiled
<1>1. MemoryInv => HeapTiled
  BY DEF MemoryInv, HeapInv, Tiles, Linked, EndOf, HeapTiled, End
<1>. QED
  BY <1>1, MemoryInvariant, PTL

(* Two free neighbours are always merged (kernel_free).                    *)
THEOREM HeapIsCoalesced == Spec => []Coalesced
<1>1. MemoryInv => Coalesced
  BY DEF MemoryInv, HeapInv
<1>. QED
  BY <1>1, MemoryInvariant, PTL

(* A block in use has a structure of its own that is large enough, until   *)
(* it is freed (kernel_malloc, kernel_free).                               *)
THEOREM BlocksAreBacked == Spec => []BlocksBacked
<1>1. MemoryInv => BlocksBacked
  BY DEF MemoryInv, HeapInv
<1>. QED
  BY <1>1, MemoryInvariant, PTL

(* Heap and pages keep to their sides of the bounds as long as page_free   *)
(* has not moved one over a page in use (page_alloc, kernel_malloc).       *)
THEOREM BoundsSeparateHeapAndPages == Spec => []BoundsSeparate
<1>1. MemoryInv => BoundsSeparate
  BY DEF MemoryInv, PagesInv, BoundsInv
<1>. QED
  BY <1>1, MemoryInvariant, PTL

(* Pages and page tables are marked exactly while they are in use, and no  *)
(* page is both (page_alloc, page_free).                                   *)
THEOREM PagesAreAccounted == Spec => []PagesAccounted
<1>1. MemoryInv => PagesAccounted
  BY DEF MemoryInv, PagesInv
<1>. QED
  BY <1>1, MemoryInvariant, PTL

(* Types: every structure, block and bound stays inside the region.        *)
THEOREM TypeCorrect == Spec => []TypeOK
<1>1. ASSUME MemoryInv PROVE TypeOK
  <2>. USE <1>1 DEF MemoryInv
  <2>0. HeaderSize \in Nat /\ NULL \notin Nat /\ Last \in Nat
    BY MemoryAssumption, PagePlaces DEF MemoryAssumption, NULL
  <2>1. /\ DOMAIN fu \subseteq Nat /\ cur_kernel_bound \in Addr
        /\ \A h \in DOMAIN fu : fu[h] \in [free : BOOLEAN, previous : Nat \cup {NULL},
                                           next : Nat \cup {NULL}, size : Nat]
        /\ \A h \in DOMAIN fu : EndOf(fu, h) <= cur_kernel_bound
    BY DEF HeapInv, Tiles, Typed, Ordered, PagesInv, BoundsInv
  <2>2. \A h \in DOMAIN fu : h \in Addr /\ Memory(h) \in Addr
    BY <2>0, <2>1 DEF EndOf, Addr, Memory
  <2>3. \A h \in DOMAIN fu : fu[h].next \in Pointer /\ fu[h].previous \in Pointer
    BY <2>2 DEF Pointer, HeapInv, Tiles, Linked
  <2>4. \A h \in DOMAIN fu : fu[h] \in Structure
    BY <2>1, <2>3 DEF Structure
  <2>5. fu \in [DOMAIN fu -> Structure]
    BY <2>4 DEF KindsInv
  <2>6. \A a \in DOMAIN live : a \in Addr /\ live[a] \in Nat
    <3>1. ASSUME NEW a \in DOMAIN live PROVE a \in Addr
      <4>1. a - HeaderSize \in DOMAIN fu /\ a \in Nat
        BY DEF HeapInv, BlocksBacked, LiveTyped
      <4>2. Memory(a - HeaderSize) = a
        BY <2>0, <4>1 DEF Memory
      <4>. QED
        BY <2>2, <4>1, <4>2
    <3>. QED
      BY <3>1 DEF HeapInv, LiveTyped
  <2>7. live \in [DOMAIN live -> Nat]
    BY <2>6 DEF KindsInv
  <2>8. /\ max_kernel_bound \in Addr /\ cur_user_bound \in Addr /\ page_bm \subseteq PageIndex
        /\ pages \subseteq PageIndex /\ tables \subseteq PageIndex
    BY DEF PagesInv, BoundsInv, PagesAccounted
  <2>. QED
    BY <2>1, <2>2, <2>5, <2>6, <2>7, <2>8 DEF TypeOK, KindsInv
<1>. QED
  BY <1>1, MemoryInvariant, PTL
=============================================================================
