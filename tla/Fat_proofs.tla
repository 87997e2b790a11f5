------------------------------ MODULE Fat_proofs ------------------------------
(***************************************************************************)
(* Transfers of a file on a FAT volume, for any geometry, any allocation   *)
(* table and any memory behind it: what is moved are the bytes of the      *)
(* file, each from or to its place, and all of them where the entries the  *)
(* code tests agree with the chain.                                        *)
(***************************************************************************)
EXTENDS Fat, FiniteSetTheorems, TLAPS

-----------------------------------------------------------------------------
(* Numbers. *)
LEMMA LeastNatural ==
    ASSUME NEW S, S \subseteq Nat, S # {}
    PROVE  \E x \in S : \A y \in S : x <= y
<1>1. PICK x \in S : \A y \in S : ~(<<y, x>> \in OpToRel(<, Nat))
  BY NatLessThanWellFounded, WFMin
<1>2. \A y \in S : ~(y < x)
  BY <1>1 DEF OpToRel
<1>. QED BY <1>2

(* What holds at the start of a chain and of each follower holds of all.   *)
LEMMA OneAfterTheOther ==
    ASSUME NEW n \in Nat, NEW S, 0 \in S,
           \A k \in 1 .. n : k - 1 \in S => k \in S
    PROVE  \A k \in 0 .. n : k \in S
<1>. DEFINE Bad == {k \in 0 .. n : k \notin S}
<1>1. Bad = {}
  <2>. SUFFICES ASSUME Bad # {} PROVE FALSE
    OBVIOUS
  <2>1. PICK k \in Bad : \A j \in Bad : k <= j
    <3>1. Bad \subseteq Nat
      OBVIOUS
    <3>. QED BY <3>1, LeastNatural
  <2>2. k \in 1 .. n /\ k - 1 \in 0 .. n
    BY <2>1
  <2>3. k - 1 \in S
    BY <2>1, <2>2
  <2>. QED BY <2>1, <2>2, <2>3
<1>. QED BY <1>1

LEMMA Division ==
    ASSUME NEW P \in Nat \ {0}, NEW x \in Nat
    PROVE  /\ x \div P \in Nat /\ x % P \in 0 .. P - 1
           /\ x = P * (x \div P) + (x % P)
OBVIOUS

LEMMA Quotient ==
    ASSUME NEW P \in Nat \ {0}, NEW x \in Nat, NEW q \in Nat, NEW r \in 0 .. P - 1,
           x = P * q + r
    PROVE  x \div P = q /\ x % P = r
OBVIOUS

LEMMA SameBlock ==
    ASSUME NEW P \in Nat \ {0}, NEW x \in Nat, NEW i \in Nat, (x % P) + i < P
    PROVE  (x + i) \div P = x \div P /\ (x + i) % P = (x % P) + i
<1>1. /\ x \div P \in Nat /\ x % P \in 0 .. P - 1 /\ x = P * (x \div P) + (x % P)
  BY Division
<1>. DEFINE q == x \div P
            r == x % P
<1>2. q \in Nat /\ r + i \in 0 .. P - 1 /\ x + i \in Nat /\ x + i = P * q + (r + i)
  <2>1. P * q \in Nat
    BY <1>1
  <2>. HIDE DEF q, r
  <2>. QED BY <1>1, <2>1 DEF q, r
<1>. HIDE DEF q, r
<1>3. (x + i) \div P = q /\ (x + i) % P = r + i
  BY <1>2, Quotient
<1>. QED BY <1>3 DEF q, r

LEMMA NextBlock ==
    ASSUME NEW P \in Nat \ {0}, NEW x \in Nat
    PROVE  LET y == x + (P - (x % P))
           IN  y \in Nat /\ y \div P = (x \div P) + 1 /\ y % P = 0
<1>. DEFINE q == x \div P
            r == x % P
            y == x + (P - r)
<1>1. q \in Nat /\ r \in 0 .. P - 1 /\ x = P * q + r
  BY Division
<1>. HIDE DEF q, r
<1>2. P * q \in Nat /\ P * (q + 1) = P * q + P
  BY <1>1
<1>3. y \in Nat /\ q + 1 \in Nat /\ 0 \in 0 .. P - 1 /\ y = P * (q + 1) + 0
  BY <1>1, <1>2
<1>. HIDE DEF y
<1>4. y \div P = q + 1 /\ y % P = 0
  BY <1>3, Quotient
<1>. QED BY <1>3, <1>4 DEF y, q, r

LEMMA Multiple ==
    ASSUME NEW P \in Nat \ {0}, NEW x \in Nat, x % P = 0
    PROVE  x \div P \in Nat /\ x = P * (x \div P)
OBVIOUS

LEMMA BlocksBelow ==
    ASSUME NEW P \in Nat \ {0}, NEW x \in Nat, NEW n \in Nat
    PROVE  /\ x < n * P => x \div P < n
           /\ x <= n * P => x \div P <= n
           /\ x <= n * P /\ x \div P = n => x = n * P
<1>1. /\ x \div P \in Nat /\ x % P \in 0 .. P - 1 /\ x = P * (x \div P) + (x % P)
  BY Division
<1>. DEFINE q == x \div P
<1>. HIDE DEF q
<1>2. \A a, b \in Nat : a <= b => a * P <= b * P
  OBVIOUS
<1>3. q * P = P * q /\ P * q \in Nat /\ P * q <= x /\ q \in Nat
  BY <1>1 DEF q
<1>4. n <= q => n * P <= x
  BY <1>2, <1>3
<1>5. n + 1 <= q => n * P + P <= x
  <2>. SUFFICES ASSUME n + 1 <= q PROVE n * P + P <= x
    OBVIOUS
  <2>1. (n + 1) * P <= q * P
    BY <1>2, <1>3
  <2>2. (n + 1) * P = n * P + P
    OBVIOUS
  <2>. QED BY <1>3, <2>1, <2>2
<1>6. n * P \in Nat
  OBVIOUS
<1>. QED BY <1>3, <1>4, <1>5, <1>6 DEF q

-----------------------------------------------------------------------------
(* The chain of a file. *)

(* The parameters of the volume.                                           *)
LEMMA Geometry ==
    /\ cluster_size \in Nat \ {0} /\ bytes_per_sector \in Nat \ {0}
    /\ sector_per_cluster \in Nat \ {0} /\ LastCluster \in Nat
    /\ base_sector \in Nat /\ add \in Nat /\ DataStart \in Nat
    /\ max_dir_entrys_in_root * DirEntrySize \in Nat
    /\ Word \in Nat /\ LastCluster < Word /\ MaxSize < Word /\ LastCluster < TableEntries
    /\ TableEntries \in Nat /\ MaxSize \in Nat
<1>1. /\ bytes_per_sector \in Nat \ {0} /\ sector_per_cluster \in Nat \ {0}
      /\ DirEntrySize \in Nat \ {0} /\ reserved_sectors \in Nat /\ sectors_per_fat \in Nat
      /\ fat_copies \in Nat /\ max_dir_entrys_in_root \in Nat
  BY FatAssumption
<1>2. cluster_size \in Nat \ {0}
  BY <1>1 DEF cluster_size
<1>3. sectors_per_fat * fat_copies \in Nat /\ max_dir_entrys_in_root * DirEntrySize \in Nat
  BY <1>1
<1>4. base_sector \in Nat
  BY <1>1, <1>3 DEF base_sector
<1>5. add \in Nat
  BY <1>2, <1>3, Division DEF add, norm_node_cluster_add
<1>6. DataStart \in Nat
  <2>1. base_sector * bytes_per_sector \in Nat
    BY <1>1, <1>4
  <2>. QED BY <1>3, <2>1 DEF DataStart
<1>. QED BY <1>1, <1>2, <1>3, <1>4, <1>5, <1>6, FatAssumption

Follows(t, first, f) ==
    f = [k \in 0 .. LastCluster |-> IF k = 0 THEN first ELSE Follower(t, f[k - 1])]

LEMMA FollowIsDefined ==
    ASSUME NEW t, NEW first
    PROVE  \E f : Follows(t, first, f)
<1>. DEFINE N == LastCluster
            At(f, k) == IF k = 0 THEN first ELSE Follower(t, f[k - 1])
            Defined == {j \in Nat : \E f : f = [k \in 0 .. j |-> At(f, k)]}
<1>0. N \in Nat
  BY Geometry
<1>1. 0 \in Defined
  <2>. DEFINE g == [k \in 0 .. 0 |-> first]
  <2>1. g = [k \in 0 .. 0 |-> At(g, k)]
    OBVIOUS
  <2>. QED BY <2>1
<1>2. ASSUME NEW j \in 1 .. N, j - 1 \in Defined PROVE j \in Defined
  <2>1. PICK f : f = [k \in 0 .. j - 1 |-> At(f, k)]
    BY <1>2
  <2>. DEFINE g == [k \in 0 .. j |-> At(f, k)]
  <2>2. \A k \in 0 .. j - 1 : g[k] = f[k]
    <3>. SUFFICES ASSUME NEW k \in 0 .. j - 1 PROVE g[k] = f[k]
      OBVIOUS
    <3>1. k \in 0 .. j
      OBVIOUS
    <3>2. f[k] = At(f, k)
      BY <2>1
    <3>. QED BY <3>1, <3>2
  <2>3. \A k \in 0 .. j : At(g, k) = At(f, k)
    <3>. SUFFICES ASSUME NEW k \in 0 .. j PROVE At(g, k) = At(f, k)
      OBVIOUS
    <3>1. CASE k = 0
      BY <3>1
    <3>2. CASE k # 0
      <4>1. k - 1 \in 0 .. j - 1
        BY <3>2
      <4>2. g[k - 1] = f[k - 1]
        BY <2>2, <4>1
      <4>. HIDE DEF g
      <4>. QED BY <4>2
    <3>. QED BY <3>1, <3>2
  <2>4. g = [k \in 0 .. j |-> At(g, k)]
    BY <2>3
  <2>. HIDE DEF g
  <2>5. \E h : h = [k \in 0 .. j |-> At(h, k)]
    BY <2>4, Zenon
  <2>. QED BY <2>5
<1>3. N \in Defined
  <2>1. N \in Nat /\ N \in 0 .. N
    BY <1>0
  <2>. HIDE DEF Defined
  <2>2. \A k \in 0 .. N : k \in Defined
    BY <1>0, <1>1, <1>2, OneAfterTheOther
  <2>. QED BY <2>1, <2>2
<1>. QED BY <1>3 DEF Follows

(* A chain starts at the file's first cluster, every cluster's entry names *)
(* the next one, and the last one's names none.                            *)
LEMMA ChainFollows ==
    ASSUME NEW t, NEW first \in Clusters, \A x \in Clusters : t[x] \in Values
    PROVE  LET c == Chain(t, first)
           IN  /\ c \in Seq(Clusters) /\ Len(c) \in 1 .. LastCluster + 1
               /\ c[1] = first
               /\ \A i \in 1 .. Len(c) - 1 : c[i + 1] = t[c[i]]
<1>. DEFINE N == LastCluster
            follow[k \in 0 .. N] ==
              IF k = 0 THEN first ELSE Follower(t, follow[k - 1])
            inside == {k \in 0 .. N : follow[k] \in Clusters}
            c == Chain(t, first)
<1>1. N \in Nat /\ END \notin Clusters
  BY Geometry DEF END, Clusters
<1>2. follow = [k \in 0 .. N |-> IF k = 0 THEN first ELSE Follower(t, follow[k - 1])]
  <2>. HIDE DEF follow
  <2>0. PICK f : Follows(t, first, f)
    BY FollowIsDefined
  <2>1. \E g : g = [k \in 0 .. N |-> IF k = 0 THEN first ELSE Follower(t, g[k - 1])]
    BY <2>0, Zenon DEF Follows
  <2>. USE DEF follow
  <2>. QED BY <2>1, Zenon
<1>3. c = [k \in 1 .. Cardinality(inside) |-> follow[k - 1]]
  BY DEF Chain
<1>. HIDE DEF follow, c
<1>4. follow[0] = first
  BY <1>1, <1>2
<1>5. \A k \in 1 .. N : follow[k] = Follower(t, follow[k - 1])
  BY <1>1, <1>2
<1>6. PICK n \in 1 .. N + 1 : inside = 0 .. n - 1
  <2>. DEFINE out == {k \in 0 .. N : follow[k] \notin Clusters}
  <2>1. CASE out = {}
    <3>1. inside = 0 .. (N + 1) - 1 /\ N + 1 \in 1 .. N + 1
      BY <1>1, <2>1
    <3>. QED BY <3>1
  <2>2. CASE out # {}
    <3>1. PICK n \in out : \A k \in out : n <= k
      <4>1. out \subseteq Nat
        BY <1>1
      <4>. QED BY <2>2, <4>1, LeastNatural
    <3>2. n \in 1 .. N + 1
      BY <1>1, <1>4, <3>1
    <3>. DEFINE S == {k \in 0 .. N - n : n + k \in out}
    <3>3. 0 \in S /\ N - n \in Nat
      BY <1>1, <3>1
    <3>4. ASSUME NEW k \in 1 .. N - n, k - 1 \in S PROVE k \in S
      <4>1. n + (k - 1) \in out /\ n + k \in 1 .. N /\ (n + k) - 1 = n + (k - 1)
        BY <1>1, <3>1, <3>4
      <4>2. follow[n + k] = END
        BY <1>5, <4>1 DEF Follower
      <4>. QED BY <1>1, <4>1, <4>2
    <3>5. \A k \in 0 .. N - n : k \in S
      <4>. HIDE DEF S
      <4>. QED BY <3>3, <3>4, OneAfterTheOther
    <3>6. \A j \in n .. N : j \in out
      <4>. SUFFICES ASSUME NEW j \in n .. N PROVE j \in out
        OBVIOUS
      <4>1. j - n \in 0 .. N - n /\ n + (j - n) = j
        BY <1>1, <3>2
      <4>2. j - n \in S
        BY <3>5, <4>1
      <4>. QED BY <4>1, <4>2
    <3>7. inside = 0 .. n - 1
      <4>1. \A k \in 0 .. n - 1 : k \in inside
        BY <1>1, <3>1, <3>2
      <4>2. \A k \in inside : k \in 0 .. n - 1
        BY <1>1, <3>2, <3>6
      <4>3. inside \subseteq Nat /\ 0 .. n - 1 \subseteq Nat
        BY <1>1, <3>2
      <4>. HIDE DEF inside
      <4>. QED BY <4>1, <4>2
    <3>. QED BY <3>2, <3>7
  <2>. QED BY <2>1, <2>2
<1>7. Cardinality(inside) = n
  <2>1. 0 \in Int /\ n - 1 \in Int /\ 0 <= n - 1 /\ n - 1 - 0 + 1 = n
    BY <1>1
  <2>2. Cardinality(0 .. n - 1) = n
    BY <2>1, FS_Interval
  <2>. QED BY <1>6, <2>2
<1>8. c = [k \in 1 .. n |-> follow[k - 1]]
  BY <1>3, <1>7
<1>9. \A k \in 0 .. n - 1 : follow[k] \in Clusters
  BY <1>6
<1>10. c \in Seq(Clusters) /\ Len(c) = n
  <2>1. \A k \in 1 .. n : k - 1 \in 0 .. n - 1
    BY <1>1
  <2>2. \A k \in 1 .. n : follow[k - 1] \in Clusters
    BY <1>9, <2>1
  <2>3. n \in Nat
    BY <1>1
  <2>. QED BY <1>8, <2>2, <2>3
<1>11. c[1] = first
  BY <1>1, <1>4, <1>8
<1>12. ASSUME NEW i \in 1 .. n - 1 PROVE c[i + 1] = t[c[i]]
  <2>1. /\ i \in 1 .. n /\ i + 1 \in 1 .. n /\ i \in 1 .. N /\ i - 1 \in 0 .. n - 1
        /\ (i + 1) - 1 = i
    BY <1>1
  <2>2. c[i + 1] = follow[i] /\ c[i] = follow[i - 1]
    BY <1>8, <2>1
  <2>. QED BY <1>5, <1>9, <2>1, <2>2 DEF Follower
<1>. QED BY <1>1, <1>10, <1>11, <1>12 DEF c

-----------------------------------------------------------------------------
(* The volume, and where the bytes of the file lie on it. *)

VolumeTyped ==
    /\ table \in [0 .. TableEntries - 1 -> Values]
    /\ entry \in [cluster : Clusters, size : 1 .. MaxSize]
    /\ WellFormed(table, entry)
    /\ disk = [a \in 0 .. VolumeSize - 1 |-> disk[a]]

FileChain == Chain(table, entry.cluster)

\* The node of the j-th cluster, and the node that is none behind the last.
NodeAt(j) == (IF j < Len(FileChain) THEN FileChain[j + 1] ELSE END) - 2 + add

LEMMA ChainOfFile ==
    ASSUME VolumeTyped
    PROVE  /\ FileChain \in Seq(Clusters) /\ Len(FileChain) \in Nat \ {0}
           /\ FileChain[1] = entry.cluster
           /\ \A i \in 1 .. Len(FileChain) - 1 : table[FileChain[i]] = FileChain[i + 1]
           /\ table[FileChain[Len(FileChain)]] = END
           /\ \A i \in 1 .. Len(FileChain) :
                FileChain[i] \in Nat /\ 2 <= FileChain[i] /\ FileChain[i] <= LastCluster
           /\ entry.size \in Nat /\ entry.size < Word
           /\ entry.size <= Len(FileChain) * cluster_size
<1>1. \A x \in Clusters : x \in 0 .. TableEntries - 1 /\ x \in Nat /\ 2 <= x /\ x <= LastCluster
  BY Geometry DEF Clusters
<1>2. entry.cluster \in Clusters /\ \A x \in Clusters : table[x] \in Values
  BY <1>1 DEF VolumeTyped
<1>3. /\ FileChain \in Seq(Clusters) /\ Len(FileChain) \in 1 .. LastCluster + 1
      /\ FileChain[1] = entry.cluster
      /\ \A i \in 1 .. Len(FileChain) - 1 : FileChain[i + 1] = table[FileChain[i]]
  BY <1>2, ChainFollows DEF FileChain
<1>4. Len(FileChain) \in Nat \ {0}
  BY <1>3, Geometry
<1>5. /\ table[FileChain[Len(FileChain)]] = END
      /\ entry.size <= Len(FileChain) * cluster_size
  BY DEF VolumeTyped, WellFormed, FileChain
<1>6. entry.size \in Nat /\ entry.size < Word
  BY Geometry DEF VolumeTyped
<1>7. \A i \in 1 .. Len(FileChain) : FileChain[i] \in Clusters
  BY <1>3
<1>. QED BY <1>1, <1>3, <1>4, <1>5, <1>6, <1>7

\* successor leads from one cluster of the file to the next.
LEMMA NextNode ==
    ASSUME VolumeTyped, NEW j \in Nat, j < Len(FileChain), NEW next \in successor(NodeAt(j))
    PROVE  next = NodeAt(j + 1)
<1>. DEFINE c == FileChain[j + 1]
<1>1. /\ j + 1 \in 1 .. Len(FileChain) /\ Len(FileChain) \in Nat
      /\ c \in Nat /\ 2 <= c /\ c <= LastCluster
  BY ChainOfFile
<1>2. NodeAt(j) - add + 2 = c
  BY <1>1, Geometry DEF NodeAt
<1>3. c % Word = c
  <2>1. c \in 0 .. Word - 1 /\ Word \in Nat \ {0}
    BY <1>1, Geometry
  <2>. HIDE DEF c
  <2>. QED BY <2>1
<1>4. c \in DOMAIN table
  <2>1. c \in 0 .. TableEntries - 1
    BY <1>1, Geometry
  <2>. QED BY <2>1 DEF VolumeTyped
<1>5. next = table[c] + add - 2
  <2>1. value((NodeAt(j) - add + 2) % Word) = {table[c]}
    BY <1>2, <1>3, <1>4 DEF value
  <2>. QED BY <2>1 DEF successor
<1>6. table[c] = IF j + 1 < Len(FileChain) THEN FileChain[(j + 1) + 1] ELSE END
  BY <1>1, ChainOfFile
<1>7. table[c] \in Nat
  <2>1. table[c] \in Values
    BY <1>4 DEF VolumeTyped
  <2>2. \A v \in Values : v \in Nat
    BY Geometry DEF Values, FREE, DEFECT, END
  <2>. QED BY <2>1, <2>2
<1>. QED BY <1>5, <1>6, <1>7, Geometry DEF NodeAt

\* The test finds the next cluster where its entry agrees with the chain.
LEMMA NextIsSeen ==
    ASSUME VolumeTyped, TestsAgree, NEW j \in Nat, j + 1 < Len(FileChain)
    PROVE  FALSE \notin has_successor(NodeAt(j))
<1>. DEFINE c == FileChain[j + 1]
<1>1. /\ j + 1 \in 1 .. Len(FileChain) - 1 /\ j + 1 \in DOMAIN FileChain
      /\ j + 2 \in 1 .. Len(FileChain) /\ Len(FileChain) \in Nat /\ c \in Nat
  BY ChainOfFile
<1>2. NodeAt(j) + 2 = c + add
  BY <1>1, Geometry DEF NodeAt
<1>3. c + add \in DOMAIN table /\ HasSuccessor(table[c + add]) = HasSuccessor(table[c])
  BY <1>1 DEF TestsAgree, FileChain
<1>4. has_successor(NodeAt(j)) = {HasSuccessor(table[c])}
  BY <1>2, <1>3 DEF has_successor, value
<1>5. table[c] = FileChain[j + 2]
  BY <1>1, ChainOfFile
<1>6. table[c] \in Nat /\ 2 <= table[c] /\ table[c] <= LastCluster
  BY <1>1, <1>5, ChainOfFile
<1>7. HasSuccessor(table[c]) = TRUE
  <2>. HIDE DEF c
  <2>. QED BY <1>6, Geometry DEF HasSuccessor, FREE, DEFECT, END
<1>. QED BY <1>4, <1>7

\* The address of a cluster, as the code computes it and as it is.
LEMMA ClusterAddress ==
    ASSUME Aligned, NEW c \in Nat, NEW skip \in Nat
    PROVE  Address(c - 2 + add, skip) = DataStart + (c - 2) * cluster_size + skip
<1>. DEFINE root == max_dir_entrys_in_root * DirEntrySize
            q == base_sector \div sector_per_cluster
<1>1. base_sector = sector_per_cluster * q /\ q \in Nat
  BY Geometry, Multiple DEF Aligned
<1>2. root = cluster_size * add /\ root \in Nat
  BY Geometry, Multiple DEF Aligned, add, norm_node_cluster_add
<1>. HIDE DEF q, root
<1>3. base_sector * bytes_per_sector = q * cluster_size
  BY <1>1, Geometry DEF cluster_size
<1>4. DataStart = q * cluster_size + add * cluster_size
  BY <1>2, <1>3, Geometry DEF DataStart, root
<1>5. Address(c - 2 + add, skip) = (q + (c - 2 + add)) * cluster_size + skip
  BY DEF Address, q
<1>6. (q + (c - 2 + add)) * cluster_size
        = q * cluster_size + add * cluster_size + (c - 2) * cluster_size
  BY <1>1, Geometry
<1>. QED
  <2>1. q * cluster_size \in Int /\ add * cluster_size \in Int /\ (c - 2) * cluster_size \in Int
    BY <1>1, Geometry
  <2>. QED BY <1>4, <1>5, <1>6, <2>1

\* Where a position in the file lies: in the volume, at the address the code
\* computes for its cluster.
LEMMA Located ==
    ASSUME VolumeTyped, Aligned, NEW x \in Nat, x < entry.size
    PROVE  LET j == x \div cluster_size
           IN  /\ j \in Nat /\ j < Len(FileChain)
               /\ x % cluster_size \in 0 .. cluster_size - 1
               /\ FileByte(x) = Address(NodeAt(j), x % cluster_size)
               /\ FileByte(x) \in Nat /\ FileByte(x) + (cluster_size - (x % cluster_size)) <= VolumeSize
<1>. DEFINE j == x \div cluster_size
            skip == x % cluster_size
            c == FileChain[j + 1]
<1>1. cluster_size \in Nat \ {0} /\ j \in Nat /\ skip \in 0 .. cluster_size - 1
  BY Geometry, Division
<1>2. j < Len(FileChain)
  <2>1. Len(FileChain) \in Nat /\ x < Len(FileChain) * cluster_size
    <3>1. Len(FileChain) * cluster_size \in Nat
      BY <1>1, ChainOfFile
    <3>. QED BY <3>1, ChainOfFile
  <2>. QED BY <1>1, <2>1, BlocksBelow
<1>3. c \in Nat /\ 2 <= c /\ c <= LastCluster
  BY <1>1, <1>2, ChainOfFile
<1>4. NodeAt(j) = c - 2 + add
  BY <1>2 DEF NodeAt
<1>5. FileByte(x) = DataStart + (c - 2) * cluster_size + skip
  BY DEF FileByte, FileChain
<1>6. Address(NodeAt(j), skip) = FileByte(x)
  BY <1>1, <1>3, <1>4, <1>5, ClusterAddress
<1>7. FileByte(x) \in Nat /\ FileByte(x) + (cluster_size - skip) <= VolumeSize
  <2>. HIDE DEF c, skip
  <2>1. (c - 2) * cluster_size \in Nat
    BY <1>1, <1>3
  <2>2. (c - 2) * cluster_size + cluster_size = (c - 1) * cluster_size
    BY <1>1, <1>3
  <2>3. (c - 1) * cluster_size <= (LastCluster - 1) * cluster_size
    BY <1>1, <1>3, Geometry
  <2>4. (LastCluster - 1) * cluster_size \in Nat
    BY <1>1, <1>3, Geometry
  <2>. QED BY <1>1, <1>5, <2>1, <2>2, <2>3, <2>4, Geometry DEF VolumeSize
<1>. QED BY <1>1, <1>2, <1>6, <1>7

-----------------------------------------------------------------------------
(* The inductive invariant: how far a transfer is. *)

Transfers ==
    [phase : {"skip", "done"}, op : {"read", "write"}, asked : Nat \ {0}, length : Nat,
     remain : Nat, position : Nat, skip_clusters : Nat, skip_bytes : 0 .. cluster_size - 1,
     cluster : Int]

\* Where the transfer goes on, counted from the start of the file.
Place == offset + io.position

\* On the way to the cluster of that place, nothing has been moved yet; then
\* the transfer is in it, at the byte the place lies at.
AtPlace ==
    /\ io.skip_clusters <= Place \div cluster_size
    /\ io.skip_clusters > 0 => io.position = 0
    /\ io.skip_bytes = Place % cluster_size
    /\ io.cluster = NodeAt((Place \div cluster_size) - io.skip_clusters)
    /\ io.position > 0 => io.remain > 0

\* What was read lies at the front of the buffer, and nothing behind it.
FrontRead ==
    \A k \in DOMAIN buf :
        buf[k] = IF k < io.position THEN disk[FileByte(offset + k)] ELSE Untouched

Transferring ==
    /\ io.length = IF offset + io.asked > entry.size THEN entry.size - offset ELSE io.asked
    /\ io.position + io.remain = io.length
    /\ io.phase = "skip" => AtPlace
    /\ io.op = "read" => FrontRead
    /\ io.phase = "done" /\ TestsAgree => io.position = io.length

IoTyped ==
    \/ io = NoIo
    \/ io \in Transfers /\ cluster # Closed /\ DOMAIN buf = 0 .. Word - 1

FatInv ==
    /\ VolumeTyped
    /\ cluster \in {Closed, NodeAt(0)} /\ offset \in Nat
    /\ IoTyped
    /\ io # NoIo /\ Aligned /\ offset <= entry.size => Transferring

-----------------------------------------------------------------------------
LEMMA InitFat == Init => FatInv
<1>. SUFFICES ASSUME Init PROVE FatInv
  OBVIOUS
<1>1. table \in [0 .. TableEntries - 1 -> Values]
  <2>1. PICK t \in [Clusters -> Values] :
          table = [i \in 0 .. TableEntries - 1 |->
                     CASE i \in DOMAIN t -> t[i] [] i = 1 -> END [] OTHER -> FREE]
    BY DEF Init
  <2>2. END \in Values /\ FREE \in Values
    BY DEF Values
  <2>3. \A i \in 0 .. TableEntries - 1 :
          (CASE i \in DOMAIN t -> t[i] [] i = 1 -> END [] OTHER -> FREE) \in Values
    <3>. SUFFICES ASSUME NEW i \in 0 .. TableEntries - 1
         PROVE (CASE i \in DOMAIN t -> t[i] [] i = 1 -> END [] OTHER -> FREE) \in Values
      OBVIOUS
    <3>1. CASE i \in DOMAIN t
      <4>1. ~(i = 1) \/ i \notin DOMAIN t
        BY <2>1 DEF Clusters
      <4>2. t[i] \in Values
        BY <2>1, <3>1
      <4>. QED BY <3>1, <4>1, <4>2
    <3>2. CASE i \notin DOMAIN t
      BY <2>2, <3>2
    <3>. QED BY <3>1, <3>2
  <2>. QED BY <2>1, <2>3
<1>2. VolumeTyped
  BY <1>1 DEF Init, VolumeTyped
<1>. QED BY <1>2 DEF Init, FatInv, IoTyped

\* No step changes the table or the directory entry.
LEMMA VolumeStays ==
    ASSUME [Next]_vars
    PROVE  /\ FileChain' = FileChain /\ entry' = entry /\ table' = table
           /\ \A j : NodeAt(j)' = NodeAt(j)
           /\ \A x : FileByte(x)' = FileByte(x)
           /\ TestsAgree' = TestsAgree
<1>1. table' = table /\ entry' = entry
  BY DEF Next, vars, open_subnode, start, seek, skip_cluster, cluster_io, finish
<1>2. FileChain' = FileChain
  BY <1>1 DEF FileChain
<1>3. \A j : NodeAt(j)' = NodeAt(j)
  BY <1>2 DEF NodeAt
<1>4. \A x : FileByte(x)' = FileByte(x)
  BY <1>1 DEF FileByte
<1>5. TestsAgree' = TestsAgree
  BY <1>1 DEF TestsAgree
<1>. QED BY <1>1, <1>2, <1>3, <1>4, <1>5

LEMMA VolumeTypedNext ==
    ASSUME VolumeTyped, [Next]_vars
    PROVE  VolumeTyped'
<1>1. \/ disk' = disk
      \/ \E d : disk' = [a \in DOMAIN disk |-> d[a]]
  <2>1. CASE cluster_io
    <3>. DEFINE len == PieceLength
                base == Address(io.cluster, io.skip_bytes)
                reached == IF io.length = 0 THEN {}
                           ELSE Reached(io.cluster, io.skip_bytes, len)
                d == [a \in DOMAIN disk |->
                        IF a \in reached THEN buf[a - base + io.position] ELSE disk[a]]
    <3>1. disk' = disk \/ disk' = d
      BY <2>1 DEF cluster_io
    <3>2. d = [a \in DOMAIN disk |-> d[a]]
      OBVIOUS
    <3>. QED BY <3>1, <3>2
  <2>2. CASE ~cluster_io
    BY <2>2 DEF Next, vars, open_subnode, start, seek, skip_cluster, finish
  <2>. QED BY <2>1, <2>2
<1>2. disk' = [a \in 0 .. VolumeSize - 1 |-> disk'[a]]
  BY <1>1 DEF VolumeTyped
<1>. QED BY <1>2, VolumeStays DEF VolumeTyped

LEMMA OpenFat == ASSUME FatInv, open_subnode PROVE FatInv'
<1>1. [Next]_vars
  BY DEF Next
<1>2. NodeAt(0) = entry.cluster - 2 + add
  BY ChainOfFile DEF FatInv, NodeAt
<1>3. io = NoIo /\ io' = NoIo
  BY DEF FatInv, IoTyped, open_subnode
<1>4. VolumeTyped'
  BY <1>1, VolumeTypedNext DEF FatInv
<1>5. cluster' = NodeAt(0)' /\ offset' \in Nat
  BY <1>1, <1>2, VolumeStays DEF open_subnode
<1>. QED BY <1>3, <1>4, <1>5 DEF FatInv, IoTyped

LEMMA SeekFat == ASSUME FatInv, NEW to \in 0 .. MaxOffset, seek(to) PROVE FatInv'
<1>1. [Next]_vars
  BY DEF Next
<1>2. io = NoIo /\ io' = NoIo
  BY DEF FatInv, IoTyped, seek, Transfers
<1>3. VolumeTyped'
  BY <1>1, VolumeTypedNext DEF FatInv
<1>4. cluster' \in {Closed, NodeAt(0)'} /\ offset' \in Nat
  BY <1>1, VolumeStays, FatAssumption DEF seek, FatInv
<1>. QED BY <1>2, <1>3, <1>4 DEF FatInv, IoTyped

LEMMA StartFat ==
    ASSUME FatInv, NEW op \in {"read", "write"}, NEW length \in Lengths, start(op, length)
    PROVE  FatInv'
<1>. DEFINE amount == Clamped(length)
<1>1. [Next]_vars
  BY DEF Next
<1>2. /\ VolumeTyped /\ VolumeTyped' /\ NodeAt(0)' = NodeAt(0) /\ entry' = entry
      /\ \A j : NodeAt(j)' = NodeAt(j)
  BY <1>1, VolumeTypedNext, VolumeStays DEF FatInv
<1>3. cluster = NodeAt(0) /\ cluster' = cluster /\ offset' = offset /\ offset \in Nat
  BY DEF start, FatInv
<1>4. length \in Nat \ {0} /\ entry.size \in Nat /\ entry.size < Word /\ Word \in Nat \ {0}
  BY <1>2, ChainOfFile, FatAssumption, Geometry
<1>5. /\ offset \div cluster_size \in Nat
      /\ offset % cluster_size \in 0 .. cluster_size - 1
  BY <1>3, Geometry, Division
<1>6. /\ amount \in Nat
      /\ offset <= entry.size =>
           amount = IF offset + length > entry.size THEN entry.size - offset ELSE length
  <2>1. CASE offset + length > entry.size
    <3>1. amount = (entry.size - offset) % Word /\ entry.size - offset \in Int
      BY <1>3, <1>4, <2>1 DEF Clamped
    <3>. DEFINE left == entry.size - offset
    <3>2. offset <= entry.size => left \in 0 .. Word - 1
      BY <1>3, <1>4
    <3>. HIDE DEF left
    <3>3. \A y \in Int : y % Word \in Nat
      BY <1>4
    <3>4. \A y \in 0 .. Word - 1 : y % Word = y
      BY <1>4
    <3>. QED BY <2>1, <3>1, <3>2, <3>3, <3>4 DEF left
  <2>2. CASE ~(offset + length > entry.size)
    BY <1>4, <2>2 DEF Clamped
  <2>. QED BY <2>1, <2>2
<1>. HIDE DEF amount
<1>7. io' = [phase |-> "skip", op |-> op, asked |-> length, length |-> amount,
             remain |-> amount, position |-> 0,
             skip_clusters |-> offset \div cluster_size,
             skip_bytes |-> offset % cluster_size, cluster |-> cluster]
  BY DEF start, amount
<1>8. /\ io'.phase = "skip" /\ io'.op = op /\ io'.asked = length /\ io'.length = amount
      /\ io'.remain = amount /\ io'.position = 0
      /\ io'.skip_clusters = offset \div cluster_size
      /\ io'.skip_bytes = offset % cluster_size /\ io'.cluster = cluster
  BY <1>7
<1>9. buf' = [k \in 0 .. Word - 1 |-> IF op = "write" THEN Written(k) ELSE Untouched]
  BY DEF start
<1>10. NodeAt(0) \in Int
  BY <1>2, ChainOfFile, Geometry DEF NodeAt
<1>11. IoTyped'
  <2>1. io' \in Transfers
    BY <1>3, <1>4, <1>5, <1>6, <1>7, <1>10 DEF Transfers
  <2>2. DOMAIN buf' = 0 .. Word - 1 /\ cluster' # Closed
    BY <1>9 DEF start
  <2>. QED BY <2>1, <2>2 DEF IoTyped
<1>12. ASSUME offset <= entry.size PROVE Transferring'
  <2>1. Place' = offset
    BY <1>3, <1>8 DEF Place
  <2>2. AtPlace'
    BY <1>2, <1>3, <1>5, <1>8, <2>1 DEF AtPlace
  <2>3. io'.op = "read" => FrontRead'
    BY <1>8, <1>9 DEF FrontRead
  <2>. QED BY <1>2, <1>3, <1>6, <1>8, <1>12, <2>2, <2>3 DEF Transferring
<1>. QED BY <1>2, <1>3, <1>11, <1>12 DEF FatInv

LEMMA FinishFat == ASSUME FatInv, finish PROVE FatInv'
<1>1. [Next]_vars
  BY DEF Next
<1>2. io' = NoIo /\ io # NoIo
  BY DEF finish, NoIo
<1>3. VolumeTyped'
  BY <1>1, VolumeTypedNext DEF FatInv
<1>4. cluster' \in {Closed, NodeAt(0)'}
  BY <1>1, VolumeStays DEF finish, FatInv
<1>5. offset' \in Nat
  BY <1>2 DEF finish, FatInv, IoTyped, Transfers
<1>. QED BY <1>2, <1>3, <1>4, <1>5 DEF FatInv, IoTyped

\* On the way through the chain.
LEMMA SkipFat == ASSUME FatInv, skip_cluster PROVE FatInv'
<1>1. [Next]_vars
  BY DEF Next
<1>2. /\ VolumeTyped /\ VolumeTyped' /\ entry' = entry /\ TestsAgree' = TestsAgree
      /\ \A j : NodeAt(j)' = NodeAt(j)
      /\ \A x : FileByte(x)' = FileByte(x)
  BY <1>1, VolumeTypedNext, VolumeStays DEF FatInv
<1>3. /\ cluster' = cluster /\ offset' = offset /\ disk' = disk /\ buf' = buf
      /\ io.phase = "skip" /\ io.skip_clusters > 0
  BY DEF skip_cluster
<1>4. io \in Transfers /\ cluster # Closed /\ DOMAIN buf = 0 .. Word - 1 /\ io # NoIo
  BY <1>3 DEF FatInv, IoTyped, NoIo
<1>5. cluster' \in {Closed, NodeAt(0)'} /\ offset' \in Nat /\ offset \in Nat
  BY <1>2, <1>3 DEF FatInv
<1>. DEFINE j == (Place \div cluster_size) - io.skip_clusters
<1>6. ASSUME NEW next \in successor(io.cluster), TRUE \in has_successor(io.cluster),
             io' = [io EXCEPT !.skip_clusters = @ - 1, !.cluster = next]
      PROVE  FatInv'
  <2>1. next \in Int
    <3>1. PICK v \in value((io.cluster - add + 2) % Word) : next = v + add - 2
      BY <1>6 DEF successor
    <3>2. \A x \in Values : x \in Int
      BY Geometry DEF Values, FREE, DEFECT, END
    <3>3. v \in Int
      <4>1. \A i : value(i) \subseteq Int
        BY <1>2, <3>2, FatAssumption DEF value, VolumeTyped
      <4>. QED BY <4>1
    <3>. QED BY <3>1, <3>3, Geometry
  <2>2. /\ io'.phase = "skip" /\ io'.op = io.op /\ io'.asked = io.asked
        /\ io'.length = io.length /\ io'.remain = io.remain /\ io'.position = io.position
        /\ io'.skip_clusters = io.skip_clusters - 1
        /\ io'.skip_bytes = io.skip_bytes /\ io'.cluster = next
    BY <1>3, <1>4, <1>6 DEF Transfers
  <2>3. IoTyped'
    <3>1. io.skip_clusters - 1 \in Nat
      BY <1>3, <1>4 DEF Transfers
    <3>2. io' \in Transfers
      BY <1>4, <1>6, <2>1, <3>1 DEF Transfers
    <3>. QED BY <1>3, <1>4, <3>2 DEF IoTyped
  <2>4. ASSUME Aligned, offset <= entry.size PROVE Transferring'
    <3>1. Transferring /\ AtPlace
      BY <1>3, <1>4, <2>4 DEF FatInv, Transferring
    <3>2. /\ io.position = 0 /\ Place \in Nat /\ Place <= entry.size /\ Place' = Place
          /\ io.skip_clusters \in Nat
      BY <1>3, <1>4, <1>5, <2>2, <2>4, <3>1 DEF AtPlace, Place, Transfers
    <3>3. j \in Nat /\ j < Len(FileChain) /\ j + 1 = (Place \div cluster_size) - (io.skip_clusters - 1)
      <4>1. Len(FileChain) \in Nat /\ Place <= Len(FileChain) * cluster_size
        <5>1. Len(FileChain) * cluster_size \in Nat /\ entry.size <= Len(FileChain) * cluster_size
          BY <1>2, ChainOfFile, Geometry
        <5>. QED BY <1>2, <3>2, <5>1, ChainOfFile
      <4>2. Place \div cluster_size \in Nat /\ Place \div cluster_size <= Len(FileChain)
        BY <3>2, <4>1, Geometry, Division, BlocksBelow
      <4>. QED BY <1>3, <3>1, <3>2, <4>1, <4>2 DEF AtPlace
    <3>4. next = NodeAt(j + 1)
      <4>1. io.cluster = NodeAt(j)
        BY <3>1 DEF AtPlace
      <4>. HIDE DEF j
      <4>. QED BY <1>2, <1>6, <3>3, <4>1, NextNode
    <3>5. AtPlace'
      <4>1. Place \div cluster_size \in Nat
        BY <3>2, Geometry, Division
      <4>. QED BY <1>2, <1>3, <2>2, <3>1, <3>2, <3>3, <3>4, <4>1 DEF AtPlace
    <3>6. io'.op = "read" => FrontRead'
      BY <1>2, <1>3, <2>2, <3>1 DEF Transferring, FrontRead
    <3>. QED BY <1>2, <1>3, <2>2, <3>1, <3>5, <3>6 DEF Transferring
  <2>. QED BY <1>2, <1>3, <1>5, <2>3, <2>4 DEF FatInv, Aligned
<1>7. ASSUME FALSE \in has_successor(io.cluster), io' = [io EXCEPT !.phase = "done"]
      PROVE  FatInv'
  <2>1. /\ io'.phase = "done" /\ io'.op = io.op /\ io'.asked = io.asked
        /\ io'.length = io.length /\ io'.remain = io.remain /\ io'.position = io.position
    BY <1>4, <1>7 DEF Transfers
  <2>2. IoTyped'
    <3>1. io' \in Transfers
      BY <1>4, <1>7 DEF Transfers
    <3>. QED BY <1>3, <1>4, <3>1 DEF IoTyped
  <2>3. ASSUME Aligned, offset <= entry.size PROVE Transferring'
    <3>1. Transferring /\ AtPlace
      BY <1>3, <1>4, <2>3 DEF FatInv, Transferring
    <3>2. io.position = 0 /\ io.length \in Nat /\ io.skip_clusters \in Nat \ {0}
      BY <1>3, <1>4, <3>1 DEF AtPlace, Transfers
    <3>3. TestsAgree => io.length = 0
      <4>. SUFFICES ASSUME TestsAgree, io.length # 0 PROVE FALSE
        OBVIOUS
      <4>1. Place \in Nat /\ Place < entry.size
        BY <1>2, <1>4, <1>5, <2>3, <3>1, <3>2, ChainOfFile DEF Place, Transferring, Transfers
      <4>2. Place \div cluster_size \in Nat /\ Place \div cluster_size < Len(FileChain)
        <5>. HIDE DEF j
        <5>. QED BY <1>2, <2>3, <4>1, Located
      <4>3. j \in Nat /\ j + 1 < Len(FileChain)
        BY <1>2, <3>1, <3>2, <4>2, ChainOfFile DEF AtPlace
      <4>4. io.cluster = NodeAt(j)
        BY <3>1 DEF AtPlace
      <4>. HIDE DEF j
      <4>. QED BY <1>2, <1>7, <4>3, <4>4, NextIsSeen
    <3>4. io'.op = "read" => FrontRead'
      BY <1>2, <1>3, <2>1, <3>1 DEF Transferring, FrontRead
    <3>. QED BY <1>2, <1>3, <2>1, <3>1, <3>2, <3>3, <3>4 DEF Transferring
  <2>. QED BY <1>2, <1>3, <1>5, <2>2, <2>3 DEF FatInv, Aligned
<1>. QED BY <1>6, <1>7 DEF skip_cluster

-----------------------------------------------------------------------------
(* One turn of the loop of cluster_io. *)

Base == Address(io.cluster, io.skip_bytes)
ReachedNow == IF io.length = 0 THEN {} ELSE Reached(io.cluster, io.skip_bytes, PieceLength)

\* A piece is a run of bytes of the file, in their order, that ends with the
\* cluster or with the transfer.
LEMMA Piece ==
    ASSUME FatInv, Aligned, offset <= entry.size, io.phase = "skip", io.skip_clusters = 0
    PROVE  /\ Place \in Nat /\ PieceLength \in 0 .. io.remain
           /\ io.length > 0 => Place < entry.size
           /\ PieceLength < io.remain => PieceLength = cluster_size - (Place % cluster_size)
           /\ Base \in Int
           /\ \A a : a \in ReachedNow <=> a \in Base .. Base + PieceLength - 1
           /\ \A i \in 0 .. PieceLength - 1 :
                /\ Base + i = FileByte(Place + i)
                /\ io.position + i < io.length
<1>. DEFINE len == PieceLength
            skip == io.skip_bytes
<1>1. io \in Transfers /\ Transferring /\ AtPlace /\ VolumeTyped /\ offset \in Nat
  BY DEF FatInv, IoTyped, NoIo, Transferring
<1>2. /\ skip \in 0 .. cluster_size - 1 /\ cluster_size \in Nat \ {0} /\ io.cluster \in Int
      /\ io.remain \in Nat /\ io.position \in Nat /\ io.length \in Nat /\ io.asked \in Nat \ {0}
      /\ io.position + io.remain = io.length
  BY <1>1, Geometry DEF Transfers, Transferring
<1>3. /\ len = IF io.remain > cluster_size - skip THEN cluster_size - skip ELSE io.remain
      /\ skip = Place % cluster_size
  BY <1>1 DEF PieceLength, AtPlace
<1>4. Place \in Nat /\ entry.size \in Nat
  BY <1>1, <1>2, ChainOfFile DEF Place
<1>5. /\ len \in 0 .. io.remain /\ skip + len <= cluster_size
      /\ len < io.remain => len = cluster_size - skip
      /\ io.remain > 0 => len > 0
  BY <1>2, <1>3
<1>6. io.length > 0 => io.remain > 0 /\ Place < entry.size
  BY <1>1, <1>2, <1>4 DEF AtPlace, Transferring, Place
<1>7. Base \in Int
  <2>1. base_sector \div sector_per_cluster \in Nat
    BY Geometry, Division
  <2>2. \A q \in Nat, n \in Int : (q + n) * cluster_size + skip \in Int
    BY <1>2
  <2>. QED BY <1>2, <2>1, <2>2 DEF Base, Address
<1>8. CASE io.length = 0
  <2>1. len = 0 /\ ReachedNow = {}
    BY <1>2, <1>5, <1>8 DEF ReachedNow
  <2>. QED BY <1>4, <1>5, <1>3, <1>6, <1>7, <2>1
<1>9. CASE io.length > 0
  <2>1. Place < entry.size /\ len > 0
    BY <1>5, <1>6, <1>9
  <2>2. /\ FileByte(Place) = Address(NodeAt(Place \div cluster_size), Place % cluster_size)
        /\ FileByte(Place) \in Nat
        /\ FileByte(Place) + (cluster_size - (Place % cluster_size)) <= VolumeSize
        /\ Place \div cluster_size \in Nat
    BY <1>1, <1>4, <2>1, Located
  <2>3. io.cluster = NodeAt(Place \div cluster_size)
    BY <1>1, <2>2 DEF AtPlace
  <2>4. Base = FileByte(Place)
    BY <1>3, <2>2, <2>3 DEF Base
  <2>5. Base + len <= VolumeSize
    <3>1. VolumeSize \in Int
      <4>1. (LastCluster - 1) * cluster_size \in Int
        BY Geometry
      <4>. QED BY <4>1, Geometry DEF VolumeSize
    <3>. QED BY <1>2, <1>3, <1>5, <2>2, <2>4, <3>1
  <2>6. ReachedNow = Base .. Base + len - 1
    BY <1>5, <1>9, <2>1, <2>5 DEF ReachedNow, Reached, Base
  <2>7. ASSUME NEW i \in 0 .. len - 1
        PROVE  Base + i = FileByte(Place + i) /\ io.position + i < io.length
    <3>1. i \in Nat /\ skip + i < cluster_size
      BY <1>2, <1>5
    <3>2. /\ (Place + i) \div cluster_size = Place \div cluster_size
          /\ (Place + i) % cluster_size = (Place % cluster_size) + i
      BY <1>2, <1>3, <1>4, <3>1, SameBlock
    <3>3. FileByte(Place + i) = FileByte(Place) + i
      <4>. DEFINE c == Chain(table, entry.cluster)[(Place \div cluster_size) + 1]
                  first == DataStart + (c - 2) * cluster_size
      <4>1. FileByte(Place) = first + (Place % cluster_size)
        BY DEF FileByte
      <4>2. FileByte(Place + i) = first + ((Place % cluster_size) + i)
        BY <3>2 DEF FileByte
      <4>3. first \in Int
        <5>1. c \in Nat
          <6>1. Place \div cluster_size \in Nat /\ Place \div cluster_size < Len(FileChain)
            BY <1>1, <1>4, <2>1, Located
          <6>2. (Place \div cluster_size) + 1 \in 1 .. Len(FileChain)
            BY <1>1, <6>1, ChainOfFile
          <6>. QED BY <1>1, <6>2, ChainOfFile DEF FileChain
        <5>. HIDE DEF c
        <5>2. (c - 2) * cluster_size \in Int
          BY <1>2, <5>1
        <5>. QED BY <5>2, Geometry
      <4>. HIDE DEF first
      <4>. QED BY <1>2, <1>3, <3>1, <4>1, <4>2, <4>3
    <3>. QED BY <1>2, <1>5, <2>4, <3>3
  <2>. QED BY <1>3, <1>4, <1>5, <1>7, <2>1, <2>6, <2>7
<1>. QED BY <1>2, <1>8, <1>9

LEMMA PieceRead ==
    ASSUME FatInv, Aligned, offset <= entry.size, cluster_io, io.op = "read"
    PROVE  \A k \in DOMAIN buf' :
               buf'[k] = IF k < io.position + PieceLength THEN disk[FileByte(offset + k)]
                         ELSE Untouched
<1>1. io.phase = "skip" /\ io.skip_clusters = 0
  BY DEF cluster_io
<1>2. /\ io \in Transfers /\ DOMAIN buf = 0 .. Word - 1 /\ FrontRead /\ offset \in Nat
      /\ io.position \in Nat /\ io.remain \in Nat
  BY <1>1 DEF FatInv, IoTyped, NoIo, Transferring, Transfers
<1>. DEFINE len == PieceLength
<1>3. /\ len \in Nat /\ Base \in Int
      /\ \A a : a \in ReachedNow <=> a \in Base .. Base + len - 1
      /\ \A i \in 0 .. len - 1 : Base + i = FileByte(Place + i)
  BY <1>1, <1>2, Piece
<1>4. buf' = [k \in DOMAIN buf |-> IF Base + k - io.position \in ReachedNow
                                    THEN disk[Base + k - io.position] ELSE buf[k]]
  BY DEF cluster_io, Base, ReachedNow
<1>. HIDE DEF len
<1>. SUFFICES ASSUME NEW k \in DOMAIN buf'
     PROVE  buf'[k] = IF k < io.position + len THEN disk[FileByte(offset + k)] ELSE Untouched
  BY DEF len
<1>5. /\ k \in Nat /\ k \in DOMAIN buf
      /\ buf[k] = IF k < io.position THEN disk[FileByte(offset + k)] ELSE Untouched
      /\ buf'[k] = IF Base + k - io.position \in ReachedNow
                   THEN disk[Base + k - io.position] ELSE buf[k]
  BY <1>2, <1>4, Geometry DEF FrontRead
<1>6. Base + k - io.position \in ReachedNow <=> io.position <= k /\ k < io.position + len
  <2>1. Base + k - io.position \in Int
    BY <1>2, <1>3, <1>5
  <2>2. Base + k - io.position \in ReachedNow
          <=> Base + k - io.position \in Base .. Base + len - 1
    BY <1>3, Zenon
  <2>. QED BY <1>2, <1>3, <1>5, <2>1, <2>2
<1>7. CASE io.position <= k /\ k < io.position + len
  <2>1. k - io.position \in 0 .. len - 1 /\ Place + (k - io.position) = offset + k
    BY <1>2, <1>3, <1>5, <1>7 DEF Place
  <2>2. Base + k - io.position = Base + (k - io.position)
    BY <1>2, <1>3, <1>5
  <2>3. Base + (k - io.position) = FileByte(Place + (k - io.position))
    BY <1>3, <2>1
  <2>4. Base + k - io.position = FileByte(offset + k)
    BY <2>1, <2>2, <2>3
  <2>. QED BY <1>5, <1>6, <1>7, <2>4
<1>8. CASE ~(io.position <= k /\ k < io.position + len)
  <2>1. k < io.position <=> k < io.position + len
    BY <1>2, <1>3, <1>5, <1>8
  <2>. QED BY <1>5, <1>6, <1>8, <2>1
<1>. QED BY <1>7, <1>8

LEMMA CopyFat == ASSUME FatInv, cluster_io PROVE FatInv'
<1>. DEFINE len == PieceLength
            remain == io.remain - len
            moved(next) == [io EXCEPT !.skip_bytes = 0, !.remain = remain,
                                      !.position = @ + len, !.cluster = next]
<1>1. [Next]_vars
  BY DEF Next
<1>2. /\ VolumeTyped /\ VolumeTyped' /\ entry' = entry /\ TestsAgree' = TestsAgree
      /\ \A j : NodeAt(j)' = NodeAt(j)
      /\ \A x : FileByte(x)' = FileByte(x)
  BY <1>1, VolumeTypedNext, VolumeStays DEF FatInv
<1>3. /\ cluster' = cluster /\ offset' = offset
      /\ io.phase = "skip" /\ io.skip_clusters = 0
      /\ io.op = "read" => disk' = disk
  BY DEF cluster_io
<1>4. io \in Transfers /\ cluster # Closed /\ DOMAIN buf = 0 .. Word - 1 /\ io # NoIo
  BY <1>3 DEF FatInv, IoTyped, NoIo
<1>5. cluster' \in {Closed, NodeAt(0)'} /\ offset' \in Nat /\ offset \in Nat
  BY <1>2, <1>3 DEF FatInv
<1>6. DOMAIN buf' = 0 .. Word - 1
  <2>. DEFINE reached == IF io.length = 0 THEN {} ELSE Reached(io.cluster, io.skip_bytes, len)
              new(k) == IF Address(io.cluster, io.skip_bytes) + k - io.position \in reached
                        THEN disk[Address(io.cluster, io.skip_bytes) + k - io.position]
                        ELSE buf[k]
  <2>1. buf' = [k \in DOMAIN buf |-> new(k)] \/ buf' = buf
    BY DEF cluster_io
  <2>. HIDE DEF new
  <2>. QED BY <1>4, <2>1
<1>7. /\ len \in 0 .. io.remain /\ remain \in Nat /\ io.position + len \in Nat
      /\ io.position + len + remain = io.position + io.remain
  <2>1. /\ io.skip_bytes \in 0 .. cluster_size - 1 /\ cluster_size \in Nat \ {0}
        /\ io.remain \in Nat /\ io.position \in Nat
    BY <1>4, Geometry DEF Transfers
  <2>2. len \in 0 .. io.remain
    BY <2>1 DEF PieceLength
  <2>. HIDE DEF len
  <2>. QED BY <2>1, <2>2
<1>. HIDE DEF len
<1>8. ASSUME NEW next \in Int, NEW phase \in {"skip", "done"},
             io' = [moved(next) EXCEPT !.phase = phase],
             Aligned /\ offset <= entry.size =>
               /\ phase = "skip" => AtPlace'
               /\ phase = "done" /\ TestsAgree => io.position + len = io.length
      PROVE  FatInv'
  <2>1. /\ io'.phase = phase /\ io'.op = io.op /\ io'.asked = io.asked
        /\ io'.length = io.length /\ io'.remain = remain /\ io'.position = io.position + len
    BY <1>4, <1>8 DEF Transfers
  <2>2. IoTyped'
    <3>1. 0 \in 0 .. cluster_size - 1
      BY Geometry
    <3>2. io' \in Transfers
      <4>. HIDE DEF remain
      <4>. QED BY <1>4, <1>7, <1>8, <3>1 DEF Transfers
    <3>. QED BY <1>3, <1>4, <1>6, <3>2 DEF IoTyped
  <2>3. ASSUME Aligned, offset <= entry.size PROVE Transferring'
    <3>1. Transferring
      BY <1>3, <1>4, <2>3 DEF FatInv
    <3>2. io'.op = "read" => FrontRead'
      <4>. SUFFICES ASSUME io'.op = "read" PROVE FrontRead'
        OBVIOUS
      <4>1. \A k \in DOMAIN buf' :
              buf'[k] = IF k < io.position + len THEN disk[FileByte(offset + k)] ELSE Untouched
        BY <2>1, <2>3, PieceRead DEF len
      <4>. QED BY <1>2, <1>3, <2>1, <4>1 DEF FrontRead
    <3>3. /\ io'.length = IF offset' + io'.asked > entry'.size THEN entry'.size - offset'
                          ELSE io'.asked
          /\ io'.position + io'.remain = io'.length
      BY <1>2, <1>3, <1>7, <2>1, <3>1 DEF Transferring
    <3>4. /\ io'.phase = "skip" => AtPlace'
          /\ io'.phase = "done" /\ TestsAgree' => io'.position = io'.length
      BY <1>2, <1>8, <2>1, <2>3
    <3>. QED BY <3>2, <3>3, <3>4 DEF Transferring
  <2>. QED BY <1>2, <1>3, <1>5, <2>2, <2>3 DEF FatInv, Aligned
<1>9. ASSUME remain > 0, NEW next \in successor(io.cluster), io' = moved(next)
      PROVE  FatInv'
  <2>1. next \in Int
    <3>1. \A x \in Values : x \in Int
      BY Geometry DEF Values, FREE, DEFECT, END
    <3>2. \A i : value(i) \subseteq Int
      BY <1>2, <3>1, FatAssumption DEF value, VolumeTyped
    <3>. QED BY <3>2, Geometry DEF successor
  <2>2. io' = [moved(next) EXCEPT !.phase = "skip"]
    BY <1>3, <1>4, <1>9 DEF Transfers
  <2>3. ASSUME Aligned, offset <= entry.size PROVE AtPlace'
    <3>1. Transferring /\ AtPlace
      BY <1>3, <1>4, <2>3 DEF FatInv, Transferring
    <3>. DEFINE j == Place \div cluster_size
    <3>2. /\ Place \in Nat /\ Place < entry.size /\ len = cluster_size - (Place % cluster_size)
          /\ io.length > 0
      <4>1. io.length > 0
        BY <1>4, <1>7, <1>9, <3>1 DEF Transferring, Transfers
      <4>2. PieceLength < io.remain
        BY <1>4, <1>7, <1>9 DEF len, Transfers
      <4>. QED BY <1>3, <2>3, <4>1, <4>2, Piece DEF len
    <3>3. Place' = Place + len /\ io'.position = io.position + len
      <4>1. io'.position = io.position + len
        BY <1>4, <1>9 DEF Transfers
      <4>. QED BY <1>3, <1>4, <1>5, <1>7, <4>1 DEF Place, Transfers
    <3>4. Place' \div cluster_size = j + 1 /\ Place' % cluster_size = 0 /\ j \in Nat
      <4>1. j \in Nat
        BY <3>2, Geometry, Division
      <4>2. /\ (Place + len) \div cluster_size = j + 1 /\ (Place + len) % cluster_size = 0
        BY <3>2, Geometry, NextBlock
      <4>. QED BY <3>3, <4>1, <4>2
    <3>5. next = NodeAt(j + 1)
      <4>1. j < Len(FileChain)
        BY <1>2, <2>3, <3>2, Located
      <4>2. io.cluster = NodeAt(j)
        BY <1>3, <3>1, <3>4 DEF AtPlace
      <4>. HIDE DEF j
      <4>. QED BY <1>2, <1>9, <3>4, <4>1, <4>2, NextNode
    <3>6. /\ io'.skip_clusters = 0 /\ io'.skip_bytes = 0 /\ io'.cluster = next
          /\ io'.remain = remain
      BY <1>3, <1>4, <1>9 DEF Transfers
    <3>7. io'.cluster = NodeAt((Place' \div cluster_size) - io'.skip_clusters)
      <4>. HIDE DEF j
      <4>1. (j + 1) - 0 = j + 1
        BY <3>4
      <4>. QED BY <1>2, <3>4, <3>5, <3>6, <4>1
    <3>. QED BY <1>2, <1>9, <3>4, <3>6, <3>7 DEF AtPlace
  <2>. QED BY <1>8, <2>1, <2>2, <2>3
<1>10. ASSUME remain = 0 \/ FALSE \in has_successor(io.cluster),
              io' = [moved(io.cluster) EXCEPT !.phase = "done"]
       PROVE  FatInv'
  <2>1. io.cluster \in Int
    BY <1>4 DEF Transfers
  <2>2. ASSUME Aligned, offset <= entry.size, TestsAgree PROVE io.position + len = io.length
    <3>1. Transferring /\ AtPlace
      BY <1>3, <1>4, <2>2 DEF FatInv, Transferring
    <3>. DEFINE j == Place \div cluster_size
    <3>2. CASE remain = 0
      BY <1>4, <1>7, <3>1, <3>2 DEF Transferring, Transfers
    <3>3. CASE remain > 0 /\ FALSE \in has_successor(io.cluster)
      <4>1. io.length > 0 /\ PieceLength < io.remain
        BY <1>4, <1>7, <3>1, <3>3 DEF Transferring, Transfers, len
      <4>2. /\ Place \in Nat /\ Place < entry.size
            /\ len = cluster_size - (Place % cluster_size)
        BY <1>3, <2>2, <4>1, Piece DEF len
      <4>3. /\ (Place + len) \div cluster_size = j + 1 /\ j \in Nat /\ Place + len \in Nat
        BY <4>2, Geometry, NextBlock, Division
      <4>4. Place + len < entry.size
        <5>1. /\ io.length <= entry.size - offset /\ io.position + io.remain = io.length
              /\ entry.size \in Nat /\ io.position \in Nat /\ io.remain \in Nat
          BY <1>2, <1>4, <1>5, <2>2, <3>1, ChainOfFile DEF Transferring, Transfers
        <5>2. io.length = io.position + len + remain /\ len \in Nat /\ remain \in Nat
          BY <1>7, <5>1
        <5>. HIDE DEF remain
        <5>3. offset + (io.position + len) < entry.size
          BY <1>5, <3>3, <5>1, <5>2
        <5>. QED BY <1>5, <5>1, <5>2, <5>3 DEF Place
      <4>5. j + 1 < Len(FileChain)
        BY <1>2, <2>2, <4>3, <4>4, Located
      <4>6. io.cluster = NodeAt(j)
        BY <1>3, <3>1, <4>3 DEF AtPlace
      <4>. HIDE DEF j
      <4>. QED BY <1>2, <2>2, <3>3, <4>3, <4>5, <4>6, NextIsSeen
    <3>4. remain = 0 \/ (remain > 0 /\ FALSE \in has_successor(io.cluster))
      <4>1. remain = 0 \/ remain > 0
        BY <1>7
      <4>. HIDE DEF remain
      <4>2. CASE remain = 0
        BY <4>2
      <4>3. CASE FALSE \in has_successor(io.cluster)
        BY <4>1, <4>3, Zenon
      <4>. QED BY <1>10, <4>2, <4>3, Zenon
    <3>. HIDE DEF remain
    <3>. QED BY <3>2, <3>3, <3>4
  <2>. QED BY <1>8, <1>10, <2>1, <2>2
<1>11. \/ remain > 0 /\ \E next \in successor(io.cluster) : io' = moved(next)
       \/ /\ remain = 0 \/ FALSE \in has_successor(io.cluster)
          /\ io' = [moved(io.cluster) EXCEPT !.phase = "done"]
  BY DEF cluster_io, len
<1>. QED BY <1>9, <1>10, <1>11

-----------------------------------------------------------------------------
LEMMA NextFat == FatInv /\ [Next]_vars => FatInv'
<1>. SUFFICES ASSUME FatInv, [Next]_vars PROVE FatInv'
  OBVIOUS
<1>1. CASE open_subnode
  BY <1>1, OpenFat
<1>2. ASSUME NEW op \in {"read", "write"}, NEW length \in Lengths, start(op, length)
      PROVE  FatInv'
  BY <1>2, StartFat
<1>3. ASSUME NEW to \in 0 .. MaxOffset, seek(to) PROVE FatInv'
  BY <1>3, SeekFat
<1>4. CASE skip_cluster
  BY <1>4, SkipFat
<1>5. CASE cluster_io
  BY <1>5, CopyFat
<1>6. CASE finish
  BY <1>6, FinishFat
<1>7. CASE UNCHANGED vars
  <2>1. /\ VolumeTyped' /\ TestsAgree' = TestsAgree /\ entry' = entry
        /\ \A j : NodeAt(j)' = NodeAt(j)
        /\ \A x : FileByte(x)' = FileByte(x)
    BY VolumeTypedNext, VolumeStays DEF FatInv
  <2>2. cluster' = cluster /\ offset' = offset /\ io' = io /\ buf' = buf /\ disk' = disk
    BY <1>7 DEF vars
  <2>3. IoTyped'
    BY <2>2 DEF FatInv, IoTyped
  <2>4. ASSUME io # NoIo, Aligned, offset <= entry.size PROVE Transferring'
    <3>1. Transferring
      BY <2>4 DEF FatInv
    <3>2. Place' = Place
      BY <2>2 DEF Place
    <3>3. AtPlace => AtPlace'
      BY <2>1, <2>2, <3>2 DEF AtPlace
    <3>4. FrontRead => FrontRead'
      BY <2>1, <2>2 DEF FrontRead
    <3>. QED BY <2>1, <2>2, <3>1, <3>3, <3>4 DEF Transferring
  <2>. QED BY <2>1, <2>2, <2>3, <2>4 DEF FatInv, Aligned
<1>. QED BY <1>1, <1>2, <1>3, <1>4, <1>5, <1>6, <1>7 DEF Next

(* How far a transfer of the FAT driver is, and what it has moved, in every  *)
(* reachable state (fat_fs::cluster_io and fat_fs_node).                     *)
THEOREM FatInvariant == Spec => []FatInv
BY InitFat, NextFat, PTL DEF Spec

LEMMA DoneRead ==
    ASSUME FatInv, io.phase = "done", io.op = "read", Aligned, offset <= entry.size
    PROVE  /\ FrontRead /\ DOMAIN buf = 0 .. Word - 1
           /\ io.position \in Nat /\ io.asked \in Nat /\ io.length \in Nat /\ offset \in Nat
           /\ entry.size \in Nat /\ entry.size < Word /\ Word \in Nat
           /\ io.position <= io.length
           /\ io.length = IF offset + io.asked > entry.size THEN entry.size - offset
                          ELSE io.asked
           /\ TestsAgree => io.position = io.length
<1>1. io # NoIo
  BY DEF NoIo
<1>2. Transferring /\ io \in Transfers /\ VolumeTyped /\ DOMAIN buf = 0 .. Word - 1 /\ offset \in Nat
  BY <1>1 DEF FatInv, IoTyped
<1>3. /\ io.position \in Nat /\ io.asked \in Nat /\ io.length \in Nat /\ io.remain \in Nat
  BY <1>2 DEF Transfers
<1>. QED BY <1>2, <1>3, ChainOfFile, Geometry DEF Transferring

(* A read moves only bytes of the file, each to its own place, and none      *)
(* behind the length that was asked for: fat_fs_node::read.                  *)
THEOREM ReadsOnlyTheFile == Spec => []OnlyFileBytes
<1>1. FatInv => OnlyFileBytes
  <2>. SUFFICES ASSUME FatInv, io.phase = "done", io.op = "read", Aligned,
                       offset <= entry.size, NEW k \in DOMAIN buf, buf[k] # Untouched
                PROVE  k < io.asked /\ InFile(k) /\ buf[k] = disk[FileByte(offset + k)]
    BY DEF OnlyFileBytes
  <2>1. k < io.position /\ buf[k] = disk[FileByte(offset + k)] /\ k \in Nat
    BY DoneRead DEF FrontRead
  <2>2. k < io.asked /\ offset + k < entry.size
    BY <2>1, DoneRead
  <2>. QED BY <2>1, <2>2 DEF InFile
<1>. QED BY <1>1, FatInvariant, PTL

(* And it leaves nothing out where the entries has_successor tests agree     *)
(* with the chain: fat_fs::cluster_io.                                       *)
THEOREM ReadsTheWholeRange == Spec => []WholeRange
<1>1. FatInv => WholeRange
  <2>. SUFFICES ASSUME FatInv, io.phase = "done", io.op = "read", Aligned,
                       offset <= entry.size, TestsAgree,
                       NEW k \in 0 .. io.asked - 1, InFile(k)
                PROVE  buf[k] = disk[FileByte(offset + k)]
    BY DEF WholeRange
  <2>1. k \in 0 .. io.asked - 1 /\ offset + k < entry.size
    BY DEF InFile
  <2>2. k < io.position /\ k \in 0 .. Word - 1
    BY <2>1, DoneRead
  <2>. QED BY <2>2, DoneRead DEF FrontRead
<1>. QED BY <1>1, FatInvariant, PTL

(* A write changes only bytes of the file inside the range it was asked to   *)
(* write: fat_fs_node::write through fat_fs::cluster_io.                     *)
THEOREM WritesOnlyTheFile == Spec => WritesStayInFile
<1>1. FatInv /\ [Next]_vars =>
        [\A a \in DOMAIN disk : disk'[a] # disk[a] /\ Aligned /\ offset <= entry.size =>
           \E k \in 0 .. io.asked - 1 : InFile(k) /\ a = FileByte(offset + k)]_vars
  <2>. SUFFICES ASSUME FatInv, [Next]_vars, NEW a \in DOMAIN disk, disk'[a] # disk[a],
                       Aligned, offset <= entry.size
                PROVE  \E k \in 0 .. io.asked - 1 : InFile(k) /\ a = FileByte(offset + k)
    OBVIOUS
  <2>1. cluster_io /\ io.op # "read"
    BY DEF Next, vars, open_subnode, start, seek, skip_cluster, cluster_io, finish
  <2>2. io.phase = "skip" /\ io.skip_clusters = 0
    BY <2>1 DEF cluster_io
  <2>3. /\ io \in Transfers /\ Transferring /\ VolumeTyped /\ offset \in Nat
    BY <2>2 DEF FatInv, IoTyped, NoIo
  <2>4. disk' = [x \in DOMAIN disk |->
                   IF x \in ReachedNow THEN buf[x - Base + io.position] ELSE disk[x]]
    BY <2>1 DEF cluster_io, Base, ReachedNow
  <2>5. a \in ReachedNow
    BY <2>4
  <2>. DEFINE len == PieceLength
  <2>6. /\ Base \in Int /\ len \in Nat
        /\ \A x : x \in ReachedNow <=> x \in Base .. Base + len - 1
        /\ \A i \in 0 .. len - 1 : Base + i = FileByte(Place + i) /\ io.position + i < io.length
    <3>1. io.remain \in Nat
      BY <2>3 DEF Transfers
    <3>. QED BY <2>2, <3>1, Piece
  <2>. HIDE DEF len
  <2>7. a \in Base .. Base + len - 1
    BY <2>5, <2>6, Zenon
  <2>. DEFINE i == a - Base
              k == io.position + i
  <2>8. i \in 0 .. len - 1 /\ Base + i = a
    BY <2>6, <2>7
  <2>. HIDE DEF i
  <2>9. a = FileByte(Place + i) /\ k < io.length /\ k \in Nat
    BY <2>3, <2>6, <2>8 DEF Transfers
  <2>10. Place + i = offset + k
    BY <2>3, <2>6, <2>8 DEF Place, Transfers
  <2>11. k < io.asked /\ io.asked \in Nat /\ offset + k < entry.size
    <3>1. entry.size \in Nat /\ io.asked \in Nat
      BY <2>3, ChainOfFile DEF Transfers
    <3>. HIDE DEF k
    <3>. QED BY <2>3, <2>9, <3>1 DEF Transferring, Transfers
  <2>. QED
    <3>1. k \in 0 .. io.asked - 1
      BY <2>9, <2>11
    <3>2. InFile(k) /\ a = FileByte(offset + k)
      BY <2>9, <2>10, <2>11 DEF InFile
    <3>. QED BY <3>1, <3>2
<1>. QED BY <1>1, FatInvariant, PTL DEF Spec, WritesStayInFile

=============================================================================
