------------------------ MODULE CloudStorageProofs ------------------------
(***************************************************************************)
(* Proofs about CloudStorage.                                              *)
(***************************************************************************)
EXTENDS CloudStorage, SequenceTheorems, WellFoundedInduction, TLAPS

-----------------------------------------------------------------------------
(* The order of the entries is strict and total.                           *)

\* Less, with the lengths of the paths named.
LessAt(p, m, q, n, i) ==
  /\ 1 <= i /\ i <= n /\ i <= m + 1 /\ \A j \in 1..(i - 1) : p[j] = q[j]
  /\ i = m + 1 \/ p[i] < q[i]

\* What Less says.
LEMMA LessMeans ==
  ASSUME NEW p \in Seq(Nat), NEW q \in Seq(Nat), NEW m \in Nat, m = Len(p),
         NEW n \in Nat, n = Len(q)
  PROVE  Less(p, q) <=> \E i \in Nat : LessAt(p, m, q, n, i)
  <1>1. ASSUME Less(p, q) PROVE \E i \in Nat : LessAt(p, m, q, n, i)
    <2>1. PICK i \in 1..n : /\ i <= m + 1 /\ \A j \in 1..(i - 1) : p[j] = q[j]
                            /\ i = m + 1 \/ p[i] < q[i]
      BY <1>1 DEF Less
    <2>2. i \in Nat /\ 1 <= i /\ i <= n
      OBVIOUS
    <2> QED  BY <2>1, <2>2 DEF LessAt
  <1>2. ASSUME NEW i \in Nat, LessAt(p, m, q, n, i) PROVE Less(p, q)
    <2>1. i \in 1..n
      BY <1>2 DEF LessAt
    <2> QED  BY <1>2, <2>1 DEF Less, LessAt
  <1> QED  BY <1>1, <1>2

\* A name is not before itself.
LEMMA LessIrreflexive ==
  ASSUME NEW p \in Seq(Nat)
  PROVE  ~Less(p, p)
  <1>1. PICK m \in Nat : m = Len(p)
    OBVIOUS
  <1>2. ASSUME NEW i \in Nat, LessAt(p, m, p, m, i) PROVE FALSE
    <2>1. i \in 1..m /\ p[i] < p[i]
      BY <1>2 DEF LessAt
    <2>2. p[i] \in Nat
      BY <1>1, <2>1
    <2> QED  BY <2>1, <2>2
  <1> QED  BY <1>1, <1>2, LessMeans

\* Less is transitive.
LEMMA LessTransitive ==
  ASSUME NEW p \in Seq(Nat), NEW q \in Seq(Nat), NEW r \in Seq(Nat), Less(p, q), Less(q, r)
  PROVE  Less(p, r)
  <1>1. PICK l \in Nat, m \in Nat, n \in Nat : l = Len(p) /\ m = Len(q) /\ n = Len(r)
    OBVIOUS
  <1>2. PICK i \in Nat : LessAt(p, l, q, m, i)
    BY <1>1, LessMeans
  <1>3. PICK k \in Nat : LessAt(q, m, r, n, k)
    BY <1>1, LessMeans
  <1>4. /\ 1 <= i /\ i <= m /\ i <= l + 1 /\ \A j \in 1..(i - 1) : p[j] = q[j]
        /\ i = l + 1 \/ p[i] < q[i]
    BY <1>2 DEF LessAt
  <1>5. /\ 1 <= k /\ k <= n /\ k <= m + 1 /\ \A j \in 1..(k - 1) : q[j] = r[j]
        /\ k = m + 1 \/ q[k] < r[k]
    BY <1>3 DEF LessAt
  <1>6. /\ \A x \in 1..l : p[x] \in Nat
        /\ \A x \in 1..m : q[x] \in Nat
        /\ \A x \in 1..n : r[x] \in Nat
    BY <1>1
  <1>7. \E x \in Nat : LessAt(p, l, r, n, x)
    <2>1. CASE i < k
      <3>1. 1 <= i /\ i <= n /\ i <= l + 1 /\ i \in 1..(k - 1)
        BY <1>4, <1>5, <2>1
      <3>2. \A j \in 1..(i - 1) : j \in 1..(k - 1)
        BY <2>1
      <3>3. \A j \in 1..(i - 1) : p[j] = r[j]
        BY <1>4, <1>5, <3>2
      <3>4. i = l + 1 \/ p[i] < r[i]
        BY <1>4, <1>5, <3>1
      <3> QED  BY <3>1, <3>3, <3>4 DEF LessAt
    <2>2. CASE k < i
      <3>1. 1 <= k /\ k <= n /\ k <= l + 1 /\ k \in 1..(i - 1) /\ k # m + 1
        BY <1>4, <1>5, <2>2
      <3>2. \A j \in 1..(k - 1) : j \in 1..(i - 1)
        BY <2>2
      <3>3. \A j \in 1..(k - 1) : p[j] = r[j]
        BY <1>4, <1>5, <3>2
      <3>4. p[k] < r[k]
        BY <1>4, <1>5, <3>1
      <3> QED  BY <3>1, <3>3, <3>4 DEF LessAt
    <2>3. CASE i = k
      <3>1. 1 <= i /\ i <= n /\ i <= l + 1 /\ k # m + 1 /\ i \in 1..m /\ i \in 1..n
        BY <1>4, <1>5, <2>3
      <3>2. \A j \in 1..(i - 1) : p[j] = r[j]
        BY <1>4, <1>5, <2>3
      <3>3. q[i] < r[i] /\ q[i] \in Nat /\ r[i] \in Nat
        BY <1>5, <1>6, <2>3, <3>1
      <3>4. i = l + 1 \/ p[i] < r[i]
        <4>1. CASE i # l + 1
          <5>1. i \in 1..l
            BY <3>1, <4>1
          <5>2. p[i] \in Nat /\ p[i] < q[i]
            BY <1>4, <1>6, <4>1, <5>1
          <5> QED  BY <3>3, <5>2
        <4> QED  BY <4>1
      <3> QED  BY <3>1, <3>2, <3>4 DEF LessAt
    <2>4. i < k \/ k < i \/ i = k
      OBVIOUS
    <2> QED  BY <2>1, <2>2, <2>3, <2>4
  <1> QED  BY <1>1, <1>7, LessMeans

\* Of two names one is before the other.
LEMMA LessTotal ==
  ASSUME NEW p \in Seq(Nat), NEW q \in Seq(Nat)
  PROVE  Less(p, q) \/ Less(q, p) \/ p = q
  <1>1. PICK m \in Nat, n \in Nat : m = Len(p) /\ n = Len(q)
    OBVIOUS
  <1> DEFINE less == {ss \in Nat \X Nat : ss[1] < ss[2]}
             End(i) == i = m + 1 \/ i = n + 1 \/ p[i] # q[i]
             S == {i \in Nat : 1 <= i /\ i <= m + 1 /\ i <= n + 1 /\ End(i)}
  <1>2. IsWellFoundedOn(less, Nat)
    BY NatLessThanWellFounded, Zenon DEF OpToRel
  <1>3. \A x, y \in Nat : x < y => <<x, y>> \in less
    OBVIOUS
  <1>4. S \subseteq Nat /\ S # {}
    <2>1. CASE m <= n
      <3>1. m + 1 \in S
        BY <2>1
      <3> QED  BY <3>1
    <2>2. CASE n <= m
      <3>1. n + 1 \in S
        BY <2>2
      <3> QED  BY <3>1
    <2>3. m <= n \/ n <= m
      OBVIOUS
    <2> QED  BY <2>1, <2>2, <2>3
  <1>5. \A i : i \in S <=> /\ i \in Nat /\ 1 <= i /\ i <= m + 1 /\ i <= n + 1
                           /\ i = m + 1 \/ i = n + 1 \/ p[i] # q[i]
    OBVIOUS
  <1> HIDE DEF less, S
  <1>6. PICK i \in S : \A j \in S : ~(<<j, i>> \in less)
    BY <1>2, <1>4, WFMin
  <1>7. /\ i \in Nat /\ 1 <= i /\ i <= m + 1 /\ i <= n + 1
        /\ i = m + 1 \/ i = n + 1 \/ p[i] # q[i]
    BY <1>5
  <1>8. ASSUME NEW j \in 1..(i - 1) PROVE p[j] = q[j]
    <2> PICK k \in Nat : k = i /\ k <= m + 1 /\ k <= n + 1
      BY <1>7
    <2> HIDE DEF End
    <2>0. j \in 1..(k - 1)
      OBVIOUS
    <2>1. j \in Nat /\ 1 <= j /\ j < i /\ j <= m /\ j <= n
      <3>1. j \in Nat /\ 1 <= j /\ j < k
        BY <2>0
      <3>2. j <= m /\ j <= n
        BY <3>1
      <3> QED  BY <3>1, <3>2
    <2>2. j \notin S
      BY <1>3, <1>6, <1>7, <2>1
    <2>3. j # m + 1 /\ j # n + 1 /\ j <= m + 1 /\ j <= n + 1
      BY <2>1
    <2> QED  BY <1>5, <2>1, <2>2, <2>3
  <1>9. \A x \in 1..m : p[x] \in Nat
    BY <1>1
  <1>10. \A x \in 1..n : q[x] \in Nat
    BY <1>1
  <1>11. CASE i = m + 1 /\ i = n + 1
    <2>1. m = n /\ i - 1 = m
      BY <1>11
    <2> QED  BY <1>1, <1>8, <2>1, SeqEqual
  <1>12. CASE i = m + 1 /\ i # n + 1
    <2>1. i <= n
      BY <1>7, <1>12
    <2>2. LessAt(p, m, q, n, i)
      BY <1>7, <1>8, <1>12, <2>1 DEF LessAt
    <2> QED  BY <1>1, <1>7, <2>2, LessMeans
  <1>13. CASE i # m + 1 /\ i = n + 1
    <2>1. i <= m
      BY <1>7, <1>13
    <2>2. LessAt(q, n, p, m, i)
      BY <1>7, <1>8, <1>13, <2>1 DEF LessAt
    <2> QED  BY <1>1, <1>7, <2>2, LessMeans
  <1>14. CASE i # m + 1 /\ i # n + 1
    <2>1. i <= m /\ i <= n /\ i \in 1..m /\ i \in 1..n
      BY <1>7, <1>14
    <2>2. p[i] \in Nat /\ q[i] \in Nat /\ p[i] # q[i]
      BY <1>7, <1>9, <1>10, <1>14, <2>1
    <2>3. p[i] < q[i] \/ q[i] < p[i]
      BY <2>2
    <2>4. CASE p[i] < q[i]
      <3>1. LessAt(p, m, q, n, i)
        BY <1>7, <1>8, <2>1, <2>4 DEF LessAt
      <3> QED  BY <1>1, <1>7, <3>1, LessMeans
    <2>5. CASE q[i] < p[i]
      <3>1. LessAt(q, n, p, m, i)
        BY <1>7, <1>8, <2>1, <2>5 DEF LessAt
      <3> QED  BY <1>1, <1>7, <3>1, LessMeans
    <2> QED  BY <2>3, <2>4, <2>5
  <1> QED  BY <1>11, <1>12, <1>13, <1>14

\* Before is a strict total order of the entries.
LEMMA BeforeIrreflexive ==
  ASSUME NEW e \in Entry
  PROVE  ~Before(e, e)
  <1>1. e.key.path \in Seq(Nat)
    BY DEF Entry, Name
  <1> QED  BY <1>1, LessIrreflexive DEF Before

\* It is transitive,
LEMMA BeforeTransitive ==
  ASSUME NEW e \in Entry, NEW f \in Entry, NEW g \in Entry, Before(e, f), Before(f, g)
  PROVE  Before(e, g)
  <1>1. e.key.path \in Seq(Nat) /\ f.key.path \in Seq(Nat) /\ g.key.path \in Seq(Nat)
    BY DEF Entry, Name
  <1>2. Less(e.key.path, f.key.path) /\ Less(f.key.path, g.key.path)
          => Less(e.key.path, g.key.path)
    BY <1>1, LessTransitive
  <1> QED  BY <1>2 DEF Before

\* and total.
LEMMA BeforeTotal ==
  ASSUME NEW e \in Entry, NEW f \in Entry
  PROVE  Before(e, f) \/ Before(f, e) \/ e = f
  <1>1. /\ e.key \in Name /\ f.key \in Name
        /\ e.kind \in {"item", "prefix"} /\ f.kind \in {"item", "prefix"}
    BY DEF Entry
  <1>2. /\ e.key.path \in Seq(Nat) /\ f.key.path \in Seq(Nat)
        /\ e.key.slash \in BOOLEAN /\ f.key.slash \in BOOLEAN
    BY <1>1 DEF Name
  <1>3. Less(e.key.path, f.key.path) \/ Less(f.key.path, e.key.path) \/ e.key.path = f.key.path
    BY <1>2, LessTotal
  <1>4. CASE e.key.path = f.key.path /\ e.key.slash = f.key.slash
    <2>1. e.key = f.key
      BY <1>1, <1>4 DEF Name
    <2>2. e.kind = f.kind => e = f
      BY <2>1 DEF Entry
    <2> QED  BY <1>1, <2>1, <2>2 DEF Before
  <1>5. CASE e.key.path = f.key.path /\ e.key.slash # f.key.slash
    BY <1>2, <1>5 DEF Before
  <1> QED  BY <1>3, <1>4, <1>5 DEF Before

-----------------------------------------------------------------------------
(* Entries, and the names that a listing shows of them.                    *)

\* The names in a bucket are not empty.
Named(bucket) == bucket \subseteq Name /\ \A k \in bucket : k.path # <<>>

Depth(k, prefix) == Len(k.path) - Len(prefix)
Rolled(k, prefix) == [path |-> SubSeq(k.path, 1, Len(prefix) + 1), slash |-> TRUE]
IsDir(k, prefix) == Depth(k, prefix) > 1 \/ (Depth(k, prefix) = 1 /\ k.slash)

\* What is under a directory is as deep as it or deeper, and its marker is the only
\* one that is as deep.
LEMMA UnderDepth ==
  ASSUME NEW bucket, Named(bucket), NEW prefix \in Seq(Nat), NEW k \in Under(bucket, prefix)
  PROVE  /\ k \in Name /\ k \in bucket /\ Depth(k, prefix) \in Nat
         /\ Depth(k, prefix) = 0 => k.path = prefix /\ k.slash
  <1>1. k \in bucket /\ IsPrefix(prefix, k.path) /\ (k.path # prefix \/ k.slash \/ prefix = <<>>)
    BY DEF Under
  <1>2. k \in Name /\ k.path # <<>> /\ k.path \in Seq(Nat)
    BY <1>1 DEF Named, Name
  <1>3. PICK m \in Nat, n \in Nat : m = Len(k.path) /\ n = Len(prefix)
    BY <1>2
  <1>4. n <= m /\ SubSeq(prefix, 1, n) = SubSeq(k.path, 1, n)
    BY <1>1, <1>3 DEF IsPrefix
  <1>5. n <= m
    BY <1>4
  <1>6. m - n \in Nat
    BY <1>5
  <1>7. ASSUME m - n = 0 PROVE k.path = prefix /\ k.slash
    <2>1. m = n
      BY <1>7
    <2>2. SubSeq(prefix, 1, n) = prefix /\ SubSeq(k.path, 1, m) = k.path
      BY <1>2, <1>3, SubSeqFull
    <2>3. k.path = prefix
      BY <1>4, <2>1, <2>2
    <2> QED  BY <1>1, <1>2, <2>3
  <1> QED  BY <1>1, <1>2, <1>3, <1>6, <1>7 DEF Depth

\* What an entry is.
LEMMA EntryForms ==
  ASSUME NEW bucket, NEW prefix, NEW e
  PROVE  e \in Entries(bucket, prefix) <=>
           \E k \in Under(bucket, prefix) :
             \/ Depth(k, prefix) <= 1 /\ e = [key |-> k, kind |-> "item"]
             \/ IsDir(k, prefix) /\ e = [key |-> Rolled(k, prefix), kind |-> "prefix"]
  <1>1. \A k : e \in EntriesOf(k, prefix) <=>
           \/ Depth(k, prefix) <= 1 /\ e = [key |-> k, kind |-> "item"]
           \/ IsDir(k, prefix) /\ e = [key |-> Rolled(k, prefix), kind |-> "prefix"]
    BY DEF EntriesOf, Depth, IsDir, Rolled
  <1>2. e \in Entries(bucket, prefix) <=>
          \E k \in Under(bucket, prefix) : e \in EntriesOf(k, prefix)
    BY DEF Entries
  <1> QED  BY <1>1, <1>2

\* Entries are entries, and prefixes end in a slash.
SetOfEntries(E) == E \subseteq Entry /\ \A e \in E : e.kind = "prefix" => e.key.slash

\* The service lists such entries.
LEMMA EntriesType ==
  ASSUME NEW bucket, Named(bucket), NEW prefix \in Seq(Nat)
  PROVE  SetOfEntries(Entries(bucket, prefix))
  <1>1. SUFFICES ASSUME NEW e \in Entries(bucket, prefix)
                 PROVE  e \in Entry /\ (e.kind = "prefix" => e.key.slash)
    BY DEF SetOfEntries
  <1>2. PICK k \in Under(bucket, prefix) :
             \/ Depth(k, prefix) <= 1 /\ e = [key |-> k, kind |-> "item"]
             \/ IsDir(k, prefix) /\ e = [key |-> Rolled(k, prefix), kind |-> "prefix"]
    BY EntryForms
  <1>3. k \in Name /\ Depth(k, prefix) \in Nat
    BY UnderDepth
  <1>4. CASE e = [key |-> k, kind |-> "item"]
    BY <1>3, <1>4 DEF Entry
  <1>5. CASE IsDir(k, prefix) /\ e = [key |-> Rolled(k, prefix), kind |-> "prefix"]
    <2>1. k.path \in Seq(Nat)
      BY <1>3 DEF Name
    <2>2. PICK m \in Nat, n \in Nat : m = Len(k.path) /\ n = Len(prefix)
      BY <2>1
    <2>3. n + 1 <= m
      BY <1>5, <2>2 DEF IsDir, Depth
    <2>4. \A i \in 1..(n + 1) : i \in 1..m
      BY <2>3
    <2>5. \A i \in 1..(n + 1) : k.path[i] \in Nat
      BY <2>1, <2>2, <2>4
    <2>6. SubSeq(k.path, 1, n + 1) \in Seq(Nat)
      BY <2>5, SubSeqProperties
    <2>7. Rolled(k, prefix) \in Name /\ Rolled(k, prefix).slash
      BY <2>2, <2>6 DEF Rolled, Name
    <2> QED  BY <1>5, <2>7 DEF Entry
  <1> QED  BY <1>2, <1>4, <1>5

\* The names that a listing shows of some entries.
Names(E) ==
  {e.key : e \in {f \in E : f.kind = "prefix"}}
    \union {e.key : e \in {f \in E : f.kind = "item" /\ ~f.key.slash}}

\* ResponseBody::list shows those of its page, each once.
LEMMA ListShows ==
  ASSUME NEW page, SetOfEntries(page.entries)
  PROVE  list(page) = SetToBag(Names(page.entries))
  <1> DEFINE prefixes == KeysOf(page, "prefix")
             items == KeysOf(page, "item")
             shown == {k \in items : k.slash => k \in prefixes}
  <1>1. \A k : k \in prefixes <=> \E e \in page.entries : e.kind = "prefix" /\ k = e.key
    BY DEF KeysOf
  <1>2. \A k : k \in items <=> \E e \in page.entries : e.kind = "item" /\ k = e.key
    BY DEF KeysOf
  <1>3. \A k \in prefixes : k.slash
    BY <1>1 DEF SetOfEntries
  <1>4. \A k : k \in Names(page.entries) <=> k \in prefixes \/ (k \in items /\ ~k.slash)
    BY <1>1, <1>2 DEF Names
  <1>5. list(page) = SetToBag(prefixes \ items) (+) SetToBag(shown)
    BY DEF list
  <1> HIDE DEF prefixes, items
  <1>6. (prefixes \ items) \intersect shown = {}
    OBVIOUS
  <1>7. (prefixes \ items) \union shown = Names(page.entries)
    BY <1>3, <1>4
  <1> HIDE DEF shown
  <1>8. SetToBag(prefixes \ items) (+) SetToBag(shown) = SetToBag((prefixes \ items) \union shown)
    BY <1>6 DEF SetToBag, (+)
  <1> QED  BY <1>5, <1>7, <1>8

\* Together, they are the files and directories in the directory.
LEMMA NamesAreChildren ==
  ASSUME NEW bucket, Named(bucket), NEW path, real_path(path) \in Seq(Nat)
  PROVE  Names(Entries(bucket, real_path(path))) = Children(bucket, path)
  <1> DEFINE dir == real_path(path)
             E == Entries(bucket, dir)
  <1>1. \A n : n \in Children(bucket, path) <=>
           \/ n \in Under(bucket, dir) /\ Depth(n, dir) = 1 /\ ~n.slash
           \/ \E k \in Under(bucket, dir) : IsDir(k, dir) /\ n = Rolled(k, dir)
    BY DEF Children, Depth, IsDir, Rolled
  <1>2. \A n : n \in Names(E) <=>
           \/ \E e \in E : e.kind = "prefix" /\ n = e.key
           \/ \E e \in E : e.kind = "item" /\ ~e.key.slash /\ n = e.key
    BY DEF Names
  <1>3. ASSUME NEW n
        PROVE  (\E e \in E : e.kind = "prefix" /\ n = e.key) <=>
               \E k \in Under(bucket, dir) : IsDir(k, dir) /\ n = Rolled(k, dir)
    <2>1. ASSUME NEW e \in E, e.kind = "prefix", n = e.key
          PROVE  \E k \in Under(bucket, dir) : IsDir(k, dir) /\ n = Rolled(k, dir)
      <3>1. PICK k \in Under(bucket, dir) :
             \/ Depth(k, dir) <= 1 /\ e = [key |-> k, kind |-> "item"]
             \/ IsDir(k, dir) /\ e = [key |-> Rolled(k, dir), kind |-> "prefix"]
        BY EntryForms
      <3> QED  BY <2>1, <3>1
    <2>2. ASSUME NEW k \in Under(bucket, dir), IsDir(k, dir), n = Rolled(k, dir)
          PROVE  \E e \in E : e.kind = "prefix" /\ n = e.key
      <3> DEFINE e == [key |-> Rolled(k, dir), kind |-> "prefix"]
      <3>1. e \in E
        BY <2>2, EntryForms
      <3>2. e.kind = "prefix" /\ n = e.key
        BY <2>2
      <3> QED  BY <3>1, <3>2
    <2> QED  BY <2>1, <2>2
  <1>4. ASSUME NEW n
        PROVE  (\E e \in E : e.kind = "item" /\ ~e.key.slash /\ n = e.key) <=>
               n \in Under(bucket, dir) /\ Depth(n, dir) <= 1 /\ ~n.slash
    <2>1. ASSUME NEW e \in E, e.kind = "item", ~e.key.slash, n = e.key
          PROVE  n \in Under(bucket, dir) /\ Depth(n, dir) <= 1 /\ ~n.slash
      <3>1. PICK k \in Under(bucket, dir) :
             \/ Depth(k, dir) <= 1 /\ e = [key |-> k, kind |-> "item"]
             \/ IsDir(k, dir) /\ e = [key |-> Rolled(k, dir), kind |-> "prefix"]
        BY EntryForms
      <3> QED  BY <2>1, <3>1
    <2>2. ASSUME n \in Under(bucket, dir), Depth(n, dir) <= 1, ~n.slash
          PROVE  \E e \in E : e.kind = "item" /\ ~e.key.slash /\ n = e.key
      <3> DEFINE e == [key |-> n, kind |-> "item"]
      <3>1. e \in E
        BY <2>2, EntryForms
      <3>2. e.kind = "item" /\ ~e.key.slash /\ n = e.key
        BY <2>2
      <3> QED  BY <3>1, <3>2
    <2> QED  BY <2>1, <2>2
  <1>5. ASSUME NEW n \in Under(bucket, dir), ~n.slash
        PROVE  Depth(n, dir) <= 1 <=> Depth(n, dir) = 1
    <2>1. Depth(n, dir) \in Nat /\ Depth(n, dir) # 0
      BY <1>5, UnderDepth
    <2> QED  BY <2>1
  <1>6. ASSUME NEW n PROVE n \in Names(E) <=> n \in Children(bucket, path)
    <2>1. n \in Names(E) <=>
           \/ \E k \in Under(bucket, dir) : IsDir(k, dir) /\ n = Rolled(k, dir)
           \/ n \in Under(bucket, dir) /\ Depth(n, dir) <= 1 /\ ~n.slash
      BY <1>2, <1>3, <1>4
    <2> QED  BY <1>1, <1>5, <2>1
  <1> HIDE DEF E, dir
  <1>7. Names(E) = Children(bucket, path)
    BY <1>6
  <1> QED  BY <1>7 DEF E, dir

-----------------------------------------------------------------------------
(* Pages.                                                                  *)

\* A page ends the listing or goes up to its page token.
LEMMA PageForms ==
  ASSUME NEW bucket, Named(bucket), NEW prefix \in Seq(Nat), NEW after,
         NEW page \in Pages(bucket, prefix, after)
  PROVE  LET rest == Rest(bucket, prefix, after)
         IN  /\ page.entries \subseteq rest
             /\ rest # {} => page.entries # {}
             /\ page.next = NoEntry <=> page.entries = rest
             /\ page.next # NoEntry =>
                  /\ page.next \in rest
                  /\ page.entries = {e \in rest : e = page.next \/ Before(e, page.next)}
  <1> DEFINE rest == Rest(bucket, prefix, after)
  <1>1. rest \subseteq Entry
    BY EntriesType DEF SetOfEntries, Rest
  <1>2. page \in IF rest = {} THEN {[entries |-> {}, next |-> NoEntry]}
                 ELSE {Page(rest, last) : last \in rest}
    BY DEF Pages
  <1> HIDE DEF rest
  <1>3. CASE rest = {}
    <2>1. page.entries = {} /\ page.next = NoEntry
      BY <1>2, <1>3
    <2> QED  BY <1>3, <2>1 DEF rest
  <1>4. CASE rest # {}
    <2>1. PICK last \in rest : page = Page(rest, last)
      BY <1>2, <1>4
    <2>2. /\ page.entries = {e \in rest : e = last \/ Before(e, last)}
          /\ page.next = IF page.entries = rest THEN NoEntry ELSE last
      BY <2>1 DEF Page
    <2>3. last # NoEntry /\ last \in page.entries /\ page.entries \subseteq rest
      BY <1>1, <2>2, CloudAssumption
    <2>4. page.next = NoEntry <=> page.entries = rest
      BY <2>2, <2>3
    <2>5. page.next # NoEntry => page.next = last
      BY <2>2
    <2> QED  BY <2>2, <2>3, <2>4, <2>5 DEF rest
  <1> QED  BY <1>3, <1>4

\* The entries up to a page token.
Seen(bucket, prefix, after) ==
  IF after = NoEntry THEN {}
  ELSE {e \in Entries(bucket, prefix) : e = after \/ Before(e, after)}

\* A page adds to what was seen what was not, and the last one all of it.
LEMMA PageAdds ==
  ASSUME NEW bucket, Named(bucket), NEW prefix \in Seq(Nat),
         NEW after \in Entry \union {NoEntry},
         NEW page \in Pages(bucket, prefix, after)
  PROVE  LET seen == Seen(bucket, prefix, after)
         IN  /\ seen \intersect page.entries = {}
             /\ seen \union page.entries =
                  IF page.next = NoEntry THEN Entries(bucket, prefix)
                  ELSE Seen(bucket, prefix, page.next)
  <1> DEFINE E == Entries(bucket, prefix)
             rest == Rest(bucket, prefix, after)
             seen == Seen(bucket, prefix, after)
  <1>1. E \subseteq Entry
    BY EntriesType DEF SetOfEntries
  <1>2. /\ page.entries \subseteq rest
        /\ page.next = NoEntry => page.entries = rest
        /\ page.next # NoEntry =>
             /\ page.next \in rest
             /\ page.entries = {e \in rest : e = page.next \/ Before(e, page.next)}
    BY PageForms
  <1>3. \A e : e \in rest <=> e \in E /\ (after = NoEntry \/ Before(after, e))
    BY DEF Rest
  <1>4. \A e : e \in seen <=> e \in E /\ after # NoEntry /\ (e = after \/ Before(e, after))
    BY DEF Seen
  <1>5. \A e : e \in Seen(bucket, prefix, page.next) <=>
                 e \in E /\ page.next # NoEntry /\ (e = page.next \/ Before(e, page.next))
    BY DEF Seen
  <1> HIDE DEF E, rest, seen
  <1>6. ASSUME NEW e \in seen, e \in rest PROVE FALSE
    <2>1. e \in Entry /\ after \in Entry /\ Before(after, e) /\ (e = after \/ Before(e, after))
      BY <1>1, <1>3, <1>4, <1>6
    <2>2. CASE e = after
      BY <2>1, <2>2, BeforeIrreflexive
    <2>3. CASE Before(e, after)
      <3>1. Before(e, e)
        BY <2>1, <2>3, BeforeTransitive
      <3> QED  BY <2>1, <3>1, BeforeIrreflexive
    <2> QED  BY <2>1, <2>2, <2>3
  <1>7. seen \intersect page.entries = {}
    BY <1>2, <1>6
  <1>8. ASSUME NEW e \in E PROVE e \in seen \/ e \in rest
    <2>1. CASE after = NoEntry
      BY <1>3, <2>1
    <2>2. CASE after \in Entry
      <3>1. Before(e, after) \/ Before(after, e) \/ e = after
        BY <1>1, <2>2, BeforeTotal
      <3> QED  BY <1>3, <1>4, <3>1
    <2> QED  BY <2>1, <2>2
  <1>9. CASE page.next = NoEntry
    <2>1. seen \union page.entries = E
      BY <1>2, <1>3, <1>4, <1>8, <1>9
    <2> QED  BY <1>7, <1>9, <2>1 DEF seen, E
  <1>10. CASE page.next # NoEntry
    <2>1. page.next \in rest /\ page.next \in E /\ page.next \in Entry
      BY <1>1, <1>2, <1>3, <1>10
    <2>2. ASSUME NEW e \in seen PROVE e \in Seen(bucket, prefix, page.next)
      <3>1. e \in E /\ e \in Entry /\ after \in Entry /\ (e = after \/ Before(e, after))
        BY <1>1, <1>4
      <3>2. Before(after, page.next)
        BY <1>3, <2>1, <3>1, CloudAssumption
      <3>3. Before(e, page.next)
        BY <2>1, <3>1, <3>2, BeforeTransitive
      <3> QED  BY <1>5, <1>10, <3>1, <3>3
    <2>3. ASSUME NEW e \in page.entries PROVE e \in Seen(bucket, prefix, page.next)
      BY <1>2, <1>3, <1>5, <1>10
    <2>4. ASSUME NEW e \in Seen(bucket, prefix, page.next), e \notin seen
          PROVE  e \in page.entries
      <3>1. e \in rest
        BY <1>5, <1>8, <2>4
      <3> QED  BY <1>2, <1>5, <1>10, <3>1
    <2>5. seen \union page.entries = Seen(bucket, prefix, page.next)
      BY <2>2, <2>3, <2>4
    <2> QED  BY <1>7, <1>10, <2>5 DEF seen
  <1> QED  BY <1>9, <1>10

\* The names of disjoint sets of entries are different.
LEMMA NamesOfBoth ==
  ASSUME NEW E, NEW F, SetOfEntries(E), SetOfEntries(F), E \intersect F = {}
  PROVE  SetToBag(Names(E)) (+) SetToBag(Names(F)) = SetToBag(Names(E \union F))
  <1>1. ASSUME NEW e \in E, NEW f \in F, e.key = f.key, e.kind = f.kind PROVE FALSE
    <2>1. e \in Entry /\ f \in Entry
      BY DEF SetOfEntries
    <2>2. e = f
      BY <1>1, <2>1 DEF Entry
    <2> QED  BY <2>2
  <1>2. \A n : n \in Names(E) <=>
           \E e \in E : n = e.key /\ (e.kind = "prefix" \/ (e.kind = "item" /\ ~e.key.slash))
    BY DEF Names
  <1>3. \A n : n \in Names(F) <=>
           \E e \in F : n = e.key /\ (e.kind = "prefix" \/ (e.kind = "item" /\ ~e.key.slash))
    BY DEF Names
  <1>4. \A n : n \in Names(E \union F) <=>
           \E e \in E \union F :
              n = e.key /\ (e.kind = "prefix" \/ (e.kind = "item" /\ ~e.key.slash))
    BY DEF Names
  <1>5. Names(E) \intersect Names(F) = {}
    <2>1. SUFFICES ASSUME NEW n \in Names(E), n \in Names(F) PROVE FALSE
      OBVIOUS
    <2>2. PICK e \in E : n = e.key /\ (e.kind = "prefix" \/ (e.kind = "item" /\ ~e.key.slash))
      BY <1>2
    <2>3. PICK f \in F : n = f.key /\ (f.kind = "prefix" \/ (f.kind = "item" /\ ~f.key.slash))
      BY <1>3, <2>1
    <2>4. /\ e.kind = "prefix" => e.key.slash
          /\ f.kind = "prefix" => f.key.slash
      BY DEF SetOfEntries
    <2> QED  BY <1>1, <2>2, <2>3, <2>4
  <1>6. Names(E) \union Names(F) = Names(E \union F)
    BY <1>2, <1>3, <1>4
  <1>7. SetToBag(Names(E)) (+) SetToBag(Names(F)) = SetToBag(Names(E) \union Names(F))
    BY <1>5 DEF SetToBag, (+)
  <1> QED  BY <1>6, <1>7

-----------------------------------------------------------------------------
(* What the first page tells of a directory.                               *)

\* The first page is empty if nothing is under the directory.
LEMMA FirstPage ==
  ASSUME NEW bucket, Named(bucket), NEW prefix \in Seq(Nat),
         NEW page \in Pages(bucket, prefix, NoEntry)
  PROVE  /\ Rest(bucket, prefix, NoEntry) = Entries(bucket, prefix)
         /\ dir_exists(page) <=> Under(bucket, prefix) # {}
  <1>1. Rest(bucket, prefix, NoEntry) = Entries(bucket, prefix)
    BY DEF Rest
  <1>2. dir_exists(page) <=> Entries(bucket, prefix) # {}
    BY <1>1, PageForms DEF dir_exists
  <1>3. ASSUME NEW k \in Under(bucket, prefix) PROVE Entries(bucket, prefix) # {}
    <2>1. Depth(k, prefix) \in Nat
      BY UnderDepth
    <2>2. Depth(k, prefix) <= 1 \/ IsDir(k, prefix)
      BY <2>1 DEF IsDir
    <2>3. CASE Depth(k, prefix) <= 1
      <3>1. [key |-> k, kind |-> "item"] \in Entries(bucket, prefix)
        BY <2>3, EntryForms
      <3> QED  BY <3>1
    <2>4. CASE IsDir(k, prefix)
      <3>1. [key |-> Rolled(k, prefix), kind |-> "prefix"] \in Entries(bucket, prefix)
        BY <2>4, EntryForms
      <3> QED  BY <3>1
    <2> QED  BY <2>2, <2>3, <2>4
  <1>4. Entries(bucket, prefix) # {} => Under(bucket, prefix) # {}
    BY EntryForms
  <1> QED  BY <1>1, <1>2, <1>3, <1>4

\* When ResponseBody::dir_empty says so, there is at most the marker.
LEMMA EmptyHasMarker ==
  ASSUME NEW bucket, Named(bucket), NEW path, real_path(path) \in Seq(Nat),
         NEW page \in Pages(bucket, real_path(path), NoEntry), dir_empty(page)
  PROVE  Under(bucket, real_path(path)) \subseteq {Marker(path)}
  <1> DEFINE dir == real_path(path)
  <1>1. page.entries = Entries(bucket, dir)
    BY PageForms, FirstPage DEF dir_empty
  <1>2. /\ KeysOf(page, "prefix") = {}
        /\ \E i \in KeysOf(page, "item") : KeysOf(page, "item") = {i} /\ i.slash
    BY DEF dir_empty
  <1>3. SUFFICES ASSUME NEW k \in Under(bucket, dir) PROVE k = Marker(path)
    OBVIOUS
  <1>4. k \in Name /\ Depth(k, dir) \in Nat /\ (Depth(k, dir) = 0 => k.path = dir /\ k.slash)
    BY UnderDepth
  <1>5. ~IsDir(k, dir)
    <2>1. SUFFICES ASSUME IsDir(k, dir) PROVE FALSE
      OBVIOUS
    <2> DEFINE e == [key |-> Rolled(k, dir), kind |-> "prefix"]
    <2>2. e \in page.entries
      BY <1>1, <2>1, EntryForms
    <2>3. e.key \in KeysOf(page, "prefix")
      BY <2>2 DEF KeysOf
    <2> QED  BY <1>2, <2>3
  <1>6. Depth(k, dir) <= 1
    BY <1>4, <1>5 DEF IsDir
  <1>7. k.slash
    <2> DEFINE e == [key |-> k, kind |-> "item"]
    <2>1. e \in page.entries
      BY <1>1, <1>6, EntryForms
    <2>2. e.key \in KeysOf(page, "item")
      BY <2>1 DEF KeysOf
    <2> QED  BY <1>2, <2>2
  <1>8. Depth(k, dir) = 0
    BY <1>4, <1>5, <1>6, <1>7 DEF IsDir
  <1> QED  BY <1>4, <1>7, <1>8 DEF Marker, Name

\* When it does not, and there is something, there is something else.
LEMMA OthersUnder ==
  ASSUME NEW bucket, Named(bucket), NEW path, real_path(path) \in Seq(Nat),
         NEW page \in Pages(bucket, real_path(path), NoEntry),
         dir_exists(page), ~dir_empty(page)
  PROVE  Under(bucket, real_path(path)) \ {Marker(path)} # {}
  <1> DEFINE dir == real_path(path)
             m == [key |-> Marker(path), kind |-> "item"]
  <1>1. SUFFICES ASSUME Under(bucket, dir) \subseteq {Marker(path)} PROVE FALSE
    OBVIOUS
  <1>2. /\ page.entries \subseteq Entries(bucket, dir) /\ page.entries # {}
        /\ page.next = NoEntry <=> page.entries = Entries(bucket, dir)
    <2>1. Rest(bucket, dir, NoEntry) = Entries(bucket, dir)
      BY FirstPage
    <2>2. /\ page.entries \subseteq Rest(bucket, dir, NoEntry)
          /\ page.next = NoEntry <=> page.entries = Rest(bucket, dir, NoEntry)
      BY PageForms
    <2> QED  BY <2>1, <2>2 DEF dir_exists
  <1>3. Depth(Marker(path), dir) = 0
    <2>1. Len(real_path(path)) \in Nat
      OBVIOUS
    <2>2. Marker(path).path = dir
      BY DEF Marker
    <2> QED  BY <2>1, <2>2 DEF Depth
  <1>4. ~IsDir(Marker(path), dir)
    BY <1>3 DEF IsDir
  <1>5. \A e \in Entries(bucket, dir) : e = m
    BY <1>1, <1>4, EntryForms
  <1>6. page.entries = {m} /\ page.next = NoEntry
    BY <1>2, <1>5
  <1>7. KeysOf(page, "prefix") = {} /\ KeysOf(page, "item") = {Marker(path)}
    <2>1. m.kind = "item" /\ m.key = Marker(path)
      OBVIOUS
    <2> HIDE DEF m
    <2>2. \A k : k \in KeysOf(page, "prefix") <=> \E e \in {m} : e.kind = "prefix" /\ k = e.key
      BY <1>6 DEF KeysOf
    <2>3. \A k : k \in KeysOf(page, "item") <=> \E e \in {m} : e.kind = "item" /\ k = e.key
      BY <1>6 DEF KeysOf
    <2>4. KeysOf(page, "prefix") = {}
      BY <2>1, <2>2
    <2>5. KeysOf(page, "item") = {Marker(path)}
      BY <2>1, <2>3
    <2> QED  BY <2>4, <2>5
  <1>8. Marker(path).slash
    BY DEF Marker
  <1> QED  BY <1>6, <1>7, <1>8 DEF dir_empty

-----------------------------------------------------------------------------
(* Listings that others interfere with.                                    *)

\* The entry that makes a listing show a name.
EntryOf(n) == [key |-> n, kind |-> IF n.slash THEN "prefix" ELSE "item"]
UpTo(e, f) == e = f \/ Before(e, f)

\* It is among the entries if the name is among theirs.
LEMMA NameEntry ==
  ASSUME NEW E, SetOfEntries(E), NEW n \in Name
  PROVE  EntryOf(n) \in Entry /\ (n \in Names(E) <=> EntryOf(n) \in E)
  <1>1. n.slash \in BOOLEAN
    BY DEF Name
  <1>2. EntryOf(n) \in Entry /\ EntryOf(n).key = n
        /\ EntryOf(n).kind = IF n.slash THEN "prefix" ELSE "item"
    BY DEF EntryOf, Entry
  <1>3. n \in Names(E) <=>
           \E e \in E : n = e.key /\ (e.kind = "prefix" \/ (e.kind = "item" /\ ~e.key.slash))
    BY DEF Names
  <1>4. ASSUME NEW e \in E, n = e.key, e.kind = "prefix" \/ (e.kind = "item" /\ ~e.key.slash)
        PROVE  e = EntryOf(n)
    <2>1. e \in Entry /\ (e.kind = "prefix" => e.key.slash)
      BY DEF SetOfEntries
    <2>2. e = [key |-> e.key, kind |-> e.kind]
      BY <2>1 DEF Entry
    <2>3. e.kind = IF n.slash THEN "prefix" ELSE "item"
      BY <1>4, <2>1
    <2> QED  BY <1>4, <2>2, <2>3 DEF EntryOf
  <1>5. ASSUME EntryOf(n) \in E PROVE n \in Names(E)
    <2>1. \/ EntryOf(n).kind = "prefix"
          \/ EntryOf(n).kind = "item" /\ ~EntryOf(n).key.slash
      BY <1>1, <1>2
    <2> QED  BY <1>2, <1>3, <1>5, <2>1
  <1> QED  BY <1>2, <1>3, <1>4, <1>5

\* What a listing B up to a page token, or all of it, has to do with the names that were
\* there all the time and at some time: it shows each of the former that the token has
\* passed, only of the latter, each once and none that the token has not passed.
Recalls(B, after, done, always, ever) ==
  /\ \A n \in DOMAIN B : n \in ever /\ B[n] = 1
  /\ ~done => \A n \in DOMAIN B : after # NoEntry /\ UpTo(EntryOf(n), after)
  /\ \A n \in always :
       done \/ (after # NoEntry /\ UpTo(EntryOf(n), after)) => n \in DOMAIN B

\* A page of the bucket as it is by then keeps it so.
LEMMA PageRecalls ==
  ASSUME NEW bucket, Named(bucket), NEW path, real_path(path) \in Seq(Nat),
         NEW after \in Entry \union {NoEntry},
         NEW page \in Pages(bucket, real_path(path), after),
         NEW always \in SUBSET Name, NEW ever \in SUBSET Name, NEW B,
         always \subseteq Children(bucket, path), Children(bucket, path) \subseteq ever,
         Recalls(B, after, FALSE, always, ever)
  PROVE  Recalls(B (+) list(page), page.next, page.next = NoEntry, always, ever)
  <1> DEFINE E == Entries(bucket, real_path(path))
             rest == Rest(bucket, real_path(path), after)
             new == Names(page.entries)
             C == B (+) list(page)
  <1>1. SetOfEntries(E) /\ E \subseteq Entry
    BY EntriesType DEF SetOfEntries
  <1>2. \A e : e \in rest <=> e \in E /\ (after = NoEntry \/ Before(after, e))
    BY DEF Rest
  <1>3. /\ page.entries \subseteq rest
        /\ page.next = NoEntry => page.entries = rest
        /\ page.next # NoEntry =>
             /\ page.next \in rest
             /\ \A e : e \in page.entries <=> e \in rest /\ UpTo(e, page.next)
    BY PageForms DEF UpTo
  <1>4. SetOfEntries(page.entries)
    BY <1>1, <1>2, <1>3 DEF SetOfEntries
  <1>5. list(page) = SetToBag(new)
    BY <1>4, ListShows
  <1>6. Names(E) = Children(bucket, path)
    BY NamesAreChildren
  <1>7. /\ \A n \in DOMAIN B : n \in ever /\ B[n] = 1
        /\ \A n \in DOMAIN B : after # NoEntry /\ UpTo(EntryOf(n), after)
        /\ \A n \in always : after # NoEntry /\ UpTo(EntryOf(n), after) => n \in DOMAIN B
    BY DEF Recalls
  <1>8. new \subseteq Name
    BY <1>4 DEF Names, SetOfEntries, Entry
  <1>9. ASSUME NEW n \in Name
        PROVE  /\ EntryOf(n) \in Entry
               /\ n \in new <=> EntryOf(n) \in page.entries
               /\ n \in Children(bucket, path) <=> EntryOf(n) \in E
    BY <1>1, <1>4, <1>6, NameEntry
  <1> HIDE DEF E, rest, new
  <1>10. ASSUME NEW e \in Entry, after # NoEntry, UpTo(e, after), Before(after, e) PROVE FALSE
    <2>1. after \in Entry
      BY <1>10
    <2>2. CASE e = after
      BY <1>10, <2>2, BeforeIrreflexive
    <2>3. CASE Before(e, after)
      <3>1. Before(e, e)
        BY <1>10, <2>1, <2>3, BeforeTransitive
      <3> QED  BY <3>1, BeforeIrreflexive
    <2> QED  BY <1>10, <2>2, <2>3 DEF UpTo
  <1>11. DOMAIN B \intersect new = {}
    <2>1. SUFFICES ASSUME NEW n \in DOMAIN B, n \in new PROVE FALSE
      OBVIOUS
    <2>2. n \in Name /\ after # NoEntry /\ UpTo(EntryOf(n), after)
      BY <1>7, <1>8, <2>1
    <2>3. EntryOf(n) \in Entry /\ EntryOf(n) \in rest
      BY <1>3, <1>9, <2>1, <2>2
    <2>4. Before(after, EntryOf(n))
      BY <1>2, <2>2, <2>3
    <2> QED  BY <1>10, <2>2, <2>3, <2>4
  <1>12. /\ DOMAIN C = DOMAIN B \union new
         /\ \A n \in DOMAIN B : C[n] = 1
         /\ \A n \in new : C[n] = 1
    <2>1. /\ DOMAIN C = DOMAIN B \union new
          /\ \A n \in DOMAIN B \union new :
               C[n] = (IF n \in DOMAIN B THEN B[n] ELSE 0) + (IF n \in new THEN 1 ELSE 0)
      BY <1>5 DEF SetToBag, (+)
    <2> HIDE DEF C
    <2>2. ASSUME NEW n \in DOMAIN B PROVE C[n] = 1
      <3>1. B[n] = 1 /\ n \notin new
        BY <1>7, <1>11
      <3> QED  BY <2>1, <3>1
    <2>3. ASSUME NEW n \in new PROVE C[n] = 1
      <3>1. n \notin DOMAIN B
        BY <1>11
      <3> QED  BY <2>1, <3>1
    <2> QED  BY <2>1, <2>2, <2>3
  <1> HIDE DEF C
  <1>13. ASSUME NEW n \in DOMAIN C PROVE n \in ever /\ C[n] = 1
    <2>1. CASE n \in DOMAIN B
      BY <1>7, <1>12, <2>1
    <2>2. CASE n \in new
      <3>1. n \in Name /\ EntryOf(n) \in E
        BY <1>2, <1>3, <1>8, <1>9, <2>2
      <3> QED  BY <1>9, <1>12, <2>2, <3>1
    <2> QED  BY <1>12, <2>1, <2>2
  <1>14. ASSUME page.next # NoEntry, NEW n \in DOMAIN C PROVE UpTo(EntryOf(n), page.next)
    <2>1. CASE n \in DOMAIN B
      <3>1. n \in Name /\ after # NoEntry /\ UpTo(EntryOf(n), after) /\ after \in Entry
        BY <1>7, <2>1
      <3>2. page.next \in Entry /\ Before(after, page.next)
        BY <1>1, <1>2, <1>3, <1>14, <3>1
      <3>3. EntryOf(n) \in Entry
        BY <1>9, <3>1
      <3>4. Before(EntryOf(n), page.next)
        <4>1. CASE EntryOf(n) = after
          BY <3>2, <4>1
        <4>2. CASE Before(EntryOf(n), after)
          BY <3>1, <3>2, <3>3, <4>2, BeforeTransitive
        <4> QED  BY <3>1, <4>1, <4>2 DEF UpTo
      <3> QED  BY <3>4 DEF UpTo
    <2>2. CASE n \in new
      BY <1>3, <1>8, <1>9, <1>14, <2>2
    <2> QED  BY <1>12, <2>1, <2>2
  <1>15. ASSUME NEW n \in always,
                page.next = NoEntry \/ (page.next # NoEntry /\ UpTo(EntryOf(n), page.next))
         PROVE  n \in DOMAIN C
    <2>1. n \in Name /\ EntryOf(n) \in E /\ EntryOf(n) \in Entry
      BY <1>9
    <2>2. CASE EntryOf(n) \in rest
      <3>1. EntryOf(n) \in page.entries
        BY <1>3, <1>15, <2>2
      <3> QED  BY <1>9, <1>12, <2>1, <3>1
    <2>3. CASE EntryOf(n) \notin rest
      <3>1. after # NoEntry /\ after \in Entry /\ ~Before(after, EntryOf(n))
        BY <1>2, <2>1, <2>3
      <3>2. UpTo(EntryOf(n), after)
        BY <2>1, <3>1, BeforeTotal DEF UpTo
      <3> QED  BY <1>7, <1>12, <3>1, <3>2
    <2> QED  BY <2>2, <2>3
  <1>16. Recalls(C, page.next, page.next = NoEntry, always, ever)
    BY <1>13, <1>14, <1>15 DEF Recalls
  <1> QED  BY <1>16 DEF C

-----------------------------------------------------------------------------
(* The inductive invariant.                                                *)

\* The listing of an operation, whatever it shows.
Listing == UNION {[S -> Nat] : S \in SUBSET Name}

Op == [command : Commands, path : Paths, pc : {"request", "done"}, step : {1, 2},
       after : Entry \union {NoEntry}, dirlist : Listing,
       stable : BOOLEAN, always : SUBSET Name, ever : SUBSET Name,
       result : {"", "ok", "PermanentDirectoryNotAvailable", "PermanentDirectoryNotEmpty"}]

\* The types of the variables; what adds an object can name it.
TypeOK ==
  /\ objects \subseteq Keys
  /\ ops \in [Sessions -> {Idle} \union Op]
  /\ \A s \in Sessions : ops[s] # Idle /\ ops[s].command \in {"PUT", "MKD"} => ops[s].path \in Nameable

\* Between its two requests, RMD knows that there is at most the marker.
RmdKnows(o, bucket) ==
  o.command = "RMD" /\ o.step = 2 /\ o.pc # "done" =>
    Under(bucket, real_path(o.path)) \subseteq {Marker(o.path)}

\* What RMD and CWD answer.
AnswerKnows(o, bucket) ==
  LET left == Under(bucket, real_path(o.path))
  IN  o.command \in {"RMD", "CWD"} /\ o.pc = "done" =>
        /\ o.result \in {"ok", "PermanentDirectoryNotAvailable", "PermanentDirectoryNotEmpty"}
        /\ o.result = "ok" => ((left = {}) <=> (o.command = "RMD"))
        /\ o.result = "PermanentDirectoryNotEmpty" => left \ {Marker(o.path)} # {}
        /\ o.result = "PermanentDirectoryNotAvailable" => left = {}

\* A listing under way shows what was seen, and a complete one all there is.
ListKnows(o, bucket) ==
  o.command = "LIST" =>
    o.dirlist = SetToBag(IF o.pc = "done" THEN Children(bucket, o.path)
                         ELSE Names(Seen(bucket, real_path(o.path), o.after)))

\* What it shows when others change the bucket.
ListRecalls(o, bucket) ==
  o.command = "LIST" =>
    /\ o.always \subseteq Children(bucket, o.path) /\ Children(bucket, o.path) \subseteq o.ever
    /\ Recalls(o.dirlist, o.after, o.pc = "done", o.always, o.ever)

\* What an operation knows, and what more while nobody else changes the bucket.
Knows(o, bucket) ==
  /\ o.stable =>
       /\ o.path # <<>> => RmdKnows(o, bucket) /\ AnswerKnows(o, bucket)
       /\ ListKnows(o, bucket)
  /\ ListRecalls(o, bucket)

CloudInv == TypeOK /\ \A s \in Sessions : ops[s] # Idle => Knows(ops[s], objects)

\* What an operation may become, given the bucket.
Fits(o, bucket) ==
  o = Idle \/ (o \in Op /\ (o.command \in {"PUT", "MKD"} => o.path \in Nameable) /\ Knows(o, bucket))

\* A step of one session that leaves the bucket alone.
LEMMA SetFits ==
  ASSUME CloudInv, NEW s \in Sessions, NEW op, Set(s, op), Fits(op, objects),
         objects' = objects
  PROVE  CloudInv'
  <1>1. TypeOK /\ \A t \in Sessions : ops[t] # Idle => Knows(ops[t], objects)
    BY DEF CloudInv
  <1>2. ops \in [Sessions -> {Idle} \union Op] /\ objects \subseteq Keys
    BY <1>1 DEF TypeOK
  <1>3. op \in {Idle} \union Op
    BY DEF Fits
  <1>4. /\ ops' \in [Sessions -> {Idle} \union Op]
        /\ ops'[s] = op /\ \A t \in Sessions : t # s => ops'[t] = ops[t]
    BY <1>2, <1>3 DEF Set
  <1>5. ASSUME NEW t \in Sessions, ops'[t] # Idle
        PROVE  /\ ops'[t].command \in {"PUT", "MKD"} => ops'[t].path \in Nameable
               /\ Knows(ops'[t], objects)
    <2>1. CASE t = s
      BY <1>4, <1>5, <2>1 DEF Fits
    <2>2. CASE t # s
      BY <1>1, <1>4, <1>5, <2>2 DEF TypeOK
    <2> QED  BY <2>1, <2>2
  <1>6. TypeOK'
    BY <1>2, <1>4, <1>5 DEF TypeOK
  <1> QED  BY <1>5, <1>6 DEF CloudInv

\* The names that clients name.
LEMMA PathNames ==
  ASSUME NEW path \in Paths
  PROVE  /\ real_path(path) \in Seq(Nat)
         /\ File(path) \in Name /\ Marker(path) \in Name
         /\ path \in Nameable => File(path) \in Keys /\ Marker(path) \in Keys
  <1>1. path \in Seq(Nat) /\ BucketRoot \in Seq(Nat)
    BY CloudAssumption
  <1>2. real_path(path) \in Seq(Nat)
    BY <1>1 DEF real_path
  <1>3. File(path) \in Name /\ Marker(path) \in Name
    BY <1>2 DEF File, Marker, Name
  <1>4. path \in Nameable => File(path) \in Keys /\ Marker(path) \in Keys
    BY DEF Keys
  <1> QED  BY <1>2, <1>3, <1>4

\* And so those in the bucket.
LEMMA KeysNamed ==
  ASSUME NEW bucket \in SUBSET Keys
  PROVE  Named(bucket)
  <1>1. ASSUME NEW k \in Keys PROVE k \in Name /\ k.path # <<>>
    <2>1. PICK p \in Nameable : k = File(p) \/ k = Marker(p)
      BY DEF Keys
    <2>2. real_path(p) # <<>> /\ File(p) \in Name /\ Marker(p) \in Name
      BY PathNames DEF Nameable
    <2>3. File(p).path = real_path(p) /\ Marker(p).path = real_path(p)
      BY DEF File, Marker
    <2> QED  BY <2>1, <2>2, <2>3
  <1> QED  BY <1>1 DEF Named

\* What is listed has a name.
LEMMA ChildrenNamed ==
  ASSUME NEW bucket \in SUBSET Keys, NEW path \in Paths
  PROVE  Children(bucket, path) \in SUBSET Name
  <1>1. real_path(path) \in Seq(Nat) /\ Named(bucket)
    BY PathNames, KeysNamed
  <1>2. SetOfEntries(Entries(bucket, real_path(path)))
    BY <1>1, EntriesType
  <1>3. Names(Entries(bucket, real_path(path))) \subseteq Name
    BY <1>2 DEF Names, SetOfEntries, Entry
  <1> QED  BY <1>1, <1>3, NamesAreChildren

\* An operation that others interfere with.
LEMMA DisturbedFits ==
  ASSUME NEW o \in Op, NEW bucket, NEW new \in SUBSET Keys, Knows(o, bucket),
         o.command \in {"PUT", "MKD"} => o.path \in Nameable
  PROVE  Fits(Disturbed(o, new), new)
  <1> DEFINE kids == Relevant(o.command, o.path, new)
             n == Disturbed(o, new)
  <1>1. o.path \in Paths /\ o.always \in SUBSET Name /\ o.ever \in SUBSET Name
    BY DEF Op
  <1>2. Children(new, o.path) \in SUBSET Name
    BY <1>1, ChildrenNamed
  <1>3. kids \in SUBSET Name /\ (o.command = "LIST" => kids = Children(new, o.path))
    BY <1>2 DEF Relevant
  <1>4. /\ n \in Op /\ n.stable = FALSE /\ n.command = o.command /\ n.path = o.path
        /\ n.pc = o.pc /\ n.dirlist = o.dirlist /\ n.after = o.after
        /\ n.always = o.always \intersect kids /\ n.ever = o.ever \union kids
    <2> HIDE DEF kids
    <2>1. n = [o EXCEPT !.stable = FALSE, !.always = o.always \intersect kids,
                        !.ever = o.ever \union kids]
      BY DEF Disturbed, kids, Op
    <2>2. o.always \intersect kids \in SUBSET Name /\ o.ever \union kids \in SUBSET Name
      BY <1>1, <1>3
    <2> HIDE DEF n
    <2> QED  BY <2>1, <2>2 DEF Op
  <1> HIDE DEF n, kids
  <1>5. ListRecalls(n, new)
    <2>1. SUFFICES ASSUME o.command = "LIST"
                   PROVE  /\ n.always \subseteq Children(new, n.path)
                          /\ Children(new, n.path) \subseteq n.ever
                          /\ Recalls(n.dirlist, n.after, n.pc = "done", n.always, n.ever)
      BY <1>4 DEF ListRecalls
    <2>2. Recalls(o.dirlist, o.after, o.pc = "done", o.always, o.ever)
      BY <2>1 DEF Knows, ListRecalls
    <2>3. n.always \subseteq o.always /\ o.ever \subseteq n.ever
      BY <1>4
    <2>4. Recalls(n.dirlist, n.after, n.pc = "done", n.always, n.ever)
      BY <1>4, <2>2, <2>3 DEF Recalls
    <2> QED  BY <1>3, <1>4, <2>1, <2>4
  <1>6. Knows(n, new)
    BY <1>4, <1>5 DEF Knows
  <1>7. Fits(n, new)
    BY <1>4, <1>6 DEF Fits
  <1> QED  BY <1>7 DEF n

\* A step that may change it.
LEMMA ChangeFits ==
  ASSUME CloudInv, NEW s \in Sessions, NEW new \in SUBSET Keys, NEW op,
         Change(s, new, op), Fits(op, new)
  PROVE  CloudInv'
  <1>1. TypeOK /\ \A t \in Sessions : ops[t] # Idle => Knows(ops[t], objects)
    BY DEF CloudInv
  <1>2. ops \in [Sessions -> {Idle} \union Op] /\ objects \subseteq Keys
    BY <1>1 DEF TypeOK
  <1>3. objects' = new
    BY DEF Change
  <1>4. op \in {Idle} \union Op
    BY DEF Fits
  <1>5. ASSUME NEW t \in Sessions
        PROVE  ops'[t] = IF t = s THEN op
                         ELSE IF ops[t] # Idle /\ new # objects
                              THEN Disturbed(ops[t], new) ELSE ops[t]
    BY DEF Change
  <1>6. DOMAIN ops' = Sessions /\ ops' = [t \in Sessions |-> ops'[t]]
    BY DEF Change
  <1>7. ASSUME NEW t \in Sessions PROVE Fits(ops'[t], new)
    <2>1. CASE t = s
      BY <1>5, <2>1
    <2>2. CASE t # s /\ ops[t] # Idle /\ new # objects
      <3>1. ops[t] \in Op /\ ops'[t] = Disturbed(ops[t], new)
        BY <1>2, <1>5, <2>2
      <3>2. Fits(Disturbed(ops[t], new), new)
        BY <1>1, <2>2, <3>1, DisturbedFits DEF TypeOK
      <3> QED  BY <3>1, <3>2
    <2>3. CASE t # s /\ ops[t] = Idle
      BY <1>5, <2>3 DEF Fits
    <2>4. CASE t # s /\ ops[t] # Idle /\ new = objects
      <3>1. ops'[t] = ops[t] /\ ops[t] \in Op
        BY <1>2, <1>5, <2>4
      <3> QED  BY <1>1, <2>4, <3>1 DEF Fits, TypeOK
    <2> QED  BY <2>1, <2>2, <2>3, <2>4
  <1>8. ops' \in [Sessions -> {Idle} \union Op]
    <2>1. \A t \in Sessions : ops'[t] \in {Idle} \union Op
      BY <1>7 DEF Fits
    <2> QED  BY <1>6, <2>1
  <1>9. TypeOK'
    BY <1>2, <1>3, <1>7, <1>8 DEF TypeOK, Fits
  <1> QED  BY <1>3, <1>7, <1>9 DEF CloudInv, Fits

\* An operation under way.
LEMMA UnderWay ==
  ASSUME CloudInv, NEW s \in Sessions, ops[s].pc # "idle"
  PROVE  /\ ops[s] # Idle /\ ops[s] \in Op /\ Knows(ops[s], objects)
         /\ ops[s].command \in {"PUT", "MKD"} => ops[s].path \in Nameable
         /\ objects \in SUBSET Keys
  <1>1. ops[s] # Idle
    BY DEF Idle
  <1> QED  BY <1>1 DEF CloudInv, TypeOK

\* A command starts.
LEMMA StartFits ==
  ASSUME CloudInv, NEW s \in Sessions, NEW command \in Uses[s], NEW path \in Paths,
         Start(s, command, path)
  PROVE  CloudInv'
  <1> DEFINE kids == Relevant(command, path, objects)
             o == Begin(command, path)
  <1>1. /\ Set(s, o) /\ objects' = objects
        /\ command \in {"PUT", "MKD"} => path \in Nameable
    BY DEF Start
  <1>2. command \in Commands
    BY CloudAssumption
  <1>3. EmptyBag \in Listing /\ EmptyBag = SetToBag({}) /\ DOMAIN EmptyBag = {}
    <2>1. EmptyBag = SetToBag({})
      BY DEF EmptyBag
    <2>2. SetToBag({}) \in [{} -> Nat]
      BY DEF SetToBag
    <2> QED  BY <2>1, <2>2 DEF Listing
  <1>4. kids \in SUBSET Name /\ (command = "LIST" => kids = Children(objects, path))
    <2>1. objects \in SUBSET Keys
      BY DEF CloudInv, TypeOK
    <2> QED  BY <2>1, ChildrenNamed DEF Relevant
  <1>5. /\ o \in Op /\ o.command = command /\ o.path = path /\ o.pc = "request" /\ o.step = 1
        /\ o.after = NoEntry /\ o.dirlist = EmptyBag /\ o.always = kids /\ o.ever = kids
    <2> HIDE DEF kids
    <2>1. o = [command |-> command, path |-> path, pc |-> "request", step |-> 1,
               after |-> NoEntry, dirlist |-> EmptyBag, result |-> "", stable |-> TRUE,
               always |-> kids, ever |-> kids]
      BY DEF Begin, kids
    <2> HIDE DEF o
    <2> QED  BY <1>2, <1>3, <1>4, <2>1 DEF Op
  <1> HIDE DEF o, kids
  <1>6. RmdKnows(o, objects) /\ AnswerKnows(o, objects)
    BY <1>5 DEF RmdKnows, AnswerKnows
  <1>7. ListKnows(o, objects)
    <2>1. Names(Seen(objects, real_path(o.path), o.after)) = {}
      BY <1>5 DEF Seen, Names
    <2> QED  BY <1>3, <1>5, <2>1 DEF ListKnows
  <1>8. ListRecalls(o, objects)
    BY <1>3, <1>4, <1>5 DEF ListRecalls, Recalls
  <1>9. Fits(o, objects)
    BY <1>1, <1>5, <1>6, <1>7, <1>8 DEF Fits, Knows
  <1> QED  BY <1>1, <1>9, SetFits DEF o

\* An operation ends without a result that is kept.
LEMMA EndFits ==
  ASSUME CloudInv, NEW s \in Sessions, Finish(s) \/ HttpError(s)
  PROVE  CloudInv'
  <1>1. Set(s, Idle) /\ objects' = objects
    BY DEF Finish, HttpError
  <1>2. Fits(Idle, objects)
    BY DEF Fits
  <1> QED  BY <1>1, <1>2, SetFits

\* The requests that add an object, or remove one, or read it.
LEMMA ObjectFits ==
  ASSUME CloudInv, NEW s \in Sessions, Upload(s) \/ Mkd(s) \/ Delete(s) \/ Item(s)
  PROVE  CloudInv'
  <1>1. ops[s].pc = "request"
    BY DEF Upload, Mkd, Delete, Item, Requesting
  <1>2. /\ ops[s] \in Op /\ objects \in SUBSET Keys
        /\ ops[s].command \in {"PUT", "MKD"} => ops[s].path \in Nameable
    BY <1>1, UnderWay
  <1>3. ops[s].path \in Paths
    BY <1>2 DEF Op
  <1>4. \A new : Fits(Idle, new)
    BY DEF Fits
  <1>5. CASE Upload(s)
    <2>1. objects \union {File(ops[s].path)} \in SUBSET Keys
      BY <1>2, <1>3, <1>5, PathNames DEF Upload, Requesting
    <2> QED  BY <1>4, <1>5, <2>1, ChangeFits DEF Upload
  <1>6. CASE Mkd(s)
    <2>1. objects \union {Marker(ops[s].path)} \in SUBSET Keys
      BY <1>2, <1>3, <1>6, PathNames DEF Mkd, Requesting
    <2> QED  BY <1>4, <1>6, <2>1, ChangeFits DEF Mkd
  <1>7. CASE Delete(s)
    <2>1. objects \ {File(ops[s].path)} \in SUBSET Keys
      BY <1>2
    <2> QED  BY <1>4, <1>7, <2>1, ChangeFits DEF Delete
  <1>8. CASE Item(s)
    BY <1>2, <1>4, <1>8, ChangeFits DEF Item
  <1> QED  BY <1>5, <1>6, <1>7, <1>8

\* An operation that has its answer.
LEMMA DoneOp ==
  ASSUME NEW s \in Sessions, ops[s] \in Op,
         NEW result \in {"ok", "PermanentDirectoryNotAvailable", "PermanentDirectoryNotEmpty"}
  PROVE  LET o == Done(s, result)
         IN  /\ o \in Op /\ o.pc = "done" /\ o.result = result
             /\ o.command = ops[s].command /\ o.path = ops[s].path
             /\ o.step = ops[s].step /\ o.stable = ops[s].stable
  BY DEF Done, Op

\* It fits if the answer is right.
LEMMA AnswerFits ==
  ASSUME NEW s \in Sessions, ops[s] \in Op, ops[s].command \in {"RMD", "CWD"},
         NEW result \in {"ok", "PermanentDirectoryNotAvailable", "PermanentDirectoryNotEmpty"},
         NEW bucket,
         ops[s].stable /\ ops[s].path # <<>> => AnswerKnows(Done(s, result), bucket)
  PROVE  Fits(Done(s, result), bucket)
  <1> DEFINE o == Done(s, result)
  <1>1. /\ o \in Op /\ o.pc = "done" /\ o.command = ops[s].command /\ o.path = ops[s].path
        /\ o.stable = ops[s].stable
    BY DoneOp
  <1> HIDE DEF o
  <1>2. RmdKnows(o, bucket) /\ ListKnows(o, bucket) /\ ListRecalls(o, bucket)
    BY <1>1 DEF RmdKnows, ListKnows, ListRecalls
  <1>3. Knows(o, bucket)
    BY <1>1, <1>2 DEF Knows, o
  <1>4. Fits(o, bucket)
    BY <1>1, <1>3 DEF Fits
  <1> QED  BY <1>4 DEF o

\* CWD.
LEMMA CwdFits ==
  ASSUME CloudInv, NEW s \in Sessions, Cwd(s)
  PROVE  CloudInv'
  <1>1. ops[s].pc = "request" /\ ops[s].command = "CWD"
    BY DEF Cwd, Requesting
  <1>2. ops[s] \in Op /\ objects \in SUBSET Keys
    BY <1>1, UnderWay
  <1>3. ops[s].path \in Paths /\ real_path(ops[s].path) \in Seq(Nat)
    BY <1>2, PathNames DEF Op
  <1>4. PICK page \in DirEmptyPages(ops[s].path) :
          Change(s, objects, Done(s, IF dir_exists(page) THEN "ok"
                                     ELSE "PermanentDirectoryNotAvailable"))
    BY DEF Cwd
  <1> DEFINE result == IF dir_exists(page) THEN "ok" ELSE "PermanentDirectoryNotAvailable"
             o == Done(s, result)
             dir == real_path(ops[s].path)
  <1>5. /\ result \in {"ok", "PermanentDirectoryNotAvailable", "PermanentDirectoryNotEmpty"}
        /\ result # "PermanentDirectoryNotEmpty"
    OBVIOUS
  <1>6. o.pc = "done" /\ o.result = result /\ o.command = "CWD" /\ o.path = ops[s].path
    BY <1>1, <1>2, <1>5, DoneOp
  <1>7. ASSUME ops[s].path # <<>> PROVE AnswerKnows(o, objects)
    <2>1. page \in Pages(objects, dir, NoEntry)
      BY <1>7 DEF DirEmptyPages
    <2>2. dir_exists(page) <=> Under(objects, dir) # {}
      BY <1>2, <1>3, <2>1, KeysNamed, FirstPage
    <2>3. result = "ok" <=> Under(objects, dir) # {}
      BY <2>2
    <2> HIDE DEF o, result
    <2> QED  BY <1>5, <1>6, <2>3 DEF AnswerKnows
  <1>8. Fits(o, objects)
    <2> HIDE DEF result
    <2> QED  BY <1>1, <1>2, <1>5, <1>7, AnswerFits
  <1> QED  BY <1>2, <1>4, <1>8, ChangeFits

\* RMD.
LEMMA RmdFits ==
  ASSUME CloudInv, NEW s \in Sessions, Rmd(s)
  PROVE  CloudInv'
  <1> DEFINE path == ops[s].path
             dir == real_path(path)
  <1>1. ops[s].pc = "request" /\ ops[s].command = "RMD"
    BY DEF Rmd, Requesting
  <1>2. ops[s] \in Op /\ objects \in SUBSET Keys /\ Knows(ops[s], objects)
    BY <1>1, UnderWay
  <1>3. path \in Paths /\ dir \in Seq(Nat)
    BY <1>2, PathNames DEF Op
  <1>4. Named(objects)
    BY <1>2, KeysNamed
  <1>5. \/ /\ ops[s].step = 1
           /\ \E page \in DirEmptyPages(path) :
                \/ /\ ~dir_exists(page)
                   /\ Change(s, objects, Done(s, "PermanentDirectoryNotAvailable"))
                \/ /\ dir_exists(page) /\ ~dir_empty(page)
                   /\ Change(s, objects, Done(s, "PermanentDirectoryNotEmpty"))
                \/ /\ dir_empty(page)
                   /\ Set(s, [ops[s] EXCEPT !.step = 2]) /\ UNCHANGED objects
        \/ /\ ops[s].step = 2
           /\ Change(s, objects \ {Marker(path)},
                     IF Marker(path) \in objects THEN Done(s, "ok") ELSE Idle)
    BY DEF Rmd
  <1>6. \A page \in DirEmptyPages(path) : path # <<>> => page \in Pages(objects, dir, NoEntry)
    BY DEF DirEmptyPages
  <1>7. ASSUME NEW page \in DirEmptyPages(path), ~dir_exists(page),
               Change(s, objects, Done(s, "PermanentDirectoryNotAvailable"))
        PROVE  CloudInv'
    <2> DEFINE o == Done(s, "PermanentDirectoryNotAvailable")
    <2>1. o.result = "PermanentDirectoryNotAvailable" /\ o.path = path
      BY <1>2, DoneOp
    <2>2. path # <<>> => Under(objects, dir) = {}
      BY <1>3, <1>4, <1>6, <1>7, FirstPage
    <2> HIDE DEF o
    <2>3. path # <<>> => AnswerKnows(o, objects)
      BY <2>1, <2>2 DEF AnswerKnows
    <2>4. Fits(o, objects)
      BY <1>1, <1>2, <2>3, AnswerFits DEF o
    <2> QED  BY <1>2, <1>7, <2>4, ChangeFits DEF o
  <1>8. ASSUME NEW page \in DirEmptyPages(path), dir_exists(page), ~dir_empty(page),
               Change(s, objects, Done(s, "PermanentDirectoryNotEmpty"))
        PROVE  CloudInv'
    <2> DEFINE o == Done(s, "PermanentDirectoryNotEmpty")
    <2>1. o.result = "PermanentDirectoryNotEmpty" /\ o.path = path
      BY <1>2, DoneOp
    <2>2. path # <<>> => Under(objects, dir) \ {Marker(path)} # {}
      BY <1>3, <1>4, <1>6, <1>8, OthersUnder
    <2> HIDE DEF o
    <2>3. path # <<>> => AnswerKnows(o, objects)
      BY <2>1, <2>2 DEF AnswerKnows
    <2>4. Fits(o, objects)
      BY <1>1, <1>2, <2>3, AnswerFits DEF o
    <2> QED  BY <1>2, <1>8, <2>4, ChangeFits DEF o
  <1>9. ASSUME NEW page \in DirEmptyPages(path), dir_empty(page),
               Set(s, [ops[s] EXCEPT !.step = 2]), UNCHANGED objects
        PROVE  CloudInv'
    <2> DEFINE o == [ops[s] EXCEPT !.step = 2]
    <2>1. o \in Op /\ o.pc = "request" /\ o.command = "RMD" /\ o.path = path
      BY <1>1, <1>2 DEF Op
    <2>2. path # <<>> => Under(objects, dir) \subseteq {Marker(path)}
      BY <1>3, <1>4, <1>6, <1>9, EmptyHasMarker
    <2> HIDE DEF o
    <2>3. path # <<>> => RmdKnows(o, objects) /\ AnswerKnows(o, objects)
      BY <2>1, <2>2 DEF RmdKnows, AnswerKnows
    <2>4. ListKnows(o, objects) /\ ListRecalls(o, objects)
      BY <2>1 DEF ListKnows, ListRecalls
    <2>5. Fits(o, objects)
      BY <2>1, <2>3, <2>4 DEF Fits, Knows
    <2> QED  BY <1>9, <2>5, SetFits DEF o
  <1>10. ASSUME ops[s].step = 2,
                Change(s, objects \ {Marker(path)},
                       IF Marker(path) \in objects THEN Done(s, "ok") ELSE Idle)
         PROVE  CloudInv'
    <2> DEFINE new == objects \ {Marker(path)}
               o == Done(s, "ok")
    <2>1. new \in SUBSET Keys
      BY <1>2
    <2>2. Fits(Idle, new)
      BY DEF Fits
    <2>3. o.result = "ok" /\ o.path = path /\ o.command = "RMD"
      BY <1>1, <1>2, DoneOp
    <2>4. ops[s].stable /\ path # <<>> => Under(objects, dir) \subseteq {Marker(path)}
      BY <1>1, <1>2, <1>10 DEF Knows, RmdKnows
    <2>5. \A k \in Under(new, dir) : k \in Under(objects, dir) /\ k # Marker(path)
      BY DEF Under
    <2>6. ops[s].stable /\ path # <<>> => Under(new, dir) = {}
      BY <2>4, <2>5
    <2> HIDE DEF o, new
    <2>7. ops[s].stable /\ path # <<>> => AnswerKnows(o, new)
      BY <2>3, <2>6 DEF AnswerKnows
    <2>8. Fits(o, new)
      BY <1>1, <1>2, <2>7, AnswerFits DEF o
    <2>9. Fits(IF Marker(path) \in objects THEN o ELSE Idle, new)
      BY <2>2, <2>8
    <2>10. Change(s, new, IF Marker(path) \in objects THEN o ELSE Idle)
      BY <1>10 DEF o, new
    <2> QED  BY <2>1, <2>9, <2>10, ChangeFits
  <1> QED  BY <1>5, <1>7, <1>8, <1>9, <1>10

\* A listing, whatever it shows, with more of it.
LEMMA ListingMore ==
  ASSUME NEW B \in Listing, NEW S \in SUBSET Name
  PROVE  B (+) SetToBag(S) \in Listing
  <1>1. PICK T \in SUBSET Name : B \in [T -> Nat]
    BY DEF Listing
  <1>2. SetToBag(S) \in [S -> Nat]
    BY DEF SetToBag
  <1>3. B (+) SetToBag(S) \in [T \union S -> Nat]
    BY <1>1, <1>2 DEF SetToBag, (+)
  <1>4. T \union S \in SUBSET Name
    OBVIOUS
  <1> QED  BY <1>3, <1>4 DEF Listing

\* LIST.
LEMMA ListFits ==
  ASSUME CloudInv, NEW s \in Sessions, List(s)
  PROVE  CloudInv'
  <1> DEFINE path == ops[s].path
             dir == real_path(path)
             after == ops[s].after
  <1>1. ops[s].pc = "request" /\ ops[s].command = "LIST" /\ objects' = objects
    BY DEF List, Requesting
  <1>2. ops[s] \in Op /\ objects \in SUBSET Keys /\ Knows(ops[s], objects)
    BY <1>1, UnderWay
  <1>3. /\ path \in Paths /\ dir \in Seq(Nat) /\ after \in Entry \union {NoEntry}
        /\ ops[s].dirlist \in Listing
        /\ ops[s].always \in SUBSET Name /\ ops[s].ever \in SUBSET Name
    BY <1>2, PathNames DEF Op
  <1>4. Named(objects)
    BY <1>2, KeysNamed
  <1>5. PICK page \in Pages(objects, dir, after) : Set(s, Listed(s, page))
    BY DEF List
  <1> DEFINE E == Entries(objects, dir)
             seen == Seen(objects, dir, after)
             o == Listed(s, page)
  <1>6. SetOfEntries(E)
    BY <1>3, <1>4, EntriesType
  <1>7. /\ page.entries \subseteq E
        /\ page.next # NoEntry => page.next \in E
    BY <1>3, <1>4, <1>5, PageForms DEF Rest
  <1>8. /\ seen \intersect page.entries = {}
        /\ seen \union page.entries =
             IF page.next = NoEntry THEN E ELSE Seen(objects, dir, page.next)
    BY <1>3, <1>4, <1>5, PageAdds
  <1>9. SetOfEntries(seen) /\ SetOfEntries(page.entries)
    BY <1>6, <1>7 DEF SetOfEntries, Seen
  <1>10. list(page) = SetToBag(Names(page.entries))
    BY <1>9, ListShows
  <1>11. Names(page.entries) \in SUBSET Name
    BY <1>9 DEF Names, SetOfEntries, Entry
  <1>12. page.next \in Entry \union {NoEntry}
    BY <1>6, <1>7 DEF SetOfEntries
  <1>13. ops[s].dirlist (+) list(page) \in Listing
    BY <1>3, <1>10, <1>11, ListingMore
  <1>14. /\ o \in Op /\ o.command = "LIST" /\ o.path = path /\ o.stable = ops[s].stable
         /\ o.dirlist = ops[s].dirlist (+) list(page) /\ o.after = page.next
         /\ o.pc = IF page.next = NoEntry THEN "done" ELSE "request"
         /\ o.always = ops[s].always /\ o.ever = ops[s].ever
    <2> DEFINE more == ops[s].dirlist (+) list(page)
               pc == IF page.next = NoEntry THEN "done" ELSE "request"
               result == IF page.next = NoEntry THEN "ok" ELSE ""
               n == [ops[s] EXCEPT !.dirlist = more, !.after = page.next,
                                   !.pc = pc, !.result = result]
    <2>1. o = n
      BY DEF Listed
    <2>2. pc \in {"request", "done"} /\ result \in {"ok", ""}
      OBVIOUS
    <2> HIDE DEF more, pc, result, o
    <2>3. /\ n \in Op /\ n.command = ops[s].command /\ n.path = path
          /\ n.stable = ops[s].stable /\ n.dirlist = more /\ n.after = page.next /\ n.pc = pc
          /\ n.always = ops[s].always /\ n.ever = ops[s].ever
      BY <1>2, <1>12, <1>13, <2>2 DEF Op, more
    <2> QED  BY <1>1, <2>1, <2>3 DEF more, pc
  <1> HIDE DEF o, E, seen, dir, path, after
  <1>15. ASSUME ops[s].stable PROVE ListKnows(o, objects)
    <2>1. ops[s].dirlist = SetToBag(Names(seen))
      BY <1>1, <1>2, <1>15 DEF Knows, ListKnows, seen, dir, path, after
    <2>2. o.dirlist = SetToBag(Names(seen \union page.entries))
      BY <1>8, <1>9, <1>10, <1>14, <2>1, NamesOfBoth
    <2>3. CASE page.next = NoEntry
      <3>1. Names(E) = Children(objects, path)
        BY <1>3, <1>4, NamesAreChildren DEF E, dir
      <3> QED  BY <1>8, <1>14, <2>2, <2>3, <3>1 DEF ListKnows
    <2>4. CASE page.next # NoEntry
      <3>1. o.pc = "request" /\ o.after = page.next /\ o.path = path
        BY <1>14, <2>4
      <3>2. o.dirlist = SetToBag(Names(Seen(objects, dir, page.next)))
        BY <1>8, <2>2, <2>4
      <3> QED  BY <3>1, <3>2 DEF ListKnows, dir
    <2> QED  BY <2>3, <2>4
  <1>16. RmdKnows(o, objects) /\ AnswerKnows(o, objects)
    BY <1>14 DEF RmdKnows, AnswerKnows
  <1>17. ListRecalls(o, objects)
    <2>1. /\ ops[s].always \subseteq Children(objects, path)
          /\ Children(objects, path) \subseteq ops[s].ever
          /\ Recalls(ops[s].dirlist, after, FALSE, ops[s].always, ops[s].ever)
      BY <1>1, <1>2 DEF Knows, ListRecalls, path, after, Recalls
    <2>2. Recalls(ops[s].dirlist (+) list(page), page.next, page.next = NoEntry,
                  ops[s].always, ops[s].ever)
      BY <1>3, <1>4, <1>5, <2>1, PageRecalls DEF dir
    <2>3. (o.pc = "done") = (page.next = NoEntry)
      BY <1>14
    <2> QED  BY <1>14, <2>1, <2>2, <2>3 DEF ListRecalls
  <1>18. Fits(o, objects)
    BY <1>14, <1>15, <1>16, <1>17 DEF Fits, Knows
  <1>19. Set(s, o)
    BY <1>5 DEF o
  <1> QED  BY <1>1, <1>18, <1>19, SetFits

-----------------------------------------------------------------------------
(* The invariant of the specification.                                     *)

\* At first nothing is under way.
LEMMA InitCloud == Init => CloudInv
  <1> SUFFICES ASSUME Init PROVE CloudInv
    OBVIOUS
  <1>1. objects \in SUBSET Keys /\ ops = [s \in Sessions |-> Idle]
    BY DEF Init
  <1>2. \A s \in Sessions : ops[s] = Idle
    BY <1>1
  <1>3. ops \in [Sessions -> {Idle} \union Op]
    BY <1>1
  <1>4. TypeOK
    BY <1>1, <1>2, <1>3 DEF TypeOK
  <1> QED  BY <1>2, <1>4 DEF CloudInv

\* Every step keeps it.
LEMMA NextCloud == CloudInv /\ [Next]_vars => CloudInv'
  <1> SUFFICES ASSUME CloudInv, [Next]_vars PROVE CloudInv'
    OBVIOUS
  <1>1. ASSUME NEW s \in Sessions, NEW command \in Uses[s], NEW path \in Paths,
               Start(s, command, path)
        PROVE  CloudInv'
    BY <1>1, StartFits
  <1>2. ASSUME NEW s \in Sessions, Finish(s) \/ HttpError(s) PROVE CloudInv'
    BY <1>2, EndFits
  <1>3. ASSUME NEW s \in Sessions, Upload(s) \/ Mkd(s) \/ Delete(s) \/ Item(s) PROVE CloudInv'
    BY <1>3, ObjectFits
  <1>4. ASSUME NEW s \in Sessions, Cwd(s) PROVE CloudInv'
    BY <1>4, CwdFits
  <1>5. ASSUME NEW s \in Sessions, Rmd(s) PROVE CloudInv'
    BY <1>5, RmdFits
  <1>6. ASSUME NEW s \in Sessions, List(s) PROVE CloudInv'
    BY <1>6, ListFits
  <1>7. CASE UNCHANGED vars
    BY <1>7 DEF vars, CloudInv, TypeOK
  <1> QED  BY <1>1, <1>2, <1>3, <1>4, <1>5, <1>6, <1>7 DEF Next, Request

\* CloudInv is an invariant.
LEMMA CloudInvariant == Spec => []CloudInv
  BY InitCloud, NextCloud, PTL DEF Spec

-----------------------------------------------------------------------------
(* The properties.                                                         *)

\* CloudStorage::list, for every bucket, every set of paths and however the service cuts
\* the answer into pages: the listing of a directory that nobody changed meanwhile shows
\* each of its files and directories exactly once.
THEOREM ListingsAreExact == Spec => []ListExact
  <1>1. CloudInv => ListExact
    BY DEF CloudInv, ListExact, Answered, Knows, ListKnows
  <1> QED  BY <1>1, CloudInvariant, PTL

\* And what others add and remove between the pages of a listing, as often as they like,
\* makes it neither miss nor repeat what stays, nor show what never was there.
THEOREM ListingsAreFaithful == Spec => []ListFaithful
  <1>1. CloudInv => ListFaithful
    <2> SUFFICES ASSUME CloudInv, NEW s \in Sessions, ops[s] # Idle, ops[s].pc = "done",
                        ops[s].command = "LIST"
                 PROVE  LET shown == BagToSet(ops[s].dirlist)
                        IN  /\ ops[s].always \subseteq shown /\ shown \subseteq ops[s].ever
                            /\ \A name \in shown : ops[s].dirlist[name] = 1
      BY DEF ListFaithful
    <2>1. Recalls(ops[s].dirlist, ops[s].after, TRUE, ops[s].always, ops[s].ever)
      BY DEF CloudInv, Knows, ListRecalls, Recalls
    <2> QED  BY <2>1 DEF Recalls, BagToSet
  <1> QED  BY <1>1, CloudInvariant, PTL

\* rmd and cwd: what they answer about a directory that nobody else changed is so, for
\* every bucket and every set of sessions, with the two requests of rmd apart.
THEOREM DirectoriesAreKnown == Spec => []DirectoryKnown
  <1>1. CloudInv => DirectoryKnown
    <2> SUFFICES ASSUME CloudInv, NEW s \in Sessions,
                        Answered(s, "RMD") \/ Answered(s, "CWD"), ops[s].path # <<>>
                 PROVE  LET left == Under(objects, real_path(ops[s].path))
                        IN  CASE ops[s].result = "ok" -> (left = {}) <=> (ops[s].command = "RMD")
                              [] ops[s].result = "PermanentDirectoryNotEmpty" ->
                                   left \ {Marker(ops[s].path)} # {}
                              [] ops[s].result = "PermanentDirectoryNotAvailable" -> left = {}
      BY DEF DirectoryKnown
    <2>1. AnswerKnows(ops[s], objects)
      BY DEF CloudInv, Answered, Knows
    <2> QED  BY <2>1 DEF AnswerKnows, Answered
  <1> QED  BY <1>1, CloudInvariant, PTL

\* A file goes only by the delete request of a DELE that names it, whatever the sessions do
\* between the two requests of rmd.
THEOREM FilesGoByDelete == Spec => OnlyDeleteRemovesFiles
  <1> DEFINE A == \A k \in objects \ objects' : ~k.slash =>
                    \E s \in Sessions : Requesting(s, "DELE") /\ k = File(ops[s].path)
  <1>1. [Next]_vars => [A]_vars
    <2> SUFFICES ASSUME Next, NEW k \in objects, k \notin objects', ~k.slash
                 PROVE  \E s \in Sessions : Requesting(s, "DELE") /\ k = File(ops[s].path)
      OBVIOUS
    <2>1. objects' # objects
      OBVIOUS
    <2>2. PICK s \in Sessions : Upload(s) \/ Mkd(s) \/ Delete(s) \/ Item(s) \/ Cwd(s) \/ Rmd(s)
      BY <2>1 DEF Next, Request, Start, Finish, HttpError, List
    <2>3. CASE Upload(s)
      BY <2>3 DEF Upload, Change
    <2>4. CASE Mkd(s)
      BY <2>4 DEF Mkd, Change
    <2>5. CASE Delete(s)
      BY <2>5 DEF Delete, Change
    <2>6. CASE Item(s)
      BY <2>6 DEF Item, Change
    <2>7. CASE Cwd(s)
      BY <2>7 DEF Cwd, Change
    <2>8. CASE Rmd(s)
      <3>1. objects' = objects \ {Marker(ops[s].path)}
        BY <2>1, <2>8 DEF Rmd, Change
      <3>2. k = Marker(ops[s].path)
        BY <3>1
      <3> QED  BY <3>2 DEF Marker
    <2> QED  BY <2>2, <2>3, <2>4, <2>5, <2>6, <2>7, <2>8
  <1> QED  BY <1>1, PTL DEF Spec, OnlyDeleteRemovesFiles
=============================================================================
