----------------------------- MODULE SlabProofs -----------------------------
(***************************************************************************)
(* Proofs about Slab, for every number of blocks and of items in a block:  *)
(* no item is given out twice, and at most one empty block is kept.        *)
(***************************************************************************)
EXTENDS Slab, FiniteSetTheorems, TLAPS

SlabInv == SlabTypeOK /\ SlabExact /\ OneSpareBlock

-----------------------------------------------------------------------------
(* The list.                                                               *)

LEMMA DelEffect ==
  ASSUME NEW list \in Seq(Blocks), Once(list), NEW b \in Blocks, Listed(list, b)
  PROVE  LET rest == hlist_del(list, b)
         IN /\ rest \in Seq(Blocks) /\ Once(rest) /\ Len(rest) = Len(list) - 1
            /\ \A c \in Blocks : Listed(rest, c) <=> Listed(list, c) /\ c # b
            /\ \A n \in DOMAIN rest :
                 \E m \in DOMAIN list : rest[n] = list[m] /\ (m = Len(list) => n = Len(rest))
  <1> DEFINE k == CHOOSE n \in DOMAIN list : list[n] = b
             rest == hlist_del(list, b)
  <1>1. k \in DOMAIN list /\ list[k] = b
    BY DEF Listed
  <1> HIDE DEF k
  <1>2. rest = [n \in 1 .. Len(list) - 1 |-> IF n < k THEN list[n] ELSE list[n + 1]]
    BY DEF hlist_del, k
  <1> HIDE DEF rest
  <1>3. Len(list) \in Nat /\ k \in 1 .. Len(list) /\ Len(list) - 1 \in Nat
        /\ DOMAIN list = 1 .. Len(list) /\ \A n \in 1 .. Len(list) : list[n] \in Blocks
    BY <1>1
  <1>4. \A n \in 1 .. Len(list) - 1 : rest[n] \in Blocks
    BY <1>2, <1>3
  <1>5. rest \in Seq(Blocks) /\ Len(rest) = Len(list) - 1 /\ DOMAIN rest = 1 .. Len(list) - 1
    BY <1>2, <1>3, <1>4
  <1>6. ASSUME NEW n \in DOMAIN rest
        PROVE  \E m \in DOMAIN list : /\ rest[n] = list[m] /\ m # k
                                      /\ (m = Len(list) => n = Len(rest))
    <2>a. n \in 1 .. Len(list) - 1 /\ rest[n] = IF n < k THEN list[n] ELSE list[n + 1]
      BY <1>2, <1>5
    <2>1. CASE n < k
      <3>1. n \in DOMAIN list /\ rest[n] = list[n] /\ n # k /\ n # Len(list) BY <1>3, <2>a, <2>1
      <3> QED BY <3>1
    <2>2. CASE ~(n < k)
      <3>1. /\ n + 1 \in DOMAIN list /\ rest[n] = list[n + 1] /\ n + 1 # k
            /\ (n + 1 = Len(list) => n = Len(rest))
        BY <1>3, <1>5, <2>a, <2>2
      <3> QED BY <3>1
    <2> QED BY <2>1, <2>2
  <1>7. Once(rest)
    <2> SUFFICES ASSUME NEW m \in DOMAIN rest, NEW n \in DOMAIN rest, rest[m] = rest[n]
                 PROVE  m = n
      BY DEF Once
    <2> DEFINE at(x) == IF x < k THEN x ELSE x + 1
    <2>1. /\ at(m) \in DOMAIN list /\ at(n) \in DOMAIN list
          /\ rest[m] = list[at(m)] /\ rest[n] = list[at(n)]
      BY <1>2, <1>3, <1>5
    <2>2. at(m) = at(n) BY <2>1 DEF Once
    <2> QED BY <1>3, <1>5, <2>2
  <1>8. ASSUME NEW c \in Blocks
        PROVE  Listed(rest, c) <=> Listed(list, c) /\ c # b
    <2>1. ASSUME Listed(rest, c) PROVE Listed(list, c) /\ c # b
      <3>1. PICK n \in DOMAIN rest : rest[n] = c BY <2>1 DEF Listed
      <3>2. PICK m \in DOMAIN list : rest[n] = list[m] /\ m # k BY <1>6
      <3> QED BY <1>1, <3>1, <3>2 DEF Listed, Once
    <2>2. ASSUME Listed(list, c), c # b PROVE Listed(rest, c)
      <3>1. PICK m \in DOMAIN list : list[m] = c BY <2>2 DEF Listed
      <3>2. m # k /\ m \in 1 .. Len(list) BY <1>1, <1>3, <2>2, <3>1
      <3>3. CASE m < k BY <1>2, <1>3, <1>5, <3>1, <3>2, <3>3 DEF Listed
      <3>4. CASE m > k
        <4>1. m - 1 \in DOMAIN rest /\ rest[m - 1] = c BY <1>2, <1>3, <1>5, <3>1, <3>2, <3>4
        <4> QED BY <4>1 DEF Listed
      <3> QED BY <1>3, <3>2, <3>3, <3>4
    <2> QED BY <2>1, <2>2
  <1> QED BY <1>5, <1>6, <1>7, <1>8 DEF rest

LEMMA HeadEffect ==
  ASSUME NEW list \in Seq(Blocks), Once(list), NEW b \in Blocks, ~Listed(list, b)
  PROVE  LET new == <<b>> \o list
         IN /\ new \in Seq(Blocks) /\ Once(new) /\ Len(new) = Len(list) + 1
            /\ \A c \in Blocks : Listed(new, c) <=> Listed(list, c) \/ c = b
            /\ new[1] = b /\ \A n \in DOMAIN list : new[n + 1] = list[n]
  <1> DEFINE new == <<b>> \o list
  <1>1. /\ new \in Seq(Blocks) /\ Len(new) = Len(list) + 1 /\ DOMAIN new = 1 .. Len(list) + 1
        /\ DOMAIN list = 1 .. Len(list) /\ Len(list) \in Nat
        /\ new[1] = b /\ \A n \in 1 .. Len(list) : new[n + 1] = list[n]
    OBVIOUS
  <1> HIDE DEF new
  <1>2. \A n \in DOMAIN new : n # 1 => n - 1 \in DOMAIN list /\ new[n] = list[n - 1]
    <2> TAKE n \in DOMAIN new
    <2> HAVE n # 1
    <2>1. n - 1 \in 1 .. Len(list) /\ (n - 1) + 1 = n BY <1>1
    <2> QED BY <1>1, <2>1
  <1>3. Once(new)
    <2> SUFFICES ASSUME NEW m \in DOMAIN new, NEW n \in DOMAIN new, new[m] = new[n]
                 PROVE  m = n
      BY DEF Once
    <2>1. CASE m # 1 /\ n # 1
      <3>1. m - 1 = n - 1 BY <1>2, <2>1 DEF Once
      <3> QED BY <1>1, <3>1
    <2>2. CASE m = 1 /\ n # 1 BY <1>1, <1>2, <2>2 DEF Listed
    <2>3. CASE m # 1 /\ n = 1 BY <1>1, <1>2, <2>3 DEF Listed
    <2> QED BY <2>1, <2>2, <2>3
  <1>4. ASSUME NEW c \in Blocks
        PROVE  Listed(new, c) <=> Listed(list, c) \/ c = b
    <2>1. Listed(new, c) => Listed(list, c) \/ c = b BY <1>1, <1>2 DEF Listed
    <2>2. c = b => Listed(new, c)
      <3>1. 1 \in DOMAIN new BY <1>1
      <3> QED BY <1>1, <3>1 DEF Listed
    <2>3. ASSUME Listed(list, c) PROVE Listed(new, c)
      <3>1. PICK n \in DOMAIN list : list[n] = c BY <2>3 DEF Listed
      <3>2. n + 1 \in DOMAIN new /\ new[n + 1] = c BY <1>1, <3>1
      <3> QED BY <3>2 DEF Listed
    <2> QED BY <2>1, <2>2, <2>3
  <1> QED BY <1>1, <1>3, <1>4 DEF new

-----------------------------------------------------------------------------
(* The operations.                                                         *)

LEMMA FiniteItems ==
  ASSUME NEW S \in SUBSET (1 .. Buckets)
  PROVE  /\ IsFiniteSet(S) /\ Cardinality(S) \in Nat /\ Cardinality(S) <= Buckets
         /\ Cardinality(S) = Buckets => S = 1 .. Buckets
  <1>1. IsFiniteSet(1 .. Buckets) /\ Cardinality(1 .. Buckets) = Buckets
    BY SlabAssumption, FS_Interval
  <1>2. IsFiniteSet(S) /\ Cardinality(S) <= Cardinality(1 .. Buckets)
        /\ (Cardinality(1 .. Buckets) = Cardinality(S) => 1 .. Buckets = S)
    BY <1>1, FS_Subset
  <1> QED BY <1>1, <1>2, FS_CardinalityType

(* An item of a block on the list, or of a new block, is given out. *)
LEMMA TakeSound ==
  ASSUME SlabTypeOK, NEW b \in Blocks, NEW list \in Seq(Blocks), Once(list), Listed(list, b),
         NEW items \in SUBSET (1 .. Buckets), NEW count \in Nat, count = Cardinality(items),
         made' \subseteq Blocks, b \in made', made \subseteq made', made' \subseteq made \cup {b},
         \A p \in out : p[1] \in made,
         \A i \in 1 .. Buckets : i \in items <=> <<b, i>> \notin out,
         \A c \in made \ {b} : /\ frees[c] = Cardinality(item_head[c])
                              /\ \A i \in 1 .. Buckets : i \in item_head[c] <=> <<c, i>> \notin out,
         \A c \in Blocks \ {b} : Listed(list, c) <=> c \in made /\ frees[c] > 0,
         \A n \in DOMAIN list : list[n] # b /\ frees[list[n]] = Buckets => n = Len(list),
         TakeFrom(b, list, items, count)
  PROVE  SlabInv'
  <1>1. PICK i \in items : /\ out' = out \cup {<<b, i>>}
                           /\ item_head' = [item_head EXCEPT ![b] = items \ {i}]
                           /\ frees' = [frees EXCEPT ![b] = count - 1]
                           /\ block_head' = IF count - 1 = 0 THEN hlist_del(list, b) ELSE list
    BY DEF TakeFrom
  <1>2. count \in Nat \ {0} /\ count <= Buckets /\ Cardinality(items \ {i}) = count - 1
    <2>1. IsFiniteSet(items) /\ Cardinality(items) <= Buckets BY FiniteItems
    <2>2. Cardinality(items \ {i}) = count - 1 BY <2>1, FS_RemoveElement
    <2>3. Cardinality(items \ {i}) \in Nat BY FiniteItems
    <2> QED BY <2>1, <2>2, <2>3
  <1>3. /\ block_head' \in Seq(Blocks) /\ Once(block_head')
        /\ \A c \in Blocks : Listed(block_head', c) <=> Listed(list, c) /\ (c = b => count - 1 # 0)
        /\ \A n \in DOMAIN block_head' :
             \E m \in DOMAIN list : /\ block_head'[n] = list[m]
                                    /\ (m = Len(list) => n = Len(block_head'))
    <2>1. CASE count - 1 = 0 BY <1>1, <2>1, DelEffect
    <2>2. CASE count - 1 # 0 BY <1>1, <2>2
    <2> QED BY <2>1, <2>2
  <1>4. SlabTypeOK'
    <2>1. item_head' \in [Blocks -> SUBSET (1 .. Buckets)] BY <1>1 DEF SlabTypeOK
    <2>2. frees' \in [Blocks -> Nat] BY <1>1, <1>2 DEF SlabTypeOK
    <2>3. out' \subseteq Blocks \X (1 .. Buckets) BY <1>1 DEF SlabTypeOK
    <2> QED BY <1>3, <2>1, <2>2, <2>3 DEF SlabTypeOK
  <1>5. ASSUME NEW c \in made'
        PROVE  /\ frees'[c] = Cardinality(item_head'[c])
               /\ \A j \in 1 .. Buckets : j \in item_head'[c] <=> <<c, j>> \notin out'
    <2>1. CASE c = b BY <1>1, <1>2, <2>1 DEF SlabTypeOK
    <2>2. CASE c # b
      <3>1. c \in made \ {b} /\ c \in Blocks BY <1>5, <2>2
      <3>2. frees'[c] = frees[c] /\ item_head'[c] = item_head[c] BY <1>1, <2>2, <3>1 DEF SlabTypeOK
      <3>3. \A j \in 1 .. Buckets : <<c, j>> \in out' <=> <<c, j>> \in out BY <1>1, <2>2
      <3> QED BY <3>1, <3>2, <3>3
    <2> QED BY <2>1, <2>2
  <1>6. \A p \in out' : p[1] \in made'
    BY <1>1
  <1>7. ASSUME NEW c \in Blocks
        PROVE  Listed(block_head', c) <=> c \in made' /\ frees'[c] > 0
    <2>1. CASE c = b
      <3>1. frees'[b] = count - 1 BY <1>1 DEF SlabTypeOK
      <3>2. count - 1 > 0 <=> count - 1 # 0 BY <1>2
      <3>3. Listed(block_head', b) <=> count - 1 # 0 BY <1>3
      <3> QED BY <2>1, <3>1, <3>2, <3>3
    <2>2. CASE c # b
      <3>1. frees'[c] = frees[c] /\ (c \in made' <=> c \in made) BY <1>1, <2>2 DEF SlabTypeOK
      <3> QED BY <1>3, <2>2, <3>1
    <2> QED BY <2>1, <2>2
  <1>8. ASSUME NEW n \in DOMAIN block_head', frees'[block_head'[n]] = Buckets
        PROVE  n = Len(block_head')
    <2>1. PICK m \in DOMAIN list : block_head'[n] = list[m] /\ (m = Len(list) => n = Len(block_head'))
      BY <1>3
    <2>2. list[m] \in Blocks OBVIOUS
    <2>3. list[m] # b BY <1>1, <1>2, <1>8, <2>1, <2>2, SlabAssumption DEF SlabTypeOK
    <2>4. frees[list[m]] = Buckets BY <1>1, <1>8, <2>1, <2>2, <2>3 DEF SlabTypeOK
    <2> QED BY <2>1, <2>3, <2>4
  <1> QED BY <1>3, <1>4, <1>5, <1>6, <1>7, <1>8 DEF SlabInv, SlabExact, OneSpareBlock, Once, Listed

LEMMA AllocSound ==
  ASSUME SlabInv, slab_alloc
  PROVE  SlabInv'
  <1> USE DEF SlabInv, SlabExact
  <1>1. CASE block_head = <<>>
    <2>1. PICK b \in Blocks \ made : made' = made \cup {b} /\ TakeFrom(b, <<b>>, 1 .. Buckets, Buckets)
      BY <1>1 DEF slab_alloc
    <2>2. Buckets = Cardinality(1 .. Buckets) /\ Buckets \in Nat BY SlabAssumption, FS_Interval
    <2>3. /\ <<b>> \in Seq(Blocks) /\ Once(<<b>>) /\ Listed(<<b>>, b)
          /\ \A c \in Blocks \ {b} : ~Listed(<<b>>, c)
      BY DEF Once, Listed
    <2>4. \A c \in Blocks : ~(c \in made /\ frees[c] > 0) BY <1>1 DEF Listed
    <2>5. \A i \in 1 .. Buckets : <<b, i>> \notin out BY <2>1
    <2>6. \A n \in DOMAIN <<b>> : <<b>>[n] = b OBVIOUS
    <2>7. made' \subseteq Blocks BY <2>1 DEF SlabTypeOK
    <2>8. \A c \in Blocks \ {b} : Listed(<<b>>, c) <=> c \in made /\ frees[c] > 0
      BY <2>3, <2>4
    <2>9. \A c \in made \ {b} : /\ frees[c] = Cardinality(item_head[c])
                                 /\ \A i \in 1 .. Buckets : i \in item_head[c] <=> <<c, i>> \notin out
      OBVIOUS
    <2>10. \A i \in 1 .. Buckets : i \in 1 .. Buckets <=> <<b, i>> \notin out
      BY <2>5
    <2>11. \A n \in DOMAIN <<b>> : <<b>>[n] # b /\ frees[<<b>>[n]] = Buckets => n = Len(<<b>>)
      BY <2>6
    <2>12. SlabTypeOK /\ \A p \in out : p[1] \in made
      OBVIOUS
    <2> HIDE DEF SlabInv, SlabExact
    <2> QED BY <2>1, <2>2, <2>3, <2>7, <2>8, <2>9, <2>10, <2>11, <2>12, TakeSound
  <1>2. CASE block_head # <<>>
    <2> DEFINE b == Head(block_head)
    <2>1. made' = made /\ TakeFrom(b, block_head, item_head[b], frees[b])
      BY <1>2 DEF slab_alloc
    <2>2. b \in Blocks /\ block_head \in Seq(Blocks) /\ Listed(block_head, b)
      <3>1. block_head \in Seq(Blocks) BY DEF SlabTypeOK
      <3>2. 1 \in DOMAIN block_head /\ block_head[1] = b /\ b \in Blocks BY <1>2, <3>1
      <3> QED BY <3>1, <3>2 DEF Listed
    <2> HIDE DEF b
    <2>3. b \in made /\ made \subseteq Blocks BY <2>2 DEF SlabTypeOK
    <2>4. item_head[b] \in SUBSET (1 .. Buckets) /\ frees[b] \in Nat BY <2>2 DEF SlabTypeOK
    <2>5. /\ frees[b] = Cardinality(item_head[b])
          /\ \A i \in 1 .. Buckets : i \in item_head[b] <=> <<b, i>> \notin out
      BY <2>3
    <2>6. \A n \in DOMAIN block_head : block_head[n] # b /\ frees[block_head[n]] = Buckets => n = Len(block_head)
      BY DEF OneSpareBlock
    <2> QED BY <2>1, <2>2, <2>3, <2>4, <2>5, <2>6, TakeSound
  <1> QED BY <1>1, <1>2

(* The list when the block of the item has been caught again. *)
LEMMA CaughtEffect ==
  ASSUME SlabInv, NEW b \in made
  PROVE  LET list == Caught(b)
         IN /\ list \in Seq(Blocks) /\ Once(list) /\ Listed(list, b)
            /\ \A c \in Blocks \ {b} : Listed(list, c) <=> c \in made /\ frees[c] > 0
            /\ \A n \in DOMAIN list : list[n] # b /\ frees[list[n]] = Buckets => n = Len(list)
  <1> USE DEF SlabInv, SlabExact
  <1>a. b \in Blocks /\ block_head \in Seq(Blocks) /\ frees[b] \in Nat BY DEF SlabTypeOK
  <1>1. CASE frees[b] = 0
    <2> DEFINE list == <<b>> \o block_head
    <2>1. Caught(b) = list BY <1>1 DEF Caught
    <2>2. ~Listed(block_head, b) BY <1>1, <1>a
    <2>3. /\ list \in Seq(Blocks) /\ Once(list) /\ Len(list) = Len(block_head) + 1
          /\ \A c \in Blocks : Listed(list, c) <=> Listed(block_head, c) \/ c = b
          /\ list[1] = b /\ \A n \in DOMAIN block_head : list[n + 1] = block_head[n]
      BY <1>a, <2>2, HeadEffect
    <2> HIDE DEF list
    <2>4. ASSUME NEW n \in DOMAIN list, list[n] # b, frees[list[n]] = Buckets
          PROVE  n = Len(list)
      <3>1. n \in 1 .. Len(block_head) + 1 /\ n # 1 /\ Len(block_head) \in Nat BY <1>a, <2>3, <2>4
      <3>2. /\ n - 1 \in DOMAIN block_head /\ (n - 1) + 1 = n BY <1>a, <3>1
      <3>3. list[n] = block_head[n - 1] BY <2>3, <3>2
      <3>4. n - 1 = Len(block_head) BY <2>4, <3>2, <3>3 DEF OneSpareBlock
      <3> QED BY <2>3, <3>1, <3>4
    <2> QED BY <1>a, <2>1, <2>3, <2>4
  <1>2. CASE frees[b] # 0
    <2>1. Caught(b) = block_head BY <1>2 DEF Caught
    <2>2. Listed(block_head, b) BY <1>2, <1>a
    <2> QED BY <1>a, <2>1, <2>2 DEF OneSpareBlock
  <1> QED BY <1>1, <1>2

LEMMA FreeSound ==
  ASSUME SlabInv, NEW p \in out, slab_free(p)
  PROVE  SlabInv'
  <1> USE DEF SlabInv
  <1>1. PICK b \in Blocks, i \in 1 .. Buckets : p = <<b, i>> BY DEF SlabTypeOK
  <1>2. b \in made /\ i \notin item_head[b] /\ frees[b] = Cardinality(item_head[b])
    BY <1>1 DEF SlabExact
  <1>3. PICK list : list = Caught(b) OBVIOUS
  <1>4. /\ list \in Seq(Blocks) /\ Once(list) /\ Listed(list, b)
        /\ \A c \in Blocks \ {b} : Listed(list, c) <=> c \in made /\ frees[c] > 0
        /\ \A n \in DOMAIN list : list[n] # b /\ frees[list[n]] = Buckets => n = Len(list)
    BY <1>2, <1>3, CaughtEffect
  <1>5. /\ out' = out \ {<<b, i>>} /\ frees' = [frees EXCEPT ![b] = @ + 1]
        /\ \/ /\ Freed(b, list) /\ made' = made \ {b} /\ block_head' = hlist_del(list, b)
              /\ item_head' = [item_head EXCEPT ![b] = {}]
           \/ /\ ~Freed(b, list) /\ item_head' = [item_head EXCEPT ![b] = @ \cup {i}]
              /\ block_head' = list /\ made' = made
    BY <1>1, <1>3 DEF slab_free
  <1>6. /\ item_head[b] \in SUBSET (1 .. Buckets) /\ frees[b] \in Nat
        /\ Cardinality(item_head[b] \cup {i}) = frees[b] + 1
        /\ item_head[b] \cup {i} \in SUBSET (1 .. Buckets)
    <2>1. item_head[b] \in SUBSET (1 .. Buckets) /\ frees[b] \in Nat BY DEF SlabTypeOK
    <2>2. IsFiniteSet(item_head[b]) BY <2>1, FiniteItems
    <2> QED BY <1>2, <2>1, <2>2, FS_AddElement
  <1>7. ASSUME NEW c \in made \ {b}
        PROVE  /\ frees'[c] = Cardinality(item_head'[c])
               /\ \A j \in 1 .. Buckets : j \in item_head'[c] <=> <<c, j>> \notin out'
    <2>1. c \in Blocks BY DEF SlabTypeOK
    <2>2. frees'[c] = frees[c] /\ item_head'[c] = item_head[c] BY <1>5, <2>1 DEF SlabTypeOK
    <2>3. \A j \in 1 .. Buckets : <<c, j>> \in out' <=> <<c, j>> \in out BY <1>5
    <2> QED BY <2>2, <2>3 DEF SlabExact
  <1>8. frees' \in [Blocks -> Nat] /\ frees'[b] = frees[b] + 1 BY <1>5, <1>6 DEF SlabTypeOK
  <1>9. CASE Freed(b, list)
    <2>1. /\ block_head' \in Seq(Blocks) /\ Once(block_head')
          /\ \A c \in Blocks : Listed(block_head', c) <=> Listed(list, c) /\ c # b
          /\ \A n \in DOMAIN block_head' :
               \E m \in DOMAIN list : block_head'[n] = list[m] /\ (m = Len(list) => n = Len(block_head'))
      BY <1>4, <1>5, <1>9, DelEffect
    <2>2. made' = made \ {b} /\ item_head' = [item_head EXCEPT ![b] = {}] BY <1>5, <1>9
    <2>3. SlabTypeOK' BY <1>5, <1>8, <2>1, <2>2 DEF SlabTypeOK
    <2>4. item_head[b] \cup {i} = 1 .. Buckets BY <1>6, <1>9, FiniteItems DEF Freed
    <2>5. \A q \in out' : q[1] # b
      <3> SUFFICES ASSUME NEW q \in out', q[1] = b PROVE FALSE OBVIOUS
      <3>1. PICK j \in 1 .. Buckets : q = <<b, j>> BY <1>5 DEF SlabTypeOK
      <3>2. j # i /\ j \notin item_head[b] BY <1>2, <1>5, <3>1 DEF SlabExact
      <3> QED BY <2>4, <3>1, <3>2
    <2>6. \A q \in out' : q[1] \in made' BY <1>5, <2>2, <2>5 DEF SlabExact
    <2>7. ASSUME NEW c \in Blocks PROVE Listed(block_head', c) <=> c \in made' /\ frees'[c] > 0
      <3>1. c # b => frees'[c] = frees[c] BY <1>5 DEF SlabTypeOK
      <3> QED BY <1>4, <2>1, <2>2, <3>1
    <2>8. ASSUME NEW n \in DOMAIN block_head', frees'[block_head'[n]] = Buckets
          PROVE  n = Len(block_head')
      <3>1. PICK m \in DOMAIN list : block_head'[n] = list[m] /\ (m = Len(list) => n = Len(block_head'))
        BY <2>1
      <3>2. block_head'[n] \in Blocks /\ Listed(block_head', block_head'[n]) BY <2>1 DEF Listed
      <3>3. list[m] # b BY <2>1, <3>1, <3>2
      <3>4. frees[list[m]] = Buckets BY <1>5, <2>8, <3>1, <3>2, <3>3 DEF SlabTypeOK
      <3> QED BY <1>4, <3>1, <3>3, <3>4
    <2>9. SlabExact' BY <1>7, <2>1, <2>2, <2>6, <2>7 DEF SlabExact
    <2>10. OneSpareBlock' BY <2>8 DEF OneSpareBlock
    <2> QED BY <2>3, <2>9, <2>10
  <1>10. CASE ~Freed(b, list)
    <2>1. /\ item_head' = [item_head EXCEPT ![b] = @ \cup {i}] /\ block_head' = list /\ made' = made
      BY <1>5, <1>10
    <2>2. SlabTypeOK' BY <1>4, <1>5, <1>6, <1>8, <2>1 DEF SlabTypeOK
    <2>3. /\ frees'[b] = Cardinality(item_head'[b])
          /\ \A j \in 1 .. Buckets : j \in item_head'[b] <=> <<b, j>> \notin out'
      <3>1. item_head'[b] = item_head[b] \cup {i} BY <2>1 DEF SlabTypeOK
      <3>2. \A j \in 1 .. Buckets : j \in item_head[b] <=> <<b, j>> \notin out BY <1>2 DEF SlabExact
      <3> QED BY <1>5, <1>6, <1>8, <3>1, <3>2
    <2>4. \A q \in out' : q[1] \in made' BY <1>5, <2>1 DEF SlabExact
    <2>5. ASSUME NEW c \in Blocks PROVE Listed(block_head', c) <=> c \in made' /\ frees'[c] > 0
      <3>1. c # b => frees'[c] = frees[c] BY <1>5 DEF SlabTypeOK
      <3> QED BY <1>2, <1>4, <1>6, <1>8, <2>1, <3>1
    <2>6. ASSUME NEW n \in DOMAIN list, frees'[list[n]] = Buckets
          PROVE  n = Len(list)
      <3>1. list[n] \in Blocks /\ Len(list) \in DOMAIN list BY <1>4
      <3>2. CASE list[n] = b
        <4>1. b = list[Len(list)] BY <1>8, <1>10, <2>6, <3>2 DEF Freed
        <4> QED BY <1>4, <3>1, <3>2, <4>1 DEF Once
      <3>3. CASE list[n] # b
        <4>1. frees[list[n]] = Buckets BY <1>5, <2>6, <3>1, <3>3 DEF SlabTypeOK
        <4> QED BY <1>4, <3>3, <4>1
      <3> QED BY <3>2, <3>3
    <2>7. SlabExact' BY <1>4, <1>7, <2>1, <2>3, <2>4, <2>5 DEF SlabExact
    <2>8. OneSpareBlock' BY <2>1, <2>6 DEF OneSpareBlock
    <2> QED BY <2>2, <2>7, <2>8
  <1> QED BY <1>9, <1>10

LEMMA SlabStarts ==
  ASSUME SlabInit
  PROVE  SlabInv
  <1>1. SlabTypeOK BY DEF SlabInit, SlabTypeOK
  <1>2. SlabExact BY DEF SlabInit, SlabExact, Once, Listed
  <1>3. OneSpareBlock BY DEF SlabInit, OneSpareBlock
  <1> QED BY <1>1, <1>2, <1>3 DEF SlabInv

LEMMA SlabStep ==
  ASSUME SlabInv, [SlabNext]_slabVars
  PROVE  SlabInv'
  <1>1. CASE UNCHANGED slabVars
    BY <1>1 DEF slabVars, SlabInv, SlabTypeOK, SlabExact, OneSpareBlock, Once, Listed
  <1> QED BY <1>1, AllocSound, FreeSound DEF SlabNext

-----------------------------------------------------------------------------
(* Theorems.                                                               *)

(* For any number of blocks and of items in a block: slab_alloc never gives *)
(* out an item that is in use, and slab_free never frees a block with one.  *)
THEOREM SlabIsExact == SlabSpec => []SlabExact
  <1>1. SlabSpec => []SlabInv BY SlabStarts, SlabStep, PTL DEF SlabSpec
  <1>2. SlabInv => SlabExact BY DEF SlabInv
  <1> QED BY <1>1, <1>2, PTL

(* For any number of blocks and of items in a block: slab_free keeps at     *)
(* most one empty block on the list, the last.                              *)
THEOREM SlabKeepsOneSpare == SlabSpec => []OneSpareBlock
  <1>1. SlabSpec => []SlabInv BY SlabStarts, SlabStep, PTL DEF SlabSpec
  <1>2. SlabInv => OneSpareBlock BY DEF SlabInv
  <1> QED BY <1>1, <1>2, PTL
=============================================================================
