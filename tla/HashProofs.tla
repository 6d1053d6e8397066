----------------------------- MODULE HashProofs -----------------------------
(***************************************************************************)
(* Proofs about Hash, for every set of nodes and every hash function: the  *)
(* inductive invariant, the load bound, and that the two tables implement  *)
(* a dictionary.                                                           *)
(***************************************************************************)
EXTENDS Hash, FiniteSetTheorems, TLAPS

-----------------------------------------------------------------------------
(* Arithmetic of hash_index.                                               *)

LEMMA Divided ==
  ASSUME NEW h \in Nat, NEW n \in Nat \ {0}
  PROVE  \E q \in Nat, r \in 0 .. n - 1 : h = n * q + r /\ (h % n) = r
  <1>1. /\ h \div n \in Nat /\ (h % n) \in 0 .. n - 1
        /\ h = n * (h \div n) + (h % n)
    OBVIOUS
  <1> QED BY <1>1

LEMMA Remainder ==
  ASSUME NEW n \in Nat \ {0}, NEW q \in Nat, NEW r \in 0 .. n - 1
  PROVE  ((n * q + r) % n) = r
  OBVIOUS

(* The index in a table of twice the size is the old one, or that much     *)
(* further: what hash_get relies on when it subtracts pbsize.              *)
LEMMA LowBits ==
  ASSUME NEW h \in Nat, NEW n \in Nat \ {0}
  PROVE  /\ (h % n) \in 0 .. n - 1
         /\ (h % (2 * n)) = (h % n) \/ (h % (2 * n)) = (h % n) + n
  <1>1. PICK q \in Nat, r \in 0 .. 2 * n - 1 : h = (2 * n) * q + r /\ (h % (2 * n)) = r
    BY Divided, 2 * n \in Nat \ {0}
  <1>2. CASE r < n
    <2>1. h = n * (2 * q) + r BY <1>1
    <2>2. ((n * (2 * q) + r) % n) = r BY <1>2, Remainder, 2 * q \in Nat, r \in 0 .. n - 1
    <2> QED BY <1>1, <1>2, <2>1, <2>2
  <1>3. CASE r >= n
    <2>1. h = n * (2 * q + 1) + (r - n) BY <1>1
    <2>2. ((n * (2 * q + 1) + (r - n)) % n) = r - n
      BY <1>3, Remainder, 2 * q + 1 \in Nat, r - n \in 0 .. n - 1
    <2> QED BY <1>1, <1>3, <2>1, <2>2
  <1> QED BY <1>2, <1>3

LEMMA Quotient ==
  ASSUME NEW i \in Nat, NEW n \in Nat \ {0}, NEW c \in Nat
  PROVE  i \div n >= c <=> i >= c * n
  OBVIOUS

LEMMA IndexType ==
  ASSUME NEW size \in Nat \ {0}, NEW n \in Nodes
  PROVE  hash_index(size, n) \in 0 .. size - 1
  BY HashAssumption, LowBits DEF hash_index

-----------------------------------------------------------------------------
(* The steps of hash_expansion.                                            *)

LEMMA DoubleSound ==
  ASSUME NEW h, Typed(h), Placed(h), ~h.splitting
  PROVE  /\ Typed(Double(h)) /\ Placed(Double(h)) /\ Halves(Double(h))
         /\ In(Double(h)) = In(h)
  <1>1. Typed(Double(h))
    BY DEF Typed, Double
  <1>2. Placed(Double(h))
    <2>1. h.size \in Nat /\ (2 * h.size) \div 2 = h.size
      BY DEF Typed
    <2>2. ASSUME NEW n \in Nodes
          PROVE /\ h.bucket[n] \in Nat /\ h.table[n] # "prev_buckets"
                /\ h.table[n] = "buckets" => h.bucket[n] = hash_index(h.size, n)
      BY DEF Placed, Typed
    <2> QED BY <2>1, <2>2 DEF Placed, Double
  <1>3. Halves(Double(h))
    BY DEF Typed, Halves, Double
  <1>4. In(Double(h)) = In(h)
    BY DEF In, Double
  <1> QED BY <1>1, <1>2, <1>3, <1>4

LEMMA SplitSound ==
  ASSUME NEW h, Typed(h), Placed(h), Halves(h), h.splitting
  PROVE  /\ Typed(SplitOne(h)) /\ Placed(SplitOne(h)) /\ Halves(SplitOne(h))
         /\ In(SplitOne(h)) = In(h)
  <1>a. \A n \in Nodes : hash_index(h.size, n) \in Nat
    BY IndexType DEF Typed
  <1>b. h.size \div 2 \in Nat \ {0} /\ h.split \in Nat /\ h.split < h.size \div 2
    BY DEF Typed, Halves
  <1>1. Typed(SplitOne(h))
    BY <1>a DEF Typed, SplitOne
  <1>2. Placed(SplitOne(h))
    <2> SUFFICES ASSUME NEW n \in Nodes, n \notin Moved(h), h.table[n] = "prev_buckets"
                 PROVE  /\ h.split + 1 # h.size \div 2 /\ h.bucket[n] >= h.split + 1
                        /\ h.bucket[n] = hash_index(h.size \div 2, n)
      BY DEF Placed, SplitOne, Moved
    <2>1. h.bucket[n] # h.split /\ h.bucket[n] >= h.split /\ h.bucket[n] = hash_index(h.size \div 2, n)
      BY DEF Placed, Moved
    <2>2. hash_index(h.size \div 2, n) \in 0 .. (h.size \div 2) - 1
      BY <1>b, IndexType
    <2> QED BY <1>b, <2>1, <2>2
  <1>3. Halves(SplitOne(h))
    <2>1. h.size = 2 * (h.size \div 2)
      BY DEF Halves
    <2>2. /\ SplitOne(h).splitting = (h.split + 1 # h.size \div 2)
          /\ SplitOne(h).size = h.size /\ SplitOne(h).split = h.split + 1
      BY DEF SplitOne
    <2>3. h.split + 1 # h.size \div 2 => h.split + 1 < h.size \div 2
      BY <1>b
    <2> QED BY <2>1, <2>2, <2>3 DEF Halves
  <1>4. In(SplitOne(h)) = In(h)
    BY DEF In, SplitOne, Moved
  <1> QED BY <1>1, <1>2, <1>3, <1>4

(* What a table must be before hash_expansion, in hash_add after items++:  *)
(* the node that was just added may make a doubling due.                   *)
Slack(h) ==
  /\ ~h.starved /\ h.size < SizeMax =>
       IF h.splitting THEN h.items < Collisions * h.size ELSE h.items <= Collisions * h.size
  /\ ~h.starved /\ h.splitting => h.items < Collisions * (h.size \div 2) + h.split + 1

LEMMA Products ==
  ASSUME NEW s \in Nat
  PROVE  /\ Collisions * s \in Nat /\ Collisions * s >= s
         /\ Collisions * (2 * s) = Collisions * s + Collisions * s
  BY HashAssumption

(* A doubling and the split of one bucket make room for the node that made  *)
(* them due.                                                                *)
LEMMA DoubledRoom ==
  ASSUME NEW s \in Nat \ {0}, NEW i \in Nat, i <= Collisions * s
  PROVE  i < Collisions * (2 * s) /\ i < Collisions * s + 1
  <1> DEFINE p == Collisions * s
  <1>1. p \in Nat /\ p >= s /\ Collisions * (2 * s) = p + p
    BY Products
  <1> HIDE DEF p
  <1> QED BY <1>1 DEF p

(* While a split goes on, one more node does not fill the new table. *)
LEMMA SplitRoom ==
  ASSUME NEW s \in Nat \ {0}, NEW i \in Nat, NEW k \in Nat, k < s, i < Collisions * s + k
  PROVE  i + 1 < Collisions * (2 * s)
  <1> DEFINE p == Collisions * s
  <1>1. p \in Nat /\ p >= s /\ Collisions * (2 * s) = p + p
    BY Products
  <1>2. i < p + k
    OBVIOUS
  <1> HIDE DEF p
  <1> QED BY <1>1, <1>2

LEMMA ExpansionSound ==
  ASSUME NEW h, NEW mem \in BOOLEAN, Typed(h), Placed(h), Halves(h)
  PROVE  LET g == hash_expansion(h, mem)
         IN Typed(g) /\ Placed(g) /\ Halves(g) /\ In(g) = In(h) /\ g.items = h.items
  <1>1. CASE Due(h) /\ mem
    <2>1. ~h.splitting BY <1>1 DEF Due
    <2>2. /\ Typed(Double(h)) /\ Placed(Double(h)) /\ Halves(Double(h))
          /\ In(Double(h)) = In(h)
      BY <2>1, DoubleSound
    <2>3. Double(h).splitting /\ Double(h).items = h.items
      BY DEF Double
    <2>4. /\ Typed(SplitOne(Double(h))) /\ Placed(SplitOne(Double(h)))
          /\ Halves(SplitOne(Double(h))) /\ In(SplitOne(Double(h))) = In(Double(h))
      BY <2>2, <2>3, SplitSound
    <2>5. SplitOne(Double(h)).items = h.items
      BY <2>3 DEF SplitOne
    <2> QED BY <1>1, <2>2, <2>4, <2>5 DEF hash_expansion
  <1>2. CASE Due(h) /\ ~mem
    <2>1. hash_expansion(h, mem) = Starve(h)
      BY <1>2 DEF hash_expansion
    <2>2. Typed(Starve(h)) BY DEF Typed, Starve
    <2>3. Placed(Starve(h)) BY DEF Placed, Starve
    <2>4. Halves(Starve(h)) BY DEF Halves, Starve
    <2>5. In(Starve(h)) = In(h) /\ Starve(h).items = h.items BY DEF In, Starve
    <2> QED BY <2>1, <2>2, <2>3, <2>4, <2>5
  <1>3. CASE ~Due(h) /\ h.splitting
    <2>1. hash_expansion(h, mem) = SplitOne(h)
      BY <1>3 DEF hash_expansion
    <2>2. SplitOne(h).items = h.items BY DEF SplitOne
    <2> QED BY <1>3, <2>1, <2>2, SplitSound
  <1>4. CASE ~Due(h) /\ ~h.splitting
    BY <1>4 DEF hash_expansion
  <1> QED BY <1>1, <1>2, <1>3, <1>4

LEMMA ExpansionKeeps ==
  ASSUME NEW h, NEW mem \in BOOLEAN, Typed(h), Halves(h), Slack(h)
  PROVE  Keeps(hash_expansion(h, mem))
  <1>a. /\ h.size \in Nat \ {0} /\ h.size \div 2 \in Nat /\ h.split \in Nat /\ h.items \in Nat
        /\ h.starved \in BOOLEAN
    BY DEF Typed
  <1>b. Collisions * h.size \in Nat /\ Collisions * (h.size \div 2) \in Nat
    BY <1>a, Products
  <1>1. CASE Due(h) /\ mem
    <2>1. hash_expansion(h, mem) = SplitOne(Double(h))
      BY <1>1 DEF hash_expansion
    <2>2. /\ SplitOne(Double(h)).size = 2 * h.size /\ SplitOne(Double(h)).split = 1
          /\ SplitOne(Double(h)).items = h.items /\ SplitOne(Double(h)).starved = h.starved
      <3>1. /\ Double(h).size = 2 * h.size /\ Double(h).split = 0
            /\ Double(h).items = h.items /\ Double(h).starved = h.starved
        BY DEF Double
      <3>2. \A g : /\ SplitOne(g).size = g.size /\ SplitOne(g).split = g.split + 1
                   /\ SplitOne(g).items = g.items /\ SplitOne(g).starved = g.starved
        BY DEF SplitOne
      <3> QED BY <3>1, <3>2
    <2>3. (2 * h.size) \div 2 = h.size
      BY <1>a
    <2>4. ~h.starved => h.items <= Collisions * h.size
      BY <1>1 DEF Due, Slack
    <2>5. ~h.starved => h.items < Collisions * (2 * h.size) /\ h.items < Collisions * h.size + 1
      BY <1>a, <2>4, DoubledRoom
    <2> QED BY <2>1, <2>2, <2>3, <2>5 DEF Keeps
  <1>2. CASE Due(h) /\ ~mem
    <2>1. hash_expansion(h, mem) = Starve(h) /\ Starve(h).starved
      BY <1>2 DEF hash_expansion, Starve
    <2> QED BY <2>1 DEF Keeps
  <1>3. CASE ~Due(h) /\ h.splitting
    <2>1. hash_expansion(h, mem) = SplitOne(h)
      BY <1>3 DEF hash_expansion
    <2>2. /\ SplitOne(h).size = h.size /\ SplitOne(h).split = h.split + 1
          /\ SplitOne(h).items = h.items /\ SplitOne(h).starved = h.starved
      BY DEF SplitOne
    <2>3. ~h.starved /\ h.size < SizeMax => h.items < Collisions * h.size
      BY <1>3 DEF Slack
    <2>4. ~h.starved => h.items < Collisions * (h.size \div 2) + h.split + 1
      BY <1>3 DEF Slack
    <2>5. ~h.starved => h.items < Collisions * (h.size \div 2) + (h.split + 1)
      BY <1>a, <1>b, <2>4
    <2> QED BY <2>1, <2>2, <2>3, <2>5 DEF Keeps
  <1>4. CASE ~Due(h) /\ ~h.splitting
    <2>1. hash_expansion(h, mem) = h
      BY <1>4 DEF hash_expansion
    <2>2. h.size < SizeMax => ~(h.items \div h.size >= Collisions)
      BY <1>4 DEF Due
    <2>3. h.items \div h.size >= Collisions <=> h.items >= Collisions * h.size
      BY <1>a, Quotient, HashAssumption
    <2>4. h.size < SizeMax => h.items < Collisions * h.size
      BY <1>a, <1>b, <2>2, <2>3
    <2> QED BY <1>4, <2>1, <2>4 DEF Keeps
  <1> QED BY <1>1, <1>2, <1>3, <1>4

-----------------------------------------------------------------------------
(* Searches.                                                               *)

(* A node that is linked is in one of the two buckets that hash_get looks   *)
(* into.                                                                    *)
LEMMA SearchFinds ==
  ASSUME NEW h, NEW id \in Ids, Typed(h), Placed(h), Halves(h)
  PROVE  /\ Search(h, id) \subseteq {n \in In(h) : IdOf[n] = id}
         /\ Search(h, id) = {} => {n \in In(h) : IdOf[n] = id} = {}
  <1>1. Search(h, id) \subseteq {n \in In(h) : IdOf[n] = id}
    BY DEF Search, hash_search, In
  <1>2. ASSUME NEW n \in In(h), IdOf[n] = id, Search(h, id) = {}
        PROVE  FALSE
    <2>a. n \in Nodes /\ h.table[n] \in {"buckets", "prev_buckets"}
      BY DEF In, Typed
    <2>1. CASE h.table[n] = "buckets"
      <3>1. h.bucket[n] = HashOf[id] % h.size
        BY <1>2, <2>a, <2>1 DEF Placed, hash_index
      <3>2. n \in hash_search(h, "buckets", HashOf[id] % h.size, id)
        BY <1>2, <2>a, <2>1, <3>1 DEF hash_search
      <3> QED BY <1>2, <3>2 DEF Search
    <2>2. CASE h.table[n] = "prev_buckets"
      <3>1. h.splitting /\ h.bucket[n] = (HashOf[id] % (h.size \div 2))
        BY <1>2, <2>a, <2>2 DEF Placed, hash_index
      <3>2. h.size \div 2 \in Nat \ {0} /\ h.size = 2 * (h.size \div 2)
        BY <3>1 DEF Halves, Typed
      <3>3. HashOf[id] \in Nat
        BY HashAssumption
      <3>4. /\ (HashOf[id] % (h.size \div 2)) \in 0 .. (h.size \div 2) - 1
            /\ \/ (HashOf[id] % h.size) = (HashOf[id] % (h.size \div 2))
               \/ (HashOf[id] % h.size) = (HashOf[id] % (h.size \div 2)) + (h.size \div 2)
        BY <3>2, <3>3, LowBits
      <3>5. PrevIndex(HashOf[id] % h.size, h.size \div 2) = h.bucket[n]
        BY <3>1, <3>2, <3>4 DEF PrevIndex
      <3>6. n \in hash_search(h, "prev_buckets", PrevIndex(HashOf[id] % h.size, h.size \div 2), id)
        BY <1>2, <2>a, <2>2, <3>5 DEF hash_search
      <3> QED BY <1>2, <3>1, <3>6 DEF Search
    <2> QED BY <2>a, <2>1, <2>2
  <1> QED BY <1>1, <1>2

-----------------------------------------------------------------------------
(* The invariant.                                                          *)

(* What Becomes carries over from a table to the state. *)
LEMMA BecomesSound ==
  ASSUME NEW h, Typed(h), Placed(h), Halves(h), Keeps(h), h.items = Cardinality(In(h)),
         Becomes(h), asked' \in Ids \cup {None}, found' \in Nodes \cup {None}
  PROVE  HashInv' /\ In(Tables)' = In(h)
  <1>1. In(Tables)' = In(h)
    BY DEF In, Tables, Becomes
  <1>2. Typed(Tables)'
    BY DEF Typed, Tables, Becomes
  <1>3. Placed(Tables)'
    BY DEF Placed, Tables, Becomes, hash_index
  <1>4. Halves(Tables)'
    BY DEF Halves, Tables, Becomes
  <1>5. Keeps(Tables)'
    BY DEF Keeps, Tables, Becomes
  <1>6. items' = Cardinality(In(Tables)')
    BY <1>1 DEF Becomes
  <1> QED BY <1>1, <1>2, <1>3, <1>4, <1>5, <1>6 DEF HashInv, HashTypeOK

LEMMA FiniteIn ==
  ASSUME NEW h
  PROVE  IsFiniteSet(In(h))
  BY HashAssumption, FS_Subset DEF In

LEMMA InsertedSound ==
  ASSUME NEW n \in Nodes, HashInv, table[n] = "out"
  PROVE  /\ Typed(Inserted(n)) /\ Placed(Inserted(n)) /\ Halves(Inserted(n)) /\ Slack(Inserted(n))
         /\ In(Inserted(n)) = In(Tables) \cup {n}
         /\ Inserted(n).items = Cardinality(In(Inserted(n)))
  <1> USE DEF Tables, HashInv, HashTypeOK
  <1>a. /\ table \in [Nodes -> {"out", "buckets", "prev_buckets"}] /\ bucket \in [Nodes -> Nat]
        /\ bucket_size \in Nat \ {0} /\ items \in Nat /\ split \in Nat
        /\ splitting \in BOOLEAN /\ starved \in BOOLEAN
    BY DEF Typed
  <1>1. Typed(Inserted(n))
    BY <1>a, IndexType DEF Typed, Inserted
  <1>2. Placed(Inserted(n))
    BY <1>a DEF Placed, Inserted
  <1>3. Halves(Inserted(n))
    BY DEF Halves, Inserted
  <1>4. Slack(Inserted(n))
    <2>1. /\ ~starved /\ bucket_size < SizeMax => items < Collisions * bucket_size
          /\ ~starved /\ splitting => items < Collisions * (bucket_size \div 2) + split
      BY DEF Keeps
    <2>2. splitting => bucket_size = 2 * (bucket_size \div 2) /\ split < bucket_size \div 2
      BY DEF Halves
    <2>3. splitting => bucket_size \div 2 \in Nat \ {0}
      BY <1>a, <2>2
    <2>4. ~starved /\ splitting => items + 1 < Collisions * bucket_size
      BY <1>a, <2>1, <2>2, <2>3, SplitRoom
    <2>5. Collisions * bucket_size \in Nat /\ Collisions * (bucket_size \div 2) \in Nat
      BY <1>a, Products, bucket_size \div 2 \in Nat
    <2>6. ~starved /\ bucket_size < SizeMax => items + 1 <= Collisions * bucket_size
      BY <1>a, <2>1, <2>5
    <2>7. ~starved /\ splitting => items + 1 < Collisions * (bucket_size \div 2) + split + 1
      <3> DEFINE p == Collisions * (bucket_size \div 2)
      <3>1. p \in Nat BY <2>5
      <3>2. ~starved /\ splitting => items < p + split BY <2>1
      <3> HIDE DEF p
      <3>3. ~starved /\ splitting => items + 1 < p + split + 1 BY <1>a, <3>1, <3>2
      <3> QED BY <3>3 DEF p
    <2> QED BY <2>4, <2>6, <2>7 DEF Slack, Inserted
  <1>5. In(Inserted(n)) = In(Tables) \cup {n} /\ n \notin In(Tables)
    BY <1>a DEF In, Inserted
  <1>6. Cardinality(In(Tables) \cup {n}) = Cardinality(In(Tables)) + 1
    BY <1>5, FiniteIn, FS_AddElement
  <1>7. Inserted(n).items = items + 1
    BY DEF Inserted
  <1> QED BY <1>1, <1>2, <1>3, <1>4, <1>5, <1>6, <1>7

(* Adding a node: the new node is in, and the invariant holds. *)
LEMMA AddSound ==
  ASSUME NEW n \in Nodes, HashInv, HashAdd(n)
  PROVE  HashInv' /\ In(Tables)' = In(Tables) \cup {n}
  <1>1. PICK mem \in BOOLEAN : Becomes(hash_expansion(Inserted(n), mem))
    BY DEF HashAdd
  <1>2. /\ Typed(Inserted(n)) /\ Placed(Inserted(n)) /\ Halves(Inserted(n)) /\ Slack(Inserted(n))
        /\ In(Inserted(n)) = In(Tables) \cup {n}
        /\ Inserted(n).items = Cardinality(In(Inserted(n)))
    BY InsertedSound DEF HashAdd
  <1>3. PICK g : g = hash_expansion(Inserted(n), mem)
    OBVIOUS
  <1>4. Typed(g) /\ Placed(g) /\ Halves(g) /\ In(g) = In(Inserted(n)) /\ g.items = Inserted(n).items
    BY <1>2, <1>3, ExpansionSound
  <1>5. Keeps(g)
    BY <1>2, <1>3, ExpansionKeeps
  <1>6. Becomes(g) /\ g.items = Cardinality(In(g))
        /\ asked' \in Ids \cup {None} /\ found' \in Nodes \cup {None}
    <2>1. Becomes(g) BY <1>1, <1>3
    <2>2. g.items = Cardinality(In(g)) BY <1>2, <1>4
    <2>3. asked' \in Ids \cup {None} /\ found' \in Nodes \cup {None} BY DEF HashAdd
    <2> QED BY <2>1, <2>2, <2>3
  <1>7. HashInv' /\ In(Tables)' = In(g)
    BY <1>4, <1>5, <1>6, BecomesSound
  <1> QED BY <1>2, <1>4, <1>7

LEMMA TablesSlack ==
  ASSUME HashInv
  PROVE  Typed(Tables) /\ Placed(Tables) /\ Halves(Tables) /\ Slack(Tables)
  <1>1. Typed(Tables) /\ Placed(Tables) /\ Halves(Tables) /\ Keeps(Tables)
    BY DEF HashInv, HashTypeOK
  <1>2. PICK h : h = Tables
    OBVIOUS
  <1>3. /\ h.size \in Nat \ {0} /\ h.items \in Nat /\ h.split \in Nat
        /\ h.splitting \in BOOLEAN /\ h.starved \in BOOLEAN
    BY <1>1, <1>2 DEF Typed
  <1>a. h.size \div 2 \in Nat
    BY <1>3
  <1>4. Collisions * h.size \in Nat /\ Collisions * (h.size \div 2) \in Nat
    BY <1>3, <1>a, Products
  <1>5. Slack(h)
    BY <1>1, <1>2, <1>3, <1>4 DEF Keeps, Slack
  <1> QED BY <1>1, <1>2, <1>5

(* A search: the nodes stay, and the answer is right. *)
LEMMA GetSound ==
  ASSUME NEW id \in Ids, HashInv, HashGet(id)
  PROVE  /\ HashInv' /\ In(Tables)' = In(Tables) /\ asked' = id
         /\ IF {n \in In(Tables) : IdOf[n] = id} = {}
            THEN found' = None ELSE found' \in {n \in In(Tables) : IdOf[n] = id}
  <1>1. PICK mem \in BOOLEAN : /\ Becomes(hash_expansion(Tables, mem))
                               /\ Answers(Search(hash_expansion(Tables, mem), id))
    BY DEF HashGet
  <1>2. PICK g : g = hash_expansion(Tables, mem)
    OBVIOUS
  <1>3. Typed(Tables) /\ Placed(Tables) /\ Halves(Tables) /\ Slack(Tables)
    BY TablesSlack
  <1>4. Typed(g) /\ Placed(g) /\ Halves(g) /\ In(g) = In(Tables) /\ g.items = Tables.items
    BY <1>2, <1>3, ExpansionSound
  <1>5. Keeps(g)
    BY <1>2, <1>3, ExpansionKeeps
  <1>6. /\ Search(g, id) \subseteq {n \in In(g) : IdOf[n] = id}
        /\ Search(g, id) = {} => {n \in In(g) : IdOf[n] = id} = {}
    BY <1>4, SearchFinds
  <1>7. IF {n \in In(g) : IdOf[n] = id} = {}
        THEN found' = None ELSE found' \in {n \in In(g) : IdOf[n] = id}
    BY <1>1, <1>2, <1>6 DEF Answers
  <1>8. asked' = id /\ found' \in Nodes \cup {None}
    BY <1>7 DEF In, HashGet
  <1>9. Becomes(g) /\ g.items = Cardinality(In(g))
    BY <1>1, <1>2, <1>4 DEF HashInv, Tables
  <1>10. HashInv' /\ In(Tables)' = In(g)
    BY <1>4, <1>5, <1>8, <1>9, BecomesSound
  <1> QED BY <1>4, <1>7, <1>8, <1>10

(* Removing a node. *)
LEMMA DelSound ==
  ASSUME NEW n \in Nodes, HashInv, HashDel(n)
  PROVE  HashInv' /\ In(Tables)' = In(Tables) \ {n}
  <1> USE DEF Tables
  <1>a. /\ table \in [Nodes -> {"out", "buckets", "prev_buckets"}] /\ bucket \in [Nodes -> Nat]
        /\ bucket_size \in Nat \ {0} /\ items \in Nat /\ split \in Nat
        /\ splitting \in BOOLEAN /\ starved \in BOOLEAN
    BY DEF HashInv, HashTypeOK, Typed
  <1>b. /\ table' = [table EXCEPT ![n] = "out"] /\ items' = items - 1 /\ asked' = None /\ found' = None
        /\ UNCHANGED <<bucket, bucket_size, splitting, split, starved>>
        /\ table[n] # "out"
    BY DEF HashDel
  <1>1. In(Tables)' = In(Tables) \ {n} /\ n \in In(Tables)
    BY <1>a, <1>b DEF In
  <1>2. Cardinality(In(Tables) \ {n}) = Cardinality(In(Tables)) - 1
    <2>1. PICK S : S = In(Tables) OBVIOUS
    <2>2. IsFiniteSet(S) /\ n \in S BY <2>1, <1>1, FiniteIn
    <2>3. Cardinality(S \ {n}) = Cardinality(S) - 1 BY <2>2, FS_RemoveElement
    <2> QED BY <2>1, <2>3
  <1>3. items = Cardinality(In(Tables))
    BY DEF HashInv
  <1>4. Cardinality(In(Tables)) \in Nat /\ Cardinality(In(Tables) \ {n}) \in Nat
    <2>1. IsFiniteSet(In(Tables)) /\ IsFiniteSet(In(Tables) \ {n})
      BY FiniteIn, FS_RemoveElement
    <2> QED BY <2>1, FS_CardinalityType
  <1>5. items' = Cardinality(In(Tables)') /\ items' \in Nat
    BY <1>b, <1>1, <1>2, <1>3, <1>4
  <1>6. Typed(Tables)'
    BY <1>a, <1>b, <1>5 DEF Typed
  <1>7. Placed(Tables)'
    <2>1. Placed(Tables) BY DEF HashInv
    <2> QED BY <1>a, <1>b, <2>1 DEF Placed, hash_index
  <1>8. Halves(Tables)'
    <2>1. Halves(Tables) BY DEF HashInv
    <2> QED BY <1>b, <2>1 DEF Halves
  <1>9. Keeps(Tables)'
    <2>1. /\ ~starved /\ bucket_size < SizeMax => items < Collisions * bucket_size
          /\ ~starved /\ splitting => items < Collisions * (bucket_size \div 2) + split
      BY DEF HashInv, Keeps
    <2>2. bucket_size \div 2 \in Nat
      BY <1>a
    <2>3. Collisions * bucket_size \in Nat /\ Collisions * (bucket_size \div 2) \in Nat
      BY <1>a, <2>2, Products
    <2>4. /\ ~starved /\ bucket_size < SizeMax => items - 1 < Collisions * bucket_size
          /\ ~starved /\ splitting => items - 1 < Collisions * (bucket_size \div 2) + split
      BY <1>a, <2>1, <2>3
    <2> QED BY <1>b, <2>4 DEF Keeps
  <1> QED BY <1>1, <1>b, <1>5, <1>6, <1>7, <1>8, <1>9 DEF HashInv, HashTypeOK

LEMMA InitSound ==
  ASSUME HashInit
  PROVE  HashInv /\ In(Tables) = {}
  <1> USE DEF HashInit, Tables
  <1>1. In(Tables) = {} BY DEF In
  <1>2. Typed(Tables) BY HashAssumption DEF Typed
  <1>3. Placed(Tables) /\ Halves(Tables) BY DEF Placed, Halves
  <1>4. Keeps(Tables)
    <2>1. 0 < Collisions * SizeBegin BY HashAssumption
    <2> QED BY <2>1 DEF Keeps
  <1>5. items = Cardinality(In(Tables)) BY <1>1, FS_EmptySet
  <1> QED BY <1>1, <1>2, <1>3, <1>4, <1>5 DEF HashInv, HashTypeOK

(* A step of hash_add, hash_get or hash_del keeps the invariant and is the  *)
(* step of the dictionary with the same name.                               *)
LEMMA StepSound ==
  ASSUME HashInv, [HashNext]_hashVars
  PROVE  HashInv' /\ [Dictionary!Next]_<<In(Tables), asked, found>>
  <1>1. ASSUME NEW n \in Nodes, HashAdd(n)
        PROVE  HashInv' /\ Dictionary!Next
    <2>1. HashInv' /\ In(Tables)' = In(Tables) \cup {n}
      BY <1>1, AddSound
    <2>2. n \notin In(Tables) /\ asked' = None /\ found' = None
      BY <1>1 DEF HashAdd, In, Tables
    <2> QED BY <2>1, <2>2 DEF Dictionary!Next, Dictionary!Add
  <1>2. ASSUME NEW n \in Nodes, HashDel(n)
        PROVE  HashInv' /\ Dictionary!Next
    <2>1. HashInv' /\ In(Tables)' = In(Tables) \ {n}
      BY <1>2, DelSound
    <2>2. n \in In(Tables) /\ asked' = None /\ found' = None
      BY <1>2 DEF HashDel, In, Tables
    <2> QED BY <2>1, <2>2 DEF Dictionary!Next, Dictionary!Del
  <1>3. ASSUME NEW id \in Ids, HashGet(id)
        PROVE  HashInv' /\ Dictionary!Next
    <2>1. /\ HashInv' /\ In(Tables)' = In(Tables) /\ asked' = id
          /\ IF {n \in In(Tables) : IdOf[n] = id} = {}
             THEN found' = None ELSE found' \in {n \in In(Tables) : IdOf[n] = id}
      BY <1>3, GetSound
    <2> QED BY <2>1 DEF Dictionary!Next, Dictionary!Get, Dictionary!Matches
  <1>4. ASSUME UNCHANGED hashVars
        PROVE  HashInv' /\ In(Tables)' = In(Tables) /\ asked' = asked /\ found' = found
    <2>1. Tables' = Tables /\ asked' = asked /\ found' = found /\ items' = items
      BY <1>4 DEF hashVars, Tables
    <2>2. Typed(Tables)' /\ Placed(Tables)' /\ Halves(Tables)' /\ Keeps(Tables)'
      BY <2>1, TablesSlack DEF HashInv, Typed, Placed, Halves, Keeps, hash_index
    <2>3. In(Tables)' = In(Tables)
      BY <2>1 DEF In
    <2> QED BY <2>1, <2>2, <2>3 DEF HashInv, HashTypeOK
  <1> QED BY <1>1, <1>2, <1>3, <1>4 DEF HashNext

-----------------------------------------------------------------------------
(* Theorems.                                                               *)

(* Every reachable state of the linear hash has every node in the bucket    *)
(* where hash_get looks for it, counts its nodes, and keeps the split ahead *)
(* of the insertions, for any nodes, ids, hash function and sizes.          *)
THEOREM HashInvariant == HashSpec => []HashInv
  <1>1. HashInit => HashInv BY InitSound
  <1>2. HashInv /\ [HashNext]_hashVars => HashInv' BY StepSound
  <1> QED BY <1>1, <1>2, PTL DEF HashSpec

(* The load bound of hash_expansion: without a failed calloc a table below  *)
(* its largest size has less than HASH_COLLISIONS nodes per bucket.         *)
THEOREM HashLoadBounded == HashSpec => []LoadBounded
  <1>1. HashInv => LoadBounded
    BY DEF HashInv, Keeps, Tables, LoadBounded
  <1> QED BY <1>1, HashInvariant, PTL

(* The two tables and the split pointer implement a dictionary: hash_get    *)
(* finds a node with the id whenever one is linked, and nothing else.       *)
THEOREM HashImplementsDictionary == HashSpec => HashIsDictionary
  <1>1. HashInit => Dictionary!Init
    BY InitSound DEF Dictionary!Init, HashInit
  <1>2. HashInv /\ [HashNext]_hashVars => [Dictionary!Next]_<<In(Tables), asked, found>>
    BY StepSound
  <1> QED BY <1>1, <1>2, HashInvariant, PTL DEF HashSpec, HashIsDictionary, Dictionary!Spec
=============================================================================
