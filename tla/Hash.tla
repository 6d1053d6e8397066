-------------------------------- MODULE Hash --------------------------------
(***************************************************************************)
(* The linear hash of utils/hash.c.  The table doubles when it is full,    *)
(* and then every search and every insertion moves one bucket of the       *)
(* previous table, so that a node is in one of two tables.  A bucket is    *)
(* the set of the nodes that are linked to it: the order in a bucket only  *)
(* matters to nodes with the same id.                                      *)
(***************************************************************************)
EXTENDS Integers, FiniteSets

CONSTANTS
  Nodes,        \* the ohc_hash_node_t objects
  Ids,          \* MD5 ids
  IdOf,         \* IdOf[n]: the id of node n
  HashOf,       \* HashOf[id]: the two halves of the id, xor'ed
  SizeBegin, SizeMax,   \* HASH_BUCKET_SIZE_BEGIN, HASH_BUCKET_SIZE_MAX
  Collisions,   \* HASH_COLLISIONS
  None          \* NULL

ASSUME HashAssumption ==
  /\ IsFiniteSet(Nodes) /\ None \notin Nodes
  /\ IdOf \in [Nodes -> Ids] /\ HashOf \in [Ids -> Nat]
  /\ SizeBegin \in Nat \ {0} /\ SizeMax \in Nat /\ Collisions \in Nat \ {0}

(* The mask of hash_index is a remainder only for a power of two. *)
ASSUME SizeAssumption == \E k \in 0 .. 28 : SizeBegin = 2 ^ k

VARIABLES
  table,      \* per node: linked in "buckets", in "prev_buckets" or "out"
  bucket,     \* per node, the number of the bucket it was linked to
  bucket_size, items,
  splitting,  \* prev_buckets # NULL
  split,
  asked,      \* the id of the last call, if that was a hash_get
  found,      \* what it returned
  starved     \* has a calloc failed?

hashVars == <<table, bucket, bucket_size, items, splitting, split, asked, found, starved>>

hash_index(size, n) == HashOf[IdOf[n]] % size

HashInit ==
  /\ table = [n \in Nodes |-> "out"] /\ bucket = [n \in Nodes |-> 0]
  /\ bucket_size = SizeBegin /\ items = 0
  /\ splitting = FALSE /\ split = 0
  /\ asked = None /\ found = None /\ starved = FALSE

(* State the rest of the step works on: the tables, and what is left out. *)
Tables == [table |-> table, bucket |-> bucket, size |-> bucket_size, items |-> items,
           splitting |-> splitting, split |-> split, starved |-> starved]

Becomes(h) ==
  /\ table' = h.table /\ bucket' = h.bucket /\ bucket_size' = h.size /\ items' = h.items
  /\ splitting' = h.splitting /\ split' = h.split /\ starved' = h.starved

(* Mutant: one round of nodes too late. *)
Due_Late(h) == h.items \div h.size > Collisions /\ ~h.splitting /\ h.size < SizeMax

Due(h) == h.items \div h.size >= Collisions /\ ~h.splitting /\ h.size < SizeMax

(* The buckets become the previous ones. *)
Double(h) ==
  [table |-> [n \in Nodes |-> IF h.table[n] = "buckets" THEN "prev_buckets" ELSE h.table[n]],
   bucket |-> h.bucket, size |-> 2 * h.size, items |-> h.items,
   splitting |-> TRUE, split |-> 0, starved |-> h.starved]

(* The nodes of the bucket of the previous table that is next to move. *)
Moved(h) == {n \in Nodes : h.table[n] = "prev_buckets" /\ h.bucket[n] = h.split}

(* One bucket of the previous table is moved; after the last one it is      *)
(* freed.                                                                   *)
SplitOne(h) ==
  [table |-> [n \in Nodes |-> IF n \in Moved(h) THEN "buckets" ELSE h.table[n]],
   bucket |-> [n \in Nodes |-> IF n \in Moved(h) THEN hash_index(h.size, n) ELSE h.bucket[n]],
   size |-> h.size, items |-> h.items,
   splitting |-> h.split + 1 # h.size \div 2, split |-> h.split + 1, starved |-> h.starved]

Starve(h) ==
  [table |-> h.table, bucket |-> h.bucket, size |-> h.size, items |-> h.items,
   splitting |-> h.splitting, split |-> h.split, starved |-> TRUE]

(* If calloc fails nothing is done. *)
hash_expansion(h, mem) ==
  IF Due(h) THEN IF mem THEN SplitOne(Double(h)) ELSE Starve(h)
  ELSE IF h.splitting THEN SplitOne(h) ELSE h

(* A node is linked to the new table, whatever the split. *)
Inserted(n) ==
  [table |-> [table EXCEPT ![n] = "buckets"],
   bucket |-> [bucket EXCEPT ![n] = hash_index(bucket_size, n)],
   size |-> bucket_size, items |-> items + 1,
   splitting |-> splitting, split |-> split, starved |-> starved]

HashAdd(n) ==
  /\ table[n] = "out"
  /\ \E mem \in BOOLEAN : Becomes(hash_expansion(Inserted(n), mem))
  /\ asked' = None /\ found' = None

(* The nodes with that id in a bucket. *)
hash_search(h, t, b, id) ==
  {n \in Nodes : h.table[n] = t /\ h.bucket[n] = b /\ IdOf[n] = id}

(* Mutant: the upper half is not folded. *)
PrevIndex_Same(index, pbsize) == index

PrevIndex(index, pbsize) == IF index >= pbsize THEN index - pbsize ELSE index

(* Both tables are searched, the new one first. *)
Search(h, id) ==
  LET index == HashOf[id] % h.size
      new == hash_search(h, "buckets", index, id)
  IN IF new # {} \/ ~h.splitting THEN new
     ELSE hash_search(h, "prev_buckets", PrevIndex(index, h.size \div 2), id)

Answers(nodes) == IF nodes = {} THEN found' = None ELSE found' \in nodes

HashGet(id) ==
  /\ \E mem \in BOOLEAN :
       LET h == hash_expansion(Tables, mem)
       IN Becomes(h) /\ Answers(Search(h, id))
  /\ asked' = id

HashDel(n) ==
  /\ table[n] # "out"
  /\ table' = [table EXCEPT ![n] = "out"] /\ items' = items - 1
  /\ asked' = None /\ found' = None
  /\ UNCHANGED <<bucket, bucket_size, splitting, split, starved>>

HashNext ==
  \/ \E n \in Nodes : HashAdd(n) \/ HashDel(n)
  \/ \E id \in Ids : HashGet(id)

HashSpec == HashInit /\ [][HashNext]_hashVars

-----------------------------------------------------------------------------
(* Properties.                                                             *)

In(h) == {n \in Nodes : h.table[n] # "out"}

Typed(h) ==
  /\ h.table \in [Nodes -> {"out", "buckets", "prev_buckets"}]
  /\ h.bucket \in [Nodes -> Nat]
  /\ h.size \in Nat \ {0} /\ h.items \in Nat /\ h.split \in Nat
  /\ h.splitting \in BOOLEAN /\ h.starved \in BOOLEAN

(* Every variable has its type. *)
HashTypeOK == Typed(Tables) /\ asked \in Ids \cup {None} /\ found \in Nodes \cup {None}

(* Every node is in the bucket where hash_get looks for it: in the new     *)
(* table under its index there; in the previous table, only while that     *)
(* exists, under its index there, in a bucket that is still to be split.   *)
Placed(h) ==
  \A n \in Nodes :
    /\ h.table[n] = "buckets" => h.bucket[n] = hash_index(h.size, n)
    /\ h.table[n] = "prev_buckets" =>
         h.splitting /\ h.bucket[n] >= h.split /\ h.bucket[n] = hash_index(h.size \div 2, n)

Halves(h) == h.splitting => h.size = 2 * (h.size \div 2) /\ h.split < h.size \div 2

(* Unless memory was short: no doubling is due, and a split is not late. *)
Keeps(h) ==
  /\ ~h.starved /\ h.size < SizeMax => h.items < Collisions * h.size
  /\ ~h.starved /\ h.splitting => h.items < Collisions * (h.size \div 2) + h.split

(* The inductive invariant: types, every node in the bucket where hash_get  *)
(* looks for it, items the number of linked nodes (hash_add, hash_del), and *)
(* a split that keeps pace with the insertions (hash_expansion).            *)
HashInv ==
  /\ HashTypeOK
  /\ Placed(Tables) /\ Halves(Tables) /\ Keeps(Tables)
  /\ items = Cardinality(In(Tables))

(* The buckets never lag behind the nodes ("expansion: double the hash      *)
(* buckets", hash.c:78): unless memory is short or the table has its        *)
(* largest size, a bucket has less than Collisions nodes on average, and no *)
(* doubling comes due while a previous one is still going on.               *)
LoadBounded ==
  ~starved /\ bucket_size < SizeMax =>
    Cardinality(In(Tables)) < Collisions * bucket_size

Dictionary == INSTANCE Dict WITH held <- In(Tables), got <- found

(* Splitting is invisible to the servers: hash_add, hash_get and hash_del   *)
(* do on the two tables what they would do on a set of nodes; a node of the *)
(* id that was asked for is found wherever the split pointer is.            *)
HashIsDictionary == Dictionary!Spec
=============================================================================
