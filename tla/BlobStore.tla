------------------------------ MODULE BlobStore ------------------------------
(***************************************************************************)
(* What a user of HeapFile is promised, without files, indexes or records: *)
(* a map from object ids to objects ("a hash table serialized to disk",    *)
(* heap_file.h) that outlives the HeapFile object.                         *)
(***************************************************************************)
CONSTANTS
  Id,    \* object ids
  Data   \* objects

VARIABLE store  \* the objects stored, a function from a subset of Id to Data

Init == store = [id \in {} |-> {}]

Put(id, data) ==
  store' = [i \in DOMAIN store \cup {id} |-> IF i = id THEN data ELSE store[i]]

\* Nothing is stored under the id afterwards, whether there was before or not.
Erase(id) == store' = [i \in DOMAIN store \ {id} |-> store[i]]

\* setMaxSize may have to give up an object.
Evict == \E id \in DOMAIN store : Erase(id)

Reset == store' = [id \in {} |-> {}]

Next ==
  \/ \E id \in Id, data \in Data : Put(id, data)
  \/ \E id \in Id : Erase(id)
  \/ Evict
  \/ Reset

Spec == Init /\ [][Next]_store
=============================================================================
