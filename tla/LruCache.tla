------------------------------ MODULE LruCache ------------------------------
(***************************************************************************)
(* The proxy's object cache (proxy/lab/lru.c) with each lru_get and        *)
(* lru_put as one step: what the cache does when nothing interferes.       *)
(* Lru.tla is the same code pointer by pointer and thread by thread.       *)
(*                                                                         *)
(* The doubly linked list between the sentinels head and tail is a         *)
(* sequence of entries, least recently used first.  lru_init leaves        *)
(* lru->size as malloc returned it, so Init lets it be anything in         *)
(* InitialSizes.                                                           *)
(***************************************************************************)
EXTENDS Integers, Sequences, FiniteSets, SequencesExt

CONSTANTS Keys,          \* urls
          Data,          \* cached responses
          Capacity,      \* lru->capacity (MAX_CACHE_SIZE / MAX_OBJECT_SIZE)
          InitialSizes   \* integers the uninitialised lru->size may hold

VARIABLES list,     \* the entries from head->next to tail->pre
          size,     \* lru->size
          crashed   \* the process has dereferenced NULL

cacheVars == <<list, size, crashed>>

Entry == [key : Keys, data : Data]

\* lru_find: the position of the first entry for k, 0 if there is none.
Find(l, k) == LET hits == {i \in DOMAIN l : l[i].key = k}
              IN  IF hits = {} THEN 0 ELSE CHOOSE i \in hits : \A j \in hits : i =< j

Hit(l, k) == Find(l, k) # 0

\* lru_remove then push_back of the entry for k, if there is one.
Touch(l, k) == LET i == Find(l, k)
               IN  IF i = 0 THEN l ELSE Append(RemoveAt(l, i), l[i])

\* Mutant: a second lru_put for a key pushes a second entry.
ReplaceDuplicates(l, k, d) == Append(l, [key |-> k, data |-> d])

\* lru_put when the key is found.
Replace(l, k, d) == Append(RemoveAt(l, Find(l, k)), [key |-> k, data |-> d])

\* Mutant: eviction takes tail->pre, the most recently used entry.
InsertEvictNewest(l, sz, k, d) ==
  Append(IF Capacity = sz THEN Front(l) ELSE l, [key |-> k, data |-> d])

\* lru_put when it is not: the first entry goes if size has reached the
\* capacity, and the new one is pushed.
Insert(l, sz, k, d) == Append(IF Capacity = sz THEN Tail(l) ELSE l, [key |-> k, data |-> d])

-----------------------------------------------------------------------------
Init == /\ list = <<>>
        /\ size \in InitialSizes
        /\ crashed = FALSE

lru_get(k) == /\ ~ crashed
              /\ list' = Touch(list, k)
              /\ UNCHANGED <<size, crashed>>

PutFound(k, d) == /\ ~ crashed
                  /\ Hit(list, k)
                  /\ list' = Replace(list, k, d)
                  /\ UNCHANGED <<size, crashed>>

PutNew(k, d) == /\ ~ crashed
                /\ ~ Hit(list, k)
                /\ Capacity # size \/ list # <<>>
                /\ list' = Insert(list, size, k, d)
                /\ size' = size + 1
                /\ UNCHANGED crashed

\* size says "full" of an empty list: head->next is tail and tail->next NULL.
PutCrash(k) == /\ ~ crashed
               /\ ~ Hit(list, k)
               /\ Capacity = size /\ list = <<>>
               /\ crashed' = TRUE
               /\ UNCHANGED <<list, size>>

lru_put(k, d) == PutFound(k, d) \/ PutNew(k, d) \/ PutCrash(k)

-----------------------------------------------------------------------------
(***************************************************************************)
(* Properties                                                              *)
(***************************************************************************)

KeyAt(l) == [i \in DOMAIN l |-> l[i].key]

\* One entry per key: a hit never returns a response that a later lru_put for
\* the same url has replaced.
OneEntryPerKey == IsInjective(KeyAt(list))

\* Recency: the entry that a step uses becomes the last and the others keep
\* their order, and no step drops an entry while it keeps an older one.
LeastRecentlyUsed ==
  [][\A i, j \in DOMAIN list :
        LET a == list[i].key  b == list[j].key
        IN  i < j /\ Hit(list', a)
              => /\ Hit(list', b)
                 /\ \/ Find(list', a) < Find(list', b)
                    \/ Find(list', a) = Len(list')]_cacheVars
=============================================================================
