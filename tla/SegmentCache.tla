---------------------------- MODULE SegmentCache ----------------------------
(***************************************************************************)
(* The segment cache and the ownership of the InMemorySegment objects it   *)
(* holds.  An object is made by SegmentFactory::Build for the log (its     *)
(* tail, or a segment just read), may be handed to the cache by putEntry,  *)
(* and is destroyed by its owner: the cache on eviction and invalidation,  *)
(* the log in FreeSegment.  malloc may give a destroyed object's address   *)
(* to the next Build.                                                      *)
(***************************************************************************)
EXTENDS CacheQueue, FiniteSets

CONSTANTS
    Segments,     \* segment numbers
    Objects,      \* addresses malloc can return
    cache_size    \* the --cache option

ASSUME CacheAssumption == cache_size \in Nat \ {0}

VARIABLES
    queue,      \* SegmentCache::queue, entries [seg, obj]
    returned,   \* what getEntry returned, as a set of at most one entry
    held,       \* the objects the log owns, as entries
    allocated,  \* the addresses malloc has handed out and not got back
    up          \* FALSE once putEntry or getEntry has thrown

vars == <<queue, returned, held, allocated, up>>

Entries == [seg : Segments, obj : Objects]

Init ==
    /\ queue = <<>>
    /\ returned = {}
    /\ held = {}
    /\ allocated = {}
    /\ up = TRUE

\* SegmentFactory::Build
Build(s, o) ==
    /\ up /\ o \notin allocated
    /\ allocated' = allocated \cup {o}
    /\ held' = held \cup {[seg |-> s, obj |-> o]}
    /\ UNCHANGED <<queue, returned, up>>

\* SegmentFactory::Destroy, called by the log through FreeSegment
Destroy(e) ==
    /\ up /\ e \in held
    /\ held' = held \ {e}
    /\ allocated' = allocated \ {e.obj}
    /\ UNCHANGED <<queue, returned, up>>

\* getEntry returns queue[0] after the entry was moved there.  A getEntry of
\* a segment that is not there throws: the process ends.
Get(s) ==
    /\ up
    /\ IF containsEntry(queue, s)
         THEN /\ queue' = getEntry(queue, s)
              /\ returned' = {queue'[1]}
              /\ up' = up
         ELSE up' = FALSE /\ UNCHANGED <<queue, returned>>
    /\ UNCHANGED <<held, allocated>>

\* Mutant: putEntry without its check for duplicates.
PutUnchecked(e) ==
    /\ up /\ e \in held
    /\ queue' = putEntry(queue, e, cache_size)
    /\ returned' = {}
    /\ held' = held \ {e}
    /\ allocated' = IF Len(queue) = cache_size
                      THEN allocated \ {queue[Len(queue)].obj} ELSE allocated
    /\ up' = up

\* putEntry destroys the entry it evicts; a duplicate throws.
Put(e) ==
    /\ up /\ e \in held
    /\ IF containsEntry(queue, e.seg)
         THEN up' = FALSE /\ UNCHANGED <<queue, returned, held, allocated>>
         ELSE /\ queue' = putEntry(queue, e, cache_size)
              /\ returned' = {}
              /\ held' = held \ {e}
              /\ allocated' = IF Len(queue) = cache_size
                                THEN allocated \ {queue[Len(queue)].obj}
                                ELSE allocated
              /\ up' = up

\* Mutant: the destroyed entry is not taken out of the queue.
InvalidateKeepsEntry(s) ==
    /\ up
    /\ allocated' = IF containsEntry(queue, s)
                      THEN allocated \ {queue[FindEntry(queue, s)].obj}
                      ELSE allocated
    /\ UNCHANGED <<queue, returned, held, up>>

\* invalidateEntry destroys the entry it removes; a miss is ignored.
Invalidate(s) ==
    /\ up
    /\ queue' = invalidateEntry(queue, s)
    /\ returned' = IF containsEntry(queue, s) THEN {} ELSE returned
    /\ allocated' = IF containsEntry(queue, s)
                      THEN allocated \ {queue[FindEntry(queue, s)].obj}
                      ELSE allocated
    /\ UNCHANGED <<held, up>>

Next ==
    \/ \E s \in Segments : Get(s) \/ Invalidate(s)
    \/ \E s \in Segments, o \in Objects : Build(s, o)
    \/ \E e \in held : Destroy(e) \/ Put(e)

Spec == Init /\ [][Next]_vars

----------------------------------------------------------------------------

\* The cache never grows past the --cache option.
TypeOK ==
    /\ queue \in Seq(Entries)
    /\ Len(queue) <= cache_size
    /\ returned \in SUBSET Entries
    /\ held \in SUBSET Entries
    /\ allocated \in SUBSET Objects
    /\ up \in BOOLEAN

\* A segment is cached at most once, which is what the throw in putEntry is
\* for: two copies of a segment could disagree.
NoDuplicates ==
    \A i, j \in DOMAIN queue : queue[i].seg = queue[j].seg => i = j

\* Object ownership: every allocated object has exactly one owner, a queue
\* position or the log, and no owner keeps an object that was destroyed.  A
\* violation would be a leak, a double free or a use after free.
OneOwner ==
    /\ allocated = {queue[i].obj : i \in DOMAIN queue} \cup {e.obj : e \in held}
    /\ \A i, j \in DOMAIN queue : queue[i].obj = queue[j].obj => i = j
    /\ \A i \in DOMAIN queue, e \in held : queue[i].obj # e.obj
    /\ \A e, f \in held : e.obj = f.obj => e = f

\* The queue implements a least-recently-used cache: its entries are the
\* cached segments and its positions their order by last use.
Abs == INSTANCE LRUCache WITH
    Segments <- Segments, Objects <- Objects, Capacity <- cache_size,
    holder <- [s \in {queue[i].seg : i \in DOMAIN queue} |->
                  queue[FindEntry(queue, s)].obj],
    older <- {<<queue[p[1]].seg, queue[p[2]].seg>> :
                 p \in {r \in (DOMAIN queue) \X (DOMAIN queue) : r[1] < r[2]}},
    answer <- {<<e.seg, e.obj>> : e \in returned}

ImplementsLRU == Abs!LRUSpec
=============================================================================
