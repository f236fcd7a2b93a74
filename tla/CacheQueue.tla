----------------------------- MODULE CacheQueue -----------------------------
(***************************************************************************)
(* The queue of SegmentCache (data_structures/segment_cache.hpp) as pure   *)
(* operators: a sequence of cached segments, most recently used first.  An *)
(* entry is a record with a field seg, the segmentNumber of its summary.   *)
(* The operators are used by SegmentCache, which checks them on their own, *)
(* and by Log, which keeps the contents of the segments in the entries.    *)
(***************************************************************************)
EXTENDS Naturals, Sequences

containsEntry(queue, segmentNumber) ==
    \E i \in DOMAIN queue : queue[i].seg = segmentNumber

\* The entry the linear searches stop at: the first one that matches.
FindEntry(queue, segmentNumber) ==
    CHOOSE i \in DOMAIN queue :
        /\ queue[i].seg = segmentNumber
        /\ \A j \in 1 .. i - 1 : queue[j].seg # segmentNumber

\* queue.erase(it)
EraseAt(queue, i) == SubSeq(queue, 1, i - 1) \o SubSeq(queue, i + 1, Len(queue))

\* Mutant: a hit changes places with the front instead of moving there.
getEntrySwap(queue, segmentNumber) ==
    LET i == FindEntry(queue, segmentNumber)
    IN  [queue EXCEPT ![1] = queue[i], ![i] = queue[1]]

\* A hit moves the entry to the front of the queue.
getEntry(queue, segmentNumber) ==
    LET i == FindEntry(queue, segmentNumber)
    IN  <<queue[i]>> \o EraseAt(queue, i)

\* Mutant: the cache evicts only once it has outgrown its size.
putEntryOffByOne(queue, segment, cache_size) ==
    <<segment>> \o (IF Len(queue) > cache_size
                      THEN EraseAt(queue, Len(queue)) ELSE queue)

\* A full cache gives up its last entry to make room for the new one.
putEntry(queue, segment, cache_size) ==
    <<segment>> \o (IF Len(queue) = cache_size
                      THEN EraseAt(queue, Len(queue)) ELSE queue)

invalidateEntry(queue, segmentNumber) ==
    IF containsEntry(queue, segmentNumber)
      THEN EraseAt(queue, FindEntry(queue, segmentNumber)) ELSE queue
=============================================================================
