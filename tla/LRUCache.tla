------------------------------ MODULE LRUCache ------------------------------
(***************************************************************************)
(* What the segment cache promises, without a queue: a set of at most      *)
(* Capacity segments, each held by one object, and a strict order on them  *)
(* by last use.  A new segment may displace only the one that every other  *)
(* segment was used after.                                                 *)
(***************************************************************************)
EXTENDS Naturals, FiniteSets

CONSTANTS Segments, Objects, Capacity

VARIABLES
    holder,   \* holder[s] is the object that caches segment s
    older,    \* <<s, t>> : t was used before s
    answer    \* what the last lookup answered, NoAnswer after another operation

lruVars == <<holder, older, answer>>

NoAnswer     == {}

Cached       == DOMAIN holder
Without(R, s) == {p \in R : p[1] # s /\ p[2] # s}
Oldest       == {s \in Cached : \A t \in Cached \ {s} : <<t, s>> \in older}

\* The order once s is the most recently used of the segments in S.
Newest(s, S) == Without(older, s) \cup {<<s, t>> : t \in S \ {s}}

LRUInit == holder = <<>> /\ older = {} /\ answer = NoAnswer

Use(s) ==
    /\ s \in Cached
    /\ older' = Newest(s, Cached)
    /\ holder' = holder
    /\ answer' = {<<s, holder[s]>>}

Insert(s, o) ==
    /\ s \notin Cached
    /\ answer' = NoAnswer
    /\ \E gone \in SUBSET Oldest :
          /\ (gone # {}) <=> (Cardinality(Cached) = Capacity)
          /\ LET kept == Cached \ gone IN
             /\ holder' = [t \in kept \cup {s} |-> IF t = s THEN o ELSE holder[t]]
             /\ older'  = {p \in Newest(s, kept) : p[2] \notin gone /\ p[1] \notin gone}

Drop(s) ==
    /\ s \in Cached
    /\ holder' = [t \in Cached \ {s} |-> holder[t]]
    /\ older'  = Without(older, s)
    /\ answer' = NoAnswer

LRUNext ==
    \/ \E s \in Segments : Use(s) \/ Drop(s)
    \/ \E s \in Segments, o \in Objects : Insert(s, o)

LRUSpec == LRUInit /\ [][LRUNext]_lruVars
=============================================================================
