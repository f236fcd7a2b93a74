--------------------------- MODULE MCSegmentCache ---------------------------
(* Model-checking instance of the segment cache: three places, four        *)
(* segments and four objects, so that eviction, reuse of a destroyed        *)
(* address and duplicates in the hands of the log all happen.               *)
EXTENDS SegmentCache
=============================================================================
