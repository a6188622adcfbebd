------------------------------- MODULE ArenaAbs -------------------------------
(***************************************************************************)
(* What KStringArena promises to the engine: Allocate hands out a buffer   *)
(* that overlaps no buffer still in use, RevertBookmark takes back exactly *)
(* the buffers handed out since the bookmark, Clear takes back all.        *)
(***************************************************************************)
EXTENDS Naturals

CONSTANT Buffers     \* [slab, off, len]: len characters at offset off

VARIABLES live,      \* the buffers in use
          saved      \* the buffers in use at the open bookmark
avars == << live, saved >>

Overlap(r, q) ==
    /\ r.slab = q.slab
    /\ r.off < q.off + q.len
    /\ q.off < r.off + r.len

AInit == live = {} /\ saved = {}

AAllocate ==
    /\ \E r \in live' :
         /\ r \in Buffers
         /\ \A q \in live : ~Overlap(r, q)
         /\ live' = live \cup {r}
    /\ saved' = saved

ABookmark == live' = live /\ saved' = live
ARevert   == live' = saved /\ saved' = saved
AClear    == live' = {} /\ saved' = {}

ANext == AAllocate \/ ABookmark \/ ARevert \/ AClear

ASpec == AInit /\ [][ANext]_avars
===============================================================================
