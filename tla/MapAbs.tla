-------------------------------- MODULE MapAbs --------------------------------
(***************************************************************************)
(* What KFlatHashMap promises: finite maps that only grow, until they are  *)
(* cleared or moved from.  Emplace leaves a key that is there alone.       *)
(***************************************************************************)
CONSTANTS Maps, Keys, Vals

VARIABLE content     \* for every map object, a function on its keys

Empty == << >>
With(f, k, v) == [x \in DOMAIN f \cup {k} |-> IF x = k THEN v ELSE f[x]]

AInit == content = [o \in Maps |-> Empty]

AEmplace(o, k, v) ==
    /\ k \notin DOMAIN content[o]
    /\ content' = [content EXCEPT ![o] = With(@, k, v)]

AClear(o) == content' = [content EXCEPT ![o] = Empty]

AMove(o, from) ==
    /\ o # from
    /\ content' = [content EXCEPT ![o] = content[from], ![from] = Empty]

ANext ==
    \E o \in Maps :
      \/ AClear(o)
      \/ \E k \in Keys, v \in Vals : AEmplace(o, k, v)
      \/ \E from \in Maps : AMove(o, from)

ASpec == AInit /\ [][ANext]_content
===============================================================================
