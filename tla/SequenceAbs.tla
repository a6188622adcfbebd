------------------------------ MODULE SequenceAbs ------------------------------
(***************************************************************************)
(* What KVector and KDeque promise: sequences of elements.  An argument    *)
(* may be an element of a sequence, of the same one too; an argument that  *)
(* is moved from stays in its sequence as a shell.  A call that fails      *)
(* leaves everything as it was, except that a failed Clone has emptied its *)
(* target.                                                                 *)
(***************************************************************************)
EXTENDS Sequences, SequencesExt

CONSTANTS Objects, Vals,
          Moved        \* what a move leaves, unless it is a copy

VARIABLE content       \* for every object, its sequence

AInit == content = [o \in Objects |-> << >>]

AAppend(o, v) == content' = [content EXCEPT ![o] = Append(@, v)]

AAppendMoved(o, p, i) ==
    /\ i \in DOMAIN content[p]
    /\ LET shelled == [content EXCEPT ![p][i] = Moved] IN
         content' = [shelled EXCEPT ![o] = Append(@, content[p][i])]

AInsert(o, i, v) ==
    /\ i \in 1 .. Len(content[o]) + 1
    /\ content' = [content EXCEPT ![o] = InsertAt(@, i, v)]

AClear(o) == content' = [content EXCEPT ![o] = << >>]

AMove(o, from) ==
    /\ o # from
    /\ content' = [content EXCEPT ![o] = content[from], ![from] = << >>]

AClone(o, to) == content' = [content EXCEPT ![to] = content[o]]

\* A value the caller holds, or an element that is copied.
Copied == Vals \cup UNION {ToSet(content[p]) : p \in Objects}

ANext ==
    \E o \in Objects :
      \/ \E v \in Copied : AAppend(o, v)
      \/ \E p \in Objects : \E i \in DOMAIN content[p] : AAppendMoved(o, p, i)
      \/ \E v \in Copied : \E i \in 1 .. Len(content[o]) + 1 : AInsert(o, i, v)
      \/ \E p \in Objects : AMove(o, p) \/ AClone(o, p)
      \/ AClear(o)

ASpec == AInit /\ [][ANext]_content
===============================================================================
