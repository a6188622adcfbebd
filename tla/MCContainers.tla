----------------------------- MODULE MCContainers -----------------------------
(***************************************************************************)
(* The container templates on one pool, one instance of them at a time:    *)
(* deques and vectors of objects, and vectors of plain data.               *)
(***************************************************************************)
EXTENDS KDeque, TLC

CONSTANTS SvoCapacity, SmallCapacity, FirstDynamic, Requests

VARIABLES
    container,                \* "deque", "objects" or "bytes"
    m_First, m_Last, m_End    \* of vectors

\* Capacities grow 1, 2, 4, 6 as the code's grow 2, 8, ..., 1024, 1536; six is
\* beyond the limit, so that growth can also fail for its size.
ObjectVec == INSTANCE KVector WITH
    Vecs <- Deques, TriviallyCopyable <- FALSE, DoublingLimit <- 4, MaxCapacity <- 4

\* Here already two grows by half.
ByteVec == INSTANCE KVector WITH
    Vecs <- Deques, TriviallyCopyable <- TRUE, DoublingLimit <- 2, MaxCapacity <- 3

ASSUME VectorsAssumption == ObjectVec!ConstantsOK /\ ByteVec!ConstantsOK

Names == Permutations(Blocks) \cup Permutations(Vals) \cup Permutations(Deques)

vectorVars == << m_First, m_Last, m_End >>
dequeVars  == << alive, m_Blocks, m_Size >>
poolVars   == << mem, objects >>
allVars    == << container, vectorVars, dequeVars, poolVars >>

NoVectors == m_First = [o \in Deques |-> NULL] /\ m_Last = [o \in Deques |-> 0]
             /\ m_End = [o \in Deques |-> 0]
NoDeques  == alive = {} /\ m_Blocks = [o \in Deques |-> Zeroed]
             /\ m_Size = [o \in Deques |-> 0]

MCInit ==
    \/ container = "deque" /\ Init /\ NoVectors
    \/ container = "objects" /\ ObjectVec!Init /\ NoDeques
    \/ container = "bytes" /\ ByteVec!Init /\ NoDeques

MCNext ==
    /\ UNCHANGED container
    /\ \/ container = "deque" /\ Next /\ UNCHANGED vectorVars
       \/ container = "objects" /\ ObjectVec!Next /\ UNCHANGED dequeVars
       \/ container = "bytes" /\ ByteVec!Next /\ UNCHANGED dequeVars

MCSpec == MCInit /\ [][MCNext]_allVars

-----------------------------------------------------------------------------
\* Every pool block has exactly one owner, none is lost, and the owner's idea
\* of its size fits, whatever was grown, moved, cleared or refused.
StorageOwned ==
    /\ container = "deque" => TypeOK /\ BlocksOwned
    /\ container = "objects" => ObjectVec!TypeOK /\ ObjectVec!StorageOwned
    /\ container = "bytes" => ByteVec!TypeOK /\ ByteVec!StorageOwned

\* The constructed objects are exactly the elements: none is leaked, built
\* over or destroyed twice.
ObjectsOwned ==
    /\ container = "deque" => ObjectsExact
    /\ container = "objects" => ObjectVec!ObjectsExact

\* Every operation does to the containers' sequences what SequenceAbs says of
\* it, for arguments that are elements of the container itself too, and a
\* failure consumes nothing.
\* (Contents is the same for both kinds of vectors.)
Abstract == INSTANCE SequenceAbs WITH
    Objects <- Deques,
    content <- IF container = "deque" THEN Contents ELSE ObjectVec!Contents

ImplementSequences == Abstract!ASpec
===============================================================================
