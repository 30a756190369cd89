--------------------------- MODULE HeapGraphLemmas ---------------------------
(***************************************************************************)
(* Facts about HeapGraph: what a program can reach, and what is left of    *)
(* that when it overwrites pointers.                                       *)
(***************************************************************************)
EXTENDS HeapGraph, TLAPS

Graphs == [Cells -> SUBSET Cells]

\* The reachable cells are a closed set, and the smallest one.
LEMMA ReachableClosed ==
    ASSUME NEW G \in Graphs, NEW R \in SUBSET Cells
    PROVE  Reachable(G, R) \subseteq Cells /\ ClosedOver(G, R, Reachable(G, R))
  <1>1. R \subseteq Reachable(G, R)
    BY DEF Reachable, ClosedOver
  <1>2. ASSUME NEW c \in Reachable(G, R), NEW d \in G[c]
        PROVE  d \in Reachable(G, R)
    <2>1. d \in Cells
      BY <1>2 DEF Graphs, Reachable
    <2>2. ASSUME NEW S \in SUBSET Cells, ClosedOver(G, R, S) PROVE d \in S
      BY <1>2, <2>2 DEF Reachable, ClosedOver
    <2> QED
      BY <2>1, <2>2 DEF Reachable
  <1> QED
    BY <1>1, <1>2 DEF Reachable, ClosedOver

LEMMA ReachableLeast ==
    ASSUME NEW G, NEW R, NEW S \in SUBSET Cells, ClosedOver(G, R, S)
    PROVE  Reachable(G, R) \subseteq S
  BY DEF Reachable

\* A program that overwrites the pointers of one cell c (or of none: then
\* G[c] is unchanged) and its roots, with pointers it can reach or to c, cannot
\* reach any other cell that it could not reach before.
LEMMA ReachableShrinks ==
    ASSUME NEW G \in Graphs, NEW R \in SUBSET Cells,
           NEW c \in Cells, NEW children \in SUBSET Cells,
           NEW R2 \in SUBSET Cells,
           children \subseteq Reachable(G, R) \cup {c},
           R2 \subseteq Reachable(G, R) \cup {c}
    PROVE  Reachable([G EXCEPT ![c] = children], R2) \subseteq Reachable(G, R) \cup {c}
  <1> DEFINE S == Reachable(G, R) \cup {c}
  <1>1. S \in SUBSET Cells /\ ClosedOver(G, R, Reachable(G, R))
    BY ReachableClosed
  <1>2. ClosedOver([G EXCEPT ![c] = children], R2, S)
    BY <1>1 DEF ClosedOver, Graphs
  <1> QED
    BY <1>1, <1>2, ReachableLeast

LEMMA ReachableShrinks2 ==
    ASSUME NEW G \in Graphs, NEW R \in SUBSET Cells, NEW R2 \in SUBSET Cells,
           R2 \subseteq Reachable(G, R)
    PROVE  Reachable(G, R2) \subseteq Reachable(G, R)
  BY ReachableClosed, ReachableLeast DEF ClosedOver

\* The same for the cells of N, that could not be reached before, and any other
\* cells that are overwritten: what can be reached then lies in N or could be reached
\* before.
LEMMA ReachableBounded ==
    ASSUME NEW G \in Graphs, NEW R \in SUBSET Cells,
           NEW G2 \in Graphs, NEW R2 \in SUBSET Cells, NEW N \in SUBSET Cells,
           R2 \subseteq Reachable(G, R) \cup N,
           \A c \in Reachable(G, R) \cup N :
               G2[c] = G[c] \/ G2[c] \subseteq Reachable(G, R) \cup N,
           \A c \in N \ Reachable(G, R) : G2[c] \subseteq Reachable(G, R) \cup N
    PROVE  Reachable(G2, R2) \subseteq Reachable(G, R) \cup N
  <1> DEFINE S == Reachable(G, R) \cup N
  <1>1. S \in SUBSET Cells /\ ClosedOver(G, R, Reachable(G, R))
    BY ReachableClosed
  <1>2. ClosedOver(G2, R2, S)
    BY <1>1 DEF ClosedOver
  <1> QED
    BY <1>1, <1>2, ReachableLeast

\* What can be reached from S stays reachable as long as its pointers stay and S
\* can be reached.
LEMMA ReachableKept ==
    ASSUME NEW G \in Graphs, NEW S \in SUBSET Cells,
           NEW G2 \in Graphs, NEW R2 \in SUBSET Cells,
           S \subseteq Reachable(G2, R2),
           \A c \in Reachable(G, S) : G2[c] = G[c]
    PROVE  Reachable(G, S) \subseteq Reachable(G2, R2)
  <1> DEFINE D == Reachable(G, S) \cap Reachable(G2, R2)
  <1>1. /\ ClosedOver(G, S, Reachable(G, S)) /\ Reachable(G, S) \subseteq Cells
        /\ ClosedOver(G2, R2, Reachable(G2, R2)) /\ Reachable(G2, R2) \subseteq Cells
    BY ReachableClosed
  <1>2. D \in SUBSET Cells /\ ClosedOver(G, S, D)
    BY <1>1 DEF ClosedOver
  <1>3. Reachable(G, S) \subseteq D
    BY <1>2, ReachableLeast
  <1> QED
    BY <1>3
=============================================================================
