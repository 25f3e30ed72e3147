-------------------------- MODULE LineMapperProofs --------------------------
(* What the line mapper computes, for every two texts: its table and its     *)
(* trace are defined, the trace is a longest common subsequence, leaving out *)
(* the two equal ends loses nothing, and the two tables of a mapping are     *)
(* each other's inverse.                                                     *)
EXTENDS LineMapper, SequenceTheorems, FiniteSetTheorems, WellFoundedInduction, TLAPS

-----------------------------------------------------------------------------
(* Numbers.                                                                  *)

LEMMA LeastNumber ==
  ASSUME NEW T \in SUBSET Nat, T # {}
  PROVE  \E n \in T : \A m \in T : n <= m
<1> DEFINE Initials == {1 .. n : n \in T}
<1>1. Initials \subseteq FiniteSubsetsOf(Nat)
  <2> SUFFICES ASSUME NEW n \in T PROVE 1 .. n \in FiniteSubsetsOf(Nat)
    OBVIOUS
  <2>1. IsFiniteSet(1 .. n)
    BY FS_Interval
  <2> QED
    BY <2>1 DEF FiniteSubsetsOf
<1>2. PICK I \in Initials :
        \A J \in Initials : <<J, I>> \notin StrictSubsetOrdering(Nat)
  <2>1. IsWellFoundedOn(StrictSubsetOrdering(Nat), FiniteSubsetsOf(Nat))
    BY FS_StrictSubsetOrderingWellFounded
  <2>2. Initials # {}
    OBVIOUS
  <2> HIDE DEF Initials
  <2> QED
    BY <1>1, <2>1, <2>2, WFMin
<1>3. PICK n \in T : I = 1 .. n
  OBVIOUS
<1>4. ASSUME NEW m \in T, m < n PROVE FALSE
  <2>1. 1 .. m \in Initials /\ 1 .. m \subseteq 1 .. n /\ 1 .. m # 1 .. n
    BY <1>4
  <2>2. 1 .. m \in SUBSET Nat /\ 1 .. n \in SUBSET Nat
    OBVIOUS
  <2> QED
    BY <1>2, <1>3, <2>1, <2>2 DEF StrictSubsetOrdering
<1> QED
  BY <1>4

(* Induction, on the set of the numbers that something holds of.             *)
LEMMA NumbersFromZero ==
  ASSUME NEW T, 0 \in T, \A n \in Nat : n \in T => n + 1 \in T
  PROVE  Nat \subseteq T
<1> SUFFICES ASSUME Nat \ T # {} PROVE FALSE
  OBVIOUS
<1>1. PICK n \in Nat \ T : \A m \in Nat \ T : n <= m
  BY LeastNumber
<1>2. n # 0 /\ n - 1 \in Nat /\ n - 1 < n
  BY <1>1
<1> QED
  BY <1>1, <1>2

LEMMA GreatestNumber ==
  ASSUME NEW n \in Nat, NEW T \in SUBSET (0 .. n), T # {}
  PROVE  Max(T) \in T /\ \A m \in T : m <= Max(T)
<1> DEFINE Rest == {n - t : t \in T}
<1>1. Rest \in SUBSET Nat /\ Rest # {}
  <2>1. \A t \in T : n - t \in Nat
    OBVIOUS
  <2> QED
    BY <2>1
<1>2. PICK r \in Rest : \A q \in Rest : r <= q
  BY <1>1, LeastNumber
<1>3. PICK t \in T : r = n - t
  OBVIOUS
<1>4. \A m \in T : t >= m
  <2> SUFFICES ASSUME NEW m \in T PROVE t >= m
    OBVIOUS
  <2>1. n - m \in Rest
    OBVIOUS
  <2> QED
    BY <1>2, <1>3, <2>1
<1>5. LET x == CHOOSE x \in T : \A y \in T : x >= y
      IN  x \in T /\ \A y \in T : x >= y
  BY <1>4, Zenon
<1>6. Max(T) \in T /\ \A y \in T : Max(T) >= y
  BY <1>5 DEF Max
<1> QED
  BY <1>6

LEMMA GreaterOfTwo ==
  ASSUME NEW i \in Nat, NEW j \in Nat
  PROVE  Max({i, j}) = IF i >= j THEN i ELSE j
BY DEF Max

(* The smaller of the two lengths, as Common has it.                         *)
LEMMA CommonNumbers ==
  ASSUME NEW S, NEW X \in Seq(S), NEW Y \in Seq(S)
  PROVE  Common(X, Y) = {n \in Nat : n <= Len(X) /\ n <= Len(Y)}
<1>1. Len(X) \in Nat /\ Len(Y) \in Nat
  OBVIOUS
<1>2. Min({Len(X), Len(Y)}) = IF Len(X) <= Len(Y) THEN Len(X) ELSE Len(Y)
  BY <1>1 DEF Min
<1> QED
  BY <1>1, <1>2 DEF Common

-----------------------------------------------------------------------------
(* The table and the trace: both recursive functions have a solution, by     *)
(* induction on the number of lines above and to the left of a cell.         *)

(* What a cell of either is filled with.                                     *)
Entry(X, Y, C, c) ==
  IF c[1] = 0 \/ c[2] = 0 THEN 0
  ELSE IF X[c[1]] = Y[c[2]] THEN C[Corner(c)] + 1
  ELSE Max({C[Left(c)], C[Above(c)]})

TraceEntry(X, Y, C, T, c) ==
  IF c[1] = 0 \/ c[2] = 0 THEN {}
  ELSE IF X[c[1]] = Y[c[2]] THEN T[Corner(c)] \cup {c}
  ELSE IF C[Left(c)] >= C[Above(c)] THEN T[Left(c)] ELSE T[Above(c)]

Steps(c) == c[1] + c[2]

LEMMA Neighbours ==
  ASSUME NEW S, NEW X \in Seq(S), NEW Y \in Seq(S), NEW c \in Cells(X, Y)
  PROVE  /\ c[1] \in 0 .. Len(X) /\ c[2] \in 0 .. Len(Y)
         /\ c = <<c[1], c[2]>>
         /\ Steps(c) \in Nat
         /\ Steps(c) <= Len(X) + Len(Y)
         /\ c[1] # 0 /\ c[2] # 0 =>
              /\ {Corner(c), Left(c), Above(c)} \subseteq Cells(X, Y)
              /\ Steps(Corner(c)) < Steps(c)
              /\ Steps(Left(c)) < Steps(c)
              /\ Steps(Above(c)) < Steps(c)
BY DEF Cells, Steps, Corner, Left, Above

(* An entry depends on the cells before it only.                             *)
LEMMA EntryOfCellsBefore ==
  ASSUME NEW S, NEW X \in Seq(S), NEW Y \in Seq(S), NEW c \in Cells(X, Y),
         NEW C, NEW D, NEW E,
         \A b \in Cells(X, Y) : Steps(b) < Steps(c) => D[b] = E[b]
  PROVE  /\ Entry(X, Y, D, c) = Entry(X, Y, E, c)
         /\ TraceEntry(X, Y, C, D, c) = TraceEntry(X, Y, C, E, c)
<1>1. c[1] # 0 /\ c[2] # 0 =>
        /\ D[Corner(c)] = E[Corner(c)]
        /\ D[Left(c)] = E[Left(c)]
        /\ D[Above(c)] = E[Above(c)]
  BY Neighbours
<1> QED
  BY <1>1 DEF Entry, TraceEntry

LEMMA TableExists ==
  ASSUME NEW S, NEW X \in Seq(S), NEW Y \in Seq(S)
  PROVE  \E C : C = [c \in Cells(X, Y) |-> Entry(X, Y, C, c)]
<1> DEFINE
      Filled(n) == \E D : /\ D = [c \in Cells(X, Y) |-> D[c]]
                          /\ \A c \in Cells(X, Y) :
                               Steps(c) <= n => D[c] = Entry(X, Y, D, c)
      Reached   == {n \in Nat : Filled(n)}
<1>1. Filled(0)
  <2> DEFINE D == [c \in Cells(X, Y) |-> 0]
  <2>1. ASSUME NEW c \in Cells(X, Y), Steps(c) <= 0
        PROVE  D[c] = Entry(X, Y, D, c)
    <3>1. c[1] = 0
      BY <2>1, Neighbours DEF Steps
    <3> QED
      BY <3>1 DEF Entry
  <2>2. D = [c \in Cells(X, Y) |-> D[c]]
    OBVIOUS
  <2> HIDE DEF D
  <2> QED
    BY <2>1, <2>2
<1>2. ASSUME NEW n \in Nat, Filled(n) PROVE Filled(n + 1)
  <2>1. PICK D : \A c \in Cells(X, Y) : Steps(c) <= n => D[c] = Entry(X, Y, D, c)
    BY <1>2
  <2> DEFINE E == [c \in Cells(X, Y) |-> IF Steps(c) = n + 1 THEN Entry(X, Y, D, c)
                                                             ELSE D[c]]
  <2>2. \A b \in Cells(X, Y) : Steps(b) < n + 1 => D[b] = E[b]
    BY Neighbours
  <2>3. ASSUME NEW c \in Cells(X, Y), Steps(c) <= n + 1
        PROVE  E[c] = Entry(X, Y, E, c)
    <3>1. E[c] = Entry(X, Y, D, c)
      BY <2>1, <2>3, Neighbours
    <3>2. \A b \in Cells(X, Y) : Steps(b) < Steps(c) => D[b] = E[b]
      BY <2>2, <2>3, Neighbours
    <3> HIDE DEF E
    <3> QED
      BY <3>1, <3>2, EntryOfCellsBefore
  <2>4. E = [c \in Cells(X, Y) |-> E[c]]
    OBVIOUS
  <2> HIDE DEF E
  <2> QED
    BY <2>3, <2>4
<1>3. Len(X) + Len(Y) \in Reached
  <2>1. 0 \in Reached /\ \A n \in Nat : n \in Reached => n + 1 \in Reached
    BY <1>1, <1>2
  <2> HIDE DEF Reached
  <2>2. Nat \subseteq Reached
    BY <2>1, NumbersFromZero
  <2> QED
    BY <2>2
<1>4. PICK D : /\ D = [c \in Cells(X, Y) |-> D[c]]
               /\ \A c \in Cells(X, Y) :
                    Steps(c) <= Len(X) + Len(Y) => D[c] = Entry(X, Y, D, c)
  BY <1>3
<1>5. \A c \in Cells(X, Y) : D[c] = Entry(X, Y, D, c)
  BY <1>4, Neighbours
<1>6. D = [c \in Cells(X, Y) |-> Entry(X, Y, D, c)]
  BY <1>4, <1>5
<1> QED
  BY <1>6

LEMMA TableEquation ==
  ASSUME NEW S, NEW X \in Seq(S), NEW Y \in Seq(S)
  PROVE  \A c \in Cells(X, Y) : Table(X, Y)[c] = Entry(X, Y, Table(X, Y), c)
<1>1. Table(X, Y) = CHOOSE C : C = [c \in Cells(X, Y) |-> Entry(X, Y, C, c)]
  BY DEF Table, Entry
<1>2. LET D == CHOOSE C : C = [c \in Cells(X, Y) |-> Entry(X, Y, C, c)]
      IN  D = [c \in Cells(X, Y) |-> Entry(X, Y, D, c)]
  BY TableExists, Zenon
<1>3. Table(X, Y) = [c \in Cells(X, Y) |-> Entry(X, Y, Table(X, Y), c)]
  BY <1>1, <1>2, Zenon
<1> QED
  BY <1>3

LEMMA TraceExists ==
  ASSUME NEW S, NEW X \in Seq(S), NEW Y \in Seq(S), NEW C
  PROVE  \E T : T = [c \in Cells(X, Y) |-> TraceEntry(X, Y, C, T, c)]
<1> DEFINE
      Filled(n) == \E D : /\ D = [c \in Cells(X, Y) |-> D[c]]
                          /\ \A c \in Cells(X, Y) :
                               Steps(c) <= n => D[c] = TraceEntry(X, Y, C, D, c)
      Reached   == {n \in Nat : Filled(n)}
<1>1. Filled(0)
  <2> DEFINE D == [c \in Cells(X, Y) |-> {}]
  <2>1. ASSUME NEW c \in Cells(X, Y), Steps(c) <= 0
        PROVE  D[c] = TraceEntry(X, Y, C, D, c)
    <3>1. c[1] = 0
      BY <2>1, Neighbours DEF Steps
    <3> QED
      BY <3>1 DEF TraceEntry
  <2>2. D = [c \in Cells(X, Y) |-> D[c]]
    OBVIOUS
  <2> HIDE DEF D
  <2> QED
    BY <2>1, <2>2
<1>2. ASSUME NEW n \in Nat, Filled(n) PROVE Filled(n + 1)
  <2>1. PICK D : \A c \in Cells(X, Y) : Steps(c) <= n => D[c] = TraceEntry(X, Y, C, D, c)
    BY <1>2
  <2> DEFINE E == [c \in Cells(X, Y) |-> IF Steps(c) = n + 1 THEN TraceEntry(X, Y, C, D, c)
                                                             ELSE D[c]]
  <2>2. \A b \in Cells(X, Y) : Steps(b) < n + 1 => D[b] = E[b]
    BY Neighbours
  <2>3. ASSUME NEW c \in Cells(X, Y), Steps(c) <= n + 1
        PROVE  E[c] = TraceEntry(X, Y, C, E, c)
    <3>1. E[c] = TraceEntry(X, Y, C, D, c)
      BY <2>1, <2>3, Neighbours
    <3>2. \A b \in Cells(X, Y) : Steps(b) < Steps(c) => D[b] = E[b]
      BY <2>2, <2>3, Neighbours
    <3> HIDE DEF E
    <3> QED
      BY <3>1, <3>2, EntryOfCellsBefore
  <2>4. E = [c \in Cells(X, Y) |-> E[c]]
    OBVIOUS
  <2> HIDE DEF E
  <2> QED
    BY <2>3, <2>4
<1>3. Len(X) + Len(Y) \in Reached
  <2>1. 0 \in Reached /\ \A n \in Nat : n \in Reached => n + 1 \in Reached
    BY <1>1, <1>2
  <2> HIDE DEF Reached
  <2>2. Nat \subseteq Reached
    BY <2>1, NumbersFromZero
  <2> QED
    BY <2>2
<1>4. PICK D : /\ D = [c \in Cells(X, Y) |-> D[c]]
               /\ \A c \in Cells(X, Y) :
                    Steps(c) <= Len(X) + Len(Y) => D[c] = TraceEntry(X, Y, C, D, c)
  BY <1>3
<1>5. \A c \in Cells(X, Y) : D[c] = TraceEntry(X, Y, C, D, c)
  BY <1>4, Neighbours
<1>6. D = [c \in Cells(X, Y) |-> TraceEntry(X, Y, C, D, c)]
  BY <1>4, <1>5
<1> QED
  BY <1>6

(* Trace is the last cell of a function that is filled as the code fills it. *)
LEMMA TraceEquation ==
  ASSUME NEW S, NEW X \in Seq(S), NEW Y \in Seq(S)
  PROVE  \E T : /\ Trace(X, Y) = T[<<Len(X), Len(Y)>>]
                /\ \A c \in Cells(X, Y) :
                     T[c] = TraceEntry(X, Y, Table(X, Y), T, c)
<1> DEFINE R == CHOOSE T : T = [c \in Cells(X, Y) |->
                                  TraceEntry(X, Y, Table(X, Y), T, c)]
<1>1. Trace(X, Y) = R[<<Len(X), Len(Y)>>]
  BY DEF Trace, TraceEntry
<1>2. R = [c \in Cells(X, Y) |-> TraceEntry(X, Y, Table(X, Y), R, c)]
  <2> DEFINE C == Table(X, Y)
  <2> HIDE DEF C
  <2>1. \E T : T = [c \in Cells(X, Y) |-> TraceEntry(X, Y, C, T, c)]
    BY TraceExists
  <2>2. LET D == CHOOSE T : T = [c \in Cells(X, Y) |-> TraceEntry(X, Y, C, T, c)]
        IN  D = [c \in Cells(X, Y) |-> TraceEntry(X, Y, C, D, c)]
    BY <2>1, Zenon
  <2> QED
    BY <2>2, Zenon DEF C
<1> HIDE DEF R
<1>3. \A c \in Cells(X, Y) : R[c] = TraceEntry(X, Y, Table(X, Y), R, c)
  BY <1>2
<1> QED
  BY <1>1, <1>3

-----------------------------------------------------------------------------
(* Matchings: sets of pairs of equal lines that keep the order.  The trace   *)
(* is a largest one.                                                         *)

Ordered(P) == \A m \in P, n \in P : m[1] < n[1] <=> m[2] < n[2]

Matchings(X, Y, c) ==
  {P \in SUBSET ((1 .. c[1]) \X (1 .. c[2])) :
     Ordered(P) /\ \A m \in P : X[m[1]] = Y[m[2]]}

LEMMA MatchingMembers ==
  ASSUME NEW S, NEW X \in Seq(S), NEW Y \in Seq(S), NEW c \in Cells(X, Y),
         NEW P \in Matchings(X, Y, c)
  PROVE  /\ IsFiniteSet(P) /\ Cardinality(P) \in Nat
         /\ Ordered(P)
         /\ \A m \in P : /\ m[1] \in 1 .. c[1] /\ m[2] \in 1 .. c[2]
                         /\ m = <<m[1], m[2]>>
                         /\ X[m[1]] = Y[m[2]]
         /\ \A m \in P, n \in P : m[1] = n[1] \/ m[2] = n[2] => m = n
<1>1. c[1] \in Nat /\ c[2] \in Nat
  BY Neighbours
<1>2. P \subseteq (1 .. c[1]) \X (1 .. c[2])
  BY DEF Matchings
<1>3. IsFiniteSet(P)
  <2>1. \A n \in Nat : IsFiniteSet(1 .. n)
    BY FS_Interval
  <2>2. IsFiniteSet((1 .. c[1]) \X (1 .. c[2]))
    BY <1>1, <2>1, FS_Product
  <2> QED
    BY <1>2, <2>2, FS_Subset
<1>4. Ordered(P) /\ \A m \in P : X[m[1]] = Y[m[2]]
  BY DEF Matchings
<1>5. \A m \in P : m[1] \in 1 .. c[1] /\ m[2] \in 1 .. c[2] /\ m = <<m[1], m[2]>>
  BY <1>2
<1>6. ASSUME NEW m \in P, NEW n \in P, m[1] = n[1] \/ m[2] = n[2] PROVE m = n
  <2>1. m[1] = n[1] /\ m[2] = n[2]
    BY <1>1, <1>4, <1>5, <1>6 DEF Ordered
  <2> QED
    BY <1>5, <2>1
<1> QED
  BY <1>3, <1>4, <1>5, <1>6, FS_CardinalityType

(* The matchings of a smaller corner of the table.                           *)
LEMMA SmallerMatching ==
  ASSUME NEW S, NEW X \in Seq(S), NEW Y \in Seq(S),
         NEW c \in Cells(X, Y), NEW b \in Cells(X, Y),
         NEW P \in Matchings(X, Y, c), NEW Q \in SUBSET P,
         \A m \in Q : m[1] <= b[1] /\ m[2] <= b[2]
  PROVE  Q \in Matchings(X, Y, b)
<1>1. b[1] \in Nat /\ b[2] \in Nat /\ c[1] \in Nat /\ c[2] \in Nat
  BY Neighbours
<1>2. \A m \in Q : m \in (1 .. b[1]) \X (1 .. b[2])
  BY <1>1, MatchingMembers
<1>3. Ordered(Q) /\ \A m \in Q : X[m[1]] = Y[m[2]]
  BY MatchingMembers DEF Ordered
<1> QED
  BY <1>2, <1>3 DEF Matchings

LEMMA LargerMatching ==
  ASSUME NEW S, NEW X \in Seq(S), NEW Y \in Seq(S),
         NEW c \in Cells(X, Y), NEW b \in Cells(X, Y),
         b[1] <= c[1], b[2] <= c[2],
         NEW P \in Matchings(X, Y, b)
  PROVE  P \in Matchings(X, Y, c)
<1>1. b[1] \in Nat /\ b[2] \in Nat /\ c[1] \in Nat /\ c[2] \in Nat
  BY Neighbours
<1>2. \A m \in P : m \in (1 .. c[1]) \X (1 .. c[2])
  BY <1>1, MatchingMembers
<1> QED
  BY <1>2, MatchingMembers DEF Matchings

(* Two equal lines behind a matching make it one larger, and a matching that *)
(* ends on either of two equal lines has one pair more than it has before.   *)
LEMMA MatchingExtended ==
  ASSUME NEW S, NEW X \in Seq(S), NEW Y \in Seq(S), NEW c \in Cells(X, Y),
         c[1] # 0, c[2] # 0, X[c[1]] = Y[c[2]],
         NEW P \in Matchings(X, Y, Corner(c))
  PROVE  /\ P \cup {c} \in Matchings(X, Y, c)
         /\ Cardinality(P \cup {c}) = Cardinality(P) + 1
<1>1. c[1] \in Nat /\ c[2] \in Nat /\ c = <<c[1], c[2]>> /\ Corner(c) \in Cells(X, Y)
  BY Neighbours
<1>2. \A m \in P : /\ m[1] \in Nat /\ m[2] \in Nat
                   /\ m[1] < c[1] /\ m[2] < c[2]
  BY <1>1, MatchingMembers DEF Corner
<1>3. P \in Matchings(X, Y, c)
  BY <1>1, LargerMatching DEF Corner
<1>4. Ordered(P) /\ P \subseteq (1 .. c[1]) \X (1 .. c[2])
  BY <1>3 DEF Matchings
<1>5. c \in (1 .. c[1]) \X (1 .. c[2])
  BY <1>1
<1>6. Ordered(P \cup {c})
  BY <1>1, <1>2, <1>4 DEF Ordered
<1>7. c \notin P
  BY <1>1, <1>2
<1>8. Cardinality(P \cup {c}) = Cardinality(P) + 1
  BY <1>3, <1>7, MatchingMembers, FS_AddElement
<1> QED
  BY <1>3, <1>4, <1>5, <1>6, <1>8 DEF Matchings

LEMMA MatchingShortened ==
  ASSUME NEW S, NEW X \in Seq(S), NEW Y \in Seq(S), NEW c \in Cells(X, Y),
         c[1] # 0, c[2] # 0, NEW P \in Matchings(X, Y, c)
  PROVE  \/ P \in Matchings(X, Y, Corner(c))
         \/ \E Q \in Matchings(X, Y, Corner(c)) : Cardinality(P) = Cardinality(Q) + 1
<1>1. c[1] \in Nat /\ c[2] \in Nat /\ Corner(c) \in Cells(X, Y)
  BY Neighbours
<1>2. CASE \A m \in P : m[1] # c[1] /\ m[2] # c[2]
  <2>1. \A m \in P : m[1] <= Corner(c)[1] /\ m[2] <= Corner(c)[2]
    BY <1>1, <1>2, MatchingMembers DEF Corner
  <2> QED
    BY <1>1, <2>1, SmallerMatching
<1>3. CASE \E m \in P : m[1] = c[1] \/ m[2] = c[2]
  <2>1. PICK m \in P : m[1] = c[1] \/ m[2] = c[2]
    BY <1>3
  <2> DEFINE Q == P \ {m}
  <2>2. \A n \in Q : n[1] <= Corner(c)[1] /\ n[2] <= Corner(c)[2]
    <3> SUFFICES ASSUME NEW n \in Q
                 PROVE  n[1] <= Corner(c)[1] /\ n[2] <= Corner(c)[2]
      OBVIOUS
    <3>1. /\ m[1] \in 1 .. c[1] /\ m[2] \in 1 .. c[2]
          /\ n[1] \in 1 .. c[1] /\ n[2] \in 1 .. c[2]
          /\ n[1] # m[1] /\ n[2] # m[2]
          /\ n[1] < m[1] <=> n[2] < m[2]
      BY MatchingMembers DEF Ordered
    <3> QED
      BY <1>1, <2>1, <3>1 DEF Corner
  <2>3. Q \in Matchings(X, Y, Corner(c))
    BY <1>1, <2>2, SmallerMatching
  <2>4. Cardinality(Q) = Cardinality(P) - 1 /\ Cardinality(P) \in Nat
    BY MatchingMembers, FS_RemoveElement
  <2> QED
    BY <2>3, <2>4
<1> QED
  BY <1>2, <1>3

(* Where the last two lines differ, one of them is not in the matching.      *)
LEMMA MatchingAvoidsALine ==
  ASSUME NEW S, NEW X \in Seq(S), NEW Y \in Seq(S), NEW c \in Cells(X, Y),
         c[1] # 0, c[2] # 0, X[c[1]] # Y[c[2]], NEW P \in Matchings(X, Y, c)
  PROVE  P \in Matchings(X, Y, Left(c)) \/ P \in Matchings(X, Y, Above(c))
<1>1. c[1] \in Nat /\ c[2] \in Nat /\ {Left(c), Above(c)} \subseteq Cells(X, Y)
  BY Neighbours
<1>2. CASE \A m \in P : m[1] # c[1]
  <2>1. \A m \in P : m[1] <= Above(c)[1] /\ m[2] <= Above(c)[2]
    BY <1>1, <1>2, MatchingMembers DEF Above
  <2> QED
    BY <1>1, <2>1, SmallerMatching
<1>3. CASE \E m \in P : m[1] = c[1]
  <2>1. PICK m \in P : m[1] = c[1]
    BY <1>3
  <2>2. m[2] # c[2] /\ m[2] \in 1 .. c[2]
    BY <2>1, MatchingMembers
  <2>3. \A n \in P : n[1] <= Left(c)[1] /\ n[2] <= Left(c)[2]
    <3> SUFFICES ASSUME NEW n \in P
                 PROVE  n[1] <= Left(c)[1] /\ n[2] <= Left(c)[2]
      OBVIOUS
    <3>1. /\ n[1] \in 1 .. c[1] /\ n[2] \in 1 .. c[2]
          /\ m[1] < n[1] <=> m[2] < n[2]
      BY MatchingMembers DEF Ordered
    <3> QED
      BY <1>1, <2>1, <2>2, <3>1 DEF Left
  <2> QED
    BY <1>1, <2>3, SmallerMatching
<1> QED
  BY <1>2, <1>3

(* What the two tables say of a cell.                                        *)
Best(X, Y, C, T, c) ==
  /\ C[c] \in Nat
  /\ T[c] \in Matchings(X, Y, c)
  /\ Cardinality(T[c]) = C[c]
  /\ \A P \in Matchings(X, Y, c) : Cardinality(P) <= C[c]

LEMMA BestAtTheEdge ==
  ASSUME NEW S, NEW X \in Seq(S), NEW Y \in Seq(S), NEW c \in Cells(X, Y),
         c[1] = 0 \/ c[2] = 0,
         NEW C, NEW T, C[c] = 0, T[c] = {}
  PROVE  Best(X, Y, C, T, c)
<1>1. c[1] \in Nat /\ c[2] \in Nat
  BY Neighbours
<1>2. (1 .. c[1]) \X (1 .. c[2]) = {}
  BY <1>1
<1>3. \A P \in Matchings(X, Y, c) : P = {}
  BY <1>2 DEF Matchings
<1>4. {} \in Matchings(X, Y, c)
  BY DEF Matchings, Ordered
<1>5. Cardinality({}) = 0
  BY FS_EmptySet
<1>6. \A P \in Matchings(X, Y, c) : Cardinality(P) <= C[c]
  <2> SUFFICES ASSUME NEW P \in Matchings(X, Y, c) PROVE Cardinality(P) <= C[c]
    OBVIOUS
  <2>1. Cardinality(P) = 0
    BY <1>3, <1>5
  <2> QED
    BY <2>1
<1> QED
  BY <1>4, <1>5, <1>6 DEF Best

LEMMA BestAtEqualLines ==
  ASSUME NEW S, NEW X \in Seq(S), NEW Y \in Seq(S), NEW c \in Cells(X, Y),
         c[1] # 0, c[2] # 0, X[c[1]] = Y[c[2]],
         NEW C, NEW T, Best(X, Y, C, T, Corner(c)),
         C[c] = C[Corner(c)] + 1, T[c] = T[Corner(c)] \cup {c}
  PROVE  Best(X, Y, C, T, c)
<1>1. T[c] \in Matchings(X, Y, c) /\ Cardinality(T[c]) = C[c] /\ C[c] \in Nat
  <2> DEFINE P == T[Corner(c)]
  <2>1. P \in Matchings(X, Y, Corner(c)) /\ Cardinality(P) = C[Corner(c)]
    BY DEF Best
  <2> HIDE DEF P
  <2>2. P \cup {c} \in Matchings(X, Y, c)
    BY <2>1, MatchingExtended
  <2>4. Cardinality(P \cup {c}) = Cardinality(P) + 1
    BY <2>1, MatchingExtended
  <2>3. C[Corner(c)] \in Nat
    BY DEF Best
  <2> QED
    BY <2>1, <2>2, <2>3, <2>4 DEF P
<1>2. ASSUME NEW P \in Matchings(X, Y, c) PROVE Cardinality(P) <= C[c]
  <2>1. CASE P \in Matchings(X, Y, Corner(c))
    <3>1. Cardinality(P) <= C[Corner(c)] /\ C[Corner(c)] \in Nat
      BY <2>1 DEF Best
    <3>2. Cardinality(P) \in Nat
      BY MatchingMembers
    <3> QED
      BY <3>1, <3>2
  <2>2. CASE \E Q \in Matchings(X, Y, Corner(c)) : Cardinality(P) = Cardinality(Q) + 1
    <3>1. PICK Q \in Matchings(X, Y, Corner(c)) : Cardinality(P) = Cardinality(Q) + 1
      BY <2>2
    <3>2. Cardinality(Q) <= C[Corner(c)] /\ C[Corner(c)] \in Nat
      BY DEF Best
    <3>3. Corner(c) \in Cells(X, Y)
      BY Neighbours
    <3>4. Cardinality(Q) \in Nat
      BY <3>3, MatchingMembers
    <3> QED
      BY <3>1, <3>2, <3>4
  <2> QED
    BY <2>1, <2>2, MatchingShortened
<1> QED
  BY <1>1, <1>2 DEF Best

LEMMA BestAtOtherLines ==
  ASSUME NEW S, NEW X \in Seq(S), NEW Y \in Seq(S), NEW c \in Cells(X, Y),
         c[1] # 0, c[2] # 0, X[c[1]] # Y[c[2]],
         NEW C, NEW T, Best(X, Y, C, T, Left(c)), Best(X, Y, C, T, Above(c)),
         C[c] = Max({C[Left(c)], C[Above(c)]}),
         T[c] = IF C[Left(c)] >= C[Above(c)] THEN T[Left(c)] ELSE T[Above(c)]
  PROVE  Best(X, Y, C, T, c)
<1>1. {Left(c), Above(c)} \subseteq Cells(X, Y) /\ c[1] \in Nat /\ c[2] \in Nat
  BY Neighbours
<1>2. C[Left(c)] \in Nat /\ C[Above(c)] \in Nat
  BY DEF Best
<1>3. C[c] = IF C[Left(c)] >= C[Above(c)] THEN C[Left(c)] ELSE C[Above(c)]
  BY <1>2, GreaterOfTwo
<1>4. Matchings(X, Y, Left(c)) \subseteq Matchings(X, Y, c)
  BY <1>1, LargerMatching DEF Left
<1>5. Matchings(X, Y, Above(c)) \subseteq Matchings(X, Y, c)
  BY <1>1, LargerMatching DEF Above
<1>6. T[c] \in Matchings(X, Y, c) /\ Cardinality(T[c]) = C[c]
  BY <1>3, <1>4, <1>5 DEF Best
<1>7. ASSUME NEW P \in Matchings(X, Y, c) PROVE Cardinality(P) <= C[c]
  <2>1. Cardinality(P) <= C[Left(c)] \/ Cardinality(P) <= C[Above(c)]
    BY MatchingAvoidsALine DEF Best
  <2>2. Cardinality(P) \in Nat
    BY MatchingMembers
  <2> QED
    BY <1>2, <1>3, <2>1, <2>2
<1> QED
  BY <1>2, <1>3, <1>6, <1>7 DEF Best

(* The table and the trace are right at every cell, by the order in which    *)
(* they are filled.                                                          *)
LEMMA BestEverywhere ==
  ASSUME NEW S, NEW X \in Seq(S), NEW Y \in Seq(S), NEW C, NEW T,
         \A c \in Cells(X, Y) : C[c] = Entry(X, Y, C, c),
         \A c \in Cells(X, Y) : T[c] = TraceEntry(X, Y, C, T, c)
  PROVE  \A c \in Cells(X, Y) : Best(X, Y, C, T, c)
<1> DEFINE Reached == {n \in Nat : \A c \in Cells(X, Y) :
                                     Steps(c) <= n => Best(X, Y, C, T, c)}
<1>1. ASSUME NEW c \in Cells(X, Y),
             \A b \in Cells(X, Y) : Steps(b) < Steps(c) => Best(X, Y, C, T, b)
      PROVE  Best(X, Y, C, T, c)
  <2>1. C[c] = Entry(X, Y, C, c) /\ T[c] = TraceEntry(X, Y, C, T, c)
    OBVIOUS
  <2>2. CASE c[1] = 0 \/ c[2] = 0
    <3>1. C[c] = 0 /\ T[c] = {}
      BY <2>1, <2>2 DEF Entry, TraceEntry
    <3> QED
      BY <2>2, <3>1, BestAtTheEdge
  <2>3. CASE c[1] # 0 /\ c[2] # 0 /\ X[c[1]] = Y[c[2]]
    <3>1. C[c] = C[Corner(c)] + 1 /\ T[c] = T[Corner(c)] \cup {c}
      BY <2>1, <2>3 DEF Entry, TraceEntry
    <3>2. Best(X, Y, C, T, Corner(c))
      BY <1>1, <2>3, Neighbours
    <3> QED
      BY <2>3, <3>1, <3>2, BestAtEqualLines
  <2>4. CASE c[1] # 0 /\ c[2] # 0 /\ X[c[1]] # Y[c[2]]
    <3>1. /\ C[c] = Max({C[Left(c)], C[Above(c)]})
          /\ T[c] = IF C[Left(c)] >= C[Above(c)] THEN T[Left(c)] ELSE T[Above(c)]
      BY <2>1, <2>4 DEF Entry, TraceEntry
    <3>2. Best(X, Y, C, T, Left(c)) /\ Best(X, Y, C, T, Above(c))
      BY <1>1, <2>4, Neighbours
    <3> QED
      BY <2>4, <3>1, <3>2, BestAtOtherLines
  <2> QED
    BY <2>2, <2>3, <2>4
<1>2. 0 \in Reached
  <2> SUFFICES ASSUME NEW c \in Cells(X, Y), Steps(c) <= 0
               PROVE  Best(X, Y, C, T, c)
    OBVIOUS
  <2>1. \A b \in Cells(X, Y) : ~(Steps(b) < Steps(c))
    BY Neighbours
  <2> QED
    BY <1>1, <2>1
<1>3. ASSUME NEW n \in Nat, n \in Reached PROVE n + 1 \in Reached
  <2> SUFFICES ASSUME NEW c \in Cells(X, Y), Steps(c) <= n + 1
               PROVE  Best(X, Y, C, T, c)
    OBVIOUS
  <2>1. \A b \in Cells(X, Y) : Steps(b) < Steps(c) => Steps(b) <= n
    BY Neighbours
  <2>2. \A b \in Cells(X, Y) : Steps(b) < Steps(c) => Best(X, Y, C, T, b)
    BY <1>3, <2>1
  <2> QED
    BY <1>1, <2>2
<1>4. Nat \subseteq Reached
  <2> HIDE DEF Reached
  <2> QED
    BY <1>2, <1>3, NumbersFromZero
<1> SUFFICES ASSUME NEW c \in Cells(X, Y) PROVE Best(X, Y, C, T, c)
  OBVIOUS
<1>5. Steps(c) \in Reached
  BY <1>4, Neighbours
<1>6. Steps(c) <= Steps(c)
  BY Neighbours
<1> QED
  BY <1>5, <1>6

(* LineMapper::Diff over the table: for any two sequences of lines the pairs *)
(* on the way back are a matching of them, and no matching has more pairs.   *)
THEOREM TraceIsLongest ==
  ASSUME NEW S, NEW X \in Seq(S), NEW Y \in Seq(S)
  PROVE  /\ Trace(X, Y) \in Matchings(X, Y, <<Len(X), Len(Y)>>)
         /\ \A P \in Matchings(X, Y, <<Len(X), Len(Y)>>) :
              Cardinality(P) <= Cardinality(Trace(X, Y))
<1>1. PICK T : /\ Trace(X, Y) = T[<<Len(X), Len(Y)>>]
               /\ \A c \in Cells(X, Y) : T[c] = TraceEntry(X, Y, Table(X, Y), T, c)
  BY TraceEquation
<1>2. \A c \in Cells(X, Y) : Best(X, Y, Table(X, Y), T, c)
  <2> DEFINE C == Table(X, Y)
  <2>1. \A c \in Cells(X, Y) : C[c] = Entry(X, Y, C, c)
    BY TableEquation
  <2> HIDE DEF C
  <2>2. \A c \in Cells(X, Y) : T[c] = TraceEntry(X, Y, C, T, c)
    BY <1>1 DEF C
  <2>3. \A c \in Cells(X, Y) : Best(X, Y, C, T, c)
    BY <2>1, <2>2, BestEverywhere
  <2> QED
    BY <2>3 DEF C
<1>3. <<Len(X), Len(Y)>> \in Cells(X, Y)
  BY DEF Cells
<1> QED
  BY <1>1, <1>2, <1>3 DEF Best

-----------------------------------------------------------------------------
(* The two ends.  Nothing is lost by matching equal ends line by line.       *)

Whole(X, Y) == <<Len(X), Len(Y)>>

FirstLines(p)      == {<<i, i>> : i \in 1 .. p}
Shifted(R, p)      == {<<p + m[1], p + m[2]>> : m \in R}
LastLines(X, Y, s) == {<<Len(X) - i, Len(Y) - i>> : i \in 0 .. s - 1}

(* A and B are X and Y without p equal lines in front and s behind.          *)
Between(X, Y, p, s, A, B) ==
  /\ p \in Nat /\ s \in Nat
  /\ p + s <= Len(X) /\ p + s <= Len(Y)
  /\ \A i \in 1 .. p : X[i] = Y[i]
  /\ \A i \in 0 .. s - 1 : X[Len(X) - i] = Y[Len(Y) - i]
  /\ Len(A) = Len(X) - p - s /\ Len(B) = Len(Y) - p - s
  /\ \A i \in 1 .. Len(A) : A[i] = X[p + i]
  /\ \A i \in 1 .. Len(B) : B[i] = Y[p + i]

LEMMA WholeCell ==
  ASSUME NEW S, NEW X \in Seq(S), NEW Y \in Seq(S)
  PROVE  /\ Whole(X, Y) \in Cells(X, Y)
         /\ Whole(X, Y)[1] = Len(X) /\ Whole(X, Y)[2] = Len(Y)
BY DEF Whole, Cells

LEMMA WholeMatching ==
  ASSUME NEW S, NEW X \in Seq(S), NEW Y \in Seq(S), NEW P \in Matchings(X, Y, Whole(X, Y))
  PROVE  /\ IsFiniteSet(P) /\ Cardinality(P) \in Nat
         /\ Ordered(P)
         /\ \A m \in P : /\ m[1] \in 1 .. Len(X) /\ m[2] \in 1 .. Len(Y)
                         /\ m[1] \in Nat /\ m[2] \in Nat
                         /\ m = <<m[1], m[2]>>
                         /\ X[m[1]] = Y[m[2]]
         /\ \A m \in P, n \in P : m[1] = n[1] \/ m[2] = n[2] => m = n
<1> DEFINE c == Whole(X, Y)
<1>1. c \in Cells(X, Y) /\ c[1] = Len(X) /\ c[2] = Len(Y)
  BY WholeCell
<1> HIDE DEF c
<1>2. P \in Matchings(X, Y, c)
  BY DEF c
<1> QED
  BY <1>1, <1>2, MatchingMembers

LEMMA SubSeqOfText ==
  ASSUME NEW S, NEW s \in Seq(S), NEW m \in Int, NEW n \in Int, 1 <= m, n <= Len(s)
  PROVE  /\ SubSeq(s, m, n) \in Seq(S)
         /\ Len(SubSeq(s, m, n)) = IF m <= n THEN n - m + 1 ELSE 0
         /\ \A i \in 1 .. n - m + 1 : SubSeq(s, m, n)[i] = s[m + i - 1]
<1>1. \A i \in m .. n : s[i] \in S
  OBVIOUS
<1> QED
  BY <1>1, SubSeqProperties

LEMMA PrefixAgrees ==
  ASSUME NEW S, NEW X \in Seq(S), NEW Y \in Seq(S)
  PROVE  /\ PrefixLength(X, Y) \in Nat
         /\ PrefixLength(X, Y) <= Len(X) /\ PrefixLength(X, Y) <= Len(Y)
         /\ \A i \in 1 .. PrefixLength(X, Y) : X[i] = Y[i]
<1> DEFINE T == {p \in Common(X, Y) : SubSeq(X, 1, p) = SubSeq(Y, 1, p)}
<1>1. T \in SUBSET (0 .. Len(X))
  BY CommonNumbers
<1>2. 0 \in T
  <2>1. SubSeq(X, 1, 0) = <<>> /\ SubSeq(Y, 1, 0) = <<>>
    BY SubSeqEmpty
  <2>2. 0 \in Common(X, Y)
    BY CommonNumbers
  <2> QED
    BY <2>1, <2>2
<1>3. Max(T) \in T
  <2>1. Len(X) \in Nat
    OBVIOUS
  <2> HIDE DEF T
  <2> QED
    BY <1>1, <1>2, <2>1, GreatestNumber
<1>4. PICK p \in Common(X, Y) : /\ PrefixLength(X, Y) = p
                                /\ SubSeq(X, 1, p) = SubSeq(Y, 1, p)
  BY <1>3 DEF PrefixLength
<1>5. p \in Nat /\ p <= Len(X) /\ p <= Len(Y)
  BY CommonNumbers
<1>6. \A i \in 1 .. p : X[i] = SubSeq(X, 1, p)[i] /\ Y[i] = SubSeq(Y, 1, p)[i]
  BY <1>5, SubSeqOfText
<1> QED
  BY <1>4, <1>5, <1>6

LEMMA SuffixAgrees ==
  ASSUME NEW S, NEW X \in Seq(S), NEW Y \in Seq(S)
  PROVE  /\ SuffixLength(X, Y) \in Nat
         /\ PrefixLength(X, Y) + SuffixLength(X, Y) <= Len(X)
         /\ PrefixLength(X, Y) + SuffixLength(X, Y) <= Len(Y)
         /\ \A i \in 0 .. SuffixLength(X, Y) - 1 : X[Len(X) - i] = Y[Len(Y) - i]
<1> DEFINE
      p == PrefixLength(X, Y)
      T == {s \in Common(X, Y) :
              /\ p + s \in Common(X, Y)
              /\ SubSeq(X, Len(X) - s + 1, Len(X)) = SubSeq(Y, Len(Y) - s + 1, Len(Y))}
<1>0. p \in Nat /\ p <= Len(X) /\ p <= Len(Y)
  BY PrefixAgrees
<1>1. T \in SUBSET (0 .. Len(X))
  BY CommonNumbers
<1>2. 0 \in T
  <2>1. /\ SubSeq(X, Len(X) - 0 + 1, Len(X)) = <<>>
        /\ SubSeq(Y, Len(Y) - 0 + 1, Len(Y)) = <<>>
    BY SubSeqEmpty
  <2> HIDE DEF p
  <2>2. 0 \in Common(X, Y) /\ p + 0 \in Common(X, Y)
    BY <1>0, CommonNumbers
  <2> QED
    BY <2>1, <2>2
<1>3. Max(T) \in T
  <2>1. Len(X) \in Nat
    OBVIOUS
  <2> HIDE DEF T
  <2> QED
    BY <1>1, <1>2, <2>1, GreatestNumber
<1>4. PICK s \in Common(X, Y) :
        /\ SuffixLength(X, Y) = s
        /\ p + s \in Common(X, Y)
        /\ SubSeq(X, Len(X) - s + 1, Len(X)) = SubSeq(Y, Len(Y) - s + 1, Len(Y))
  BY <1>3 DEF SuffixLength
<1> HIDE DEF p
<1>5. /\ s \in Nat /\ s <= Len(X) /\ s <= Len(Y)
      /\ p + s <= Len(X) /\ p + s <= Len(Y)
  BY <1>4, CommonNumbers
<1>6. ASSUME NEW i \in 0 .. s - 1 PROVE X[Len(X) - i] = Y[Len(Y) - i]
  <2>1. s - i \in 1 .. s
    BY <1>5
  <2>2. /\ SubSeq(X, Len(X) - s + 1, Len(X))[s - i] = X[Len(X) - i]
        /\ SubSeq(Y, Len(Y) - s + 1, Len(Y))[s - i] = Y[Len(Y) - i]
    <3>1. ASSUME NEW Z \in Seq(S), s <= Len(Z)
          PROVE  SubSeq(Z, Len(Z) - s + 1, Len(Z))[s - i] = Z[Len(Z) - i]
      <4>1. \A k \in 1 .. s : SubSeq(Z, Len(Z) - s + 1, Len(Z))[k] = Z[Len(Z) - s + k]
        <5> DEFINE m == Len(Z) - s + 1
        <5>1. m \in Int /\ 1 <= m /\ Len(Z) \in Int /\ Len(Z) - m + 1 = s
          BY <1>5, <3>1
        <5>2. \A k \in 1 .. Len(Z) - m + 1 : SubSeq(Z, m, Len(Z))[k] = Z[m + k - 1]
          <6> HIDE DEF m
          <6> QED
            BY <5>1, SubSeqOfText
        <5>3. \A k \in 1 .. s : m + k - 1 = Len(Z) - s + k
          BY <1>5
        <5> QED
          BY <5>1, <5>2, <5>3
      <4>2. Len(Z) - s + (s - i) = Len(Z) - i
        BY <1>5
      <4> QED
        BY <2>1, <4>1, <4>2
    <3> QED
      BY <1>5, <3>1
  <2> QED
    BY <1>4, <2>2
<1> QED
  BY <1>4, <1>5, <1>6 DEF p

LEMMA TrimmedTexts ==
  ASSUME NEW S, NEW X \in Seq(S), NEW Y \in Seq(S)
  PROVE  /\ Trim(X, Y, X) \in Seq(S) /\ Trim(X, Y, Y) \in Seq(S)
         /\ Between(X, Y, PrefixLength(X, Y), SuffixLength(X, Y),
                    Trim(X, Y, X), Trim(X, Y, Y))
<1> DEFINE p == PrefixLength(X, Y)
           s == SuffixLength(X, Y)
<1>1. /\ p \in Nat /\ s \in Nat
      /\ p + s <= Len(X) /\ p + s <= Len(Y)
      /\ \A i \in 1 .. p : X[i] = Y[i]
      /\ \A i \in 0 .. s - 1 : X[Len(X) - i] = Y[Len(Y) - i]
  BY PrefixAgrees, SuffixAgrees
<1>2. Trim(X, Y, X) = SubSeq(X, p + 1, Len(X) - s)
  BY DEF Trim
<1>3. Trim(X, Y, Y) = SubSeq(Y, p + 1, Len(Y) - s)
  BY DEF Trim
<1> HIDE DEF p, s
<1>4. ASSUME NEW Z \in Seq(S), p + s <= Len(Z), NEW T, T = SubSeq(Z, p + 1, Len(Z) - s)
      PROVE  /\ T \in Seq(S) /\ Len(T) = Len(Z) - p - s
             /\ \A i \in 1 .. Len(T) : T[i] = Z[p + i]
  <2>1. p + 1 \in Int /\ Len(Z) - s \in Int /\ 1 <= p + 1 /\ Len(Z) - s <= Len(Z)
    BY <1>1
  <2>2. /\ T \in Seq(S)
        /\ Len(T) = IF p + 1 <= Len(Z) - s THEN Len(Z) - s - (p + 1) + 1 ELSE 0
        /\ \A i \in 1 .. Len(Z) - s - (p + 1) + 1 : T[i] = Z[p + 1 + i - 1]
    BY <1>4, <2>1, SubSeqOfText
  <2>3. Len(T) = Len(Z) - p - s
    BY <1>1, <1>4, <2>2
  <2>4. ASSUME NEW i \in 1 .. Len(T) PROVE T[i] = Z[p + i]
    <3>1. i \in 1 .. Len(Z) - s - (p + 1) + 1 /\ p + 1 + i - 1 = p + i
      BY <1>1, <2>3
    <3> QED
      BY <2>2, <3>1
  <2> QED
    BY <2>2, <2>3, <2>4
<1>5. /\ Trim(X, Y, X) \in Seq(S) /\ Len(Trim(X, Y, X)) = Len(X) - p - s
      /\ \A i \in 1 .. Len(Trim(X, Y, X)) : Trim(X, Y, X)[i] = X[p + i]
  BY <1>1, <1>2, <1>4
<1>6. /\ Trim(X, Y, Y) \in Seq(S) /\ Len(Trim(X, Y, Y)) = Len(Y) - p - s
      /\ \A i \in 1 .. Len(Trim(X, Y, Y)) : Trim(X, Y, Y)[i] = Y[p + i]
  BY <1>1, <1>3, <1>4
<1> QED
  BY <1>1, <1>5, <1>6 DEF Between, p, s

LEMMA FirstLinesCount ==
  ASSUME NEW p \in Nat
  PROVE  IsFiniteSet(FirstLines(p)) /\ Cardinality(FirstLines(p)) = p
<1> DEFINE f == [i \in 1 .. p |-> <<i, i>>]
<1>1. f \in Bijection(1 .. p, FirstLines(p))
  BY DEF Bijection, Injection, Surjection, IsInjective, FirstLines
<1>2. IsFiniteSet(1 .. p) /\ Cardinality(1 .. p) = p
  BY FS_Interval
<1> QED
  BY <1>1, <1>2, FS_Bijection DEF ExistsBijection

LEMMA LastLinesCount ==
  ASSUME NEW S, NEW X \in Seq(S), NEW Y \in Seq(S), NEW s \in Nat
  PROVE  IsFiniteSet(LastLines(X, Y, s)) /\ Cardinality(LastLines(X, Y, s)) = s
<1> DEFINE f == [i \in 0 .. s - 1 |-> <<Len(X) - i, Len(Y) - i>>]
<1>1. f \in Bijection(0 .. s - 1, LastLines(X, Y, s))
  <2>1. f \in [0 .. s - 1 -> LastLines(X, Y, s)]
    BY DEF LastLines
  <2>2. \A i \in 0 .. s - 1, j \in 0 .. s - 1 : f[i] = f[j] => i = j
    <3>1. Len(X) \in Nat
      OBVIOUS
    <3> SUFFICES ASSUME NEW i \in 0 .. s - 1, NEW j \in 0 .. s - 1, f[i] = f[j]
                 PROVE  i = j
      OBVIOUS
    <3>2. f[i][1] = Len(X) - i /\ f[j][1] = Len(X) - j
      OBVIOUS
    <3>3. Len(X) - i = Len(X) - j
      BY <3>2
    <3> QED
      BY <3>1, <3>3
  <2>3. \A t \in LastLines(X, Y, s) : \E i \in 0 .. s - 1 : f[i] = t
    BY DEF LastLines
  <2> HIDE DEF f
  <2> QED
    BY <2>1, <2>2, <2>3 DEF Bijection, Injection, Surjection, IsInjective
<1>2. IsFiniteSet(0 .. s - 1) /\ Cardinality(0 .. s - 1) = s
  <2>1. s - 1 \in Int
    OBVIOUS
  <2>2. /\ IsFiniteSet(0 .. s - 1)
        /\ Cardinality(0 .. s - 1) = IF 0 > s - 1 THEN 0 ELSE s - 1 - 0 + 1
    BY <2>1, FS_Interval
  <2> QED
    BY <2>2
<1> QED
  BY <1>1, <1>2, FS_Bijection DEF ExistsBijection

LEMMA ShiftedCount ==
  ASSUME NEW S, NEW A \in Seq(S), NEW B \in Seq(S), NEW p \in Nat,
         NEW R \in Matchings(A, B, Whole(A, B))
  PROVE  /\ IsFiniteSet(Shifted(R, p))
         /\ Cardinality(Shifted(R, p)) = Cardinality(R)
<1> DEFINE f == [m \in R |-> <<p + m[1], p + m[2]>>]
<1>1. /\ IsFiniteSet(R)
      /\ \A m \in R : m[1] \in Nat /\ m[2] \in Nat /\ m = <<m[1], m[2]>>
  BY WholeMatching
<1>2. f \in [R -> Shifted(R, p)]
  BY DEF Shifted
<1>3. \A m \in R, n \in R : f[m] = f[n] => m = n
  BY <1>1
<1>4. \A t \in Shifted(R, p) : \E m \in R : f[m] = t
  BY DEF Shifted
<1> HIDE DEF f
<1>5. f \in Bijection(R, Shifted(R, p))
  BY <1>2, <1>3, <1>4 DEF Bijection, Injection, Surjection, IsInjective
<1> QED
  BY <1>1, <1>5, FS_Bijection DEF ExistsBijection

(* Where the pairs of the three parts are.                                   *)
LEMMA PartsOfMatching ==
  ASSUME NEW S, NEW X \in Seq(S), NEW Y \in Seq(S),
         NEW A \in Seq(S), NEW B \in Seq(S), NEW p, NEW s,
         Between(X, Y, p, s, A, B), NEW R \in Matchings(A, B, Whole(A, B))
  PROVE  /\ \A m \in FirstLines(p) :
              /\ m[1] \in Nat /\ m[2] \in Nat /\ m = <<m[1], m[2]>>
              /\ 1 <= m[1] /\ m[1] <= p /\ m[1] = m[2]
              /\ X[m[1]] = Y[m[2]]
         /\ \A m \in Shifted(R, p) :
              /\ m[1] \in Nat /\ m[2] \in Nat /\ m = <<m[1], m[2]>>
              /\ p < m[1] /\ m[1] <= Len(X) - s
              /\ p < m[2] /\ m[2] <= Len(Y) - s
              /\ X[m[1]] = Y[m[2]]
         /\ \A m \in LastLines(X, Y, s) :
              /\ m[1] \in Nat /\ m[2] \in Nat /\ m = <<m[1], m[2]>>
              /\ Len(X) - s < m[1] /\ m[1] <= Len(X)
              /\ Len(Y) - s < m[2] /\ m[2] <= Len(Y)
              /\ Len(X) - m[1] = Len(Y) - m[2]
              /\ X[m[1]] = Y[m[2]]
<1>0. /\ p \in Nat /\ s \in Nat /\ p + s <= Len(X) /\ p + s <= Len(Y)
      /\ Len(X) \in Nat /\ Len(Y) \in Nat
  BY DEF Between
<1>1. ASSUME NEW m \in FirstLines(p)
      PROVE  /\ m[1] \in Nat /\ m[2] \in Nat /\ m = <<m[1], m[2]>>
             /\ 1 <= m[1] /\ m[1] <= p /\ m[1] = m[2]
             /\ X[m[1]] = Y[m[2]]
  <2>1. PICK i \in 1 .. p : m = <<i, i>>
    BY DEF FirstLines
  <2>2. X[i] = Y[i]
    BY DEF Between
  <2> QED
    BY <1>0, <2>1, <2>2
<1>2. ASSUME NEW m \in Shifted(R, p)
      PROVE  /\ m[1] \in Nat /\ m[2] \in Nat /\ m = <<m[1], m[2]>>
             /\ p < m[1] /\ m[1] <= Len(X) - s
             /\ p < m[2] /\ m[2] <= Len(Y) - s
             /\ X[m[1]] = Y[m[2]]
  <2>1. PICK r \in R : m = <<p + r[1], p + r[2]>>
    BY DEF Shifted
  <2>2. /\ r[1] \in 1 .. Len(A) /\ r[2] \in 1 .. Len(B) /\ A[r[1]] = B[r[2]]
        /\ r[1] \in Nat /\ r[2] \in Nat
    BY WholeMatching
  <2>3. Len(A) = Len(X) - p - s /\ Len(B) = Len(Y) - p - s
    BY DEF Between
  <2>4. A[r[1]] = X[p + r[1]] /\ B[r[2]] = Y[p + r[2]]
    BY <2>2 DEF Between
  <2>5. m[1] = p + r[1] /\ m[2] = p + r[2]
    BY <2>1
  <2>6. X[m[1]] = Y[m[2]]
    BY <2>2, <2>4, <2>5
  <2>7. \A a \in 1 .. Len(A), b \in 1 .. Len(B) :
          /\ p + a \in Nat /\ p < p + a /\ p + a <= Len(X) - s
          /\ p + b \in Nat /\ p < p + b /\ p + b <= Len(Y) - s
    BY <1>0, <2>3
  <2>8. m = <<m[1], m[2]>>
    BY <2>1, <2>5
  <2> QED
    BY <2>2, <2>5, <2>6, <2>7, <2>8
<1>3. ASSUME NEW m \in LastLines(X, Y, s)
      PROVE  /\ m[1] \in Nat /\ m[2] \in Nat /\ m = <<m[1], m[2]>>
             /\ Len(X) - s < m[1] /\ m[1] <= Len(X)
             /\ Len(Y) - s < m[2] /\ m[2] <= Len(Y)
             /\ Len(X) - m[1] = Len(Y) - m[2]
             /\ X[m[1]] = Y[m[2]]
  <2>1. PICK i \in 0 .. s - 1 : m = <<Len(X) - i, Len(Y) - i>>
    BY DEF LastLines
  <2>2. X[Len(X) - i] = Y[Len(Y) - i]
    BY DEF Between
  <2> QED
    BY <1>0, <2>1, <2>2
<1> QED
  BY <1>1, <1>2, <1>3

LEMMA MatchingWithEnds ==
  ASSUME NEW S, NEW X \in Seq(S), NEW Y \in Seq(S),
         NEW A \in Seq(S), NEW B \in Seq(S), NEW p, NEW s,
         Between(X, Y, p, s, A, B), NEW R \in Matchings(A, B, Whole(A, B)),
         NEW M, M = FirstLines(p) \cup Shifted(R, p) \cup LastLines(X, Y, s)
  PROVE  /\ M \in Matchings(X, Y, Whole(X, Y))
         /\ Cardinality(M) = p + Cardinality(R) + s
<1> DEFINE F == FirstLines(p)
           G == Shifted(R, p)
           H == LastLines(X, Y, s)
<1>0. /\ p \in Nat /\ s \in Nat /\ p + s <= Len(X) /\ p + s <= Len(Y)
      /\ Len(X) \in Nat /\ Len(Y) \in Nat
  BY DEF Between
<1>1. /\ \A m \in F : /\ m[1] \in Nat /\ m[2] \in Nat /\ m = <<m[1], m[2]>>
                      /\ 1 <= m[1] /\ m[1] <= p /\ m[1] = m[2]
      /\ \A m \in G : /\ m[1] \in Nat /\ m[2] \in Nat /\ m = <<m[1], m[2]>>
                      /\ p < m[1] /\ m[1] <= Len(X) - s
                      /\ p < m[2] /\ m[2] <= Len(Y) - s
      /\ \A m \in H : /\ m[1] \in Nat /\ m[2] \in Nat /\ m = <<m[1], m[2]>>
                      /\ Len(X) - s < m[1] /\ m[1] <= Len(X)
                      /\ Len(Y) - s < m[2] /\ m[2] <= Len(Y)
                      /\ Len(X) - m[1] = Len(Y) - m[2]
  BY PartsOfMatching
<1>2. \A m \in M : X[m[1]] = Y[m[2]]
  BY PartsOfMatching
<1>3. \A m \in G, n \in G : m[1] < n[1] <=> m[2] < n[2]
  <2> SUFFICES ASSUME NEW m \in G, NEW n \in G PROVE m[1] < n[1] <=> m[2] < n[2]
    OBVIOUS
  <2>1. PICK q \in R, r \in R : /\ m = <<p + q[1], p + q[2]>>
                                /\ n = <<p + r[1], p + r[2]>>
    BY DEF Shifted
  <2>2. /\ q[1] \in Nat /\ q[2] \in Nat /\ r[1] \in Nat /\ r[2] \in Nat
        /\ q[1] < r[1] <=> q[2] < r[2]
    BY WholeMatching DEF Ordered
  <2>3. /\ m[1] = p + q[1] /\ m[2] = p + q[2]
        /\ n[1] = p + r[1] /\ n[2] = p + r[2]
    BY <2>1
  <2>4. \A a \in Nat, b \in Nat : p + a < p + b <=> a < b
    BY <1>0
  <2>5. (m[1] < n[1] <=> q[1] < r[1]) /\ (m[2] < n[2] <=> q[2] < r[2])
    BY <2>2, <2>3, <2>4
  <2> QED
    BY <2>2, <2>5
<1>4. F \cap G = {} /\ F \cap H = {} /\ G \cap H = {}
  <2> HIDE DEF F, G, H
  <2> QED
    BY <1>0, <1>1
<1>5. Ordered(M)
  <2> SUFFICES ASSUME NEW m \in F \cup G \cup H, NEW n \in F \cup G \cup H
               PROVE  m[1] < n[1] <=> m[2] < n[2]
    BY DEF Ordered
  <2> HIDE DEF F, G, H
  <2>1. CASE m \in F
    BY <1>0, <1>1, <2>1
  <2>2. CASE m \in G
    BY <1>0, <1>1, <1>3, <2>2
  <2>3. CASE m \in H
    BY <1>0, <1>1, <2>3, SMTT(30)
  <2> QED
    BY <2>1, <2>2, <2>3
<1>6. M \subseteq (1 .. Len(X)) \X (1 .. Len(Y))
  <2> SUFFICES ASSUME NEW m \in F \cup G \cup H
               PROVE  m \in (1 .. Len(X)) \X (1 .. Len(Y))
    OBVIOUS
  <2> HIDE DEF F, G, H
  <2>1. /\ m[1] \in Nat /\ m[2] \in Nat /\ m = <<m[1], m[2]>>
        /\ 1 <= m[1] /\ m[1] <= Len(X) /\ 1 <= m[2] /\ m[2] <= Len(Y)
    BY <1>0, <1>1
  <2> QED
    BY <2>1
<1>7. M \in Matchings(X, Y, Whole(X, Y))
  BY <1>2, <1>5, <1>6 DEF Matchings, Whole
<1>8. /\ IsFiniteSet(F) /\ Cardinality(F) = p
      /\ IsFiniteSet(G) /\ Cardinality(G) = Cardinality(R)
      /\ IsFiniteSet(H) /\ Cardinality(H) = s
  BY <1>0, FirstLinesCount, ShiftedCount, LastLinesCount
<1>9. Cardinality(R) \in Nat
  BY WholeMatching
<1>10. Cardinality(F \cup G \cup H) = p + Cardinality(R) + s
  <2> HIDE DEF F, G, H
  <2>1. /\ IsFiniteSet(F \cup G)
        /\ Cardinality(F \cup G) = p + Cardinality(R) - Cardinality(F \cap G)
    BY <1>8, FS_Union
  <2>2. Cardinality(F \cup G \cup H) =
          Cardinality(F \cup G) + s - Cardinality((F \cup G) \cap H)
    BY <1>8, <2>1, FS_Union
  <2>3. Cardinality(F \cap G) = 0 /\ Cardinality((F \cup G) \cap H) = 0
    <3>1. F \cap G = {} /\ (F \cup G) \cap H = {}
      BY <1>4
    <3> QED
      BY <3>1, FS_EmptySet
  <2> QED
    BY <1>0, <1>9, <2>1, <2>2, <2>3
<1> QED
  BY <1>7, <1>10

(* At most p pairs touch the first p lines of either text, and at most s the *)
(* last s: of each pair the line that is nearer to that end is another one.  *)
LEMMA PairsInFront ==
  ASSUME NEW S, NEW X \in Seq(S), NEW Y \in Seq(S), NEW p \in Nat,
         NEW P \in Matchings(X, Y, Whole(X, Y)),
         NEW Q \in SUBSET P, \A m \in Q : m[1] <= p \/ m[2] <= p
  PROVE  IsFiniteSet(Q) /\ Cardinality(Q) <= p
<1> DEFINE f == [m \in Q |-> IF m[1] <= m[2] THEN m[1] ELSE m[2]]
<1>1. /\ \A m \in P : m[1] \in Nat /\ m[2] \in Nat /\ 1 <= m[1] /\ 1 <= m[2]
      /\ \A m \in P, n \in P : m[1] < n[1] <=> m[2] < n[2]
      /\ \A m \in P, n \in P : m[1] = n[1] => m = n
  BY WholeMatching DEF Ordered
<1>2. f \in [Q -> 1 .. p]
  BY <1>1
<1>3. ASSUME NEW m \in Q, NEW n \in Q, f[m] = f[n] PROVE m = n
  <2>1. CASE m[1] < n[1]
    BY <1>1, <1>3, <2>1
  <2>2. CASE n[1] < m[1]
    BY <1>1, <1>3, <2>2
  <2>3. CASE m[1] = n[1]
    BY <1>1, <2>3
  <2> QED
    BY <1>1, <2>1, <2>2, <2>3
<1> HIDE DEF f
<1>4. f \in Injection(Q, 1 .. p)
  BY <1>2, <1>3 DEF Injection, IsInjective
<1>5. IsFiniteSet(1 .. p) /\ Cardinality(1 .. p) = p
  BY FS_Interval
<1> QED
  BY <1>4, <1>5, FS_Injection

(* The line of a pair that is nearer to the end, counted from there.         *)
FromEnd(x, y, a, b) == IF x - a <= y - b THEN 1 + x - a ELSE 1 + y - b

LEMMA NearerToTheEnd ==
  ASSUME NEW x \in Nat, NEW y \in Nat, NEW s \in Nat,
         NEW a \in Nat, NEW b \in Nat, a <= x, b <= y
  PROVE  /\ a > x - s \/ b > y - s => FromEnd(x, y, a, b) \in 1 .. s
         /\ \A c \in Nat, d \in Nat :
              (c <= x /\ d <= y /\ a < c /\ b < d)
                => FromEnd(x, y, a, b) # FromEnd(x, y, c, d)
<1>1. a > x - s \/ b > y - s => FromEnd(x, y, a, b) \in 1 .. s
  BY DEF FromEnd
<1>2. ASSUME NEW c \in Nat, NEW d \in Nat, c <= x, d <= y, a < c, b < d
      PROVE  FromEnd(x, y, a, b) # FromEnd(x, y, c, d)
  BY <1>2 DEF FromEnd
<1> QED
  BY <1>1, <1>2

LEMMA PairsBehind ==
  ASSUME NEW S, NEW X \in Seq(S), NEW Y \in Seq(S), NEW s \in Nat,
         NEW P \in Matchings(X, Y, Whole(X, Y)),
         NEW Q \in SUBSET P, \A m \in Q : m[1] > Len(X) - s \/ m[2] > Len(Y) - s
  PROVE  IsFiniteSet(Q) /\ Cardinality(Q) <= s
<1> DEFINE f == [m \in Q |-> FromEnd(Len(X), Len(Y), m[1], m[2])]
<1>0. Len(X) \in Nat /\ Len(Y) \in Nat
  OBVIOUS
<1>1. /\ \A m \in P : /\ m[1] \in Nat /\ m[2] \in Nat
                      /\ m[1] <= Len(X) /\ m[2] <= Len(Y)
      /\ \A m \in P, n \in P : m[1] < n[1] <=> m[2] < n[2]
      /\ \A m \in P, n \in P : m[1] = n[1] => m = n
  BY WholeMatching DEF Ordered
<1>2. f \in [Q -> 1 .. s]
  <2>1. \A m \in Q : FromEnd(Len(X), Len(Y), m[1], m[2]) \in 1 .. s
    BY <1>0, <1>1, NearerToTheEnd
  <2> QED
    BY <2>1
<1>3. \A m \in Q, n \in Q : m[1] < n[1] => f[m] # f[n]
  <2> SUFFICES ASSUME NEW m \in Q, NEW n \in Q, m[1] < n[1]
               PROVE  FromEnd(Len(X), Len(Y), m[1], m[2]) # FromEnd(Len(X), Len(Y), n[1], n[2])
    OBVIOUS
  <2>1. /\ m[1] \in Nat /\ m[2] \in Nat /\ m[1] <= Len(X) /\ m[2] <= Len(Y)
        /\ n[1] \in Nat /\ n[2] \in Nat /\ n[1] <= Len(X) /\ n[2] <= Len(Y)
        /\ m[2] < n[2]
    BY <1>1
  <2> QED
    BY <1>0, <2>1, NearerToTheEnd
<1> HIDE DEF f
<1>4. ASSUME NEW m \in Q, NEW n \in Q, f[m] = f[n] PROVE m = n
  <2>1. ~(m[1] < n[1]) /\ ~(n[1] < m[1])
    BY <1>3, <1>4
  <2>2. m[1] = n[1]
    BY <1>1, <2>1
  <2> QED
    BY <1>1, <2>2
<1>5. f \in Injection(Q, 1 .. s)
  BY <1>2, <1>4 DEF Injection, IsInjective
<1>6. IsFiniteSet(1 .. s) /\ Cardinality(1 .. s) = s
  BY FS_Interval
<1> QED
  BY <1>5, <1>6, FS_Injection

(* The pairs between the ends, counted from where the ends are taken off.    *)
LEMMA PairsBetween ==
  ASSUME NEW S, NEW X \in Seq(S), NEW Y \in Seq(S),
         NEW A \in Seq(S), NEW B \in Seq(S), NEW p, NEW s,
         Between(X, Y, p, s, A, B),
         NEW P \in Matchings(X, Y, Whole(X, Y)), NEW Q \in SUBSET P,
         \A m \in Q : /\ p < m[1] /\ m[1] <= Len(X) - s
                      /\ p < m[2] /\ m[2] <= Len(Y) - s
  PROVE  \E R \in Matchings(A, B, Whole(A, B)) : Cardinality(R) = Cardinality(Q)
<1> DEFINE R == {<<m[1] - p, m[2] - p>> : m \in Q}
           f == [m \in Q |-> <<m[1] - p, m[2] - p>>]
<1>0. /\ p \in Nat /\ s \in Nat /\ Len(X) \in Nat /\ Len(Y) \in Nat
      /\ Len(A) = Len(X) - p - s /\ Len(B) = Len(Y) - p - s
  BY DEF Between
<1>1. /\ IsFiniteSet(P)
      /\ \A m \in P : /\ m[1] \in Nat /\ m[2] \in Nat /\ m = <<m[1], m[2]>>
                      /\ X[m[1]] = Y[m[2]]
      /\ \A m \in P, n \in P : m[1] < n[1] <=> m[2] < n[2]
      /\ \A m \in P, n \in P : m[1] = n[1] => m = n
  BY WholeMatching DEF Ordered
<1>2. ASSUME NEW m \in Q
      PROVE  /\ m[1] - p \in 1 .. Len(A) /\ m[2] - p \in 1 .. Len(B)
             /\ A[m[1] - p] = B[m[2] - p]
  <2>1. /\ m[1] \in Nat /\ m[2] \in Nat
        /\ p < m[1] /\ m[1] <= Len(X) - s /\ p < m[2] /\ m[2] <= Len(Y) - s
    BY <1>1
  <2>2. m[1] - p \in 1 .. Len(A) /\ m[2] - p \in 1 .. Len(B)
    <3>1. /\ \A a \in Nat : p < a /\ a <= Len(X) - s => a - p \in 1 .. Len(A)
          /\ \A b \in Nat : p < b /\ b <= Len(Y) - s => b - p \in 1 .. Len(B)
      BY <1>0
    <3> QED
      BY <2>1, <3>1
  <2>3. A[m[1] - p] = X[p + (m[1] - p)] /\ B[m[2] - p] = Y[p + (m[2] - p)]
    BY <2>2 DEF Between
  <2>4. p + (m[1] - p) = m[1] /\ p + (m[2] - p) = m[2]
    BY <1>0, <2>1
  <2>5. X[m[1]] = Y[m[2]]
    BY <1>1
  <2> QED
    BY <2>2, <2>3, <2>4, <2>5
<1>3. R \in SUBSET ((1 .. Len(A)) \X (1 .. Len(B))) /\ \A r \in R : A[r[1]] = B[r[2]]
  BY <1>2
<1>4. Ordered(R)
  <2> SUFFICES ASSUME NEW m \in Q, NEW n \in Q
               PROVE  m[1] - p < n[1] - p <=> m[2] - p < n[2] - p
    BY DEF Ordered
  <2>1. /\ m[1] \in Nat /\ m[2] \in Nat /\ n[1] \in Nat /\ n[2] \in Nat
        /\ m[1] < n[1] <=> m[2] < n[2]
    BY <1>1
  <2>2. \A a \in Nat, b \in Nat : a - p < b - p <=> a < b
    BY <1>0
  <2>3. (m[1] - p < n[1] - p <=> m[1] < n[1]) /\ (m[2] - p < n[2] - p <=> m[2] < n[2])
    BY <2>1, <2>2
  <2> QED
    BY <2>1, <2>3
<1>5. R \in Matchings(A, B, Whole(A, B))
  BY <1>3, <1>4 DEF Matchings, Whole
<1>6. f \in [Q -> R]
  OBVIOUS
<1>7. \A m \in Q, n \in Q : f[m] = f[n] => m = n
  <2> SUFFICES ASSUME NEW m \in Q, NEW n \in Q, f[m] = f[n] PROVE m = n
    OBVIOUS
  <2>1. m[1] - p = n[1] - p
    OBVIOUS
  <2>2. \A a \in Nat, b \in Nat : a - p = b - p => a = b
    BY <1>0
  <2> QED
    BY <1>1, <2>1, <2>2
<1>8. \A r \in R : \E m \in Q : f[m] = r
  OBVIOUS
<1>9. IsFiniteSet(Q)
  BY <1>1, FS_Subset
<1> HIDE DEF R, f
<1>10. f \in Bijection(Q, R)
  BY <1>6, <1>7, <1>8 DEF Bijection, Injection, Surjection, IsInjective
<1>11. Cardinality(R) = Cardinality(Q)
  BY <1>9, <1>10, FS_Bijection DEF ExistsBijection
<1> QED
  BY <1>5, <1>11

LEMMA NoMoreThanEnds ==
  ASSUME NEW S, NEW X \in Seq(S), NEW Y \in Seq(S),
         NEW A \in Seq(S), NEW B \in Seq(S), NEW p, NEW s,
         Between(X, Y, p, s, A, B), NEW P \in Matchings(X, Y, Whole(X, Y))
  PROVE  \E R \in Matchings(A, B, Whole(A, B)) :
           Cardinality(P) <= p + Cardinality(R) + s
<1> DEFINE F == {m \in P : m[1] <= p \/ m[2] <= p}
           H == {m \in P \ F : m[1] > Len(X) - s \/ m[2] > Len(Y) - s}
           G == P \ (F \cup H)
<1>0. p \in Nat /\ s \in Nat /\ Len(X) \in Nat /\ Len(Y) \in Nat
  BY DEF Between
<1>1. IsFiniteSet(F) /\ Cardinality(F) <= p
  BY <1>0, PairsInFront
<1>2. IsFiniteSet(H) /\ Cardinality(H) <= s
  BY <1>0, PairsBehind
<1>3. \A m \in P : m[1] \in Nat /\ m[2] \in Nat
  BY WholeMatching
<1>4. \A m \in G : /\ p < m[1] /\ m[1] <= Len(X) - s
                   /\ p < m[2] /\ m[2] <= Len(Y) - s
  BY <1>0, <1>3
<1>5. PICK R \in Matchings(A, B, Whole(A, B)) : Cardinality(R) = Cardinality(G)
  <2>1. G \in SUBSET P
    OBVIOUS
  <2> HIDE DEF G
  <2>2. \E R \in Matchings(A, B, Whole(A, B)) : Cardinality(R) = Cardinality(G)
    BY <1>4, <2>1, PairsBetween, SMTT(60)
  <2> QED
    BY <2>2
<1>6. IsFiniteSet(G)
  <2>1. IsFiniteSet(P)
    BY WholeMatching
  <2> QED
    BY <2>1, FS_Subset
<1>7. P = G \cup (F \cup H) /\ G \cap (F \cup H) = {} /\ F \cap H = {}
  OBVIOUS
<1> HIDE DEF F, G, H
<1>8. /\ IsFiniteSet(F \cup H)
      /\ Cardinality(F \cup H) = Cardinality(F) + Cardinality(H)
  <2>1. /\ IsFiniteSet(F \cup H)
        /\ Cardinality(F \cup H) = Cardinality(F) + Cardinality(H) - Cardinality(F \cap H)
    BY <1>1, <1>2, FS_Union
  <2>2. Cardinality(F \cap H) = 0
    BY <1>7, FS_EmptySet
  <2>3. Cardinality(F) \in Nat /\ Cardinality(H) \in Nat
    BY <1>1, <1>2, FS_CardinalityType
  <2> QED
    BY <2>1, <2>2, <2>3
<1>9. Cardinality(P) = Cardinality(G) + Cardinality(F) + Cardinality(H)
  <2>1. Cardinality(P) = Cardinality(G) + Cardinality(F \cup H)
                           - Cardinality(G \cap (F \cup H))
    BY <1>6, <1>7, <1>8, FS_Union
  <2>2. Cardinality(G \cap (F \cup H)) = 0
    BY <1>7, FS_EmptySet
  <2>3. Cardinality(F) \in Nat /\ Cardinality(H) \in Nat /\ Cardinality(G) \in Nat
    BY <1>1, <1>2, <1>6, FS_CardinalityType
  <2> QED
    BY <1>8, <2>1, <2>2, <2>3
<1>10. Cardinality(F) \in Nat /\ Cardinality(H) \in Nat /\ Cardinality(G) \in Nat
  BY <1>1, <1>2, <1>6, FS_CardinalityType
<1> QED
  BY <1>0, <1>1, <1>2, <1>5, <1>9, <1>10

(* PrefixLength, SuffixLength and the table between them: the lines the      *)
(* mapper matches are a matching of the two texts, and none has more pairs.  *)
THEOREM MatchesAreLongest ==
  ASSUME NEW S, NEW X \in Seq(S), NEW Y \in Seq(S)
  PROVE  /\ Matches(X, Y) \in Matchings(X, Y, Whole(X, Y))
         /\ \A P \in Matchings(X, Y, Whole(X, Y)) :
              Cardinality(P) <= Cardinality(Matches(X, Y))
<1> DEFINE p == PrefixLength(X, Y)
           s == SuffixLength(X, Y)
           A == Trim(X, Y, X)
           B == Trim(X, Y, Y)
           R == Trace(A, B)
           M == FirstLines(p) \cup Shifted(R, p) \cup LastLines(X, Y, s)
<1>1. A \in Seq(S) /\ B \in Seq(S) /\ Between(X, Y, p, s, A, B)
  BY TrimmedTexts
<1>2. Matches(X, Y) = M
  BY DEF Matches, FirstLines, Shifted, LastLines
<1> HIDE DEF A, B, p, s
<1>3. /\ R \in Matchings(A, B, Whole(A, B))
      /\ \A Q \in Matchings(A, B, Whole(A, B)) : Cardinality(Q) <= Cardinality(R)
  BY <1>1, TraceIsLongest DEF Whole
<1> HIDE DEF R
<1>4. M \in Matchings(X, Y, Whole(X, Y)) /\ Cardinality(M) = p + Cardinality(R) + s
  <2> HIDE DEF M
  <2>1. M = FirstLines(p) \cup Shifted(R, p) \cup LastLines(X, Y, s)
    BY DEF M
  <2> QED
    BY <1>1, <1>3, <2>1, MatchingWithEnds
<1> HIDE DEF M
<1>5. ASSUME NEW P \in Matchings(X, Y, Whole(X, Y)) PROVE Cardinality(P) <= Cardinality(M)
  <2>1. PICK Q \in Matchings(A, B, Whole(A, B)) :
          Cardinality(P) <= p + Cardinality(Q) + s
    BY <1>1, NoMoreThanEnds
  <2>2. Cardinality(Q) <= Cardinality(R)
    BY <1>3
  <2>3. /\ Cardinality(P) \in Nat /\ Cardinality(Q) \in Nat /\ Cardinality(R) \in Nat
        /\ p \in Nat /\ s \in Nat
    BY <1>1, <1>3, WholeMatching DEF Between
  <2> QED
    BY <1>4, <2>1, <2>2, <2>3
<1> QED
  BY <1>2, <1>4, <1>5

-----------------------------------------------------------------------------
(* Positions by their rank: the members of a set of positions, in order.     *)

Rank(S, i) == Cardinality({k \in S : k <= i})

LEMMA Ranks ==
  ASSUME NEW n \in Nat, NEW S \in SUBSET (1 .. n)
  PROVE  /\ IsFiniteSet(S) /\ Cardinality(S) \in Nat
         /\ \A i \in S : Rank(S, i) \in 1 .. Cardinality(S)
         /\ \A i \in S, j \in S : i < j => Rank(S, i) < Rank(S, j)
         /\ \A i \in S, j \in S : Rank(S, i) = Rank(S, j) => i = j
         /\ \A r \in 1 .. Cardinality(S) : \E i \in S : Rank(S, i) = r
<1> DEFINE Upto(i) == {k \in S : k <= i}
<1>1. IsFiniteSet(S) /\ Cardinality(S) \in Nat
  <2>1. IsFiniteSet(1 .. n)
    BY FS_Interval
  <2> QED
    BY <2>1, FS_Subset, FS_CardinalityType
<1>2. ASSUME NEW i \in S
      PROVE  /\ IsFiniteSet(Upto(i)) /\ Cardinality(Upto(i)) \in Nat
             /\ Cardinality(Upto(i)) <= Cardinality(S)
             /\ Cardinality(Upto(i)) # 0
  <2>1. Upto(i) \in SUBSET S /\ i \in Upto(i)
    OBVIOUS
  <2> HIDE DEF Upto
  <2>2. IsFiniteSet(Upto(i)) /\ Cardinality(Upto(i)) <= Cardinality(S)
    BY <1>1, <2>1, FS_Subset
  <2>3. Cardinality(Upto(i)) # 0
    BY <2>1, <2>2, FS_EmptySet
  <2> QED
    BY <2>2, <2>3, FS_CardinalityType
<1>3. \A i \in S : Rank(S, i) \in 1 .. Cardinality(S)
  <2> SUFFICES ASSUME NEW i \in S PROVE Rank(S, i) \in 1 .. Cardinality(S)
    OBVIOUS
  <2>1. Rank(S, i) = Cardinality(Upto(i))
    BY DEF Rank
  <2> HIDE DEF Upto
  <2> QED
    BY <1>1, <1>2, <2>1
<1>4. ASSUME NEW i \in S, NEW j \in S, i < j PROVE Rank(S, i) < Rank(S, j)
  <2>1. Upto(i) \in SUBSET Upto(j) /\ j \in Upto(j) /\ j \notin Upto(i)
    <3>1. \A k \in S : k <= i => k <= j
      BY <1>4
    <3>2. j <= j /\ ~(j <= i)
      BY <1>4
    <3> QED
      BY <3>1, <3>2
  <2>2. Rank(S, i) = Cardinality(Upto(i)) /\ Rank(S, j) = Cardinality(Upto(j))
    BY DEF Rank
  <2> HIDE DEF Upto
  <2>3. /\ Cardinality(Upto(i)) <= Cardinality(Upto(j))
        /\ Cardinality(Upto(i)) # Cardinality(Upto(j))
    <3>1. IsFiniteSet(Upto(j))
      BY <1>2
    <3> QED
      BY <2>1, <3>1, FS_Subset
  <2> QED
    BY <1>2, <2>2, <2>3
<1>5. \A i \in S, j \in S : Rank(S, i) = Rank(S, j) => i = j
  <2> SUFFICES ASSUME NEW i \in S, NEW j \in S, Rank(S, i) = Rank(S, j) PROVE i = j
    OBVIOUS
  <2>1. ~(Rank(S, i) < Rank(S, j)) /\ ~(Rank(S, j) < Rank(S, i))
    BY <1>3
  <2>2. ~(i < j) /\ ~(j < i)
    BY <1>4, <2>1
  <2> QED
    BY <2>2
<1>6. \A r \in 1 .. Cardinality(S) : \E i \in S : Rank(S, i) = r
  <2> DEFINE c == Cardinality(S)
             f == [i \in S |-> Rank(S, i)]
  <2>1. f \in Injection(S, 1 .. c)
    BY <1>3, <1>5 DEF Injection, IsInjective
  <2>2. IsFiniteSet(1 .. c) /\ Cardinality(1 .. c) = c
    BY <1>1, FS_Interval
  <2>3. f \in Surjection(S, 1 .. c)
    <3> HIDE DEF f
    <3> QED
      BY <2>1, <2>2, FS_Injection
  <2> QED
    BY <2>3 DEF Surjection
<1> QED
  BY <1>1, <1>3, <1>4, <1>5, <1>6

LEMMA MemberOfRank ==
  ASSUME NEW n \in Nat, NEW S \in SUBSET (1 .. n), NEW i \in S
  PROVE  (CHOOSE j \in S : Rank(S, j) = Rank(S, i)) = i
<1>1. \E j \in S : Rank(S, j) = Rank(S, i)
  OBVIOUS
<1>2. LET c == CHOOSE j \in S : Rank(S, j) = Rank(S, i)
      IN  c \in S /\ Rank(S, c) = Rank(S, i)
  BY <1>1, Zenon
<1> QED
  BY <1>2, Ranks

LEMMA LineOfRank ==
  ASSUME NEW X, NEW n \in Nat, NEW S \in SUBSET (1 .. n), NEW i \in S
  PROVE  LinesAt(X, S)[Rank(S, i)] = X[i]
<1>1. LinesAt(X, S) = [m \in 1 .. Cardinality(S) |-> X[CHOOSE j \in S : Rank(S, j) = m]]
  BY DEF LinesAt, Rank
<1>2. Rank(S, i) \in 1 .. Cardinality(S)
  BY Ranks
<1>3. LinesAt(X, S)[Rank(S, i)] = X[CHOOSE j \in S : Rank(S, j) = Rank(S, i)]
  BY <1>1, <1>2
<1> QED
  BY <1>3, MemberOfRank

(* Lines two texts share in the same order are a matching.                   *)
LEMMA SharedLinesMatch ==
  ASSUME NEW V, NEW X \in Seq(V), NEW Y \in Seq(V),
         NEW S \in SUBSET DOMAIN X, NEW T \in SUBSET DOMAIN Y,
         Cardinality(S) = Cardinality(T), LinesAt(X, S) = LinesAt(Y, T)
  PROVE  \E P \in Matchings(X, Y, Whole(X, Y)) : Cardinality(P) = Cardinality(S)
<1> DEFINE P == {m \in S \X T : Rank(S, m[1]) = Rank(T, m[2])}
<1>1. /\ Len(X) \in Nat /\ Len(Y) \in Nat
      /\ S \in SUBSET (1 .. Len(X)) /\ T \in SUBSET (1 .. Len(Y))
  OBVIOUS
<1>2. \A m \in P : X[m[1]] = Y[m[2]]
  <2> SUFFICES ASSUME NEW m \in P PROVE X[m[1]] = Y[m[2]]
    OBVIOUS
  <2>1. m[1] \in S /\ m[2] \in T /\ Rank(S, m[1]) = Rank(T, m[2])
    OBVIOUS
  <2>2. LinesAt(X, S)[Rank(S, m[1])] = X[m[1]]
    BY <1>1, <2>1, LineOfRank
  <2>3. LinesAt(Y, T)[Rank(T, m[2])] = Y[m[2]]
    BY <1>1, <2>1, LineOfRank
  <2> QED
    BY <2>1, <2>2, <2>3
<1>3. Ordered(P)
  <2>1. ASSUME NEW n \in Nat, NEW U \in SUBSET (1 .. n), NEW i \in U, NEW j \in U
        PROVE  i < j <=> Rank(U, i) < Rank(U, j)
    <3>1. i < j => Rank(U, i) < Rank(U, j)
      BY Ranks
    <3>2. j < i => Rank(U, j) < Rank(U, i)
      BY Ranks
    <3>3. Rank(U, i) \in 1 .. Cardinality(U) /\ Rank(U, j) \in 1 .. Cardinality(U)
      BY Ranks
    <3>4. Rank(U, i) \in Int /\ Rank(U, j) \in Int /\ i \in Int /\ j \in Int
      BY <3>3
    <3> QED
      BY <3>1, <3>2, <3>4
  <2> SUFFICES ASSUME NEW m \in P, NEW n \in P PROVE m[1] < n[1] <=> m[2] < n[2]
    BY DEF Ordered
  <2>2. /\ m[1] \in S /\ m[2] \in T /\ n[1] \in S /\ n[2] \in T
        /\ Rank(S, m[1]) = Rank(T, m[2]) /\ Rank(S, n[1]) = Rank(T, n[2])
    OBVIOUS
  <2>3. m[1] < n[1] <=> Rank(S, m[1]) < Rank(S, n[1])
    BY <1>1, <2>1, <2>2
  <2>4. m[2] < n[2] <=> Rank(T, m[2]) < Rank(T, n[2])
    BY <1>1, <2>1, <2>2
  <2> QED
    BY <2>2, <2>3, <2>4
<1>4. P \in Matchings(X, Y, Whole(X, Y))
  <2>1. P \in SUBSET ((1 .. Len(X)) \X (1 .. Len(Y)))
    BY <1>1
  <2> HIDE DEF P
  <2> QED
    BY <1>2, <1>3, <2>1 DEF Matchings, Whole
<1> DEFINE f == [m \in P |-> m[1]]
<1>5. f \in [P -> S]
  OBVIOUS
<1>6. \A m \in P, n \in P : f[m] = f[n] => m = n
  <2>1. \A m \in P, n \in P : m[1] = n[1] => m = n
    <3> HIDE DEF P
    <3> QED
      BY <1>4, WholeMatching
  <2> QED
    BY <2>1
<1>7. \A i \in S : \E m \in P : f[m] = i
  <2> SUFFICES ASSUME NEW i \in S PROVE \E m \in P : m[1] = i
    OBVIOUS
  <2>1. Rank(S, i) \in 1 .. Cardinality(T)
    BY <1>1, Ranks
  <2>2. \A r \in 1 .. Cardinality(T) : \E j \in T : Rank(T, j) = r
    BY <1>1, Ranks
  <2>3. PICK j \in T : Rank(T, j) = Rank(S, i)
    BY <2>1, <2>2
  <2>4. <<i, j>> \in P /\ <<i, j>>[1] = i
    BY <2>3
  <2> HIDE DEF P
  <2> QED
    BY <2>4
<1>8. IsFiniteSet(P)
  BY <1>4, WholeMatching
<1> HIDE DEF P, f
<1>9. f \in Bijection(P, S)
  BY <1>5, <1>6, <1>7 DEF Bijection, Injection, Surjection, IsInjective
<1>10. Cardinality(P) = Cardinality(S)
  BY <1>8, <1>9, FS_Bijection DEF ExistsBijection
<1> QED
  BY <1>4, <1>10

-----------------------------------------------------------------------------
(* The two tables of a mapping.  Its entries have 16 bits: a text as long as *)
(* the number that stands for no line has no mapping.                        *)

LEMMA PartnersAreUnique ==
  ASSUME NEW M, \A m \in M, n \in M : m[1] = n[1] \/ m[2] = n[2] => m = n,
         NEW m \in M
  PROVE  /\ (CHOOSE n \in M : n[1] = m[1]) = m
         /\ (CHOOSE n \in M : n[2] = m[2]) = m
<1>1. (CHOOSE n \in M : n[1] = m[1]) \in M /\ (CHOOSE n \in M : n[1] = m[1])[1] = m[1]
  <2>1. \E n \in M : n[1] = m[1]
    OBVIOUS
  <2> QED
    BY <2>1, Zenon
<1>2. (CHOOSE n \in M : n[2] = m[2]) \in M /\ (CHOOSE n \in M : n[2] = m[2])[2] = m[2]
  <2>1. \E n \in M : n[2] = m[2]
    OBVIOUS
  <2> QED
    BY <2>1, Zenon
<1> QED
  BY <1>1, <1>2

LEMMA DiffTables ==
  ASSUME NEW V, NEW X \in Seq(V) \ {<<>>}, NEW Y \in Seq(V) \ {<<>>}
  PROVE  LET D == Diff(X, Y)
             M == Matches(X, Y)
         IN  /\ DOMAIN D.oldToNew = DOMAIN X /\ DOMAIN D.newToOld = DOMAIN Y
             /\ \A m \in M : D.oldToNew[m[1]] = m[2] /\ D.newToOld[m[2]] = m[1]
             /\ \A i \in DOMAIN X :
                  D.oldToNew[i] = InvalidLine \/ \E m \in M : m[1] = i
             /\ \A j \in DOMAIN Y :
                  D.newToOld[j] = InvalidLine \/ \E m \in M : m[2] = j
<1> DEFINE
      M == Matches(X, Y)
      O == [i \in DOMAIN X |->
              IF \E m \in M : m[1] = i THEN (CHOOSE m \in M : m[1] = i)[2] ELSE InvalidLine]
      N == [j \in DOMAIN Y |->
              IF \E m \in M : m[2] = j THEN (CHOOSE m \in M : m[2] = j)[1] ELSE InvalidLine]
<1>1. Diff(X, Y) = [oldToNew |-> O, newToOld |-> N]
  BY DEF Diff
<1>2. M \in Matchings(X, Y, Whole(X, Y))
  BY MatchesAreLongest
<1> HIDE DEF M
<1>3. /\ \A m \in M, n \in M : m[1] = n[1] \/ m[2] = n[2] => m = n
      /\ \A m \in M : m[1] \in DOMAIN X /\ m[2] \in DOMAIN Y
  <2>1. DOMAIN X = 1 .. Len(X) /\ DOMAIN Y = 1 .. Len(Y)
    OBVIOUS
  <2> QED
    BY <1>2, <2>1, WholeMatching
<1>4. \A m \in M : O[m[1]] = m[2] /\ N[m[2]] = m[1]
  <2> SUFFICES ASSUME NEW m \in M PROVE O[m[1]] = m[2] /\ N[m[2]] = m[1]
    OBVIOUS
  <2>1. /\ O[m[1]] = (CHOOSE n \in M : n[1] = m[1])[2]
        /\ N[m[2]] = (CHOOSE n \in M : n[2] = m[2])[1]
    BY <1>3
  <2>2. (CHOOSE n \in M : n[1] = m[1]) = m /\ (CHOOSE n \in M : n[2] = m[2]) = m
    BY <1>3, PartnersAreUnique
  <2> QED
    BY <2>1, <2>2
<1>5. DOMAIN O = DOMAIN X /\ DOMAIN N = DOMAIN Y
  OBVIOUS
<1>6. /\ \A i \in DOMAIN X : O[i] = InvalidLine \/ \E m \in M : m[1] = i
      /\ \A j \in DOMAIN Y : N[j] = InvalidLine \/ \E m \in M : m[2] = j
  OBVIOUS
<1> HIDE DEF O, N
<1>7. Diff(X, Y).oldToNew = O /\ Diff(X, Y).newToOld = N
  BY <1>1
<1> QED
  BY <1>4, <1>5, <1>6, <1>7 DEF M

(* LineMapper::Diff: for any two texts with lines, fewer than the number     *)
(* that stands for none, the mapping is a longest one.                       *)
THEOREM DiffIsLongest ==
  ASSUME NEW V, NEW X \in Seq(V) \ {<<>>}, NEW Y \in Seq(V) \ {<<>>},
         Len(X) < InvalidLine, Len(Y) < InvalidLine
  PROVE  IsLongest(Diff(X, Y), X, Y)
<1> DEFINE D == Diff(X, Y)
           M == Matches(X, Y)
           K == Kept(D)
<1>1. /\ M \in Matchings(X, Y, Whole(X, Y))
      /\ \A P \in Matchings(X, Y, Whole(X, Y)) : Cardinality(P) <= Cardinality(M)
  BY MatchesAreLongest
<1>2. /\ DOMAIN D.oldToNew = DOMAIN X /\ DOMAIN D.newToOld = DOMAIN Y
      /\ \A m \in M : D.oldToNew[m[1]] = m[2] /\ D.newToOld[m[2]] = m[1]
      /\ \A i \in DOMAIN X : D.oldToNew[i] = InvalidLine \/ \E m \in M : m[1] = i
      /\ \A j \in DOMAIN Y : D.newToOld[j] = InvalidLine \/ \E m \in M : m[2] = j
  BY DiffTables
<1> HIDE DEF D, M
<1>3. /\ IsFiniteSet(M) /\ Ordered(M)
      /\ \A m \in M : /\ m[1] \in DOMAIN X /\ m[2] \in DOMAIN Y
                      /\ m[1] \in Nat /\ m[2] \in Nat
                      /\ m[1] < InvalidLine /\ m[2] < InvalidLine
                      /\ X[m[1]] = Y[m[2]]
      /\ \A m \in M, n \in M : m[1] = n[1] \/ m[2] = n[2] => m = n
  <2>1. /\ DOMAIN X = 1 .. Len(X) /\ DOMAIN Y = 1 .. Len(Y)
        /\ \A i \in 1 .. Len(X) : i < InvalidLine
        /\ \A i \in 1 .. Len(Y) : i < InvalidLine
    BY DEF InvalidLine
  <2> QED
    BY <1>1, <2>1, WholeMatching
<1>4. K = {m[1] : m \in M}
  <2>1. \A m \in M : m[2] # InvalidLine
    BY <1>3 DEF InvalidLine
  <2>2. K = {i \in DOMAIN X : D.oldToNew[i] # InvalidLine}
    BY <1>2 DEF Kept
  <2> QED
    BY <1>2, <1>3, <2>1, <2>2
<1>5. Cardinality(K) = Cardinality(M)
  <2> DEFINE f == [m \in M |-> m[1]]
  <2>1. f \in Bijection(M, K)
    BY <1>3, <1>4 DEF Bijection, Injection, Surjection, IsInjective
  <2> QED
    BY <1>3, <2>1, FS_Bijection DEF ExistsBijection
<1>6. ASSUME NEW i \in K
      PROVE  /\ D.oldToNew[i] \in DOMAIN Y
             /\ X[i] = Y[D.oldToNew[i]]
             /\ D.newToOld[D.oldToNew[i]] = i
             /\ \A k \in K : k < i => D.oldToNew[k] < D.oldToNew[i]
  <2>1. PICK m \in M : i = m[1]
    BY <1>4
  <2>2. \A k \in K : k < i => D.oldToNew[k] < D.oldToNew[i]
    <3> SUFFICES ASSUME NEW k \in K, k < i PROVE D.oldToNew[k] < D.oldToNew[i]
      OBVIOUS
    <3>1. PICK n \in M : k = n[1]
      BY <1>4
    <3>2. n[2] < m[2]
      BY <1>3, <2>1, <3>1 DEF Ordered
    <3> QED
      BY <1>2, <2>1, <3>1, <3>2
  <2> QED
    BY <1>2, <1>3, <2>1, <2>2
<1>7. ASSUME NEW j \in DOMAIN Y, D.newToOld[j] # InvalidLine
      PROVE  D.newToOld[j] \in K
  BY <1>2, <1>4, <1>7
<1>8. ASSUME NEW S \in SUBSET DOMAIN X, NEW T \in SUBSET DOMAIN Y,
             Cardinality(S) = Cardinality(T), LinesAt(X, S) = LinesAt(Y, T)
      PROVE  Cardinality(S) <= Cardinality(K)
  <2>1. \E P \in Matchings(X, Y, Whole(X, Y)) : Cardinality(P) = Cardinality(S)
    BY <1>8, SharedLinesMatch
  <2> QED
    BY <1>1, <1>5, <2>1
<1> QED
  BY <1>6, <1>7, <1>8 DEF IsLongest, D

-----------------------------------------------------------------------------
(* Types, and what is picked from a list.                                    *)

LEMMA FunctionIsSequence ==
  ASSUME NEW V, NEW n \in Nat, NEW f \in [1 .. n -> V]
  PROVE  f \in Seq(V) /\ Len(f) = n /\ DOMAIN f = 1 .. n
<1>1. f \in Seq(V)
  <2>1. \A i \in 1 .. n : f[i] \in V
    OBVIOUS
  <2>2. [i \in 1 .. n |-> f[i]] \in Seq(V)
    BY <2>1, IsASeq
  <2> QED
    BY <2>2
<1>2. DOMAIN f = 1 .. n /\ DOMAIN f = 1 .. Len(f) /\ Len(f) \in Nat
  BY <1>1
<1>3. Len(f) = n
  BY <1>2
<1> QED
  BY <1>1, <1>2, <1>3

LEMMA DividedLines ==
  ASSUME NEW V, Cleaned \in [V -> V], NEW t \in Seq(V) \ {<<>>}
  PROVE  /\ DivideIntoLines(t) \in Seq(V)
         /\ Len(DivideIntoLines(t)) <= Len(t)
<1>1. Len(t) \in Nat /\ Len(t) # 0
  BY EmptySeq
<1> DEFINE last == IF t[Len(t)] = Empty THEN Len(t) - 1 ELSE Len(t)
<1>2. last \in Nat /\ last <= Len(t)
  BY <1>1
<1>3. DivideIntoLines(t) = [i \in 1 .. last |-> Cleaned[t[i]]]
  BY DEF DivideIntoLines
<1> HIDE DEF last
<1>4. \A i \in 1 .. last : Cleaned[t[i]] \in V
  BY <1>2
<1>5. [i \in 1 .. last |-> Cleaned[t[i]]] \in Seq(V)
  BY <1>2, <1>4, IsASeq
<1>6. Len([i \in 1 .. last |-> Cleaned[t[i]]]) = last
  BY <1>2
<1> QED
  BY <1>2, <1>3, <1>5, <1>6

LEMMA DiffType ==
  ASSUME NEW V, NEW X \in Seq(V), NEW Y \in Seq(V)
  PROVE  /\ Diff(X, Y) \in [oldToNew : Seq(Nat), newToOld : Seq(Nat)]
         /\ DOMAIN Diff(X, Y).oldToNew = DOMAIN X
         /\ DOMAIN Diff(X, Y).newToOld = DOMAIN Y
<1>0. DOMAIN X = 1 .. Len(X) /\ DOMAIN Y = 1 .. Len(Y) /\ Len(X) \in Nat /\ Len(Y) \in Nat
  OBVIOUS
<1>1. CASE X = <<>> \/ Y = <<>>
  <2>1. Diff(X, Y) = [oldToNew |-> [i \in DOMAIN X |-> 1], newToOld |-> [j \in DOMAIN Y |-> 1]]
    BY <1>1 DEF Diff
  <2>2. [i \in DOMAIN X |-> 1] \in Seq(Nat) /\ [j \in DOMAIN Y |-> 1] \in Seq(Nat)
    BY <1>0, IsASeq
  <2> QED
    BY <2>1, <2>2
<1>2. CASE X # <<>> /\ Y # <<>>
  <2> DEFINE
        M == Matches(X, Y)
        O == [i \in DOMAIN X |->
                IF \E m \in M : m[1] = i THEN (CHOOSE m \in M : m[1] = i)[2] ELSE InvalidLine]
        N == [j \in DOMAIN Y |->
                IF \E m \in M : m[2] = j THEN (CHOOSE m \in M : m[2] = j)[1] ELSE InvalidLine]
  <2>1. Diff(X, Y) = [oldToNew |-> O, newToOld |-> N]
    BY <1>2 DEF Diff
  <2>2. \A m \in M : m[1] \in Nat /\ m[2] \in Nat
    BY MatchesAreLongest, WholeMatching
  <2> HIDE DEF M
  <2>3. ASSUME NEW i \in DOMAIN X PROVE O[i] \in Nat
    <3>1. CASE \E m \in M : m[1] = i
      <4>1. (CHOOSE m \in M : m[1] = i) \in M
        BY <3>1, Zenon
      <4> QED
        BY <2>2, <3>1, <4>1
    <3>2. CASE ~\E m \in M : m[1] = i
      BY <3>2 DEF InvalidLine
    <3> QED
      BY <3>1, <3>2
  <2>4. ASSUME NEW j \in DOMAIN Y PROVE N[j] \in Nat
    <3>1. CASE \E m \in M : m[2] = j
      <4>1. (CHOOSE m \in M : m[2] = j) \in M
        BY <3>1, Zenon
      <4> QED
        BY <2>2, <3>1, <4>1
    <3>2. CASE ~\E m \in M : m[2] = j
      BY <3>2 DEF InvalidLine
    <3> QED
      BY <3>1, <3>2
  <2>5. O \in [1 .. Len(X) -> Nat] /\ N \in [1 .. Len(Y) -> Nat]
    BY <1>0, <2>3, <2>4
  <2> HIDE DEF O, N
  <2>6. O \in Seq(Nat) /\ N \in Seq(Nat) /\ DOMAIN O = DOMAIN X /\ DOMAIN N = DOMAIN Y
    BY <1>0, <2>5, FunctionIsSequence
  <2> QED
    BY <2>1, <2>6
<1> QED
  BY <1>1, <1>2

LEMMA UpdateType ==
  ASSUME NEW V, Cleaned \in [V -> V], NEW t \in Seq(V) \ {<<>>}, NEW u \in Seq(V) \ {<<>>}
  PROVE  Update(t, u) \in [oldToNew : Seq(Nat), newToOld : Seq(Nat)]
BY DividedLines, DiffType DEF Update

LEMMA LookupType ==
  ASSUME NEW table \in Seq(Nat), NEW line \in Nat
  PROVE  Lookup(table, line) \in Nat
<1>1. table # <<>> => Len(table) \in DOMAIN table
  BY EmptySeq
<1> QED
  BY <1>1 DEF Lookup

LEMMA PickedLines ==
  ASSUME NEW V, NEW s \in Seq(V), NEW S \in SUBSET DOMAIN s
  PROVE  /\ LinesAt(s, S) \in Seq(V)
         /\ Len(LinesAt(s, S)) = Cardinality(S)
         /\ \A i \in S : /\ Rank(S, i) \in DOMAIN LinesAt(s, S)
                         /\ LinesAt(s, S)[Rank(S, i)] = s[i]
         /\ \A r \in DOMAIN LinesAt(s, S) : \E i \in S : Rank(S, i) = r
<1>1. Len(s) \in Nat /\ S \in SUBSET (1 .. Len(s))
  OBVIOUS
<1>2. /\ Cardinality(S) \in Nat
      /\ \A i \in S : Rank(S, i) \in 1 .. Cardinality(S)
      /\ \A r \in 1 .. Cardinality(S) : \E i \in S : Rank(S, i) = r
  BY <1>1, Ranks
<1>3. \A i \in S : LinesAt(s, S)[Rank(S, i)] = s[i]
  BY <1>1, LineOfRank
<1>4. LinesAt(s, S) \in [1 .. Cardinality(S) -> V]
  <2>1. DOMAIN LinesAt(s, S) = 1 .. Cardinality(S)
    BY DEF LinesAt
  <2>2. \A r \in 1 .. Cardinality(S) : LinesAt(s, S)[r] \in V
    BY <1>2, <1>3
  <2>3. LinesAt(s, S) = [r \in 1 .. Cardinality(S) |-> LinesAt(s, S)[r]]
    BY DEF LinesAt
  <2> QED
    BY <2>2, <2>3
<1>5. LinesAt(s, S) \in Seq(V) /\ Len(LinesAt(s, S)) = Cardinality(S)
      /\ DOMAIN LinesAt(s, S) = 1 .. Cardinality(S)
  BY <1>2, <1>4, FunctionIsSequence
<1> QED
  BY <1>2, <1>3, <1>5

(* How often a line is picked.                                               *)
Places(s, S, l) == {i \in S : s[i] = l}

LEMMA PickedOccurrences ==
  ASSUME NEW V, NEW s \in Seq(V), NEW S \in SUBSET DOMAIN s, NEW l
  PROVE  Cardinality(Places(LinesAt(s, S), DOMAIN LinesAt(s, S), l))
           = Cardinality(Places(s, S, l))
<1> DEFINE A == {i \in S : s[i] = l}
           B == {r \in DOMAIN LinesAt(s, S) : LinesAt(s, S)[r] = l}
           f == [i \in A |-> Rank(S, i)]
<1>1. Len(s) \in Nat /\ S \in SUBSET (1 .. Len(s))
  OBVIOUS
<1>2. f \in [A -> B]
  BY PickedLines
<1>3. \A i \in A, j \in A : f[i] = f[j] => i = j
  BY <1>1, Ranks
<1>4. \A r \in B : \E i \in A : f[i] = r
  BY PickedLines
<1>5. IsFiniteSet(A)
  BY <1>1, Ranks, FS_Subset
<1>6. Places(LinesAt(s, S), DOMAIN LinesAt(s, S), l) = B /\ Places(s, S, l) = A
  BY DEF Places
<1> HIDE DEF A, B, f
<1>7. f \in Bijection(A, B)
  BY <1>2, <1>3, <1>4 DEF Bijection, Injection, Surjection, IsInjective
<1> QED
  BY <1>5, <1>6, <1>7, FS_Bijection DEF ExistsBijection

=============================================================================
