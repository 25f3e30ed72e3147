----------------------------- MODULE LineMapper -----------------------------
(* LineMapper.cpp: which line of the text in the editor is which line of    *)
(* the script the program runs.  A text is the sequence of its lines as the  *)
(* editor counts them, the part behind the last line end included.  Lines    *)
(* are numbered from one here, from zero in the code.                        *)
EXTENDS Naturals, Sequences, FiniteSetsExt

CONSTANTS
  Empty,            \* the line without characters
  Cleaned           \* what CleanWhiteSpace leaves of a line: two spaces in a
                    \* row cut it off there, so different lines may come out
                    \* equal

(* What a line without a counterpart is mapped to: (unsigned short)-1.       *)
InvalidLine == 65535

(* The lines of a text: nothing follows the last line end, so an empty last  *)
(* line of the editor is no line of the text.                                *)
DivideIntoLines(text) ==
  LET last == IF text[Len(text)] = Empty THEN Len(text) - 1 ELSE Len(text)
  IN [i \in 1 .. last |-> Cleaned[text[i]]]

(* How many lines of both ends agree.  The two loops stop where the shorter  *)
(* text is used up; the second reads the line before the first one when that *)
(* text is the end of the longer one, and has what it reads be unequal.      *)
Common(X, Y) == 0 .. Min({Len(X), Len(Y)})

PrefixLength(X, Y) ==
  Max({p \in Common(X, Y) : SubSeq(X, 1, p) = SubSeq(Y, 1, p)})

SuffixLength(X, Y) ==
  Max({s \in Common(X, Y) :
         /\ PrefixLength(X, Y) + s \in Common(X, Y)
         /\ SubSeq(X, Len(X) - s + 1, Len(X)) = SubSeq(Y, Len(Y) - s + 1, Len(Y))})

Trim(X, Y, lines) ==
  SubSeq(lines, PrefixLength(X, Y) + 1, Len(lines) - SuffixLength(X, Y))

(* The cells of the table, and the three a cell is filled from.              *)
Cells(X, Y) == (0 .. Len(X)) \X (0 .. Len(Y))

Corner(c) == <<c[1] - 1, c[2] - 1>>
Left(c)   == <<c[1], c[2] - 1>>
Above(c)  == <<c[1] - 1, c[2]>>

(* The table C: the length of the longest common subsequence of the first i  *)
(* lines of X and the first j of Y.                                          *)
Table(X, Y) ==
  LET C[c \in Cells(X, Y)] ==
        IF c[1] = 0 \/ c[2] = 0 THEN 0
        ELSE IF X[c[1]] = Y[c[2]] THEN C[Corner(c)] + 1
        ELSE Max({C[Left(c)], C[Above(c)]})
  IN C

(* Mutant: where neither choice is longer the trace goes the shorter way.    *)
TraceShorter(X, Y) ==
  LET C == Table(X, Y)
      T[c \in Cells(X, Y)] ==
        IF c[1] = 0 \/ c[2] = 0 THEN {}
        ELSE IF X[c[1]] = Y[c[2]] THEN T[Corner(c)] \cup {c}
        ELSE IF C[Left(c)] <= C[Above(c)] THEN T[Left(c)] ELSE T[Above(c)]
  IN T[<<Len(X), Len(Y)>>]

(* The recursive Diff: the pairs of lines on the way back through the table. *)
Trace(X, Y) ==
  LET C == Table(X, Y)
      T[c \in Cells(X, Y)] ==
        IF c[1] = 0 \/ c[2] = 0 THEN {}
        ELSE IF X[c[1]] = Y[c[2]] THEN T[Corner(c)] \cup {c}
        ELSE IF C[Left(c)] >= C[Above(c)] THEN T[Left(c)] ELSE T[Above(c)]
  IN T[<<Len(X), Len(Y)>>]

(* Which line of X is which of Y: the two ends and what lies between them.   *)
Matches(X, Y) ==
  LET p == PrefixLength(X, Y)
      s == SuffixLength(X, Y)
  IN   {<<i, i>> : i \in 1 .. p}
  \cup {<<p + m[1], p + m[2]>> : m \in Trace(Trim(X, Y, X), Trim(X, Y, Y))}
  \cup {<<Len(X) - i, Len(Y) - i>> : i \in 0 .. s - 1}

(* The two tables of a mapping.  With no lines on one side every line of the *)
(* other is mapped to the first.                                             *)
Diff(X, Y) ==
  IF X = <<>> \/ Y = <<>>
  THEN [oldToNew |-> [i \in DOMAIN X |-> 1], newToOld |-> [j \in DOMAIN Y |-> 1]]
  ELSE LET M == Matches(X, Y)
       IN [oldToNew |-> [i \in DOMAIN X |->
             IF \E m \in M : m[1] = i THEN (CHOOSE m \in M : m[1] = i)[2]
                                      ELSE InvalidLine],
           newToOld |-> [j \in DOMAIN Y |->
             IF \E m \in M : m[2] = j THEN (CHOOSE m \in M : m[2] = j)[1]
                                      ELSE InvalidLine]]

Update(oldCode, newCode) ==
  Diff(DivideIntoLines(oldCode), DivideIntoLines(newCode))

(* GetOldLine, GetNewLine: behind the end of the table its last entry is the *)
(* answer, and an empty table maps every line to itself.                     *)
Lookup(table, line) ==
  IF line \in DOMAIN table THEN table[line]
  ELSE IF table = <<>> THEN line
  ELSE table[Len(table)]

GetOldLine(mapping, line) == Lookup(mapping.newToOld, line)
GetNewLine(mapping, line) == Lookup(mapping.oldToNew, line)

(* The mapping of a new LineMapper.                                          *)
NoMapping == [oldToNew |-> <<>>, newToOld |-> <<>>]

(* The lines of a list at a set of positions, in their order.                *)
LinesAt(X, S) ==
  [n \in 1 .. Cardinality(S) |->
     X[CHOOSE i \in S : Cardinality({k \in S : k <= i}) = n]]

-----------------------------------------------------------------------------
(* What the mapping of two texts has to be, without the tables.              *)

(* The old lines a mapping keeps.                                            *)
Kept(mapping) ==
  {i \in DOMAIN mapping.oldToNew : mapping.oldToNew[i] # InvalidLine}

(* The mapping keeps equal lines in their order, its two tables are each     *)
(* other's inverse, and no choice of lines the texts share is larger.        *)
IsLongest(mapping, X, Y) ==
  /\ \A i \in Kept(mapping) :
       /\ mapping.oldToNew[i] \in DOMAIN Y
       /\ X[i] = Y[mapping.oldToNew[i]]
       /\ mapping.newToOld[mapping.oldToNew[i]] = i
       /\ \A k \in Kept(mapping) :
            k < i => mapping.oldToNew[k] < mapping.oldToNew[i]
  /\ \A j \in DOMAIN Y : mapping.newToOld[j] # InvalidLine
                           => mapping.newToOld[j] \in Kept(mapping)
  /\ \A S \in SUBSET DOMAIN X, T \in SUBSET DOMAIN Y :
       (Cardinality(S) = Cardinality(T) /\ LinesAt(X, S) = LinesAt(Y, T))
         => Cardinality(S) <= Cardinality(Kept(mapping))

=============================================================================
