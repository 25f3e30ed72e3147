-------------------------- MODULE EditedFileProofs --------------------------
(* The file in the editor, for every text, every edit and every order of     *)
(* edits, files written by others, sessions and events: the types; that the  *)
(* mapping the window looks lines up in is the one of the script and the     *)
(* text and a longest one; that markers and list have the same lines, and    *)
(* edits keep breakpoints on theirs; and that the backend has what is listed.*)
EXTENDS EditedFile, LineMapperProofs

Texts  == {t \in Seq(Contents) : t # <<>> /\ Len(t) <= MaxLines}
Tables == [oldToNew : Seq(Nat), newToOld : Seq(Nat)]

Commands == [id : {"Toggle"}, line : Nat] \cup {RemoveAll}
Events   == [id : {"SetBreakpoint"}, line : Nat, set : BOOLEAN] \cup {LoadScript, SessionEnd}

(* The types; the texts have lines, and no more than there are numbers for.  *)
DocumentTypes ==
  /\ text \in Texts /\ disk \in Texts
  /\ markers \in [DOMAIN text -> Nat]
  /\ breakpoints \in Seq(Nat)
FlagTypes ==
  /\ modified \in BOOLEAN /\ dirty \in BOOLEAN /\ newer \in BOOLEAN /\ loaded \in BOOLEAN
  /\ running \in BOOLEAN /\ stale \in BOOLEAN /\ merged \in BOOLEAN /\ apart \in BOOLEAN
SessionTypes ==
  /\ source \in Texts \cup {NoSource}
  /\ mapping \in Tables
  /\ backend \subseteq Nat
  /\ commands \in Seq(Commands) /\ events \in Seq(Events)
Types == DocumentTypes /\ FlagTypes /\ SessionTypes

(* A script is dropped only after its events were handled: the end of a      *)
(* session is the last event, and nothing is sent to a program that ended.   *)
EventsInv ==
  /\ commands # <<>> => running
  /\ \A i \in DOMAIN events :
       /\ events[i].id = "LoadScript" => source # NoSource
       /\ events[i].id = "SessionEnd" => i = Len(events) /\ ~running

MappingInv ==
  /\ loaded => source # NoSource
  /\ MappingIsCurrent

Inv == Types /\ EventsInv /\ MappingInv

-----------------------------------------------------------------------------
(* Sequences.                                                                *)

LEMMA Appended ==
  ASSUME NEW S, NEW s \in Seq(S), NEW e \in S
  PROVE  /\ Append(s, e) \in Seq(S)
         /\ Len(s) \in Nat /\ DOMAIN s = 1 .. Len(s)
         /\ DOMAIN Append(s, e) = 1 .. Len(s) + 1
         /\ Len(Append(s, e)) = Len(s) + 1
         /\ \A i \in 1 .. Len(s) : Append(s, e)[i] = s[i]
         /\ Append(s, e)[Len(s) + 1] = e
<1>1. Append(s, e) \in Seq(S)
  BY AppendProperties
<1> QED
  BY <1>1, AppendProperties, LenProperties

LEMMA Tailed ==
  ASSUME NEW S, NEW s \in Seq(S), s # <<>>
  PROVE  /\ Tail(s) \in Seq(S) /\ Head(s) \in S
         /\ Len(s) \in Nat \ {0} /\ DOMAIN s = 1 .. Len(s)
         /\ Head(s) = s[1]
         /\ Len(Tail(s)) = Len(s) - 1
         /\ DOMAIN Tail(s) = 1 .. Len(s) - 1
         /\ \A i \in 1 .. Len(s) - 1 : Tail(s)[i] = s[i + 1]
<1>1. Tail(s) \in Seq(S) /\ Len(Tail(s)) = Len(s) - 1 /\ Head(s) \in S
  BY HeadTailProperties
<1> QED
  BY <1>1, HeadTailProperties, LenProperties, EmptySeq

LEMMA FirstRemoved ==
  ASSUME NEW s \in Seq(Nat), NEW e
  PROVE  /\ ~Contains(s, e) => RemoveFirst(s, e) = s
         /\ Contains(s, e) => \E k \in DOMAIN s : /\ s[k] = e
                                                /\ RemoveFirst(s, e) = RemoveAt(s, k)
<1>1. ~Contains(s, e) => RemoveFirst(s, e) = s
  BY DEF Contains, RemoveFirst
<1>2. ASSUME Contains(s, e)
      PROVE  \E k \in DOMAIN s : s[k] = e /\ RemoveFirst(s, e) = RemoveAt(s, k)
  <2> DEFINE I == {i \in 1 .. Len(s) : s[i] = e}
  <2>1. I # {} /\ I \subseteq Nat /\ \E i \in 1 .. Len(s) : s[i] = e
    BY <1>2 DEF Contains
  <2>2. RemoveFirst(s, e) = RemoveAt(s, Min(I))
    BY <2>1 DEF RemoveFirst, SelectInSeq
  <2>3. Min(I) \in I
    <3> HIDE DEF I
    <3>1. \E n \in I : \A m \in I : n =< m
      BY <2>1, LeastNumber
    <3>2. (CHOOSE n \in I : \A m \in I : n =< m) \in I
      BY <3>1, Zenon
    <3> QED
      BY <3>2 DEF Min
  <2>4. Min(I) \in DOMAIN s /\ s[Min(I)] = e
    BY <2>3
  <2> HIDE DEF I
  <2> QED
    BY <2>2, <2>4
<1> QED
  BY <1>1, <1>2

LEMMA OneRemoved ==
  ASSUME NEW s \in Seq(Nat), NEW k \in DOMAIN s
  PROVE  /\ RemoveAt(s, k) \in Seq(Nat)
         /\ Len(RemoveAt(s, k)) = Len(s) - 1
         /\ \A i \in 1 .. Len(s) - 1 :
              RemoveAt(s, k)[i] = IF i < k THEN s[i] ELSE s[i + 1]
<1> DEFINE a == SubSeq(s, 1, k - 1)
           b == SubSeq(s, k + 1, Len(s))
<1>0. Len(s) \in Nat /\ k \in 1 .. Len(s)
  OBVIOUS
<1>1. /\ a \in Seq(Nat) /\ Len(a) = k - 1
      /\ \A i \in 1 .. k - 1 : a[i] = s[i]
  <2>1. /\ 1 \in Int /\ k - 1 \in Int /\ 1 <= 1 /\ k - 1 <= Len(s)
        /\ (k - 1) - 1 + 1 = k - 1
        /\ (IF 1 <= k - 1 THEN (k - 1) - 1 + 1 ELSE 0) = k - 1
        /\ \A i \in 1 .. k - 1 : 1 + i - 1 = i
    BY <1>0
  <2>2. /\ SubSeq(s, 1, k - 1) \in Seq(Nat)
        /\ Len(SubSeq(s, 1, k - 1)) = IF 1 <= k - 1 THEN (k - 1) - 1 + 1 ELSE 0
        /\ \A i \in 1 .. (k - 1) - 1 + 1 : SubSeq(s, 1, k - 1)[i] = s[1 + i - 1]
    BY <2>1, SubSeqOfText
  <2> QED
    BY <2>1, <2>2
<1>2. /\ b \in Seq(Nat) /\ Len(b) = Len(s) - k
      /\ \A i \in 1 .. Len(s) - k : b[i] = s[k + i]
  <2> DEFINE m == k + 1
  <2>1. /\ m \in Int /\ Len(s) \in Int /\ 1 <= m /\ Len(s) <= Len(s)
        /\ Len(s) - m + 1 = Len(s) - k
        /\ (IF m <= Len(s) THEN Len(s) - m + 1 ELSE 0) = Len(s) - k
        /\ \A i \in 1 .. Len(s) - k : m + i - 1 = k + i
    BY <1>0, SMTT(30)
  <2>2. b = SubSeq(s, m, Len(s))
    OBVIOUS
  <2> HIDE DEF m, b
  <2>3. /\ SubSeq(s, m, Len(s)) \in Seq(Nat)
        /\ Len(SubSeq(s, m, Len(s))) = IF m <= Len(s) THEN Len(s) - m + 1 ELSE 0
        /\ \A i \in 1 .. Len(s) - m + 1 : SubSeq(s, m, Len(s))[i] = s[m + i - 1]
    BY <2>1, SubSeqOfText
  <2> QED
    BY <2>1, <2>2, <2>3
<1>3. RemoveAt(s, k) = a \o b
  BY DEF RemoveAt
<1> HIDE DEF a, b
<1>4. /\ a \o b \in Seq(Nat) /\ Len(a \o b) = Len(a) + Len(b)
      /\ \A i \in 1 .. Len(a) + Len(b) :
           (a \o b)[i] = IF i <= Len(a) THEN a[i] ELSE b[i - Len(a)]
  BY <1>1, <1>2, ConcatProperties
<1>5. Len(a) + Len(b) = Len(s) - 1
  BY <1>0, <1>1, <1>2
<1>6. ASSUME NEW i \in 1 .. Len(s) - 1
      PROVE  RemoveAt(s, k)[i] = IF i < k THEN s[i] ELSE s[i + 1]
  <2>1. CASE i < k
    <3>1. i \in 1 .. k - 1 /\ i <= Len(a)
      BY <1>0, <1>1, <2>1
    <3> QED
      BY <1>1, <1>3, <1>4, <1>5, <2>1, <3>1
  <2>2. CASE ~(i < k)
    <3>1. /\ ~(i <= Len(a)) /\ i - Len(a) \in 1 .. Len(s) - k
          /\ k + (i - Len(a)) = i + 1
      BY <1>0, <1>1, <2>2
    <3>2. b[i - Len(a)] = s[i + 1]
      BY <1>2, <3>1
    <3>3. (a \o b)[i] = b[i - Len(a)]
      BY <1>4, <1>5, <3>1
    <3> QED
      BY <1>3, <2>2, <3>2, <3>3
  <2> QED
    BY <2>1, <2>2
<1> QED
  BY <1>3, <1>4, <1>5, <1>6

LEMMA ListedType ==
  ASSUME NEW list \in Seq(Nat), NEW line \in Nat, NEW set
  PROVE  Listed(list, line, set) \in Seq(Nat)
<1>1. RemoveFirst(list, line) \in Seq(Nat)
  BY FirstRemoved, OneRemoved
<1>2. Append(list, line) \in Seq(Nat)
  BY AppendProperties
<1> QED
  BY <1>1, <1>2 DEF Listed

-----------------------------------------------------------------------------
(* The texts an edit makes.                                                  *)

LEMMA TextFacts ==
  ASSUME NEW t \in Texts
  PROVE  /\ t \in Seq(Contents) /\ t # <<>> /\ Len(t) \in Nat \ {0} /\ Len(t) <= MaxLines
         /\ DOMAIN t = 1 .. Len(t)
         /\ \A i \in 1 .. Len(t) : t[i] \in Contents
BY EmptySeq, LenProperties, ElementOfSeq DEF Texts

(* What stands where after the lines from .. to are replaced by others.      *)
LEMMA ReplacedText ==
  ASSUME text \in Texts, NEW lines \in Seq(Contents),
         NEW from \in 1 .. Len(text) + 1, NEW to \in from - 1 .. Len(text)
  PROVE  LET R == Replaced(from, to, lines)
         IN  /\ R \in Seq(Contents)
             /\ Len(R) = (from - 1) + Len(lines) + (Len(text) - to)
             /\ \A i \in 1 .. from - 1 : R[i] = text[i]
             /\ \A i \in 1 .. Len(lines) : R[(from - 1) + i] = lines[i]
             /\ \A i \in 1 .. Len(text) - to :
                  R[(from - 1) + Len(lines) + i] = text[to + i]
<1> DEFINE n == Len(text)
           f == from - 1
           a == SubSeq(text, 1, from - 1)
           c == SubSeq(text, to + 1, Len(text))
           b == a \o lines
           R == b \o c
<1>0. /\ text \in Seq(Contents) /\ n \in Nat /\ Len(lines) \in Nat
      /\ f \in 0 .. n /\ to \in f .. n
  BY TextFacts
<1>1. /\ a \in Seq(Contents) /\ Len(a) = f
      /\ \A i \in 1 .. f : a[i] = text[i]
  <2>1. a = SubSeq(text, 1, f)
    OBVIOUS
  <2> HIDE DEF a, f
  <2>2. /\ SubSeq(text, 1, f) \in Seq(Contents)
        /\ Len(SubSeq(text, 1, f)) = IF 1 <= f THEN f - 1 + 1 ELSE 0
        /\ \A i \in 1 .. f - 1 + 1 : SubSeq(text, 1, f)[i] = text[1 + i - 1]
    BY <1>0, SubSeqOfText
  <2>3. f - 1 + 1 = f /\ (IF 1 <= f THEN f - 1 + 1 ELSE 0) = f
        /\ \A i \in 1 .. f : 1 + i - 1 = i
    BY <1>0
  <2> QED
    BY <2>1, <2>2, <2>3
<1>2. /\ c \in Seq(Contents) /\ Len(c) = n - to
      /\ \A i \in 1 .. n - to : c[i] = text[to + i]
  <2> DEFINE m == to + 1
  <2>1. c = SubSeq(text, m, n)
    OBVIOUS
  <2>2. /\ m \in Int /\ n \in Int /\ 1 <= m /\ n <= Len(text)
        /\ n - m + 1 = n - to
        /\ (IF m <= n THEN n - m + 1 ELSE 0) = n - to
        /\ \A i \in 1 .. n - to : m + i - 1 = to + i
    BY <1>0
  <2> HIDE DEF c, f, m, n
  <2>3. /\ SubSeq(text, m, n) \in Seq(Contents)
        /\ Len(SubSeq(text, m, n)) = IF m <= n THEN n - m + 1 ELSE 0
        /\ \A i \in 1 .. n - m + 1 : SubSeq(text, m, n)[i] = text[m + i - 1]
    BY <1>0, <2>2, SubSeqOfText
  <2> QED
    BY <2>1, <2>2, <2>3
<1>3. Replaced(from, to, lines) = R
  BY DEF Replaced
<1> HIDE DEF a, c, f, n
<1>4. /\ b \in Seq(Contents) /\ Len(b) = f + Len(lines)
      /\ \A i \in 1 .. f + Len(lines) : b[i] = IF i <= f THEN a[i] ELSE lines[i - f]
  BY <1>1, ConcatProperties
<1> HIDE DEF b
<1>5. /\ R \in Seq(Contents) /\ Len(R) = f + Len(lines) + (n - to)
      /\ \A i \in 1 .. f + Len(lines) + (n - to) :
           R[i] = IF i <= f + Len(lines) THEN b[i] ELSE c[i - (f + Len(lines))]
  <2>1. /\ b \o c \in Seq(Contents) /\ Len(b \o c) = Len(b) + Len(c)
        /\ \A i \in 1 .. Len(b) + Len(c) :
             (b \o c)[i] = IF i <= Len(b) THEN b[i] ELSE c[i - Len(b)]
    BY <1>2, <1>4, ConcatProperties
  <2> QED
    BY <1>2, <1>4, <2>1
<1> HIDE DEF R
<1>6. \A i \in 1 .. f : R[i] = text[i]
  <2> SUFFICES ASSUME NEW i \in 1 .. f PROVE R[i] = text[i]
    OBVIOUS
  <2>1. /\ i \in 1 .. f + Len(lines) + (n - to) /\ i \in 1 .. f + Len(lines)
        /\ i <= f + Len(lines) /\ i <= f
    BY <1>0
  <2> QED
    BY <1>1, <1>4, <1>5, <2>1
<1>7. \A i \in 1 .. Len(lines) : R[f + i] = lines[i]
  <2> SUFFICES ASSUME NEW i \in 1 .. Len(lines) PROVE R[f + i] = lines[i]
    OBVIOUS
  <2>1. /\ f + i \in 1 .. f + Len(lines) + (n - to) /\ f + i \in 1 .. f + Len(lines)
        /\ f + i <= f + Len(lines) /\ ~(f + i <= f) /\ (f + i) - f = i
    BY <1>0
  <2>2. R[f + i] = b[f + i]
    BY <1>5, <2>1
  <2>3. b[f + i] = lines[(f + i) - f]
    BY <1>4, <2>1
  <2> QED
    BY <2>1, <2>2, <2>3
<1>8. \A i \in 1 .. n - to : R[f + Len(lines) + i] = text[to + i]
  <2> SUFFICES ASSUME NEW i \in 1 .. n - to PROVE R[f + Len(lines) + i] = text[to + i]
    OBVIOUS
  <2> DEFINE k == f + Len(lines) + i
  <2>1. /\ k \in 1 .. f + Len(lines) + (n - to)
        /\ ~(k <= f + Len(lines)) /\ k - (f + Len(lines)) = i
    BY <1>0
  <2>2. R[k] = c[k - (f + Len(lines))]
    <3> HIDE DEF k
    <3> QED
      BY <1>5, <2>1
  <2> QED
    BY <1>2, <2>1, <2>2
<1> QED
  BY <1>3, <1>5, <1>6, <1>7, <1>8 DEF f, n

(* Where a line goes when others are inserted.                               *)
Down(line, added, atStart, l) ==
  IF l > line \/ (atStart /\ l >= line) THEN l + added ELSE l

Inserts(line, lines, atStart) ==
  Edit(IF atStart THEN Replaced(line, line - 1, lines) ELSE Replaced(line + 1, line, lines),
       MarkersAfterInsert(line, Len(lines), atStart),
       ShiftDown(line, Len(lines), atStart), FALSE)

LEMMA EditFacts ==
  ASSUME NEW after, NEW marked, NEW listed, NEW lost, Edit(after, marked, listed, lost)
  PROVE  /\ text' = after /\ markers' = marked /\ breakpoints' = listed
         /\ Len(after) \in 1 .. MaxLines
         /\ modified' = TRUE /\ dirty' = TRUE
         /\ merged' = (merged \/ lost \/ Doubled(marked)) /\ apart' = (apart \/ running)
         /\ disk' = disk /\ newer' = newer /\ mapping' = mapping /\ stale' = stale
         /\ loaded' = loaded /\ source' = source /\ running' = running
         /\ backend' = backend /\ commands' = commands /\ events' = events
BY DEF Edit, sessionVars, channelVars

LEMMA EditedTextType ==
  ASSUME NEW after \in Seq(Contents), Len(after) \in 1 .. MaxLines
  PROVE  after \in Texts
<1>1. after # <<>>
  BY EmptySeq
<1>2. Len(after) <= MaxLines
  BY BoundAssumption
<1> QED
  BY <1>1, <1>2 DEF Texts

LEMMA InsertFacts ==
  ASSUME text \in Texts, NEW line \in DOMAIN text, NEW lines \in Pastes,
         NEW atStart \in BOOLEAN, Inserts(line, lines, atStart)
  PROVE  /\ Len(lines) \in Nat \ {0}
         /\ text' \in Texts /\ Len(text') = Len(text) + Len(lines)
         /\ \A l \in DOMAIN text :
              /\ Down(line, Len(lines), atStart, l) \in DOMAIN text'
              /\ text'[Down(line, Len(lines), atStart, l)] = text[l]
         /\ markers' = MarkersAfterInsert(line, Len(lines), atStart)
         /\ breakpoints' = ShiftDown(line, Len(lines), atStart)
         /\ merged' = (merged \/ Doubled(markers'))
<1> DEFINE n == Len(text)
           k == Len(lines)
<1>1. lines \in Seq(Contents) /\ k \in Nat \ {0}
  BY TextAssumption, EmptySeq
<1>2. /\ n \in Nat \ {0} /\ line \in 1 .. n /\ DOMAIN text = 1 .. n
  BY TextFacts
<1>3. /\ markers' = MarkersAfterInsert(line, Len(lines), atStart)
      /\ breakpoints' = ShiftDown(line, Len(lines), atStart)
      /\ merged' = (merged \/ Doubled(markers'))
      /\ text' = IF atStart THEN Replaced(line, line - 1, lines)
                            ELSE Replaced(line + 1, line, lines)
      /\ Len(text') \in 1 .. MaxLines
  BY EditFacts DEF Inserts
<1>4. CASE atStart
  <2>0. line \in 1 .. Len(text) + 1 /\ line - 1 \in line - 1 .. Len(text)
    BY <1>2
  <2>1. /\ text' \in Seq(Contents)
        /\ Len(text') = (line - 1) + k + (n - (line - 1))
        /\ \A i \in 1 .. line - 1 : text'[i] = text[i]
        /\ \A i \in 1 .. n - (line - 1) : text'[(line - 1) + k + i] = text[(line - 1) + i]
    BY <1>1, <1>3, <1>4, <2>0, ReplacedText, ZenonT(30)
  <2>2. text' \in Texts
    BY <1>3, <2>1, EditedTextType
  <2>3. Len(text') = n + k
    BY <1>1, <1>2, <2>1
  <2>4. DOMAIN text' = 1 .. n + k
    BY <2>2, <2>3, TextFacts
  <2>5. ASSUME NEW l \in 1 .. n
        PROVE  Down(line, k, atStart, l) \in 1 .. n + k /\ text'[Down(line, k, atStart, l)] = text[l]
    <3>1. CASE l < line
      <4>1. Down(line, k, atStart, l) = l /\ l \in 1 .. line - 1 /\ l \in 1 .. n + k
        BY <1>1, <1>2, <3>1 DEF Down
      <4> QED
        BY <2>1, <4>1
    <3>2. CASE l >= line
      <4> DEFINE i == l - (line - 1)
      <4>1. /\ Down(line, k, atStart, l) = l + k /\ l + k \in 1 .. n + k
            /\ i \in 1 .. n - (line - 1)
            /\ (line - 1) + k + i = l + k /\ (line - 1) + i = l
        BY <1>1, <1>2, <1>4, <3>2 DEF Down
      <4> HIDE DEF i
      <4> QED
        BY <2>1, <4>1
    <3> QED
      BY <1>2, <3>1, <3>2
  <2> QED
    BY <1>1, <1>2, <1>3, <2>2, <2>3, <2>4, <2>5
<1>5. CASE ~atStart
  <2>0. /\ line + 1 \in 1 .. Len(text) + 1 /\ line \in (line + 1) - 1 .. Len(text)
        /\ (line + 1) - 1 = line
    BY <1>2
  <2>1. /\ text' \in Seq(Contents)
        /\ Len(text') = line + k + (n - line)
        /\ \A i \in 1 .. line : text'[i] = text[i]
        /\ \A i \in 1 .. n - line : text'[line + k + i] = text[line + i]
    <3>1. text' = Replaced(line + 1, line, lines)
      BY <1>3, <1>5
    <3>2. /\ text' \in Seq(Contents)
          /\ Len(text') = ((line + 1) - 1) + k + (n - line)
          /\ \A i \in 1 .. (line + 1) - 1 : text'[i] = text[i]
          /\ \A i \in 1 .. n - line : text'[((line + 1) - 1) + k + i] = text[line + i]
      BY <1>1, <2>0, <3>1, ReplacedText, ZenonT(30)
    <3> QED
      BY <2>0, <3>2
  <2>2. text' \in Texts
    BY <1>3, <2>1, EditedTextType
  <2>3. Len(text') = n + k
    BY <1>1, <1>2, <2>1
  <2>4. DOMAIN text' = 1 .. n + k
    BY <2>2, <2>3, TextFacts
  <2>5. ASSUME NEW l \in 1 .. n
        PROVE  Down(line, k, atStart, l) \in 1 .. n + k /\ text'[Down(line, k, atStart, l)] = text[l]
    <3>1. CASE l <= line
      <4>1. Down(line, k, atStart, l) = l /\ l \in 1 .. line /\ l \in 1 .. n + k
        BY <1>1, <1>2, <1>5, <3>1 DEF Down
      <4> QED
        BY <2>1, <4>1
    <3>2. CASE l > line
      <4> DEFINE i == l - line
      <4>1. /\ Down(line, k, atStart, l) = l + k /\ l + k \in 1 .. n + k
            /\ i \in 1 .. n - line
            /\ line + k + i = l + k /\ line + i = l
        BY <1>1, <1>2, <1>5, <3>2 DEF Down
      <4> HIDE DEF i
      <4> QED
        BY <2>1, <4>1
    <3> QED
      BY <1>2, <3>1, <3>2
  <2> QED
    BY <1>1, <1>2, <1>3, <2>2, <2>3, <2>4, <2>5
<1> QED
  BY <1>4, <1>5

LEMMA DeleteFacts ==
  ASSUME text \in Texts, NEW line \in DOMAIN text, NEW removed \in 1 .. Len(text) - 1,
         DeleteLines(line, removed)
  PROVE  /\ line + removed <= Len(text)
         /\ text' \in Texts /\ Len(text') = Len(text) - removed
         /\ \A l \in 1 .. line - 1 : text'[l] = text[l]
         /\ \A l \in line + removed + 1 .. Len(text) : text'[l - removed] = text[l]
         /\ markers' = MarkersAfterDelete(line, removed)
         /\ breakpoints' = ShiftUp(line, removed)
         /\ merged' = (merged \/ Doubled(markers'))
<1> DEFINE n == Len(text)
           to == line + removed
<1>1. /\ n \in Nat \ {0} /\ line \in 1 .. n /\ removed \in Nat
      /\ \A i \in 1 .. n : text[i] \in Contents
  BY TextFacts
<1>2. PICK rest \in {text[line], text[to]} :
        Edit(Replaced(line, to, <<rest>>), MarkersAfterDelete(line, removed),
             ShiftUp(line, removed), FALSE)
  BY DEF DeleteLines
<1>3. to <= n
  BY DEF DeleteLines
<1>4. /\ text' = Replaced(line, to, <<rest>>) /\ Len(text') \in 1 .. MaxLines
      /\ markers' = MarkersAfterDelete(line, removed)
      /\ breakpoints' = ShiftUp(line, removed)
      /\ merged' = (merged \/ Doubled(markers'))
  BY <1>2, EditFacts
<1>5. /\ <<rest>> \in Seq(Contents) /\ Len(<<rest>>) = 1
      /\ line \in 1 .. n + 1 /\ to \in line - 1 .. n
  BY <1>1, <1>3
<1> HIDE DEF to
<1>6. /\ text' \in Seq(Contents)
      /\ Len(text') = (line - 1) + 1 + (n - to)
      /\ \A i \in 1 .. line - 1 : text'[i] = text[i]
      /\ \A i \in 1 .. n - to : text'[(line - 1) + 1 + i] = text[to + i]
  BY <1>4, <1>5, ReplacedText
<1>7. text' \in Texts
  BY <1>4, <1>6, EditedTextType
<1>8. Len(text') = n - removed
  BY <1>1, <1>3, <1>6 DEF to
<1>9. ASSUME NEW l \in to + 1 .. n PROVE text'[l - removed] = text[l]
  <2> DEFINE i == l - to
  <2>0. to = line + removed /\ to \in Nat /\ to <= n
    BY <1>1, <1>3 DEF to
  <2>1. i \in 1 .. n - to /\ (line - 1) + 1 + i = l - removed /\ to + i = l
    <3>1. l \in Int /\ to + 1 <= l /\ l <= n
      BY <1>1, <2>0
    <3>2. line \in Int /\ removed \in Int /\ n \in Int /\ to \in Int /\ i \in Int
      BY <1>1, <2>0, <3>1
    <3>3. i = l - to
      OBVIOUS
    <3> HIDE DEF n, i
    <3>4. i \in 1 .. n - to
      BY <3>1, <3>2, <3>3
    <3>5. to + i = l
      BY <3>1, <3>2, <3>3
    <3>6. (line - 1) + 1 + i = l - removed
      BY <2>0, <3>1, <3>2, <3>3, SMTT(30)
    <3> QED
      BY <3>4, <3>5, <3>6
  <2> HIDE DEF i
  <2> QED
    BY <1>6, <2>1
<1> QED
  BY <1>3, <1>4, <1>6, <1>7, <1>8, <1>9 DEF to

-----------------------------------------------------------------------------
(* Counting.                                                                 *)

(* No more than one of something is the same one.                            *)
LEMMA AtMostOne ==
  ASSUME NEW S, IsFiniteSet(S)
  PROVE  /\ Cardinality(S) \in Nat
         /\ Cardinality(S) = 0 <=> S = {}
         /\ Cardinality(S) <= 1 => \A x \in S, y \in S : x = y
         /\ (\A x \in S, y \in S : x = y) => Cardinality(S) <= 1
<1>1. Cardinality(S) \in Nat /\ (Cardinality(S) = 0 <=> S = {})
  BY FS_CardinalityType, FS_EmptySet
<1>2. Cardinality(S) = 1 => \E x : S = {x}
  BY FS_Singleton
<1>3. ASSUME Cardinality(S) <= 1, NEW x \in S, NEW y \in S PROVE x = y
  <2>1. Cardinality(S) = 1
    BY <1>1, <1>3
  <2> QED
    BY <1>2, <2>1
<1>4. ASSUME \A x \in S, y \in S : x = y PROVE Cardinality(S) <= 1
  <2>1. CASE S = {}
    BY <1>1, <2>1
  <2>2. CASE S # {}
    <3>1. PICK x : S = {x}
      BY <1>4, <2>2
    <3>2. Cardinality(S) = 1
      BY <3>1, FS_Singleton
    <3> QED
      BY <3>2
  <2> QED
    BY <2>1, <2>2
<1> QED
  BY <1>1, <1>3, <1>4

LEMMA Counted ==
  ASSUME NEW V, NEW list \in Seq(V), NEW l
  PROVE  /\ IsFiniteSet({i \in DOMAIN list : list[i] = l})
         /\ Occurrences(list, l) \in Nat
         /\ Occurrences(list, l) = 0 <=> ~Contains(list, l)
         /\ Occurrences(list, l) <= 1 =>
              \A i \in DOMAIN list, j \in DOMAIN list :
                list[i] = l /\ list[j] = l => i = j
<1> DEFINE A == {i \in DOMAIN list : list[i] = l}
<1>1. IsFiniteSet(A)
  <2>1. IsFiniteSet(1 .. Len(list)) /\ DOMAIN list = 1 .. Len(list)
    BY FS_Interval
  <2>2. A \in SUBSET (1 .. Len(list))
    BY <2>1
  <2> QED
    BY <2>1, <2>2, FS_Subset
<1>2. Occurrences(list, l) = Cardinality(A)
  BY DEF Occurrences
<1>3. A = {} <=> ~Contains(list, l)
  BY DEF Contains
<1>4. \A i \in DOMAIN list, j \in DOMAIN list : list[i] = l /\ list[j] = l => i \in A /\ j \in A
  OBVIOUS
<1>5. IsFiniteSet({i \in DOMAIN list : list[i] = l})
  BY <1>1
<1> HIDE DEF A
<1>6. /\ Cardinality(A) \in Nat
      /\ Cardinality(A) = 0 <=> A = {}
      /\ Cardinality(A) <= 1 => \A x \in A, y \in A : x = y
  BY <1>1, AtMostOne
<1>7. /\ Occurrences(list, l) \in Nat
      /\ Occurrences(list, l) = 0 <=> ~Contains(list, l)
  BY <1>2, <1>3, <1>6
<1>8. ASSUME Occurrences(list, l) <= 1, NEW i \in DOMAIN list, NEW j \in DOMAIN list,
             list[i] = l, list[j] = l
      PROVE  i = j
  BY <1>2, <1>4, <1>6, <1>8
<1> QED
  BY <1>5, <1>7, <1>8

LEMMA ListedOccurrences ==
  ASSUME NEW list \in Seq(Nat), NEW line \in Nat
  PROVE  /\ \A l : Occurrences(Append(list, line), l) =
                     Occurrences(list, l) + (IF l = line THEN 1 ELSE 0)
         /\ \A l : Occurrences(RemoveFirst(list, line), l) =
                     Occurrences(list, l)
                       - (IF l = line /\ Contains(list, line) THEN 1 ELSE 0)
<1>1. ASSUME NEW l
      PROVE  Occurrences(Append(list, line), l) =
               Occurrences(list, l) + (IF l = line THEN 1 ELSE 0)
  <2> DEFINE A == {i \in DOMAIN list : list[i] = l}
             n == Len(list)
             B == {i \in DOMAIN Append(list, line) : Append(list, line)[i] = l}
  <2>1. /\ DOMAIN list = 1 .. n /\ n \in Nat
        /\ DOMAIN Append(list, line) = 1 .. n + 1
        /\ \A i \in 1 .. n : Append(list, line)[i] = list[i]
        /\ Append(list, line)[n + 1] = line
    BY Appended
  <2>2. B = IF l = line THEN A \cup {n + 1} ELSE A
    <3>1. 1 .. n + 1 = (1 .. n) \cup {n + 1}
      BY <2>1
    <3> QED
      BY <2>1, <3>1
  <2>3. n + 1 \notin A
    BY <2>1
  <2>4. IsFiniteSet(A) /\ Cardinality(A) = Occurrences(list, l) /\ Cardinality(A) \in Nat
    <3>1. Occurrences(list, l) = Cardinality(A)
      BY DEF Occurrences
    <3>2. IsFiniteSet(A)
      <4>1. IsFiniteSet(1 .. n) /\ A \in SUBSET (1 .. n)
        BY <2>1, FS_Interval
      <4> QED
        BY <4>1, FS_Subset
    <3>3. Occurrences(list, l) \in Nat
      BY Counted, Zenon
    <3> QED
      BY <3>1, <3>2, <3>3
  <2>5. Occurrences(Append(list, line), l) = Cardinality(B)
    BY DEF Occurrences
  <2> HIDE DEF A, B
  <2>6. Cardinality(A \cup {n + 1}) = Cardinality(A) + 1
    BY <2>3, <2>4, FS_AddElement
  <2> QED
    BY <2>2, <2>4, <2>5, <2>6
<1>2. ASSUME NEW l, Contains(list, line)
      PROVE  Occurrences(RemoveFirst(list, line), l) =
               Occurrences(list, l) - (IF l = line THEN 1 ELSE 0)
  <2>1. PICK k \in DOMAIN list : list[k] = line /\ RemoveFirst(list, line) = RemoveAt(list, k)
    BY <1>2, FirstRemoved
  <2> DEFINE n == Len(list)
             r == RemoveAt(list, k)
             A == {i \in DOMAIN list : list[i] = l}
             B == {i \in DOMAIN r : r[i] = l}
             f == [i \in B |-> IF i < k THEN i ELSE i + 1]
  <2>2. /\ n \in Nat /\ DOMAIN list = 1 .. n /\ k \in 1 .. n
        /\ DOMAIN r = 1 .. n - 1
        /\ \A i \in 1 .. n - 1 : r[i] = IF i < k THEN list[i] ELSE list[i + 1]
    BY OneRemoved
  <2> HIDE DEF r
  <2>3. /\ IsFiniteSet(A) /\ Cardinality(A) = Occurrences(list, l) /\ Cardinality(A) \in Nat
        /\ Occurrences(r, l) = Cardinality(B)
    <3>1. Occurrences(list, l) = Cardinality(A) /\ Occurrences(r, l) = Cardinality(B)
      BY DEF Occurrences
    <3>2. IsFiniteSet(A)
      <4>0. 1 \in Int /\ n \in Int
        BY <2>2
      <4>1. IsFiniteSet(1 .. n)
        BY <4>0, FS_Interval
      <4>2. A \in SUBSET (1 .. n)
        BY <2>2
      <4> QED
        BY <4>1, <4>2, FS_Subset
    <3>3. Occurrences(list, l) \in Nat
      BY Counted, Zenon
    <3> QED
      BY <3>1, <3>2, <3>3
  <2>4. f \in [B -> A \ {k}]
    BY <2>2
  <2>5. \A i \in B, j \in B : f[i] = f[j] => i = j
    BY <2>2
  <2>6. ASSUME NEW m \in A \ {k} PROVE \E i \in B : f[i] = m
    <3>1. CASE m < k
      <4>1. m \in B /\ f[m] = m
        BY <2>2, <2>6, <3>1
      <4> QED
        BY <4>1
    <3>2. CASE m > k
      <4>1. m - 1 \in 1 .. n - 1 /\ ~(m - 1 < k) /\ m - 1 + 1 = m
        BY <2>2, <2>6, <3>2
      <4>2. m - 1 \in B
        BY <2>2, <2>6, <4>1
      <4>3. f[m - 1] = m
        BY <4>1, <4>2
      <4> QED
        BY <4>2, <4>3
    <3>3. m \in Int /\ k \in Int /\ m # k
      BY <2>2, <2>6
    <3>4. m < k \/ m > k
      BY <3>3
    <3> QED
      BY <3>1, <3>2, <3>4
  <2>7. k \in A <=> l = line
    BY <2>1
  <2> HIDE DEF A, B, f
  <2>8. f \in Bijection(B, A \ {k})
    BY <2>4, <2>5, <2>6 DEF Bijection, Injection, Surjection, IsInjective
  <2>9. /\ IsFiniteSet(A \ {k})
        /\ Cardinality(A \ {k}) = IF k \in A THEN Cardinality(A) - 1 ELSE Cardinality(A)
    BY <2>3, FS_RemoveElement
  <2>10. Cardinality(B) = Cardinality(A \ {k})
    <3>1. IsFiniteSet(B)
      BY <2>8, <2>9, FS_Injection DEF Bijection
    <3> QED
      BY <2>8, <3>1, FS_Bijection DEF ExistsBijection
  <2> QED
    BY <2>1, <2>3, <2>7, <2>9, <2>10 DEF r
<1>3. ASSUME NEW l, ~Contains(list, line)
      PROVE  Occurrences(RemoveFirst(list, line), l) = Occurrences(list, l)
  BY <1>3, FirstRemoved
<1>4. \A l : Occurrences(list, l) \in Nat
  BY Counted
<1> QED
  BY <1>1, <1>2, <1>3, <1>4

-----------------------------------------------------------------------------
(* The types.                                                                *)

LEMMA MarksType ==
  ASSUME NEW D, markers \in [D -> Nat], NEW line, NEW set
  PROVE  Mark(line, set) \in [D -> Nat]
<1>1. ASSUME line \in D
      PROVE  (IF set THEN markers[line] + 1
              ELSE IF markers[line] = 0 THEN 0 ELSE markers[line] - 1) \in Nat
  BY <1>1
<1> QED
  BY <1>1 DEF Mark

LEMMA UnmarkedType ==
  ASSUME NEW D, markers \in [D -> Nat], breakpoints \in Seq(Nat)
  PROVE  /\ Unmarked \in [D -> Nat]
         /\ \A l \in D : markers[l] = Occurrences(breakpoints, l) => Unmarked[l] = 0
<1>1. \A l \in D : markers[l] \in Nat /\ Occurrences(breakpoints, l) \in Nat
  BY Counted
<1> QED
  BY <1>1 DEF Unmarked

LEMMA InsertMarksType ==
  ASSUME text \in Texts, markers \in [DOMAIN text -> Nat], breakpoints \in Seq(Nat),
         NEW line \in DOMAIN text, NEW added \in Nat, NEW atStart \in BOOLEAN
  PROVE  /\ MarkersAfterInsert(line, added, atStart) \in [1 .. Len(text) + added -> Nat]
         /\ ShiftDown(line, added, atStart) \in [DOMAIN breakpoints -> Nat]
         /\ ShiftDown(line, added, atStart) \in Seq(Nat)
         /\ DOMAIN ShiftDown(line, added, atStart) = DOMAIN breakpoints
         /\ \A i \in DOMAIN breakpoints :
              ShiftDown(line, added, atStart)[i] = Down(line, added, atStart, breakpoints[i])
<1>1. Len(text) \in Nat /\ DOMAIN text = 1 .. Len(text) /\ line \in 1 .. Len(text)
  BY TextFacts
<1>2. MarkersAfterInsert(line, added, atStart) \in [1 .. Len(text) + added -> Nat]
  <2> DEFINE moves == IF atStart /\ markers[line] > 0 THEN 1 ELSE 0
             mark(l) == IF l < line THEN markers[l]
                        ELSE IF l = line THEN markers[l] - moves
                        ELSE IF l = line + added /\ added > 0 THEN moves
                        ELSE IF l < line + added THEN 0
                        ELSE markers[l - added]
  <2>1. moves \in Nat /\ markers[line] - moves \in Nat
    BY <1>1
  <2>2. ASSUME NEW l \in 1 .. Len(text) + added PROVE mark(l) \in Nat
    <3>1. CASE l < line
      <4>1. l \in DOMAIN text
        BY <1>1, <3>1
      <4> QED
        BY <3>1, <4>1
    <3>2. CASE l = line
      BY <2>1, <3>2
    <3>3. CASE l > line /\ l < line + added
      BY <1>1, <3>3
    <3>4. CASE l > line /\ l = line + added /\ added > 0
      BY <1>1, <2>1, <3>4
    <3>5. CASE l > line /\ ~(l < line + added) /\ ~(l = line + added /\ added > 0)
      <4>1. l - added \in DOMAIN text
        BY <1>1, <3>5
      <4>2. mark(l) = markers[l - added]
        BY <1>1, <3>5
      <4> QED
        BY <4>1, <4>2
    <3> QED
      BY <1>1, <3>1, <3>2, <3>3, <3>4, <3>5
  <2>3. MarkersAfterInsert(line, added, atStart) = [l \in 1 .. Len(text) + added |-> mark(l)]
    BY DEF MarkersAfterInsert
  <2> HIDE DEF mark
  <2> QED
    BY <2>2, <2>3
<1>3. \A i \in DOMAIN breakpoints : breakpoints[i] \in Nat
  BY ElementOfSeq
<1>4. /\ ShiftDown(line, added, atStart) \in [DOMAIN breakpoints -> Nat]
      /\ \A i \in DOMAIN breakpoints :
           ShiftDown(line, added, atStart)[i] = Down(line, added, atStart, breakpoints[i])
  BY <1>3 DEF ShiftDown, Down
<1>5. ShiftDown(line, added, atStart) \in Seq(Nat)
  <2>1. Len(breakpoints) \in Nat /\ DOMAIN breakpoints = 1 .. Len(breakpoints)
    OBVIOUS
  <2> QED
    BY <1>4, <2>1, FunctionIsSequence
<1> QED
  BY <1>2, <1>4, <1>5

(* The markers of the lines that become one.                                 *)
Joined(line, removed) == UNION {{k} \X (1 .. markers[k]) : k \in line .. line + removed}

LEMMA JoinedMarks ==
  ASSUME text \in Texts, markers \in [DOMAIN text -> Nat],
         NEW line \in DOMAIN text, NEW removed \in Nat, line + removed <= Len(text)
  PROVE  /\ IsFiniteSet(Joined(line, removed))
         /\ Cardinality(Joined(line, removed)) \in Nat
         /\ \A k \in line .. line + removed : \A m \in 1 .. markers[k] :
              <<k, m>> \in Joined(line, removed)
         /\ \A e \in Joined(line, removed) :
              \E k \in line .. line + removed : markers[k] >= 1
<1> DEFINE I == line .. line + removed
           f == [k \in I |-> {k} \X (1 .. markers[k])]
           T == {{k} \X (1 .. markers[k]) : k \in I}
<1>1. /\ line \in 1 .. Len(text) /\ Len(text) \in Nat /\ DOMAIN text = 1 .. Len(text)
  BY TextFacts
<1>2. \A k \in I : k \in DOMAIN text /\ markers[k] \in Nat
  BY <1>1
<1>3. IsFiniteSet(I)
  BY <1>1, FS_Interval
<1>4. \A k \in I : IsFiniteSet({k} \X (1 .. markers[k]))
  <2> SUFFICES ASSUME NEW k \in I PROVE IsFiniteSet({k} \X (1 .. markers[k]))
    OBVIOUS
  <2>1. IsFiniteSet({k})
    BY FS_Singleton
  <2>2. IsFiniteSet(1 .. markers[k])
    BY <1>2, FS_Interval
  <2> QED
    BY <2>1, <2>2, FS_Product
<1>5. IsFiniteSet(T)
  <2>1. f \in [I -> T] /\ \A t \in T : \E k \in I : f[k] = t
    OBVIOUS
  <2> HIDE DEF f, T, I
  <2>2. f \in Surjection(I, T)
    BY <2>1 DEF Surjection
  <2> QED
    BY <1>3, <2>2, FS_Surjection
<1>6. \A t \in T : IsFiniteSet(t)
  BY <1>4
<1>7. Joined(line, removed) = UNION T
  BY DEF Joined
<1>8. \A k \in I : \A m \in 1 .. markers[k] : <<k, m>> \in UNION T
  OBVIOUS
<1>9. ASSUME NEW e \in UNION T PROVE \E k \in I : markers[k] >= 1
  <2>1. PICK k \in I : e \in {k} \X (1 .. markers[k])
    OBVIOUS
  <2>2. PICK m \in 1 .. markers[k] : e = <<k, m>>
    BY <2>1
  <2> QED
    BY <1>2, <2>2
<1>10. IsFiniteSet(UNION T)
  <2> HIDE DEF T
  <2> QED
    BY <1>5, <1>6, FS_UNION
<1> HIDE DEF T
<1>11. Cardinality(UNION T) \in Nat
  BY <1>10, FS_CardinalityType
<1> QED
  BY <1>7, <1>8, <1>9, <1>10, <1>11

LEMMA DeleteMarksType ==
  ASSUME text \in Texts, markers \in [DOMAIN text -> Nat],
         NEW line \in DOMAIN text, NEW removed \in Nat, line + removed <= Len(text)
  PROVE  MarkersAfterDelete(line, removed) \in [1 .. Len(text) - removed -> Nat]
<1>1. /\ line \in 1 .. Len(text) /\ Len(text) \in Nat /\ DOMAIN text = 1 .. Len(text)
  BY TextFacts
<1>2. Cardinality(Joined(line, removed)) \in Nat
  BY JoinedMarks
<1>3. ASSUME NEW l \in 1 .. Len(text) - removed, l < line PROVE markers[l] \in Nat
  <2>1. l \in DOMAIN text
    BY <1>1, <1>3
  <2> QED
    BY <2>1
<1>4. ASSUME NEW l \in 1 .. Len(text) - removed, l > line PROVE markers[l + removed] \in Nat
  <2>1. l + removed \in DOMAIN text
    BY <1>1, <1>4
  <2> QED
    BY <2>1
<1> DEFINE mark(l) == IF l < line THEN markers[l]
                      ELSE IF l > line THEN markers[l + removed]
                      ELSE Cardinality(Joined(line, removed))
<1>5. \A l \in 1 .. Len(text) - removed : mark(l) \in Nat
  BY <1>2, <1>3, <1>4
<1>6. MarkersAfterDelete(line, removed) = [l \in 1 .. Len(text) - removed |-> mark(l)]
  BY DEF MarkersAfterDelete, Joined
<1> HIDE DEF mark
<1> QED
  BY <1>5, <1>6

(* Where an entry of the list goes when line ends are removed, and which of  *)
(* them stay.                                                                *)
Up(line, removed, l) ==
  IF l >= line + removed THEN l - removed
  ELSE IF l \in line .. line + removed - 1 THEN line ELSE l

Stay(line, removed) ==
  {i \in DOMAIN breakpoints :
     breakpoints[i] \in line .. line + removed - 1
       => \A k \in 1 .. i - 1 : breakpoints[k] \notin line .. line + removed - 1}

LEMMA ShiftUpLines ==
  ASSUME breakpoints \in Seq(Nat), NEW line \in Nat, NEW removed \in Nat
  PROVE  LET moved == [i \in DOMAIN breakpoints |-> Up(line, removed, breakpoints[i])]
         IN  /\ moved \in Seq(Nat) /\ DOMAIN moved = DOMAIN breakpoints
             /\ ShiftUp(line, removed) = LinesAt(moved, Stay(line, removed))
             /\ Stay(line, removed) \in SUBSET DOMAIN moved
             /\ ShiftUp(line, removed) \in Seq(Nat)
<1> DEFINE moved == [i \in DOMAIN breakpoints |-> Up(line, removed, breakpoints[i])]
           Inside(i) == breakpoints[i] \in line .. line + removed - 1
           first == {i \in DOMAIN breakpoints : Inside(i) /\ \A k \in 1 .. i - 1 : ~Inside(k)}
<1>1. \A i \in DOMAIN breakpoints : breakpoints[i] \in Nat
  BY ElementOfSeq
<1>2. \A l \in Nat : Up(line, removed, l) \in Nat
  BY DEF Up
<1>3. moved \in [DOMAIN breakpoints -> Nat]
  BY <1>1, <1>2
<1>4. moved \in Seq(Nat) /\ DOMAIN moved = DOMAIN breakpoints
  <2>1. Len(breakpoints) \in Nat /\ DOMAIN breakpoints = 1 .. Len(breakpoints)
    OBVIOUS
  <2> HIDE DEF moved
  <2> QED
    BY <1>3, <2>1, FunctionIsSequence
<1>5. ShiftUp(line, removed) = LinesAt(moved, {i \in DOMAIN breakpoints : Inside(i) => i \in first})
  BY DEF ShiftUp, Up
<1>6. {i \in DOMAIN breakpoints : Inside(i) => i \in first} = Stay(line, removed)
  BY DEF Stay
<1>7. Stay(line, removed) \in SUBSET DOMAIN moved
  BY <1>4 DEF Stay
<1> HIDE DEF moved, first, Inside
<1>8. LinesAt(moved, Stay(line, removed)) \in Seq(Nat)
  BY <1>4, <1>7, PickedLines
<1> QED
  BY <1>4, <1>5, <1>6, <1>7, <1>8 DEF moved

LEMMA LookupsType ==
  ASSUME Types, MappingInv
  PROVE  /\ UpdateLineMappingIfNecessary \in Tables
         /\ \A line \in Nat : /\ GetOldLine(UpdateLineMappingIfNecessary, line) \in Nat
                              /\ OldToNewLine(line) \in Nat
<1>1. UpdateLineMappingIfNecessary \in Tables
  <2>1. CASE loaded /\ dirty
    <3>1. source \in Seq(Contents) \ {<<>>} /\ text \in Seq(Contents) \ {<<>>}
      BY <2>1 DEF Types, DocumentTypes, SessionTypes, MappingInv, Texts
    <3>2. Update(source, text) \in Tables
      BY <3>1, ContentsAssumption, UpdateType DEF Tables
    <3> QED
      BY <2>1, <3>2 DEF UpdateLineMappingIfNecessary
  <2>2. CASE ~(loaded /\ dirty)
    BY <2>2 DEF UpdateLineMappingIfNecessary, Types, SessionTypes
  <2> QED
    BY <2>1, <2>2
<1>2. ASSUME NEW M \in Tables, NEW line \in Nat
      PROVE  GetOldLine(M, line) \in Nat /\ GetNewLine(M, line) \in Nat
  BY LookupType DEF Tables, GetOldLine, GetNewLine
<1> QED
  BY <1>1, <1>2 DEF OldToNewLine

(* What loading a script asks the backend for.                               *)
Sent ==
  LET oldLines == [i \in DOMAIN breakpoints |-> GetOldLine(Update(source, disk), breakpoints[i])]
  IN LinesAt(oldLines, {i \in DOMAIN oldLines : oldLines[i] # InvalidLine})

LEMMA SentLines ==
  ASSUME Types, source # NoSource
  PROVE  /\ Update(source, disk) \in Tables
         /\ Sent \in Seq(Nat)
         /\ \A r \in DOMAIN Sent :
              /\ Sent[r] # InvalidLine
              /\ \E i \in DOMAIN breakpoints :
                   Sent[r] = GetOldLine(Update(source, disk), breakpoints[i])
<1> DEFINE M == Update(source, disk)
           oldLines == [i \in DOMAIN breakpoints |-> GetOldLine(M, breakpoints[i])]
           S == {i \in DOMAIN oldLines : oldLines[i] # InvalidLine}
<1>1. M \in Tables
  <2>1. source \in Seq(Contents) \ {<<>>} /\ disk \in Seq(Contents) \ {<<>>}
    BY DEF Types, DocumentTypes, SessionTypes, Texts
  <2> QED
    BY <2>1, ContentsAssumption, UpdateType DEF Tables
<1> HIDE DEF M
<1>2. breakpoints \in Seq(Nat) /\ \A i \in DOMAIN breakpoints : breakpoints[i] \in Nat
  BY ElementOfSeq DEF Types, DocumentTypes
<1>3. ASSUME NEW l \in Nat PROVE GetOldLine(M, l) \in Nat
  BY <1>1, LookupType DEF Tables, GetOldLine
<1>4. oldLines \in [DOMAIN breakpoints -> Nat]
  BY <1>2, <1>3
<1>5. oldLines \in Seq(Nat) /\ DOMAIN oldLines = DOMAIN breakpoints
  <2>1. Len(breakpoints) \in Nat /\ DOMAIN breakpoints = 1 .. Len(breakpoints)
    BY <1>2
  <2> HIDE DEF oldLines
  <2> QED
    BY <1>4, <2>1, FunctionIsSequence
<1>6. Sent = LinesAt(oldLines, S)
  BY DEF Sent, M
<1>7. S \in SUBSET DOMAIN oldLines /\ \A i \in S : oldLines[i] # InvalidLine
  OBVIOUS
<1>8. \A i \in DOMAIN oldLines : oldLines[i] = GetOldLine(M, breakpoints[i])
  OBVIOUS
<1> HIDE DEF oldLines, S
<1>9. /\ LinesAt(oldLines, S) \in Seq(Nat)
      /\ \A i \in S : LinesAt(oldLines, S)[Rank(S, i)] = oldLines[i]
      /\ \A r \in DOMAIN LinesAt(oldLines, S) : \E i \in S : Rank(S, i) = r
  BY <1>5, <1>7, PickedLines
<1>10. ASSUME NEW r \in DOMAIN Sent
       PROVE  /\ Sent[r] # InvalidLine
              /\ \E i \in DOMAIN breakpoints : Sent[r] = GetOldLine(M, breakpoints[i])
  <2>1. PICK i \in S : Rank(S, i) = r
    BY <1>6, <1>9
  <2>2. Sent[r] = oldLines[i]
    BY <1>6, <1>9, <2>1
  <2> QED
    BY <1>5, <1>7, <1>8, <2>2
<1> QED
  BY <1>1, <1>6, <1>9, <1>10 DEF M

(* What the channels carry.                                                  *)
LEMMA MessagesType ==
  /\ \A line \in Nat : Toggle(line) \in Commands /\ Toggle(line).id = "Toggle"
                       /\ Toggle(line).line = line
  /\ RemoveAll \in Commands /\ RemoveAll.id = "RemoveAll"
  /\ LoadScript \in Events /\ SessionEnd \in Events
  /\ LoadScript.id = "LoadScript" /\ SessionEnd.id = "SessionEnd"
  /\ \A line \in Nat, set \in BOOLEAN : SetBreakpoint(line, set) \in Events
  /\ \A line, set : /\ SetBreakpoint(line, set).id = "SetBreakpoint"
                    /\ SetBreakpoint(line, set).line = line
                    /\ SetBreakpoint(line, set).set = set
  /\ \A c \in Commands : /\ c.id \in {"Toggle", "RemoveAll"}
                         /\ c.id = "Toggle" => c.line \in Nat
  /\ \A e \in Events :
       /\ e.id \in {"SetBreakpoint", "LoadScript", "SessionEnd"}
       /\ e.id = "SetBreakpoint" => e.line \in Nat /\ e.set \in BOOLEAN
BY DEF Toggle, RemoveAll, LoadScript, SessionEnd, SetBreakpoint, Commands, Events

(* An edit is one of four.                                                   *)
LEMMA EditingCases ==
  ASSUME Editing
  PROVE  \/ \E line \in DOMAIN text, lines \in Pastes, atStart \in BOOLEAN :
              Inserts(line, lines, atStart)
         \/ \E line \in DOMAIN text : \E removed \in 1 .. Len(text) - 1 :
              DeleteLines(line, removed)
         \/ \E line \in DOMAIN text, contents \in Typed : ChangeLine(line, contents)
         \/ DeleteAll
<1>1. ASSUME NEW line, NEW lines, InsertBefore(line, lines) PROVE Inserts(line, lines, TRUE)
  BY <1>1 DEF InsertBefore, Inserts
<1>2. ASSUME NEW line, NEW lines, InsertBehind(line, lines) PROVE Inserts(line, lines, FALSE)
  BY <1>2 DEF InsertBehind, Inserts
<1> QED
  BY <1>1, <1>2 DEF Editing

(* What every edit has in common.                                            *)
LEMMA EditsMarkTheMapping ==
  ASSUME Editing
  PROVE  /\ modified' = TRUE /\ dirty' = TRUE /\ apart' = (apart \/ running)
         /\ disk' = disk /\ newer' = newer /\ mapping' = mapping /\ stale' = stale
         /\ loaded' = loaded /\ source' = source /\ running' = running
         /\ backend' = backend /\ commands' = commands /\ events' = events
         /\ merged' \in BOOLEAN
<1>1. ASSUME NEW a, NEW b, NEW c, NEW d, Edit(a, b, c, d)
      PROVE  /\ modified' = TRUE /\ dirty' = TRUE /\ apart' = (apart \/ running)
             /\ disk' = disk /\ newer' = newer /\ mapping' = mapping /\ stale' = stale
             /\ loaded' = loaded /\ source' = source /\ running' = running
             /\ backend' = backend /\ commands' = commands /\ events' = events
             /\ merged' \in BOOLEAN
  BY <1>1, EditFacts
<1> QED
  BY <1>1 DEF Editing, InsertBefore, InsertBehind, DeleteLines, DeleteAll, ChangeLine

LEMMA ChangeFacts ==
  ASSUME text \in Texts, NEW line \in DOMAIN text, NEW contents \in Typed,
         ChangeLine(line, contents)
  PROVE  /\ text' \in Texts /\ Len(text') = Len(text) /\ DOMAIN text' = DOMAIN text
         /\ text' = [text EXCEPT ![line] = contents]
         /\ markers' = markers /\ breakpoints' = breakpoints
         /\ merged' = (merged \/ Doubled(markers))
<1>1. /\ text' = [text EXCEPT ![line] = contents] /\ Len(text') \in 1 .. MaxLines
      /\ markers' = markers /\ breakpoints' = breakpoints
      /\ merged' = (merged \/ Doubled(markers))
  <2> DEFINE after == [text EXCEPT ![line] = contents]
  <2>1. Edit(after, markers, breakpoints, FALSE)
    BY DEF ChangeLine
  <2> HIDE DEF after
  <2>2. /\ text' = after /\ Len(after) \in 1 .. MaxLines
        /\ markers' = markers /\ breakpoints' = breakpoints
        /\ merged' = (merged \/ FALSE \/ Doubled(markers))
    <3>1. text' = after /\ Len(after) \in 1 .. MaxLines
      BY <2>1, EditFacts
    <3>2. markers' = markers
      BY <2>1, EditFacts
    <3>3. breakpoints' = breakpoints
      BY <2>1, EditFacts
    <3>4. merged' = (merged \/ FALSE \/ Doubled(markers))
      BY <2>1 DEF Edit
    <3> QED
      BY <3>1, <3>2, <3>3, <3>4
  <2> QED
    BY <2>2 DEF after
<1>2. text \in Seq(Contents) /\ contents \in Contents
  BY TextFacts, TextAssumption
<1>3. text' \in Seq(Contents) /\ Len(text') = Len(text) /\ DOMAIN text' = DOMAIN text
  BY <1>1, <1>2, ExceptSeq
<1> QED
  BY <1>1, <1>3, EditedTextType

LEMMA DeleteAllFacts ==
  ASSUME DeleteAll, text \in Texts
  PROVE  /\ text' = <<Empty>> /\ text' \in Texts /\ Len(text') = 1 /\ DOMAIN text' = {1}
         /\ markers' = <<0>> /\ breakpoints' = ShiftUp(1, Len(text) - 1)
         /\ merged'
<1>1. /\ text' = <<Empty>> /\ Len(text') \in 1 .. MaxLines
      /\ markers' = <<0>> /\ breakpoints' = ShiftUp(1, Len(text) - 1)
      /\ merged'
  BY EditFacts DEF DeleteAll
<1>2. <<Empty>> \in Seq(Contents)
  BY ContentsAssumption
<1>3. text' \in Texts
  BY <1>1, <1>2, EditedTextType
<1>4. Len(<<Empty>>) = 1 /\ DOMAIN <<Empty>> = {1}
  OBVIOUS
<1> QED
  BY <1>1, <1>3, <1>4

LEMMA EditedTypes ==
  ASSUME Types, Editing
  PROVE  Types'
<1>0. /\ text \in Texts /\ markers \in [DOMAIN text -> Nat] /\ breakpoints \in Seq(Nat)
      /\ Len(text) \in Nat /\ DOMAIN text = 1 .. Len(text)
  BY TextFacts DEF Types, DocumentTypes
<1>1. text' \in Texts /\ markers' \in [DOMAIN text' -> Nat] /\ breakpoints' \in Seq(Nat)
  <2>1. ASSUME NEW line \in DOMAIN text, NEW lines \in Pastes, NEW atStart \in BOOLEAN,
               Inserts(line, lines, atStart)
        PROVE  text' \in Texts /\ markers' \in [DOMAIN text' -> Nat] /\ breakpoints' \in Seq(Nat)
    <3>1. /\ Len(lines) \in Nat
          /\ text' \in Texts /\ Len(text') = Len(text) + Len(lines)
          /\ markers' = MarkersAfterInsert(line, Len(lines), atStart)
          /\ breakpoints' = ShiftDown(line, Len(lines), atStart)
      BY <1>0, <2>1, InsertFacts
    <3>2. DOMAIN text' = 1 .. Len(text) + Len(lines)
      BY <3>1, TextFacts
    <3> QED
      BY <1>0, <3>1, <3>2, InsertMarksType
  <2>2. ASSUME NEW line \in DOMAIN text, NEW removed \in 1 .. Len(text) - 1,
               DeleteLines(line, removed)
        PROVE  text' \in Texts /\ markers' \in [DOMAIN text' -> Nat] /\ breakpoints' \in Seq(Nat)
    <3>1. /\ line + removed <= Len(text)
          /\ text' \in Texts /\ Len(text') = Len(text) - removed
          /\ markers' = MarkersAfterDelete(line, removed)
          /\ breakpoints' = ShiftUp(line, removed)
      BY <1>0, <2>2, DeleteFacts
    <3>2. DOMAIN text' = 1 .. Len(text) - removed
      BY <3>1, TextFacts
    <3>3. line \in Nat /\ removed \in Nat
      BY <1>0
    <3> QED
      BY <1>0, <3>1, <3>2, <3>3, DeleteMarksType, ShiftUpLines
  <2>3. ASSUME NEW line \in DOMAIN text, NEW contents \in Typed, ChangeLine(line, contents)
        PROVE  text' \in Texts /\ markers' \in [DOMAIN text' -> Nat] /\ breakpoints' \in Seq(Nat)
    BY <1>0, <2>3, ChangeFacts
  <2>4. CASE DeleteAll
    <3>1. Len(text) - 1 \in Nat /\ 1 \in Nat
      BY <1>0, TextFacts
    <3>2. DOMAIN <<0>> = {1} /\ <<0>> \in [{1} -> Nat]
      OBVIOUS
    <3> QED
      BY <1>0, <2>4, <3>1, <3>2, DeleteAllFacts, ShiftUpLines
  <2> QED
    BY <2>1, <2>2, <2>3, <2>4, EditingCases
<1>2. disk' = disk /\ FlagTypes' /\ SessionTypes'
  BY EditsMarkTheMapping DEF Types, FlagTypes, SessionTypes, DocumentTypes
<1> QED
  BY <1>1, <1>2 DEF Types, DocumentTypes

(* A list of marks and breakpoints after a click or an answer.               *)
LEMMA ToggledTypes ==
  ASSUME Types, NEW line \in Nat, NEW set
  PROVE  /\ Listed(breakpoints, line, set) \in Seq(Nat)
         /\ Mark(line, set) \in [DOMAIN text -> Nat]
         /\ Unmarked \in [DOMAIN text -> Nat]
         /\ <<>> \in Seq(Nat)
BY ListedType, MarksType, UnmarkedType DEF Types, DocumentTypes

LEMMA SentTypes ==
  ASSUME Types, NEW sent \in Seq(Commands), Send(sent)
  PROVE  /\ commands' \in Seq(Commands)
         /\ running => commands' = commands \o sent
         /\ ~running => commands' = commands
BY ConcatProperties DEF Types, SessionTypes, Send

(* The first event is taken.                                                 *)
LEMMA NextEventFacts ==
  ASSUME events \in Seq(Events), NEW id, NextEvent(id)
  PROVE  /\ events # <<>> /\ events' = Tail(events) /\ events' \in Seq(Events)
         /\ Len(events) \in Nat \ {0} /\ DOMAIN events = 1 .. Len(events)
         /\ Head(events) = events[1] /\ events[1].id = id /\ events[1] \in Events
         /\ 1 \in DOMAIN events
         /\ Len(events') = Len(events) - 1 /\ DOMAIN events' = 1 .. Len(events) - 1
         /\ \A i \in 1 .. Len(events) - 1 : events'[i] = events[i + 1]
<1>1. events # <<>> /\ events' = Tail(events) /\ Head(events).id = id
  BY DEF NextEvent
<1> QED
  BY <1>1, Tailed

LEMMA TypesStep == Inv /\ [Next]_vars => Types'
<1> SUFFICES ASSUME Inv, [Next]_vars PROVE Types'
  OBVIOUS
<1>0. Types /\ MappingInv /\ EventsInv
  BY DEF Inv
<1>t. /\ text \in Texts /\ disk \in Texts /\ markers \in [DOMAIN text -> Nat]
      /\ breakpoints \in Seq(Nat) /\ commands \in Seq(Commands) /\ events \in Seq(Events)
      /\ Len(text) \in Nat /\ DOMAIN text = 1 .. Len(text)
  BY <1>0, TextFacts DEF Types, DocumentTypes, SessionTypes
<1> USE DEF Types, DocumentTypes, FlagTypes, SessionTypes
<1>1. CASE Editing
  BY <1>0, <1>1, EditedTypes
<1>2. CASE Save \/ KeepText \/ UNCHANGED vars
  BY <1>0, <1>2 DEF Save, KeepText, documentVars, sessionVars, channelVars, vars
<1>3. CASE OtherWrites
  <2>1. disk' \in Texts
    <3>1. disk' \in OtherTexts
      BY <1>3 DEF OtherWrites
    <3>2. disk' \in Seq(Contents) \ {<<>>} /\ Len(disk') <= MaxLines
      BY <3>1, TextAssumption, LinesAssumption
    <3> QED
      BY <3>2 DEF Texts
  <2> QED
    BY <1>0, <1>3, <2>1 DEF OtherWrites, documentVars, sessionVars, channelVars
<1>4. CASE Reload
  <2> DEFINE S == {i \in DOMAIN breakpoints : breakpoints[i] <= Len(disk)}
  <2>1. breakpoints' = LinesAt(breakpoints, S) /\ S \in SUBSET DOMAIN breakpoints
    BY <1>4 DEF Reload
  <2> HIDE DEF S
  <2>2. breakpoints' \in Seq(Nat)
    BY <1>t, <2>1, PickedLines
  <2>3. \A l \in DOMAIN disk : Occurrences(breakpoints, l) \in Nat
    BY <1>t, Counted
  <2>4. text' = disk /\ markers' = [l \in DOMAIN disk |-> Occurrences(breakpoints, l)]
    BY <1>4 DEF Reload
  <2>5. markers' \in [DOMAIN text' -> Nat]
    BY <2>3, <2>4
  <2>6. /\ disk' = disk /\ mapping' = mapping /\ newer' = FALSE /\ modified' = FALSE
        /\ dirty' \in BOOLEAN /\ stale' \in BOOLEAN /\ merged' \in BOOLEAN /\ apart' \in BOOLEAN
    BY <1>0, <1>4 DEF Reload, Doubled
  <2>7. /\ loaded' = loaded /\ source' = source /\ running' = running /\ backend' = backend
        /\ commands' = commands /\ events' = events
    BY <1>4 DEF Reload, sessionVars, channelVars
  <2> QED
    BY <1>0, <1>t, <2>2, <2>4, <2>5, <2>6, <2>7
<1>5. ASSUME NEW line \in DOMAIN text, ToggleInBackend(line) PROVE Types'
  <2> DEFINE oldLine == GetOldLine(UpdateLineMappingIfNecessary, line)
  <2>1. line \in Nat /\ oldLine \in Nat
    BY <1>0, <1>t, LookupsType
  <2>2. Send(<<Toggle(oldLine)>>)
    BY <1>5 DEF ToggleInBackend
  <2> HIDE DEF oldLine
  <2>3. <<Toggle(oldLine)>> \in Seq(Commands)
    BY <2>1, MessagesType
  <2>4. commands' \in Seq(Commands)
    BY <1>0, <2>2, <2>3, SentTypes
  <2>5. mapping' \in Tables
    BY <1>0, <1>5, LookupsType DEF ToggleInBackend
  <2>6. stale' \in BOOLEAN /\ dirty' = FALSE
    BY <1>5 DEF ToggleInBackend
  <2>7. /\ text' = text /\ markers' = markers /\ breakpoints' = breakpoints /\ disk' = disk
        /\ modified' = modified /\ newer' = newer /\ merged' = merged /\ apart' = apart
        /\ events' = events /\ loaded' = loaded /\ source' = source /\ running' = running
        /\ backend' = backend
    BY <1>5 DEF ToggleInBackend, sessionVars
  <2> QED
    BY <1>0, <2>4, <2>5, <2>6, <2>7
<1>6. ASSUME NEW line \in DOMAIN text, ToggleLocally(line) PROVE Types'
  <2> DEFINE set == ~Contains(breakpoints, line)
  <2>1. line \in Nat
    BY <1>t
  <2>2. breakpoints' = Listed(breakpoints, line, set) /\ markers' = Mark(line, set)
    BY <1>6 DEF ToggleLocally
  <2> HIDE DEF set
  <2>3. breakpoints' \in Seq(Nat) /\ markers' \in [DOMAIN text -> Nat]
    BY <1>0, <2>1, <2>2, ToggledTypes
  <2>5. mapping' \in Tables
    BY <1>0, <1>6, LookupsType DEF ToggleLocally
  <2>6. stale' \in BOOLEAN /\ dirty' = TRUE /\ merged' \in BOOLEAN
    BY <1>6 DEF ToggleLocally
  <2>7. /\ text' = text /\ disk' = disk
        /\ modified' = modified /\ newer' = newer /\ apart' = apart /\ commands' = commands
        /\ events' = events /\ loaded' = loaded /\ source' = source /\ running' = running
        /\ backend' = backend
    BY <1>6 DEF ToggleLocally, sessionVars, channelVars
  <2> QED
    BY <1>0, <2>3, <2>5, <2>6, <2>7
<1>7. CASE DeleteAllBreakpoints
  <2>1. breakpoints' = <<>> /\ markers' = Unmarked /\ Send(<<RemoveAll>>)
    BY <1>7 DEF DeleteAllBreakpoints
  <2>2. <<RemoveAll>> \in Seq(Commands)
    BY MessagesType
  <2>3. commands' \in Seq(Commands)
    BY <1>0, <2>1, <2>2, SentTypes
  <2>4. breakpoints' \in Seq(Nat) /\ markers' \in [DOMAIN text -> Nat]
    BY <1>0, <2>1, ToggledTypes
  <2>6. dirty' \in BOOLEAN /\ apart' \in BOOLEAN
    BY <1>7 DEF DeleteAllBreakpoints
  <2>7. /\ text' = text /\ disk' = disk /\ mapping' = mapping /\ stale' = stale
        /\ modified' = modified /\ newer' = newer /\ merged' = merged
        /\ events' = events /\ loaded' = loaded /\ source' = source /\ running' = running
        /\ backend' = backend
    BY <1>7 DEF DeleteAllBreakpoints, sessionVars
  <2> QED
    BY <1>0, <2>3, <2>4, <2>6, <2>7
<1>8. ASSUME NEW saves \in BOOLEAN, StartSession(saves) PROVE Types'
  <2>1. disk' \in Texts /\ modified' \in BOOLEAN /\ newer' \in BOOLEAN
    BY <1>0, <1>8 DEF StartSession
  <2>2. /\ text' = text /\ markers' = markers /\ breakpoints' = breakpoints
        /\ dirty' = dirty /\ merged' = merged /\ apart' = apart /\ running' = TRUE
        /\ events' = events /\ loaded' = loaded /\ source' = source
        /\ backend' = backend /\ commands' = commands /\ mapping' = mapping /\ stale' = stale
    BY <1>8 DEF StartSession, channelVars
  <2> QED
    BY <1>0, <2>1, <2>2
<1>9. CASE OnLoadScript
  <2>1. /\ NextEvent("LoadScript") /\ breakpoints' = <<>> /\ markers' = Unmarked
        /\ Send([i \in DOMAIN Sent |-> Toggle(Sent[i])]) /\ mapping' = Update(source, disk)
    BY <1>9 DEF OnLoadScript, Sent
  <2>2. events' \in Seq(Events) /\ 1 \in DOMAIN events /\ events[1].id = "LoadScript"
    BY <1>t, <2>1, NextEventFacts
  <2>3. source # NoSource
    BY <1>0, <2>2 DEF EventsInv
  <2>4. mapping' \in Tables /\ Sent \in Seq(Nat)
    BY <1>0, <2>1, <2>3, SentLines
  <2>5. [i \in DOMAIN Sent |-> Toggle(Sent[i])] \in Seq(Commands)
    <3>1. Len(Sent) \in Nat /\ DOMAIN Sent = 1 .. Len(Sent) /\ \A i \in 1 .. Len(Sent) : Sent[i] \in Nat
      BY <2>4, ElementOfSeq
    <3>2. [i \in DOMAIN Sent |-> Toggle(Sent[i])] \in [1 .. Len(Sent) -> Commands]
      BY <3>1, MessagesType
    <3> QED
      BY <3>1, <3>2, FunctionIsSequence
  <2>6. commands' \in Seq(Commands)
    BY <1>0, <2>1, <2>5, SentTypes
  <2>7. breakpoints' \in Seq(Nat) /\ markers' \in [DOMAIN text -> Nat]
    BY <1>0, <2>1, ToggledTypes
  <2>8. dirty' \in BOOLEAN /\ stale' \in BOOLEAN /\ apart' \in BOOLEAN /\ loaded' = TRUE
    BY <1>9 DEF OnLoadScript
  <2>9. /\ text' = text /\ disk' = disk /\ modified' = modified /\ newer' = newer
        /\ merged' = merged /\ source' = source /\ running' = running /\ backend' = backend
    BY <1>9 DEF OnLoadScript
  <2> QED
    BY <1>0, <2>2, <2>4, <2>6, <2>7, <2>8, <2>9
<1>10. CASE OnSetBreakpoint
  <2> DEFINE line == OldToNewLine(Head(events).line)
             set  == Head(events).set
  <2>1. /\ NextEvent("SetBreakpoint") /\ breakpoints' = Listed(breakpoints, line, set)
        /\ markers' = Mark(line, set) /\ mapping' = UpdateLineMappingIfNecessary
    BY <1>10 DEF OnSetBreakpoint
  <2>2. /\ events' \in Seq(Events) /\ Head(events) \in Events
        /\ Head(events).id = "SetBreakpoint"
    BY <1>t, <2>1, NextEventFacts
  <2>3. Head(events).line \in Nat
    BY <2>2, MessagesType
  <2>4. line \in Nat /\ mapping' \in Tables
    BY <1>0, <2>1, <2>3, LookupsType
  <2> HIDE DEF line, set
  <2>5. breakpoints' \in Seq(Nat) /\ markers' \in [DOMAIN text -> Nat]
    BY <1>0, <2>1, <2>4, ToggledTypes
  <2>6. dirty' = TRUE /\ stale' \in BOOLEAN /\ merged' \in BOOLEAN
    BY <1>10 DEF OnSetBreakpoint
  <2>7. /\ text' = text /\ disk' = disk /\ modified' = modified /\ newer' = newer
        /\ apart' = apart /\ commands' = commands
        /\ loaded' = loaded /\ source' = source /\ running' = running /\ backend' = backend
    BY <1>10 DEF OnSetBreakpoint, sessionVars
  <2> QED
    BY <1>0, <2>2, <2>4, <2>5, <2>6, <2>7
<1>11. CASE OnSessionEnd
  <2>1. events' \in Seq(Events)
    BY <1>t, <1>11, NextEventFacts DEF OnSessionEnd
  <2>2. NoMapping \in Tables
    BY DEF NoMapping, Tables
  <2> QED
    BY <1>0, <1>11, <2>1, <2>2 DEF OnSessionEnd, documentVars
<1>12. CASE ProgramLoads
  <2>1. events' \in Seq(Events)
    BY <1>t, <1>12, MessagesType, Appended DEF ProgramLoads
  <2> QED
    BY <1>0, <1>12, <2>1 DEF ProgramLoads, documentVars
<1>13. CASE BackendToggles
  <2> DEFINE line == Head(commands).line
  <2>1. /\ commands # <<>> /\ Head(commands).id = "Toggle" /\ commands' = Tail(commands)
        /\ backend' = SymDiff(backend, {line})
        /\ events' = Append(events, SetBreakpoint(line, line \notin backend))
    BY <1>13 DEF BackendToggles
  <2>2. commands' \in Seq(Commands) /\ Head(commands) \in Commands
    BY <1>t, <2>1, Tailed
  <2>3. line \in Nat
    BY <2>1, <2>2, MessagesType
  <2> HIDE DEF line
  <2>4. backend' \subseteq Nat
    BY <1>0, <2>1, <2>3 DEF SymDiff
  <2>5. SetBreakpoint(line, line \notin backend) \in Events
    BY <2>3, MessagesType
  <2>6. events' \in Seq(Events)
    BY <1>t, <2>1, <2>5, Appended
  <2> QED
    BY <1>0, <1>13, <2>2, <2>4, <2>6 DEF BackendToggles, documentVars
<1>14. CASE BackendRemovesAll
  <2>1. commands' \in Seq(Commands)
    BY <1>t, <1>14, Tailed DEF BackendRemovesAll
  <2> QED
    BY <1>0, <1>14, <2>1 DEF BackendRemovesAll, documentVars
<1>15. CASE ProgramEnds
  <2>1. events' \in Seq(Events)
    BY <1>t, <1>15, MessagesType, Appended DEF ProgramEnds
  <2>2. commands' \in Seq(Commands) /\ backend' = {} /\ running' = FALSE
    BY <1>15 DEF ProgramEnds
  <2>3. /\ text' = text /\ markers' = markers /\ breakpoints' = breakpoints /\ disk' = disk
        /\ modified' = modified /\ newer' = newer /\ dirty' = dirty /\ merged' = merged
        /\ apart' = apart /\ stale' = stale /\ loaded' = loaded /\ source' = source
        /\ mapping' = mapping
    BY <1>15 DEF ProgramEnds, documentVars
  <2> QED
    BY <1>0, <2>1, <2>2, <2>3
<1> HIDE DEF Types, DocumentTypes, FlagTypes, SessionTypes
<1> QED
  BY <1>1, <1>2, <1>3, <1>4, <1>5, <1>6, <1>7, <1>8, <1>9, <1>10, <1>11, <1>12, <1>13,
     <1>14, <1>15 DEF Next

-----------------------------------------------------------------------------
(* The events.                                                               *)

LEMMA EventsStep == Inv /\ [Next]_vars => EventsInv'
<1> SUFFICES ASSUME Inv, [Next]_vars PROVE EventsInv'
  OBVIOUS
<1>t. /\ events \in Seq(Events) /\ disk \in Texts /\ EventsInv /\ running \in BOOLEAN
      /\ Len(events) \in Nat /\ DOMAIN events = 1 .. Len(events)
      /\ \A i \in DOMAIN events : events[i] \in Events
  BY ElementOfSeq DEF Inv, Types, SessionTypes, DocumentTypes, FlagTypes
<1>1. ASSUME events' = events, source' = source, running' = running,
             commands' # <<>> => running
      PROVE  EventsInv'
  BY <1>t, <1>1 DEF EventsInv
<1>2. CASE Editing
  BY <1>t, <1>1, <1>2, EditsMarkTheMapping DEF EventsInv
<1>3. CASE Save \/ OtherWrites \/ KeepText \/ Reload \/ UNCHANGED vars
  BY <1>t, <1>1, <1>3 DEF Save, OtherWrites, KeepText, Reload, sessionVars, channelVars, vars,
     EventsInv
<1>4. CASE \/ \E line \in DOMAIN text : ToggleInBackend(line) \/ ToggleLocally(line)
           \/ DeleteAllBreakpoints
  BY <1>t, <1>1, <1>4 DEF ToggleInBackend, ToggleLocally, DeleteAllBreakpoints, Send,
     sessionVars, channelVars, EventsInv
<1>5. ASSUME NEW saves \in BOOLEAN, StartSession(saves) PROVE EventsInv'
  <2>1. events = <<>> /\ events' = <<>> /\ running' = TRUE
    BY <1>5 DEF StartSession, channelVars
  <2> QED
    BY <2>1 DEF EventsInv
<1>6. ASSUME NEW id, NextEvent(id), source' = source, running' = running,
             commands' # <<>> => running
      PROVE  EventsInv'
  <2>1. /\ Len(events) \in Nat \ {0} /\ Len(events') = Len(events) - 1
        /\ DOMAIN events' = 1 .. Len(events) - 1
        /\ \A i \in 1 .. Len(events) - 1 : events'[i] = events[i + 1]
    BY <1>t, <1>6, NextEventFacts
  <2>2. \A i \in DOMAIN events' :
          /\ i + 1 \in DOMAIN events /\ events'[i] = events[i + 1]
          /\ i + 1 = Len(events) => i = Len(events')
    BY <1>t, <2>1
  <2> QED
    BY <1>t, <1>6, <2>2 DEF EventsInv
<1>7. CASE OnLoadScript
  BY <1>t, <1>6, <1>7 DEF OnLoadScript, Send, EventsInv
<1>8. CASE OnSetBreakpoint
  BY <1>t, <1>6, <1>8 DEF OnSetBreakpoint, sessionVars, EventsInv
<1>9. CASE OnSessionEnd
  <2>1. /\ events[1].id = "SessionEnd" /\ 1 \in DOMAIN events
        /\ running' = running /\ commands' = commands
        /\ DOMAIN events' = 1 .. Len(events) - 1
    BY <1>t, <1>9, NextEventFacts DEF OnSessionEnd
  <2>2. Len(events) = 1
    BY <1>t, <2>1 DEF EventsInv
  <2>3. DOMAIN events' = {}
    BY <2>1, <2>2
  <2> QED
    BY <1>t, <2>1, <2>3 DEF EventsInv
<1>10. CASE ProgramLoads
  <2>1. events' = Append(events, LoadScript) /\ running /\ running' = running
        /\ commands' = commands /\ source' = disk
    BY <1>10 DEF ProgramLoads
  <2>2. source' # NoSource
    BY <1>t, <2>1, TextAssumption DEF Texts
  <2>3. /\ DOMAIN events' = 1 .. Len(events) + 1 /\ events'[Len(events) + 1] = LoadScript
        /\ \A i \in 1 .. Len(events) : events'[i] = events[i]
    BY <1>t, <2>1, MessagesType, Appended
  <2> QED
    BY <1>t, <2>1, <2>2, <2>3, MessagesType DEF EventsInv
<1>11. CASE BackendToggles
  <2>1. PICK e : events' = Append(events, e) /\ e.id = "SetBreakpoint"
    BY <1>11, MessagesType DEF BackendToggles
  <2>2. running /\ running' = running /\ source' = source
    BY <1>t, <1>11 DEF BackendToggles, EventsInv
  <2>3. events \in Seq(Events \cup {e}) /\ e \in Events \cup {e}
    BY <1>t, SeqMonotonic
  <2>4. /\ DOMAIN events' = 1 .. Len(events) + 1 /\ events'[Len(events) + 1] = e
        /\ \A i \in 1 .. Len(events) : events'[i] = events[i]
    BY <2>1, <2>3, Appended
  <2> QED
    BY <1>t, <2>1, <2>2, <2>4 DEF EventsInv
<1>12. CASE BackendRemovesAll
  BY <1>t, <1>1, <1>12 DEF BackendRemovesAll, EventsInv
<1>13. CASE ProgramEnds
  <2>1. events' = Append(events, SessionEnd) /\ running /\ running' = FALSE
        /\ commands' = <<>> /\ source' = source
    BY <1>13 DEF ProgramEnds
  <2>2. /\ DOMAIN events' = 1 .. Len(events) + 1 /\ events'[Len(events) + 1] = SessionEnd
        /\ \A i \in 1 .. Len(events) : events'[i] = events[i]
        /\ Len(events') = Len(events) + 1
    BY <1>t, <2>1, MessagesType, Appended
  <2> QED
    BY <1>t, <2>1, <2>2, MessagesType DEF EventsInv
<1> QED
  BY <1>2, <1>3, <1>4, <1>5, <1>7, <1>8, <1>9, <1>10, <1>11, <1>12, <1>13 DEF Next

-----------------------------------------------------------------------------
(* The mapping.                                                              *)

LEMMA MappingStep == Inv /\ [Next]_vars => MappingInv'
<1> SUFFICES ASSUME Inv, [Next]_vars PROVE MappingInv'
  OBVIOUS
<1>0. MappingInv /\ loaded \in BOOLEAN /\ dirty \in BOOLEAN /\ stale \in BOOLEAN
  BY DEF Inv, Types, FlagTypes
<1> USE DEF MappingInv, MappingIsCurrent
<1>1. CASE Editing
  BY <1>0, <1>1, EditsMarkTheMapping
<1>2. CASE Reload
  <2>1. dirty' \in {dirty \/ breakpoints' # <<>>, TRUE} /\ dirty' \in BOOLEAN
    BY <1>0, <1>2 DEF Reload
  <2> QED
    BY <1>0, <1>2, <2>1 DEF Reload, sessionVars
<1>3. CASE Save \/ OtherWrites \/ KeepText \/ UNCHANGED vars
  BY <1>0, <1>3 DEF Save, OtherWrites, KeepText, documentVars, sessionVars, vars
<1>4. ASSUME NEW line \in DOMAIN text, ToggleInBackend(line) PROVE MappingInv'
  BY <1>0, <1>4 DEF ToggleInBackend, UpdateLineMappingIfNecessary, sessionVars
<1>5. ASSUME NEW line \in DOMAIN text, ToggleLocally(line) PROVE MappingInv'
  BY <1>0, <1>5 DEF ToggleLocally, UpdateLineMappingIfNecessary, sessionVars
<1>6. CASE DeleteAllBreakpoints
  BY <1>0, <1>6 DEF DeleteAllBreakpoints, sessionVars
<1>7. ASSUME NEW saves \in BOOLEAN, StartSession(saves) PROVE MappingInv'
  BY <1>0, <1>7 DEF StartSession
<1>8. CASE OnLoadScript
  <2>1. source # NoSource
    <3>1. 1 \in DOMAIN events /\ events[1].id = "LoadScript"
      BY <1>8, NextEventFacts DEF OnLoadScript, Inv, Types, SessionTypes
    <3> QED
      BY <3>1 DEF EventsInv, Inv
  <2> QED
    BY <1>0, <1>8, <2>1 DEF OnLoadScript
<1>9. CASE OnSetBreakpoint
  BY <1>0, <1>9 DEF OnSetBreakpoint, UpdateLineMappingIfNecessary, sessionVars
<1>10. CASE OnSessionEnd
  BY <1>0, <1>10 DEF OnSessionEnd, documentVars
<1>11. CASE ProgramLoads
  BY <1>0, <1>11 DEF ProgramLoads, documentVars
<1>12. CASE BackendToggles \/ BackendRemovesAll
  BY <1>0, <1>12 DEF BackendToggles, BackendRemovesAll, documentVars
<1>13. CASE ProgramEnds
  BY <1>0, <1>13 DEF ProgramEnds, documentVars
<1> QED
  BY <1>1, <1>2, <1>3, <1>4, <1>5, <1>6, <1>7, <1>8, <1>9, <1>10, <1>11, <1>12, <1>13
  DEF Next

LEMMA InitHolds == Init => Inv
<1> SUFFICES ASSUME Init PROVE Inv
  OBVIOUS
<1>1. FirstText \in Texts
  BY TextAssumption, LinesAssumption DEF Texts
<1>2. Types
  <2>1. markers \in [DOMAIN text -> Nat]
    BY DEF Init
  <2>2. NoMapping \in Tables
    BY DEF NoMapping, Tables
  <2>3. DocumentTypes
    <3>1. breakpoints = <<>> /\ text = FirstText /\ disk = FirstText
      BY DEF Init
    <3> QED
      BY <1>1, <2>1, <3>1 DEF DocumentTypes
  <2>4. FlagTypes
    BY DEF Init, FlagTypes
  <2>5. SessionTypes
    <3>1. /\ commands = <<>> /\ events = <<>> /\ backend = {} /\ source = NoSource
          /\ mapping = NoMapping
      BY DEF Init
    <3> QED
      BY <2>2, <3>1 DEF SessionTypes
  <2> QED
    BY <2>3, <2>4, <2>5 DEF Types
<1>3. EventsInv
  BY DEF Init, EventsInv
<1>4. MappingInv
  BY DEF Init, MappingInv, MappingIsCurrent
<1> QED
  BY <1>2, <1>3, <1>4 DEF Inv

LEMMA InvStep == Inv /\ [Next]_vars => Inv'
BY TypesStep, EventsStep, MappingStep DEF Inv

(* A mapping that is the current one is longest.                             *)
LEMMA CurrentIsLongest == Inv => MappingIsLongest
<1> SUFFICES ASSUME Inv, loaded, ~dirty, ~stale,
                    DivideIntoLines(source) # <<>>, DivideIntoLines(text) # <<>>
             PROVE  IsLongest(mapping, DivideIntoLines(source), DivideIntoLines(text))
  BY DEF MappingIsLongest
<1>1. mapping = Update(source, text)
  BY DEF Inv, MappingInv, MappingIsCurrent
<1>2. /\ source \in Seq(Contents) \ {<<>>} /\ text \in Seq(Contents) \ {<<>>}
      /\ Len(source) <= MaxLines /\ Len(text) <= MaxLines
  BY DEF Inv, MappingInv, Types, DocumentTypes, SessionTypes, Texts
<1> DEFINE X == DivideIntoLines(source)
           Y == DivideIntoLines(text)
<1>3. X \in Seq(Contents) \ {<<>>} /\ Len(X) <= Len(source)
  BY <1>2, ContentsAssumption, DividedLines
<1>4. Y \in Seq(Contents) \ {<<>>} /\ Len(Y) <= Len(text)
  BY <1>2, ContentsAssumption, DividedLines
<1>5. mapping = Diff(X, Y)
  BY <1>1 DEF Update
<1> HIDE DEF X, Y
<1>6. Len(X) < InvalidLine /\ Len(Y) < InvalidLine
  <2>1. /\ Len(X) \in Nat /\ Len(Y) \in Nat /\ Len(source) \in Nat /\ Len(text) \in Nat
        /\ MaxLines \in Nat
    BY <1>2, <1>3, <1>4, BoundAssumption
  <2> QED
    BY <1>2, <1>3, <1>4, <2>1, LinesAssumption DEF InvalidLine
<1> QED
  BY <1>3, <1>4, <1>5, <1>6, DiffIsLongest DEF X, Y

(* The types of everything: the list stays a list of lines, every line of    *)
(* the text has its count of markers, and no command or event is ill formed, *)
(* whatever the tables look up and however the lists are moved.              *)
THEOREM EditedFileTypes == Spec => []TypeOK
<1>1. Inv => TypeOK
  BY DEF Inv, Types, MappingInv, DocumentTypes, FlagTypes, SessionTypes, TypeOK, Texts, Tables,
         Commands, Events
<1> QED
  BY InitHolds, InvStep, <1>1, PTL DEF Spec

(* A mapping the window looks a line up in is that of the script the program *)
(* runs and the text the user sees, unless the text came without an event or *)
(* the script was mapped to a file the editor does not show: no edit, event  *)
(* or session in between can leave an older mapping unmarked.                *)
THEOREM LookupsUseCurrentMapping == Spec => []MappingIsCurrent
<1>1. Inv => MappingIsCurrent
  BY DEF Inv, MappingInv
<1> QED
  BY InitHolds, InvStep, <1>1, PTL DEF Spec

(* ... and it is a longest one (LineMapper::Diff): it keeps equal lines in   *)
(* their order, its two tables are inverse, and no other choice of lines the *)
(* script and the text share is larger.                                      *)
THEOREM LookupsUseLongestMapping == Spec => []MappingIsLongest
<1> QED
  BY InitHolds, InvStep, CurrentIsLongest, PTL DEF Spec

-----------------------------------------------------------------------------
(* The markers and the list.                                                 *)

(* As long as nothing merged no line carries two markers either: this is     *)
(* what the next change needs to keep them together.                         *)
MarkersInv == ~merged => ~Doubled(markers) /\ MarkersMatchBreakpoints

(* Entries that go where others come from.                                   *)
LEMMA MovedOccurrences ==
  ASSUME NEW b \in Seq(Nat), NEW m, DOMAIN m = DOMAIN b, NEW l
  PROVE  /\ \A k : (\A i \in DOMAIN b : m[i] = l <=> b[i] = k)
                      => Occurrences(m, l) = Occurrences(b, k)
         /\ (\A i \in DOMAIN b : m[i] # l) => Occurrences(m, l) = 0
<1>1. ASSUME NEW k, \A i \in DOMAIN b : m[i] = l <=> b[i] = k
      PROVE  Occurrences(m, l) = Occurrences(b, k)
  <2>1. {i \in DOMAIN m : m[i] = l} = {i \in DOMAIN b : b[i] = k}
    BY <1>1
  <2> QED
    BY <2>1 DEF Occurrences
<1>2. ASSUME \A i \in DOMAIN b : m[i] # l PROVE Occurrences(m, l) = 0
  <2>1. {i \in DOMAIN m : m[i] = l} = {}
    BY <1>2
  <2> QED
    BY <2>1, FS_EmptySet DEF Occurrences
<1> QED
  BY <1>1, <1>2

LEMMA DownFacts ==
  ASSUME NEW line \in Nat, NEW k \in Nat \ {0}, NEW l \in Nat, NEW atStart \in BOOLEAN,
         NEW b \in Nat
  PROVE  LET d == Down(line, k, atStart, b)
         IN  /\ l < line => (d = l <=> b = l)
             /\ l = line /\ atStart => d # l
             /\ l = line /\ ~atStart => (d = l <=> b = l)
             /\ l > line /\ l < line + k => d # l
             /\ l = line + k /\ atStart => (d = l <=> b = line)
             /\ l = line + k /\ ~atStart => d # l
             /\ l > line + k => (d = l <=> b = l - k)
<1>1. CASE b > line \/ (atStart /\ b >= line)
  <2>1. Down(line, k, atStart, b) = b + k /\ b >= line /\ (~atStart => b > line)
    BY <1>1 DEF Down
  <2> QED
    BY <2>1
<1>2. CASE ~(b > line \/ (atStart /\ b >= line))
  <2>1. Down(line, k, atStart, b) = b /\ b <= line /\ (atStart => b < line)
    BY <1>2 DEF Down
  <2> QED
    BY <2>1
<1> QED
  BY <1>1, <1>2

LEMMA InsertKeepsMarks ==
  ASSUME Types, MarkersInv, NEW line \in DOMAIN text, NEW lines \in Pastes,
         NEW atStart \in BOOLEAN, Inserts(line, lines, atStart)
  PROVE  MarkersInv'
<1> SUFFICES ASSUME ~merged' PROVE ~Doubled(markers') /\ MarkersMatchBreakpoints'
  BY DEF MarkersInv
<1>0. /\ text \in Texts /\ markers \in [DOMAIN text -> Nat] /\ breakpoints \in Seq(Nat)
      /\ Len(text) \in Nat /\ DOMAIN text = 1 .. Len(text) /\ line \in 1 .. Len(text)
      /\ \A i \in DOMAIN breakpoints : breakpoints[i] \in Nat
  BY TextFacts, ElementOfSeq DEF Types, DocumentTypes
<1> DEFINE k == Len(lines)
<1>1. /\ k \in Nat \ {0}
      /\ text' \in Texts /\ Len(text') = Len(text) + k /\ DOMAIN text' = 1 .. Len(text) + k
      /\ markers' = MarkersAfterInsert(line, k, atStart)
      /\ breakpoints' = ShiftDown(line, k, atStart)
      /\ ~merged /\ ~Doubled(markers')
  <2>1. /\ k \in Nat \ {0}
        /\ text' \in Texts /\ Len(text') = Len(text) + k
        /\ markers' = MarkersAfterInsert(line, k, atStart)
        /\ breakpoints' = ShiftDown(line, k, atStart)
        /\ merged' = (merged \/ Doubled(markers'))
    BY <1>0, InsertFacts
  <2>2. DOMAIN text' = 1 .. Len(text')
    BY <2>1, TextFacts
  <2> QED
    BY <2>1, <2>2
<1> HIDE DEF k
<1>2. /\ DOMAIN breakpoints' = DOMAIN breakpoints
      /\ \A i \in DOMAIN breakpoints : breakpoints'[i] = Down(line, k, atStart, breakpoints[i])
  BY <1>0, <1>1, InsertMarksType
<1>3. \A l \in DOMAIN text : /\ markers[l] = Occurrences(breakpoints, l)
                             /\ markers[l] \in Nat /\ markers[l] <= 1
  BY <1>0, <1>1 DEF MarkersInv, MarkersMatchBreakpoints, Doubled
<1>4. markers[line] = IF markers[line] > 0 THEN 1 ELSE 0
  BY <1>0, <1>3
<1> DEFINE moves == IF atStart /\ markers[line] > 0 THEN 1 ELSE 0
<1>5. \A l \in 1 .. Len(text) + k :
        markers'[l] = IF l < line THEN markers[l]
                      ELSE IF l = line THEN markers[l] - moves
                      ELSE IF l = line + k /\ k > 0 THEN moves
                      ELSE IF l < line + k THEN 0
                      ELSE markers[l - k]
  BY <1>1 DEF MarkersAfterInsert
<1>6. moves = IF atStart THEN markers[line] ELSE 0
  BY <1>4
<1> HIDE DEF moves
<1>7. ASSUME NEW l \in 1 .. Len(text) + k
      PROVE  markers'[l] = Occurrences(breakpoints', l)
  <2>0. /\ line \in Nat /\ l \in Nat /\ k \in Nat \ {0} /\ l >= 1 /\ l <= Len(text) + k
        /\ line <= Len(text) /\ 1 <= line /\ Len(text) \in Nat
    BY <1>0, <1>1
  <2>d. \A i \in DOMAIN breakpoints :
          /\ l < line => (breakpoints'[i] = l <=> breakpoints[i] = l)
          /\ l = line /\ atStart => breakpoints'[i] # l
          /\ l = line /\ ~atStart => (breakpoints'[i] = l <=> breakpoints[i] = l)
          /\ l > line /\ l < line + k => breakpoints'[i] # l
          /\ l = line + k /\ atStart => (breakpoints'[i] = l <=> breakpoints[i] = line)
          /\ l = line + k /\ ~atStart => breakpoints'[i] # l
          /\ l > line + k => (breakpoints'[i] = l <=> breakpoints[i] = l - k)
    BY <1>0, <1>2, <2>0, DownFacts, SMTT(30)
  <2>m. /\ l < line => markers'[l] = markers[l]
        /\ l = line => markers'[l] = markers[l] - moves
        /\ l = line + k => markers'[l] = moves
        /\ l > line /\ l < line + k => markers'[l] = 0
        /\ l > line + k => markers'[l] = markers[l - k]
    BY <1>5, <2>0
  <2> DEFINE b2 == breakpoints'
             f == l - k
  <2>c. /\ DOMAIN b2 = DOMAIN breakpoints
        /\ \A n : (\A i \in DOMAIN breakpoints : b2[i] = l <=> breakpoints[i] = n)
                     => Occurrences(b2, l) = Occurrences(breakpoints, n)
        /\ (\A i \in DOMAIN breakpoints : b2[i] # l) => Occurrences(b2, l) = 0
    BY <1>0, <1>2, MovedOccurrences
  <2>p. markers[line] \in Nat /\ (l <= Len(text) => l \in DOMAIN text)
        /\ (l > line + k => f \in DOMAIN text)
    BY <1>0, <1>3, <2>0
  <2> HIDE DEF f
  <2>1. CASE l < line
    <3>1. l \in DOMAIN text
      BY <2>0, <2>p, <2>1
    <3> QED
      BY <1>3, <2>c, <2>d, <2>m, <2>1, <3>1
  <2>2. CASE l = line /\ atStart
    <3>1. markers'[l] = 0
      BY <1>6, <2>m, <2>p, <2>2
    <3> QED
      BY <2>c, <2>d, <2>2, <3>1
  <2>3. CASE l = line /\ ~atStart
    <3>1. markers'[l] = markers[l]
      BY <1>6, <2>m, <2>p, <2>3
    <3> QED
      BY <1>3, <2>c, <2>d, <2>3, <3>1
  <2>4. CASE l > line /\ l < line + k
    BY <2>c, <2>d, <2>m, <2>4
  <2>5. CASE l = line + k /\ atStart
    BY <1>3, <1>6, <2>c, <2>d, <2>m, <2>5
  <2>6. CASE l = line + k /\ ~atStart
    BY <1>6, <2>c, <2>d, <2>m, <2>6
  <2>7. CASE l > line + k
    <3>1. \A i \in DOMAIN breakpoints : b2[i] = l <=> breakpoints[i] = f
      BY <2>d, <2>7 DEF f
    <3>2. Occurrences(b2, l) = Occurrences(breakpoints, f)
      BY <2>c, <3>1
    <3>3. markers'[l] = markers[f]
      BY <2>m, <2>7 DEF f
    <3> QED
      BY <1>3, <2>p, <2>7, <3>2, <3>3
  <2>8. \/ l < line \/ l = line \/ (l > line /\ l < line + k) \/ l = line + k \/ l > line + k
    BY <2>0
  <2> QED
    BY <2>1, <2>2, <2>3, <2>4, <2>5, <2>6, <2>7, <2>8
<1> QED
  BY <1>1, <1>7 DEF MarkersMatchBreakpoints

LEMMA UpFacts ==
  ASSUME NEW line \in Nat, NEW removed \in Nat, NEW l \in Nat, NEW b \in Nat
  PROVE  LET u == Up(line, removed, b)
         IN  /\ l < line => (u = l <=> b = l)
             /\ l > line => (u = l <=> b = l + removed)
             /\ u = line <=> b \in line .. line + removed
<1>1. CASE b >= line + removed
  <2>1. Up(line, removed, b) = b - removed
    BY <1>1 DEF Up
  <2> QED
    BY <1>1, <2>1
<1>2. CASE b < line + removed /\ b >= line
  <2>1. Up(line, removed, b) = line
    BY <1>2 DEF Up
  <2> QED
    BY <1>2, <2>1
<1>3. CASE b < line
  <2>1. Up(line, removed, b) = b
    BY <1>3 DEF Up
  <2> QED
    BY <1>3, <2>1
<1> QED
  BY <1>1, <1>2, <1>3

(* As long as the lines that become one have no more than one marker between *)
(* them, nothing is dropped from the list.                                   *)
LEMMA JoinedBreakpoints ==
  ASSUME Types, \A l \in DOMAIN text : markers[l] = Occurrences(breakpoints, l),
         NEW line \in DOMAIN text, NEW removed \in Nat, line + removed <= Len(text),
         Cardinality(Joined(line, removed)) <= 1
  PROVE  LET A == {i \in DOMAIN breakpoints : breakpoints[i] \in line .. line + removed}
         IN  /\ Stay(line, removed) = DOMAIN breakpoints
             /\ IsFiniteSet(A)
             /\ Cardinality(A) = Cardinality(Joined(line, removed))
<1> DEFINE A == {i \in DOMAIN breakpoints : breakpoints[i] \in line .. line + removed}
           J == Joined(line, removed)
<1>0. /\ text \in Texts /\ markers \in [DOMAIN text -> Nat] /\ breakpoints \in Seq(Nat)
      /\ Len(text) \in Nat /\ DOMAIN text = 1 .. Len(text) /\ line \in 1 .. Len(text)
      /\ \A i \in DOMAIN breakpoints : breakpoints[i] \in Nat
      /\ DOMAIN breakpoints = 1 .. Len(breakpoints) /\ Len(breakpoints) \in Nat
  BY TextFacts, ElementOfSeq DEF Types, DocumentTypes
<1>1. /\ IsFiniteSet(J) /\ Cardinality(J) \in Nat
      /\ \A k \in line .. line + removed : \A m \in 1 .. markers[k] : <<k, m>> \in J
      /\ \A e \in J : \E k \in line .. line + removed : markers[k] >= 1
  BY <1>0, JoinedMarks
<1> HIDE DEF J
<1>2. /\ \A x \in J, y \in J : x = y
      /\ Cardinality(J) = 0 <=> J = {}
  BY <1>1, AtMostOne DEF J
<1>3. \A k \in line .. line + removed :
        k \in DOMAIN text /\ markers[k] \in Nat /\ markers[k] = Occurrences(breakpoints, k)
  <2>1. \A k \in line .. line + removed : k \in DOMAIN text
    BY <1>0
  <2> QED
    BY <1>0, <2>1
<1>4. \A k \in line .. line + removed : markers[k] <= 1
  <2> SUFFICES ASSUME NEW k \in line .. line + removed, markers[k] > 1 PROVE FALSE
    BY <1>3
  <2>1. 1 \in 1 .. markers[k] /\ 2 \in 1 .. markers[k]
    BY <1>3
  <2>2. <<k, 1>> = <<k, 2>>
    BY <1>1, <1>2, <2>1
  <2> QED
    BY <2>2
<1>5. ASSUME NEW i \in A, NEW j \in A PROVE i = j
  <2> DEFINE k == breakpoints[i]
             n == breakpoints[j]
  <2>0. i \in DOMAIN breakpoints /\ j \in DOMAIN breakpoints
        /\ k \in line .. line + removed /\ n \in line .. line + removed
    OBVIOUS
  <2>1. Contains(breakpoints, k) /\ Contains(breakpoints, n)
    BY <1>0 DEF Contains
  <2>2. ASSUME NEW l \in line .. line + removed, Contains(breakpoints, l)
        PROVE  <<l, 1>> \in J
    <3>1. markers[l] # 0 /\ markers[l] \in Nat
      BY <1>0, <1>3, <2>2, Counted
    <3>2. 1 \in 1 .. markers[l]
      BY <3>1
    <3> QED
      BY <1>1, <3>2
  <2>3. <<k, 1>> \in J /\ <<n, 1>> \in J
    BY <2>0, <2>1, <2>2
  <2>4. k = n
    BY <1>2, <2>3
  <2>5. Occurrences(breakpoints, k) <= 1
    BY <1>3, <1>4, <2>0
  <2> QED
    BY <1>0, <2>0, <2>4, <2>5, Counted
<1>6. Stay(line, removed) = DOMAIN breakpoints
  <2>1. ASSUME NEW i \in DOMAIN breakpoints,
               breakpoints[i] \in line .. line + removed - 1,
               NEW k \in 1 .. i - 1, breakpoints[k] \in line .. line + removed - 1
        PROVE  FALSE
    <3>1. k \in DOMAIN breakpoints /\ k # i
      BY <1>0
    <3>2. \A b \in line .. line + removed - 1 : b \in line .. line + removed
      BY <1>0
    <3>3. i \in A /\ k \in A
      BY <2>1, <3>1, <3>2
    <3> QED
      BY <1>5, <3>1, <3>3
  <2> QED
    BY <2>1 DEF Stay
<1>7. IsFiniteSet(A)
  <2>1. IsFiniteSet(1 .. Len(breakpoints)) /\ A \in SUBSET (1 .. Len(breakpoints))
    BY <1>0, FS_Interval
  <2> QED
    BY <2>1, FS_Subset
<1>8. A = {} <=> J = {}
  <2>1. ASSUME NEW i \in A PROVE J # {}
    <3> DEFINE k == breakpoints[i]
    <3>1. k \in line .. line + removed /\ Contains(breakpoints, k)
      BY <1>0 DEF Contains
    <3>2. markers[k] # 0 /\ markers[k] \in Nat
      BY <1>0, <1>3, <3>1, Counted
    <3>3. 1 \in 1 .. markers[k]
      BY <3>2
    <3> QED
      BY <1>1, <3>1, <3>3
  <2>2. ASSUME NEW e \in J PROVE A # {}
    <3>1. PICK k \in line .. line + removed : markers[k] >= 1
      BY <1>1
    <3>2. Occurrences(breakpoints, k) # 0
      BY <1>3, <3>1
    <3>3. Contains(breakpoints, k)
      BY <1>0, <3>2, Counted
    <3>4. \E i \in DOMAIN breakpoints : breakpoints[i] = k
      BY <1>0, <3>3 DEF Contains
    <3> QED
      BY <3>4
  <2> QED
    BY <2>1, <2>2
<1>9. Cardinality(A) = Cardinality(J)
  <2> HIDE DEF A
  <2>1. /\ Cardinality(A) \in Nat /\ (Cardinality(A) = 0 <=> A = {})
        /\ Cardinality(A) <= 1
    BY <1>5, <1>7, AtMostOne
  <2> QED
    BY <1>1, <1>2, <1>8, <2>1 DEF J
<1> QED
  BY <1>6, <1>7, <1>9 DEF J

LEMMA PickedCount ==
  ASSUME NEW V, NEW s \in Seq(V), NEW S \in SUBSET DOMAIN s, NEW l
  PROVE  Occurrences(LinesAt(s, S), l) = Cardinality({i \in S : s[i] = l})
<1>1. /\ Occurrences(LinesAt(s, S), l)
           = Cardinality(Places(LinesAt(s, S), DOMAIN LinesAt(s, S), l))
      /\ Cardinality({i \in S : s[i] = l}) = Cardinality(Places(s, S, l))
  BY DEF Occurrences, Places
<1> QED
  BY <1>1, PickedOccurrences

LEMMA DeleteKeepsMarks ==
  ASSUME Types, MarkersInv, NEW line \in DOMAIN text, NEW removed \in 1 .. Len(text) - 1,
         DeleteLines(line, removed)
  PROVE  MarkersInv'
<1> SUFFICES ASSUME ~merged' PROVE ~Doubled(markers') /\ MarkersMatchBreakpoints'
  BY DEF MarkersInv
<1>0. /\ text \in Texts /\ markers \in [DOMAIN text -> Nat] /\ breakpoints \in Seq(Nat)
      /\ Len(text) \in Nat /\ DOMAIN text = 1 .. Len(text) /\ line \in 1 .. Len(text)
      /\ removed \in Nat
      /\ \A i \in DOMAIN breakpoints : breakpoints[i] \in Nat
  BY TextFacts, ElementOfSeq DEF Types, DocumentTypes
<1>1. /\ line + removed <= Len(text)
      /\ text' \in Texts /\ Len(text') = Len(text) - removed
      /\ markers' = MarkersAfterDelete(line, removed)
      /\ breakpoints' = ShiftUp(line, removed)
      /\ ~merged /\ ~Doubled(markers')
  BY <1>0, DeleteFacts
<1>2. DOMAIN text' = 1 .. Len(text) - removed
  BY <1>1, TextFacts
<1>3. \A l \in DOMAIN text : markers[l] = Occurrences(breakpoints, l)
  BY <1>1 DEF MarkersInv, MarkersMatchBreakpoints
<1> DEFINE J == Joined(line, removed)
           A == {i \in DOMAIN breakpoints : breakpoints[i] \in line .. line + removed}
           moved == [i \in DOMAIN breakpoints |-> Up(line, removed, breakpoints[i])]
<1>4. \A l \in 1 .. Len(text) - removed :
        markers'[l] = IF l < line THEN markers[l]
                      ELSE IF l > line THEN markers[l + removed]
                      ELSE Cardinality(J)
  BY <1>1 DEF MarkersAfterDelete, Joined
<1>5. line \in 1 .. Len(text) - removed
  BY <1>0, <1>1
<1>6. Cardinality(J) \in Nat
  BY <1>0, <1>1, JoinedMarks
<1>7. DOMAIN markers' = 1 .. Len(text) - removed
  BY <1>1 DEF MarkersAfterDelete
<1> HIDE DEF J, A, moved
<1>8. markers'[line] = Cardinality(J)
  BY <1>0, <1>4, <1>5
<1>9. Cardinality(J) <= 1
  BY <1>1, <1>5, <1>6, <1>7, <1>8 DEF Doubled
<1>10. Stay(line, removed) = DOMAIN breakpoints /\ Cardinality(A) = Cardinality(J)
  BY <1>0, <1>1, <1>3, <1>9, JoinedBreakpoints DEF J, A
<1>11. /\ moved \in Seq(Nat) /\ DOMAIN moved = DOMAIN breakpoints
       /\ breakpoints' = LinesAt(moved, DOMAIN moved)
  <2>1. line \in Nat
    BY <1>0
  <2> QED
    BY <1>0, <1>1, <1>10, <2>1, ShiftUpLines DEF moved
<1>12. \A i \in DOMAIN breakpoints : moved[i] = Up(line, removed, breakpoints[i])
  BY DEF moved
<1>13. ASSUME NEW l
       PROVE  Occurrences(breakpoints', l) = Occurrences(moved, l)
  <2>1. DOMAIN moved \in SUBSET DOMAIN moved
    OBVIOUS
  <2> DEFINE S == DOMAIN moved
  <2> HIDE DEF S
  <2>2. S \in SUBSET DOMAIN moved /\ breakpoints' = LinesAt(moved, S)
    BY <1>11, <2>1 DEF S
  <2>3. Occurrences(LinesAt(moved, S), l) = Cardinality({i \in S : moved[i] = l})
    BY <1>11, <2>2, PickedCount
  <2> QED
    BY <2>2, <2>3 DEF Occurrences, S
<1>14. ASSUME NEW l \in 1 .. Len(text) - removed
       PROVE  markers'[l] = Occurrences(breakpoints', l)
  <2>0. /\ line \in Nat /\ l \in Nat /\ l >= 1 /\ l <= Len(text) - removed
        /\ line <= Len(text) /\ 1 <= line
    BY <1>0, <1>1
  <2>d. \A i \in DOMAIN breakpoints :
          /\ l < line => (moved[i] = l <=> breakpoints[i] = l)
          /\ l > line => (moved[i] = l <=> breakpoints[i] = l + removed)
          /\ moved[i] = line <=> breakpoints[i] \in line .. line + removed
    <3> SUFFICES ASSUME NEW i \in DOMAIN breakpoints
                 PROVE  /\ l < line => (moved[i] = l <=> breakpoints[i] = l)
                        /\ l > line => (moved[i] = l <=> breakpoints[i] = l + removed)
                        /\ moved[i] = line <=> breakpoints[i] \in line .. line + removed
      OBVIOUS
    <3>1. breakpoints[i] \in Nat /\ moved[i] = Up(line, removed, breakpoints[i])
      BY <1>0, <1>12
    <3>2. line \in Nat /\ removed \in Nat /\ l \in Nat
      BY <1>0, <2>0
    <3> DEFINE b == breakpoints[i]
    <3> HIDE DEF b
    <3>3. b \in Nat /\ moved[i] = Up(line, removed, b)
      BY <3>1 DEF b
    <3>4. /\ l < line => (Up(line, removed, b) = l <=> b = l)
          /\ l > line => (Up(line, removed, b) = l <=> b = l + removed)
          /\ Up(line, removed, b) = line <=> b \in line .. line + removed
      BY <3>2, <3>3, UpFacts
    <3> QED
      BY <3>3, <3>4 DEF b
  <2> DEFINE f == l + removed
  <2>c. \A n : (\A i \in DOMAIN breakpoints : moved[i] = l <=> breakpoints[i] = n)
                 => Occurrences(moved, l) = Occurrences(breakpoints, n)
    BY <1>0, <1>11, MovedOccurrences
  <2>p. l \in DOMAIN text /\ (l > line => f \in DOMAIN text)
    BY <1>0, <2>0
  <2> HIDE DEF f
  <2>1. CASE l < line
    BY <1>3, <1>4, <1>13, <2>c, <2>d, <2>p, <2>1
  <2>2. CASE l > line
    <3>1. \A i \in DOMAIN breakpoints : moved[i] = l <=> breakpoints[i] = f
      BY <2>d, <2>2 DEF f
    <3>2. Occurrences(moved, l) = Occurrences(breakpoints, f)
      BY <2>c, <3>1
    <3>3. markers'[l] = markers[f]
      BY <1>4, <2>0, <2>2 DEF f
    <3> QED
      BY <1>3, <1>13, <2>p, <2>2, <3>2, <3>3
  <2>3. CASE l = line
    <3>1. {i \in DOMAIN moved : moved[i] = l} = A
      BY <1>11, <2>d, <2>3 DEF A
    <3>2. Occurrences(moved, l) = Cardinality(A)
      BY <3>1 DEF Occurrences
    <3> QED
      BY <1>8, <1>10, <1>13, <2>3, <3>2
  <2> QED
    BY <2>0, <2>1, <2>2, <2>3
<1> QED
  BY <1>1, <1>2, <1>14 DEF MarkersMatchBreakpoints

(* A click or an answer: one entry and one marker more, or one fewer.        *)
LEMMA ListedMarks ==
  ASSUME Types, \A l \in DOMAIN text : markers[l] = Occurrences(breakpoints, l),
         NEW line \in Nat, NEW set \in BOOLEAN, ~Doubled(Mark(line, set))
  PROVE  \A l \in DOMAIN text : Mark(line, set)[l] = Occurrences(Listed(breakpoints, line, set), l)
<1>0. markers \in [DOMAIN text -> Nat] /\ breakpoints \in Seq(Nat)
  BY DEF Types, DocumentTypes
<1> SUFFICES ASSUME NEW l \in DOMAIN text
             PROVE  Mark(line, set)[l] = Occurrences(Listed(breakpoints, line, set), l)
  OBVIOUS
<1>1. /\ markers[l] \in Nat /\ markers[l] = Occurrences(breakpoints, l)
      /\ Occurrences(breakpoints, l) = 0 <=> ~Contains(breakpoints, l)
  BY <1>0, Counted
<1>2. /\ Occurrences(Append(breakpoints, line), l)
           = Occurrences(breakpoints, l) + (IF l = line THEN 1 ELSE 0)
      /\ Occurrences(RemoveFirst(breakpoints, line), l)
           = Occurrences(breakpoints, l) - (IF l = line /\ Contains(breakpoints, line) THEN 1 ELSE 0)
  BY <1>0, ListedOccurrences
<1>3. CASE line \notin DOMAIN text
  <2>1. Mark(line, set)[l] = markers[l]
    BY <1>0, <1>3 DEF Mark
  <2>2. l # line
    BY <1>3
  <2>3. Occurrences(Listed(breakpoints, line, set), l) = Occurrences(breakpoints, l)
    BY <1>1, <1>2, <2>2 DEF Listed
  <2> QED
    BY <1>1, <2>1, <2>3
<1>4. CASE line \in DOMAIN text /\ l # line
  <2>1. Mark(line, set)[l] = markers[l]
    BY <1>0, <1>4 DEF Mark
  <2>2. Occurrences(Listed(breakpoints, line, set), l) = Occurrences(breakpoints, l)
    BY <1>1, <1>2, <1>4 DEF Listed
  <2> QED
    BY <1>1, <2>1, <2>2
<1>5. CASE l = line /\ set
  <2>1. Mark(line, set)[l] = markers[l] + 1 /\ l \in DOMAIN Mark(line, set)
    BY <1>0, <1>5 DEF Mark
  <2>2. ~(markers[l] + 1 > 1)
    BY <2>1 DEF Doubled
  <2>3. Occurrences(breakpoints, l) = 0
    BY <1>1, <2>2
  <2>4. Listed(breakpoints, line, set) = Append(breakpoints, line)
    BY <1>1, <1>5, <2>3 DEF Listed
  <2> QED
    BY <1>1, <1>2, <1>5, <2>1, <2>4
<1>6. CASE l = line /\ ~set
  <2>1. Mark(line, set)[l] = IF markers[l] = 0 THEN 0 ELSE markers[l] - 1
    BY <1>0, <1>6 DEF Mark
  <2>2. Listed(breakpoints, line, set) = RemoveFirst(breakpoints, line)
    BY <1>6 DEF Listed
  <2> QED
    BY <1>1, <1>2, <1>6, <2>1, <2>2
<1> QED
  BY <1>3, <1>4, <1>5, <1>6

LEMMA MarkersStep == Inv /\ MarkersInv /\ [Next]_vars => MarkersInv'
<1> SUFFICES ASSUME Inv, MarkersInv, [Next]_vars PROVE MarkersInv'
  OBVIOUS
<1>0. /\ Types /\ MappingInv /\ text \in Texts /\ disk \in Texts
      /\ markers \in [DOMAIN text -> Nat] /\ breakpoints \in Seq(Nat)
      /\ DOMAIN text = 1 .. Len(text) /\ Len(text) \in Nat
      /\ events \in Seq(Events)
  BY TextFacts DEF Inv, Types, DocumentTypes, SessionTypes
<1>1. ASSUME text' = text, markers' = markers, breakpoints' = breakpoints,
             merged' = merged
      PROVE  MarkersInv'
  BY <1>1 DEF MarkersInv, MarkersMatchBreakpoints, Doubled, Occurrences
<1>2. ASSUME DOMAIN text' = DOMAIN text, merged' = merged, breakpoints' = <<>>,
             markers' = Unmarked
      PROVE  MarkersInv'
  <2>1. \A l : Occurrences(<<>>, l) = 0
    <3>1. \A l : {i \in DOMAIN <<>> : <<>>[i] = l} = {}
      OBVIOUS
    <3> QED
      BY <3>1, FS_EmptySet DEF Occurrences
  <2>2. ~merged => \A l \in DOMAIN text : markers'[l] = 0
    BY <1>0, <1>2, UnmarkedType DEF MarkersInv, MarkersMatchBreakpoints
  <2>3. markers' \in [DOMAIN text -> Nat]
    BY <1>0, <1>2, UnmarkedType
  <2> QED
    BY <1>2, <2>1, <2>2, <2>3 DEF MarkersInv, MarkersMatchBreakpoints, Doubled
<1>3. ASSUME NEW line \in Nat, NEW set \in BOOLEAN, text' = text,
             breakpoints' = Listed(breakpoints, line, set), markers' = Mark(line, set),
             merged' = (merged \/ Doubled(markers'))
      PROVE  MarkersInv'
  <2> SUFFICES ASSUME ~merged' PROVE ~Doubled(markers') /\ MarkersMatchBreakpoints'
    BY DEF MarkersInv
  <2>1. ~merged /\ ~Doubled(Mark(line, set))
    BY <1>3
  <2>2. \A l \in DOMAIN text : markers[l] = Occurrences(breakpoints, l)
    BY <2>1 DEF MarkersInv, MarkersMatchBreakpoints
  <2>3. \A l \in DOMAIN text : markers'[l] = Occurrences(breakpoints', l)
    BY <1>0, <1>3, <2>1, <2>2, ListedMarks
  <2> QED
    BY <1>3, <2>1, <2>3 DEF MarkersMatchBreakpoints
<1>4. CASE Editing
  <2>1. ASSUME NEW line \in DOMAIN text, NEW contents \in Typed, ChangeLine(line, contents)
        PROVE  MarkersInv'
    <3>1. /\ DOMAIN text' = DOMAIN text /\ markers' = markers /\ breakpoints' = breakpoints
          /\ merged' = (merged \/ Doubled(markers))
      BY <1>0, <2>1, ChangeFacts
    <3> QED
      BY <3>1 DEF MarkersInv, MarkersMatchBreakpoints, Doubled, Occurrences
  <2>2. CASE DeleteAll
    BY <1>0, <2>2, DeleteAllFacts DEF MarkersInv
  <2> QED
    BY <1>0, <1>4, <2>1, <2>2, EditingCases, InsertKeepsMarks, DeleteKeepsMarks
<1>5. CASE Save \/ OtherWrites \/ KeepText \/ UNCHANGED vars
  BY <1>1, <1>5 DEF Save, OtherWrites, KeepText, documentVars, vars
<1>6. CASE Reload
  <2> DEFINE S == {i \in DOMAIN breakpoints : breakpoints[i] <= Len(disk)}
  <2>1. /\ text' = disk /\ breakpoints' = LinesAt(breakpoints, S)
        /\ markers' = [l \in DOMAIN disk |-> Occurrences(breakpoints, l)]
        /\ merged' = Doubled(markers')
    BY <1>6 DEF Reload
  <2>2. ASSUME NEW l \in DOMAIN disk PROVE Occurrences(breakpoints', l) = Occurrences(breakpoints, l)
    <3>1. l \in Nat /\ l <= Len(disk)
      BY <1>0, TextFacts
    <3>2. {i \in S : breakpoints[i] = l} = {i \in DOMAIN breakpoints : breakpoints[i] = l}
      BY <3>1
    <3>3. S \in SUBSET DOMAIN breakpoints
      OBVIOUS
    <3> HIDE DEF S
    <3>4. Occurrences(LinesAt(breakpoints, S), l) = Cardinality({i \in S : breakpoints[i] = l})
      BY <1>0, <3>3, PickedCount
    <3> QED
      BY <2>1, <3>2, <3>4 DEF Occurrences
  <2> QED
    BY <2>1, <2>2 DEF MarkersInv, MarkersMatchBreakpoints
<1>7. ASSUME NEW line \in DOMAIN text, ToggleInBackend(line) PROVE MarkersInv'
  BY <1>1, <1>7 DEF ToggleInBackend
<1>8. ASSUME NEW line \in DOMAIN text, ToggleLocally(line) PROVE MarkersInv'
  <2> DEFINE set == ~Contains(breakpoints, line)
  <2>1. /\ line \in Nat /\ set \in BOOLEAN /\ text' = text
        /\ breakpoints' = Listed(breakpoints, line, set) /\ markers' = Mark(line, set)
        /\ merged' = (merged \/ Doubled(markers'))
    BY <1>0, <1>8 DEF ToggleLocally
  <2> HIDE DEF set
  <2> QED
    BY <1>3, <2>1
<1>9. CASE DeleteAllBreakpoints
  BY <1>2, <1>9 DEF DeleteAllBreakpoints
<1>10. ASSUME NEW saves \in BOOLEAN, StartSession(saves) PROVE MarkersInv'
  BY <1>1, <1>10 DEF StartSession
<1>11. CASE OnLoadScript
  BY <1>2, <1>11 DEF OnLoadScript
<1>12. CASE OnSetBreakpoint
  <2> DEFINE line == OldToNewLine(Head(events).line)
             set  == Head(events).set
  <2>1. /\ NextEvent("SetBreakpoint") /\ breakpoints' = Listed(breakpoints, line, set)
        /\ markers' = Mark(line, set) /\ text' = text
        /\ merged' = (merged \/ Doubled(markers'))
    BY <1>12 DEF OnSetBreakpoint
  <2>2. Head(events) \in Events /\ Head(events).id = "SetBreakpoint"
    BY <1>0, <2>1, NextEventFacts
  <2>3. Head(events).line \in Nat /\ set \in BOOLEAN
    BY <2>2, MessagesType
  <2>4. line \in Nat
    BY <1>0, <2>3, LookupsType
  <2> HIDE DEF line, set
  <2> QED
    BY <1>3, <2>1, <2>3, <2>4
<1>13. CASE OnSessionEnd \/ ProgramLoads \/ BackendToggles \/ BackendRemovesAll \/ ProgramEnds
  BY <1>1, <1>13 DEF OnSessionEnd, ProgramLoads, BackendToggles, BackendRemovesAll, ProgramEnds,
     documentVars
<1> QED
  BY <1>4, <1>5, <1>6, <1>7, <1>8, <1>9, <1>10, <1>11, <1>12, <1>13 DEF Next

LEMMA MarkersHold == Init => MarkersInv
<1> SUFFICES ASSUME Init PROVE MarkersInv
  OBVIOUS
<1>1. breakpoints = <<>> /\ markers = [l \in DOMAIN FirstText |-> 0] /\ text = FirstText
  BY DEF Init
<1>2. \A l : {i \in DOMAIN <<>> : <<>>[i] = l} = {}
  OBVIOUS
<1>3. \A l : Occurrences(<<>>, l) = 0
  BY <1>2, FS_EmptySet DEF Occurrences
<1> QED
  BY <1>1, <1>3 DEF MarkersInv, MarkersMatchBreakpoints, Doubled

(* OnCodeEditModified "to keep things in sync": the markers that move with   *)
(* the text and the list that is moved by hand stay on the same lines, for   *)
(* every order of edits, clicks, answers and files read again, as long as no *)
(* line had to carry two markers and they were not thrown away with the text.*)
THEOREM MarkersFollowTheList == Spec => []MarkersMatchBreakpoints
<1>1. Inv /\ MarkersInv /\ [Next]_vars => (Inv /\ MarkersInv)'
  BY InvStep, MarkersStep
<1>2. Inv /\ MarkersInv => MarkersMatchBreakpoints
  BY DEF MarkersInv, MarkersMatchBreakpoints
<1> QED
  BY InitHolds, MarkersHold, <1>1, <1>2, PTL DEF Spec

-----------------------------------------------------------------------------
(* The breakpoints and their lines.                                          *)

(* The entries outside the removed lines are moved with their lines, and if  *)
(* there was one on the lines that become one, there still is.               *)
LEMMA ShiftedUp ==
  ASSUME breakpoints \in Seq(Nat), NEW line \in Nat, NEW removed \in Nat,
         NEW l \in Nat, Contains(breakpoints, l)
  PROVE  Contains(ShiftUp(line, removed), Up(line, removed, l))
<1> DEFINE moved == [i \in DOMAIN breakpoints |-> Up(line, removed, breakpoints[i])]
           S == Stay(line, removed)
           r == ShiftUp(line, removed)
           Inside(i) == breakpoints[i] \in line .. line + removed - 1
<1>0. /\ \A i \in DOMAIN breakpoints : breakpoints[i] \in Nat
      /\ DOMAIN breakpoints = 1 .. Len(breakpoints) /\ Len(breakpoints) \in Nat
  BY ElementOfSeq
<1>1. /\ moved \in Seq(Nat) /\ DOMAIN moved = DOMAIN breakpoints
      /\ r = LinesAt(moved, S) /\ S \in SUBSET DOMAIN moved /\ r \in Seq(Nat)
  BY ShiftUpLines
<1>2. \A i \in DOMAIN breakpoints : moved[i] = Up(line, removed, breakpoints[i])
  OBVIOUS
<1> HIDE DEF moved
<1>3. ASSUME NEW i \in S PROVE Contains(r, moved[i])
  <2>1. Rank(S, i) \in DOMAIN r /\ r[Rank(S, i)] = moved[i]
    <3> HIDE DEF r, S
    <3>1. /\ Rank(S, i) \in DOMAIN LinesAt(moved, S)
          /\ LinesAt(moved, S)[Rank(S, i)] = moved[i]
      BY <1>1, PickedLines
    <3> QED
      BY <1>1, <3>1
  <2>2. DOMAIN r = 1 .. Len(r)
    BY <1>1
  <2> HIDE DEF r
  <2> QED
    BY <2>1, <2>2 DEF Contains
<1>4. PICK j \in DOMAIN breakpoints : breakpoints[j] = l
  BY <1>0 DEF Contains
<1>5. CASE ~Inside(j)
  <2>1. j \in S
    BY <1>5 DEF Stay
  <2> QED
    BY <1>2, <1>3, <1>4, <2>1
<1>6. CASE Inside(j)
  <2> DEFINE I == {i \in DOMAIN breakpoints : Inside(i)}
  <2>1. j \in I /\ I \subseteq Nat
    BY <1>0, <1>6
  <2>2. PICK n \in I : \A k \in I : n =< k
    <3> HIDE DEF I
    <3> QED
      BY <2>1, LeastNumber
  <2>3. \A k \in 1 .. n - 1 : ~Inside(k)
    <3> SUFFICES ASSUME NEW k \in 1 .. n - 1, Inside(k) PROVE FALSE
      OBVIOUS
    <3>1. k \in I /\ ~(n =< k)
      BY <1>0, <2>2
    <3> QED
      BY <2>2, <3>1
  <2>4. n \in S
    BY <2>2, <2>3 DEF Stay
  <2>5. Contains(r, moved[n])
    BY <1>3, <2>4
  <2>6. \A b \in line .. line + removed - 1 : Up(line, removed, b) = line
    BY DEF Up
  <2>7. moved[n] = line /\ Up(line, removed, l) = line
    BY <1>2, <1>4, <1>6, <2>2, <2>6
  <2> QED
    BY <2>5, <2>7
<1> QED
  BY <1>5, <1>6

(* A line that is the only one of its contents is in one place.              *)
LEMMA OnlyLine ==
  ASSUME NEW t \in Seq(Contents), NEW c, Occurrences(t, c) = 1,
         NEW i \in DOMAIN t, NEW j \in DOMAIN t, t[i] = c, t[j] = c
  PROVE  i = j
<1>1. Occurrences(t, c) <= 1
  OBVIOUS
<1> QED
  BY <1>1, Counted

LEMMA EditsFollow ==
  ASSUME Types, Editing
  PROVE  FollowsItsLine
<1>0. /\ text \in Texts /\ text \in Seq(Contents) /\ breakpoints \in Seq(Nat)
      /\ Len(text) \in Nat \ {0} /\ DOMAIN text = 1 .. Len(text)
      /\ markers \in [DOMAIN text -> Nat]
  BY TextFacts DEF Types, DocumentTypes
<1>1. /\ text' \in Seq(Contents) /\ DOMAIN text' = 1 .. Len(text') /\ Len(text') \in Nat
  <2>1. text' \in Texts
    BY EditedTypes DEF Types, DocumentTypes
  <2> QED
    BY <2>1, TextFacts
<1> SUFFICES ASSUME NEW l \in DOMAIN text, NEW m \in DOMAIN text', text[l] = text'[m],
                    Occurrences(text, text[l]) = 1, Occurrences(text', text[l]) = 1,
                    Contains(breakpoints, l)
             PROVE  Contains(breakpoints', m)
  BY DEF FollowsItsLine
<1>2. /\ \A i \in DOMAIN text : text[i] = text[l] => i = l
      /\ \A i \in DOMAIN text' : text'[i] = text[l] => i = m
  BY <1>0, <1>1, OnlyLine
<1>3. ASSUME NEW line \in DOMAIN text, NEW lines \in Pastes, NEW atStart \in BOOLEAN,
             Inserts(line, lines, atStart)
      PROVE  Contains(breakpoints', m)
  <2> DEFINE d == Down(line, Len(lines), atStart, l)
  <2>1. d \in DOMAIN text' /\ text'[d] = text[l]
    BY <1>0, <1>3, InsertFacts
  <2>2. m = d
    BY <1>2, <2>1
  <2>3. Len(lines) \in Nat /\ breakpoints' = ShiftDown(line, Len(lines), atStart)
    BY <1>0, <1>3, InsertFacts
  <2>4. /\ DOMAIN breakpoints' = DOMAIN breakpoints /\ breakpoints' \in Seq(Nat)
        /\ \A i \in DOMAIN breakpoints :
             breakpoints'[i] = Down(line, Len(lines), atStart, breakpoints[i])
    BY <1>0, <2>3, InsertMarksType
  <2>5. PICK i \in DOMAIN breakpoints : breakpoints[i] = l
    BY <1>0 DEF Contains
  <2>6. breakpoints'[i] = d /\ i \in 1 .. Len(breakpoints')
    BY <2>4, <2>5
  <2> QED
    BY <2>2, <2>6 DEF Contains
<1>4. ASSUME NEW line \in DOMAIN text, NEW removed \in 1 .. Len(text) - 1,
             DeleteLines(line, removed)
      PROVE  Contains(breakpoints', m)
  <2>0. line \in 1 .. Len(text) /\ removed \in Nat /\ l \in 1 .. Len(text)
    BY <1>0
  <2>1. /\ line + removed <= Len(text)
        /\ Len(text') = Len(text) - removed
        /\ \A i \in 1 .. line - 1 : text'[i] = text[i]
        /\ \A i \in line + removed + 1 .. Len(text) : text'[i - removed] = text[i]
        /\ breakpoints' = ShiftUp(line, removed)
    BY <1>0, <1>4, DeleteFacts
  <2>2. Contains(breakpoints', Up(line, removed, l))
    BY <1>0, <2>0, <2>1, ShiftedUp
  <2>3. m = Up(line, removed, l)
    <3>1. CASE l < line
      <4>1. l \in DOMAIN text' /\ text'[l] = text[l] /\ Up(line, removed, l) = l
        BY <1>1, <2>0, <2>1, <3>1 DEF Up
      <4> QED
        BY <1>2, <4>1
    <3>2. CASE l > line + removed
      <4>1. /\ l - removed \in DOMAIN text' /\ text'[l - removed] = text[l]
            /\ Up(line, removed, l) = l - removed
        BY <1>1, <2>0, <2>1, <3>2, SMTT(30) DEF Up
      <4> QED
        BY <1>2, <4>1
    <3>3. CASE l \in line .. line + removed
      <4>1. Up(line, removed, l) = line
        BY <2>0, <3>3 DEF Up
      <4>2. m \in 1 .. Len(text) - removed
        BY <1>1, <2>1
      <4>3. CASE m < line
        <5>1. m \in 1 .. line - 1 /\ m \in DOMAIN text /\ m # l
          BY <1>0, <2>0, <2>1, <3>3, <4>2, <4>3
        <5>2. text[m] = text[l]
          BY <2>1, <5>1
        <5> QED
          BY <1>2, <5>1, <5>2
      <4>4. CASE m > line
        <5> DEFINE f == m + removed
        <5>1. f \in line + removed + 1 .. Len(text) /\ f \in DOMAIN text /\ f # l
              /\ f - removed = m
          BY <1>0, <2>0, <2>1, <3>3, <4>2, <4>4, SMTT(30)
        <5> HIDE DEF f
        <5>2. text[f] = text[l]
          BY <2>1, <5>1
        <5> QED
          BY <1>2, <5>1, <5>2
      <4>5. m = line \/ m < line \/ m > line
        BY <2>0, <4>2
      <4> QED
        BY <4>1, <4>3, <4>4, <4>5
    <3>4. l < line \/ l > line + removed \/ l \in line .. line + removed
      BY <2>0
    <3> QED
      BY <3>1, <3>2, <3>3, <3>4
  <2> QED
    BY <2>2, <2>3
<1>5. ASSUME NEW line \in DOMAIN text, NEW contents \in Typed, ChangeLine(line, contents)
      PROVE  Contains(breakpoints', m)
  <2>1. /\ DOMAIN text' = DOMAIN text /\ text' = [text EXCEPT ![line] = contents]
        /\ breakpoints' = breakpoints /\ contents # text[line]
    BY <1>0, <1>5, ChangeFacts DEF ChangeLine
  <2>2. m = l
    <3>1. CASE l # line
      BY <1>2, <2>1, <3>1
    <3>2. CASE l = line
      <4>1. m # line
        BY <2>1, <3>2
      <4>2. text[m] = text[l] /\ m \in DOMAIN text
        BY <2>1, <4>1
      <4> QED
        BY <1>2, <4>2
    <3> QED
      BY <3>1, <3>2
  <2> QED
    BY <2>1, <2>2
<1>6. CASE DeleteAll
  <2>1. DOMAIN text' = {1} /\ breakpoints' = ShiftUp(1, Len(text) - 1)
    BY <1>0, <1>6, DeleteAllFacts
  <2>2. m = 1 /\ l \in 1 .. Len(text) /\ Len(text) - 1 \in Nat /\ 1 \in Nat
    BY <1>0, <2>1
  <2> DEFINE removed == Len(text) - 1
  <2>3. Up(1, removed, l) = 1
    BY <1>0, <2>2 DEF Up
  <2>4. removed \in Nat /\ breakpoints' = ShiftUp(1, removed) /\ l \in Nat
    BY <2>1, <2>2
  <2> HIDE DEF removed
  <2>5. Contains(ShiftUp(1, removed), Up(1, removed, l))
    BY <1>0, <2>4, ShiftedUp
  <2> QED
    BY <2>2, <2>3, <2>4, <2>5
<1> QED
  BY <1>3, <1>4, <1>5, <1>6, EditingCases

(* OnCodeEditModified: a line that is the only one of its contents before    *)
(* and after an edit keeps its breakpoint, whatever is inserted or cut       *)
(* before it, behind it or around it, and however many were on lines that    *)
(* became one.                                                               *)
THEOREM EditsKeepBreakpoints == Spec => BreakpointsFollowTheirLines
<1>1. Inv /\ [Next]_vars => [Editing => FollowsItsLine]_vars
  BY EditsFollow DEF Inv
<1> QED
  BY InitHolds, InvStep, <1>1, PTL DEF Spec, BreakpointsFollowTheirLines

-----------------------------------------------------------------------------
(* What the backend holds.                                                   *)

(* A line of the script whose line in the text comes from it.                *)
Proper(M, x) == x # InvalidLine /\ GetOldLine(M, GetNewLine(M, x)) = x

(* The listed lines are listed once, and the ones the script has are where   *)
(* their old lines are.                                                      *)
ListIsProper(M, list) ==
  /\ \A y : Occurrences(list, y) <= 1
  /\ \A y \in Nat : (Contains(list, y) /\ GetOldLine(M, y) # InvalidLine)
                      => GetNewLine(M, GetOldLine(M, y)) = y

Comes(M, x, list) == \E y \in Nat : Contains(list, y) /\ GetOldLine(M, y) = x

LastFor(x, i, evs) ==
  evs[i].line = x /\ \A k \in DOMAIN evs : k > i => evs[k].line # x

(* A line is held as the last answer on its way says, or as it is listed.    *)
Answered(M, list, held, evs) ==
  \A x \in Nat \ {InvalidLine} :
    /\ \A i \in DOMAIN evs : LastFor(x, i, evs) => (evs[i].set <=> x \in held)
    /\ (\A i \in DOMAIN evs : evs[i].line # x) => (x \in held <=> Comes(M, x, list))

(* Where everything is to be removed first, nothing is listed that the       *)
(* script has, and no answer is on its way.                                  *)
Synced(M, list, held, cmds, evs) ==
  /\ ListIsProper(M, list)
  /\ InvalidLine \notin held
  /\ \A i \in DOMAIN cmds : cmds[i].id = "Toggle" => Proper(M, cmds[i].line)
  /\ \A i \in DOMAIN evs : Proper(M, evs[i].line)
  /\ \A i \in DOMAIN cmds : cmds[i].id = "RemoveAll" =>
       /\ evs = <<>>
       /\ \A y \in Nat : Contains(list, y) => GetOldLine(M, y) = InvalidLine
       /\ \A k \in 1 .. i : cmds[k].id = "RemoveAll"
  /\ (\A i \in DOMAIN cmds : cmds[i].id # "RemoveAll") => Answered(M, list, held, evs)

(* The sessions: a script is there until its session ends, and before it is  *)
(* loaded nothing is asked for but to remove everything.                     *)
SessionInv ==
  /\ ~running => backend = {}
  /\ (~running /\ source # NoSource) => \E i \in DOMAIN events : events[i].id = "SessionEnd"
  /\ (running /\ ~loaded) =>
       /\ backend = {}
       /\ \A i \in DOMAIN commands : commands[i].id = "RemoveAll"
       /\ \A i \in DOMAIN events : events[i].id = "LoadScript" /\ i = 1
  /\ (running /\ loaded) =>
       /\ \A i \in DOMAIN events : events[i].id = "SetBreakpoint"
       /\ ~apart => ~stale

SyncedInv ==
  (loaded /\ running /\ ~apart /\ DivideIntoLines(text) # <<>>) =>
    Synced(Update(source, text), breakpoints, backend, commands, events)

LEMMA ListedMembers ==
  ASSUME NEW list \in Seq(Nat), NEW line \in Nat, NEW set \in BOOLEAN,
         \A y : Occurrences(list, y) <= 1
  PROVE  LET r == Listed(list, line, set)
         IN  /\ \A y : Occurrences(r, y) <= 1
             /\ \A y : Contains(r, y) <=> IF y = line THEN set ELSE Contains(list, y)
<1> DEFINE r == Listed(list, line, set)
<1>1. r \in Seq(Nat)
  BY ListedType
<1>2. \A y : /\ Occurrences(list, y) \in Nat
             /\ Occurrences(list, y) = 0 <=> ~Contains(list, y)
  BY Counted
<1>3. \A y : Occurrences(r, y) = IF y = line THEN IF set THEN 1 ELSE 0 ELSE Occurrences(list, y)
  <2> SUFFICES ASSUME NEW y
               PROVE  Occurrences(r, y) = IF y = line THEN IF set THEN 1 ELSE 0
                                                      ELSE Occurrences(list, y)
    OBVIOUS
  <2>1. /\ Occurrences(Append(list, line), y) = Occurrences(list, y) + (IF y = line THEN 1 ELSE 0)
        /\ Occurrences(RemoveFirst(list, line), y)
             = Occurrences(list, y) - (IF y = line /\ Contains(list, line) THEN 1 ELSE 0)
    BY ListedOccurrences
  <2>2. CASE set /\ Contains(list, line)
    <3>1. r = list
      BY <2>2 DEF Listed
    <3>2. Occurrences(list, line) = 1
      BY <1>2, <2>2
    <3> QED
      BY <2>2, <3>1, <3>2
  <2>3. CASE set /\ ~Contains(list, line)
    <3>1. r = Append(list, line)
      BY <2>3 DEF Listed
    <3>2. Occurrences(list, line) = 0 /\ Occurrences(list, y) \in Nat
      BY <1>2, <2>3
    <3> HIDE DEF r
    <3> QED
      BY <2>1, <2>3, <3>1, <3>2
  <2>4. CASE ~set
    <3>1. r = RemoveFirst(list, line)
      BY <2>4 DEF Listed
    <3>2. Occurrences(list, line) \in Nat /\ Occurrences(list, y) \in Nat
          /\ Occurrences(list, line) <= 1
          /\ (Occurrences(list, line) = 0 <=> ~Contains(list, line))
      BY <1>2
    <3> HIDE DEF r
    <3> QED
      BY <2>1, <2>4, <3>1, <3>2
  <2> QED
    BY <2>2, <2>3, <2>4
<1> HIDE DEF r
<1>4. \A y : Occurrences(r, y) = 0 <=> ~Contains(r, y)
  BY <1>1, Counted
<1>5. \A y : Occurrences(r, y) <= 1
  BY <1>3
<1>6. \A y : Contains(r, y) <=> IF y = line THEN set ELSE Contains(list, y)
  <2> SUFFICES ASSUME NEW y
               PROVE  Contains(r, y) <=> IF y = line THEN set ELSE Contains(list, y)
    OBVIOUS
  <2>1. CASE y = line
    BY <1>3, <1>4, <2>1
  <2>2. CASE y # line
    BY <1>2, <1>3, <1>4, <2>2
  <2> QED
    BY <2>1, <2>2
<1> QED
  BY <1>5, <1>6 DEF r

LEMMA EmptyList ==
  ASSUME NEW M
  PROVE  /\ ListIsProper(M, <<>>)
         /\ \A y : ~Contains(<<>>, y)
         /\ \A x : ~Comes(M, x, <<>>)
<1>1. \A y : ~Contains(<<>>, y)
  BY DEF Contains
<1>2. \A y : Occurrences(<<>>, y) = 0
  <2>1. \A y : {i \in DOMAIN <<>> : <<>>[i] = y} = {}
    OBVIOUS
  <2> QED
    BY <2>1, FS_EmptySet DEF Occurrences
<1> QED
  BY <1>1, <1>2 DEF ListIsProper, Comes

(* The mapping of a script and a text with lines takes an old line it gives  *)
(* back to where it came from.                                               *)
LEMMA OldLinesAreProper ==
  ASSUME Types, source # NoSource, DivideIntoLines(text) # <<>>, NEW l \in Nat,
         GetOldLine(Update(source, text), l) # InvalidLine
  PROVE  Proper(Update(source, text), GetOldLine(Update(source, text), l))
<1> DEFINE X == DivideIntoLines(source)
           Y == DivideIntoLines(text)
           M == Diff(X, Y)
           x == GetOldLine(M, l)
<1>1. /\ source \in Seq(Contents) \ {<<>>} /\ text \in Seq(Contents) \ {<<>>}
      /\ Len(source) <= MaxLines /\ Len(text) <= MaxLines
  BY DEF Types, DocumentTypes, SessionTypes, Texts
<1>2. X \in Seq(Contents) /\ Len(X) <= Len(source)
  BY <1>1, ContentsAssumption, DividedLines
<1>3. Y \in Seq(Contents) \ {<<>>} /\ Len(Y) <= Len(text)
  BY <1>1, ContentsAssumption, DividedLines
<1>4. Update(source, text) = M
  BY DEF Update
<1>m. x # InvalidLine
  BY <1>4
<1> HIDE DEF X, Y
<1>5. Len(X) < InvalidLine /\ Len(Y) < InvalidLine
  <2>1. /\ Len(X) \in Nat /\ Len(Y) \in Nat /\ Len(source) \in Nat /\ Len(text) \in Nat
        /\ MaxLines \in Nat
    BY <1>1, <1>2, <1>3, BoundAssumption
  <2> QED
    BY <1>1, <1>2, <1>3, <2>1, LinesAssumption DEF InvalidLine
<1>6. /\ DOMAIN M.oldToNew = DOMAIN X /\ DOMAIN M.newToOld = DOMAIN Y
      /\ M.newToOld \in Seq(Nat) /\ M.oldToNew \in Seq(Nat)
  BY <1>2, <1>3, DiffType
<1>7. DOMAIN Y = 1 .. Len(Y) /\ Len(Y) \in Nat /\ Len(Y) # 0
  BY <1>3, EmptySeq
<1>8. PICK j \in DOMAIN Y : x = M.newToOld[j]
  <2>1. Len(M.newToOld) = Len(Y) /\ M.newToOld # <<>>
    BY <1>6, <1>7
  <2>2. Len(Y) \in DOMAIN Y
    BY <1>7
  <2> HIDE DEF M
  <2> QED
    BY <1>6, <2>1, <2>2 DEF GetOldLine, Lookup
<1>9. CASE X = <<>>
  <2>1. M.oldToNew = <<>> /\ M.newToOld = [k \in DOMAIN Y |-> 1]
    <3>1. M = [oldToNew |-> [i \in DOMAIN X |-> 1], newToOld |-> [k \in DOMAIN Y |-> 1]]
      BY <1>9 DEF Diff
    <3>2. DOMAIN X = {}
      BY <1>9
    <3> HIDE DEF M
    <3>3. DOMAIN M.oldToNew = {}
      BY <1>6, <3>2
    <3>4. M.oldToNew = <<>>
      <4>1. DOMAIN M.oldToNew = 1 .. Len(M.oldToNew) /\ Len(M.oldToNew) \in Nat
        BY <1>6
      <4>2. Len(M.oldToNew) # 0 => 1 \in DOMAIN M.oldToNew
        BY <4>1
      <4>3. Len(M.oldToNew) = 0
        BY <3>3, <4>2
      <4> QED
        BY <1>6, <4>3, EmptySeq
    <3> QED
      BY <3>1, <3>4
  <2>2. x = 1 /\ 1 \in DOMAIN Y
    BY <1>7, <1>8, <2>1
  <2>3. GetNewLine(M, 1) = 1 /\ GetOldLine(M, 1) = 1
    <3> HIDE DEF M
    <3> QED
      BY <1>6, <2>1, <2>2 DEF GetNewLine, GetOldLine, Lookup
  <2> HIDE DEF M, x
  <2> QED
    BY <1>4, <1>m, <2>2, <2>3 DEF Proper, x
<1>10. CASE X # <<>>
  <2>1. IsLongest(M, X, Y)
    BY <1>2, <1>3, <1>5, <1>10, DiffIsLongest
  <2> HIDE DEF M
  <2>2. x \in Kept(M)
    BY <1>8, <1>m, <2>1 DEF IsLongest
  <2>3. /\ x \in DOMAIN M.oldToNew /\ M.oldToNew[x] \in DOMAIN Y
        /\ M.newToOld[M.oldToNew[x]] = x
    BY <2>1, <2>2 DEF IsLongest, Kept
  <2> HIDE DEF x
  <2>4. GetNewLine(M, x) = M.oldToNew[x]
    BY <2>3 DEF GetNewLine, Lookup
  <2>5. GetOldLine(M, GetNewLine(M, x)) = x
    BY <1>6, <2>3, <2>4 DEF GetOldLine, Lookup
  <2> QED
    BY <1>4, <1>m, <2>5 DEF Proper, x
<1> QED
  BY <1>9, <1>10

(* The steps of the window and of the backend on a list, what is held, and   *)
(* the two channels.                                                         *)

LEMMA SyncedSends ==
  ASSUME NEW M, NEW list, NEW held, NEW cmds \in Seq(Commands), NEW evs,
         Synced(M, list, held, cmds, evs), NEW x \in Nat, Proper(M, x)
  PROVE  Synced(M, list, held, cmds \o <<Toggle(x)>>, evs)
<1> DEFINE n == Len(cmds)
           new == cmds \o <<Toggle(x)>>
<1>1. /\ n \in Nat /\ DOMAIN cmds = 1 .. n /\ DOMAIN new = 1 .. n + 1
      /\ \A i \in 1 .. n : new[i] = cmds[i]
      /\ new[n + 1] = Toggle(x)
  <2>1. <<Toggle(x)>> \in Seq(Commands) /\ Len(<<Toggle(x)>>) = 1 /\ <<Toggle(x)>>[1] = Toggle(x)
    BY MessagesType
  <2>2. /\ new \in Seq(Commands) /\ Len(new) = n + 1
        /\ \A i \in 1 .. n + 1 : new[i] = IF i <= n THEN cmds[i] ELSE <<Toggle(x)>>[i - n]
    <3> DEFINE t == <<Toggle(x)>>
    <3>1. t \in Seq(Commands) /\ Len(t) = 1
      BY <2>1
    <3> HIDE DEF t
    <3>2. /\ cmds \o t \in Seq(Commands) /\ Len(cmds \o t) = Len(cmds) + Len(t)
          /\ \A i \in 1 .. Len(cmds) + Len(t) :
               (cmds \o t)[i] = IF i <= Len(cmds) THEN cmds[i] ELSE t[i - Len(cmds)]
      BY <3>1, ConcatProperties
    <3> QED
      BY <3>1, <3>2 DEF t
  <2>3. n \in Nat /\ DOMAIN cmds = 1 .. n
    OBVIOUS
  <2>4. DOMAIN new = 1 .. n + 1
    BY <2>2
  <2> HIDE DEF new, n
  <2>5. \A i \in 1 .. n : new[i] = cmds[i]
    BY <2>2, <2>3
  <2>6. n + 1 \in 1 .. n + 1 /\ ~(n + 1 <= n) /\ (n + 1) - n = 1
    BY <2>3
  <2>7. new[n + 1] = Toggle(x)
    BY <2>1, <2>2, <2>6
  <2> QED
    BY <2>3, <2>4, <2>5, <2>7
<1> HIDE DEF n, new
<1>2. \A i \in 1 .. n + 1 : i \in 1 .. n \/ i = n + 1
  BY <1>1
<1>3. Toggle(x).id = "Toggle" /\ Toggle(x).line = x
  BY MessagesType
<1>4. \A i \in DOMAIN new : new[i].id = "RemoveAll" =>
        i \in 1 .. n /\ new[i] = cmds[i]
  BY <1>1, <1>2, <1>3
<1>5. \A i \in DOMAIN new : new[i].id = "RemoveAll" =>
        /\ evs = <<>>
        /\ \A y \in Nat : Contains(list, y) => GetOldLine(M, y) = InvalidLine
        /\ \A k \in 1 .. i : new[k].id = "RemoveAll"
  <2> SUFFICES ASSUME NEW i \in DOMAIN new, new[i].id = "RemoveAll"
               PROVE  /\ evs = <<>>
                      /\ \A y \in Nat : Contains(list, y) => GetOldLine(M, y) = InvalidLine
                      /\ \A k \in 1 .. i : new[k].id = "RemoveAll"
    OBVIOUS
  <2>1. i \in DOMAIN cmds /\ cmds[i].id = "RemoveAll"
    BY <1>1, <1>4
  <2>2. \A k \in 1 .. i : k \in 1 .. n
    BY <1>1, <2>1
  <2> QED
    BY <1>1, <2>1, <2>2 DEF Synced
<1>6. \A i \in DOMAIN new : new[i].id = "Toggle" => Proper(M, new[i].line)
  BY <1>1, <1>2, <1>3 DEF Synced
<1>7. (\A i \in DOMAIN new : new[i].id # "RemoveAll")
        => \A i \in DOMAIN cmds : cmds[i].id # "RemoveAll"
  <2>1. \A i \in 1 .. n : i \in 1 .. n + 1
    BY <1>1
  <2> QED
    BY <1>1, <2>1
<1>8. Synced(M, list, held, new, evs)
  BY <1>5, <1>6, <1>7 DEF Synced
<1> QED
  BY <1>8 DEF new

LEMMA SyncedLocally ==
  ASSUME NEW M, NEW list \in Seq(Nat), NEW held, NEW cmds, NEW evs,
         Synced(M, list, held, cmds, evs), NEW line \in Nat, NEW set \in BOOLEAN,
         GetOldLine(M, line) = InvalidLine
  PROVE  Synced(M, Listed(list, line, set), held, cmds, evs)
<1> DEFINE r == Listed(list, line, set)
<1>1. /\ \A y : Occurrences(r, y) <= 1
      /\ \A y : Contains(r, y) <=> IF y = line THEN set ELSE Contains(list, y)
  BY ListedMembers DEF Synced, ListIsProper
<1> HIDE DEF r
<1>2. ListIsProper(M, r)
  BY <1>1 DEF Synced, ListIsProper
<1>3. \A x \in Nat \ {InvalidLine} : Comes(M, x, r) <=> Comes(M, x, list)
  BY <1>1 DEF Comes
<1>4. Answered(M, list, held, evs) => Answered(M, r, held, evs)
  BY <1>3 DEF Answered
<1>5. ASSUME \A y \in Nat : Contains(list, y) => GetOldLine(M, y) = InvalidLine
      PROVE  \A y \in Nat : Contains(r, y) => GetOldLine(M, y) = InvalidLine
  BY <1>1, <1>5
<1>6. Synced(M, r, held, cmds, evs)
  BY <1>2, <1>4, <1>5 DEF Synced
<1> QED
  BY <1>6 DEF r

LEMMA SyncedAnswer ==
  ASSUME NEW M, NEW list \in Seq(Nat), NEW held, NEW cmds, NEW evs \in Seq(Events),
         Synced(M, list, held, cmds, evs), evs # <<>>,
         \A i \in DOMAIN evs : evs[i].id = "SetBreakpoint",
         GetNewLine(M, Head(evs).line) \in Nat
  PROVE  Synced(M, Listed(list, GetNewLine(M, Head(evs).line), Head(evs).set), held, cmds, Tail(evs))
<1> DEFINE e == Head(evs)
           x0 == e.line
           line == GetNewLine(M, x0)
           set == e.set
           r == Listed(list, line, set)
           rest == Tail(evs)
           n == Len(evs)
<1>1. /\ n \in Nat \ {0} /\ DOMAIN evs = 1 .. n /\ DOMAIN rest = 1 .. n - 1
      /\ e = evs[1] /\ e \in Events
      /\ \A i \in 1 .. n - 1 : rest[i] = evs[i + 1]
  BY Tailed
<1> HIDE DEF e, rest, n
<1>2. 1 \in DOMAIN evs /\ e.id = "SetBreakpoint"
  BY <1>1
<1>3. x0 \in Nat /\ set \in BOOLEAN /\ line \in Nat
  BY <1>1, <1>2, MessagesType DEF e
<1>4. x0 # InvalidLine /\ GetOldLine(M, line) = x0
  BY <1>1, <1>2 DEF Synced, Proper
<1>5. /\ x0 = evs[1].line /\ set = evs[1].set
      /\ line = GetNewLine(M, x0)
  BY <1>1
<1> HIDE DEF x0, set, line
<1>6. \A i \in DOMAIN cmds : cmds[i].id # "RemoveAll"
  BY DEF Synced
<1>7. Answered(M, list, held, evs) /\ ListIsProper(M, list)
  BY <1>6 DEF Synced
<1>8. /\ \A y : Occurrences(r, y) <= 1
      /\ \A y : Contains(r, y) <=> IF y = line THEN set ELSE Contains(list, y)
  BY <1>3, <1>7, ListedMembers DEF ListIsProper
<1> HIDE DEF r
<1>9. ListIsProper(M, r)
  <2>1. ASSUME NEW y \in Nat, Contains(r, y), GetOldLine(M, y) # InvalidLine
        PROVE  GetNewLine(M, GetOldLine(M, y)) = y
    <3>1. CASE y = line
      BY <1>4, <1>5, <3>1
    <3>2. CASE y # line
      BY <1>7, <1>8, <2>1, <3>2 DEF ListIsProper
    <3> QED
      BY <3>1, <3>2
  <2> QED
    BY <1>8, <2>1 DEF ListIsProper
<1>10. \A i \in DOMAIN rest : i + 1 \in DOMAIN evs /\ rest[i] = evs[i + 1] /\ i \in Nat
  BY <1>1
<1>11. \A k \in DOMAIN evs : k # 1 => k - 1 \in DOMAIN rest /\ evs[k] = rest[k - 1]
  <2> SUFFICES ASSUME NEW k \in DOMAIN evs, k # 1
               PROVE  k - 1 \in DOMAIN rest /\ evs[k] = rest[k - 1]
    OBVIOUS
  <2>1. k - 1 \in 1 .. n - 1 /\ (k - 1) + 1 = k
    BY <1>1
  <2> QED
    BY <1>1, <2>1
<1>12. ASSUME NEW x \in Nat \ {InvalidLine}, NEW i \in DOMAIN rest, LastFor(x, i, rest)
       PROVE  rest[i].set <=> x \in held
  <2>1. i + 1 \in DOMAIN evs /\ rest[i] = evs[i + 1] /\ i \in Nat
    BY <1>10
  <2>2. ASSUME NEW k \in DOMAIN evs, k > i + 1 PROVE evs[k].line # x
    <3>1. k \in Nat /\ k # 1
      BY <1>1, <2>1, <2>2
    <3>2. k - 1 \in DOMAIN rest /\ evs[k] = rest[k - 1] /\ k - 1 > i
      BY <1>11, <2>1, <2>2, <3>1
    <3> QED
      BY <1>12, <3>2 DEF LastFor
  <2>3. LastFor(x, i + 1, evs)
    BY <1>12, <2>1, <2>2 DEF LastFor
  <2> QED
    BY <1>7, <2>1, <2>3 DEF Answered
<1>13. ASSUME NEW x \in Nat \ {InvalidLine}, \A i \in DOMAIN rest : rest[i].line # x
       PROVE  x \in held <=> Comes(M, x, r)
  <2>1. CASE x # x0
    <3>1. \A k \in DOMAIN evs : evs[k].line # x
      BY <1>5, <1>11, <1>13, <2>1
    <3>2. x \in held <=> Comes(M, x, list)
      BY <1>7, <3>1 DEF Answered
    <3>3. Comes(M, x, r) <=> Comes(M, x, list)
      BY <1>4, <1>8, <2>1 DEF Comes
    <3> QED
      BY <3>2, <3>3
  <2>2. CASE x = x0
    <3>1. LastFor(x, 1, evs)
      BY <1>5, <1>11, <1>13, <2>2 DEF LastFor
    <3>2. set <=> x \in held
      BY <1>2, <1>5, <1>7, <3>1 DEF Answered
    <3>3. set => Comes(M, x, r)
      BY <1>3, <1>4, <1>8, <2>2 DEF Comes
    <3>4. ASSUME ~set, Comes(M, x, r) PROVE FALSE
      <4>1. PICK y \in Nat : Contains(r, y) /\ GetOldLine(M, y) = x
        BY <3>4 DEF Comes
      <4>2. y # line /\ Contains(list, y)
        BY <1>8, <3>4, <4>1
      <4>3. GetNewLine(M, x) = y
        BY <1>7, <4>1, <4>2 DEF ListIsProper
      <4> QED
        BY <1>5, <2>2, <4>2, <4>3
    <3> QED
      BY <3>2, <3>3, <3>4
  <2> QED
    BY <2>1, <2>2
<1>14. Answered(M, r, held, rest)
  BY <1>12, <1>13 DEF Answered
<1>15. \A i \in DOMAIN rest : Proper(M, rest[i].line)
  BY <1>10 DEF Synced
<1>16. Synced(M, r, held, cmds, rest)
  BY <1>6, <1>9, <1>14, <1>15 DEF Synced
<1> QED
  BY <1>16 DEF r, rest, line, set, x0, e

LEMMA SyncedToggles ==
  ASSUME NEW M, NEW list, NEW held, NEW cmds \in Seq(Commands), NEW evs \in Seq(Events),
         Synced(M, list, held, cmds, evs), cmds # <<>>, NEW x0 \in Nat,
         Head(cmds).id = "Toggle", x0 = Head(cmds).line
  PROVE  Synced(M, list, SymDiff(held, {x0}), Tail(cmds),
                Append(evs, SetBreakpoint(x0, x0 \notin held)))
<1> DEFINE e == SetBreakpoint(x0, x0 \notin held)
           new == Append(evs, e)
           n == Len(evs)
           now == SymDiff(held, {x0})
           rest == Tail(cmds)
<1>1. /\ DOMAIN cmds = 1 .. Len(cmds) /\ Len(cmds) \in Nat \ {0} /\ Head(cmds) = cmds[1]
      /\ DOMAIN rest = 1 .. Len(cmds) - 1
      /\ \A i \in 1 .. Len(cmds) - 1 : rest[i] = cmds[i + 1]
  BY Tailed
<1>2. 1 \in DOMAIN cmds /\ cmds[1].id = "Toggle" /\ cmds[1].line = x0
  BY <1>1
<1>3. Proper(M, x0)
  BY <1>2 DEF Synced
<1>4. \A i \in DOMAIN cmds : cmds[i].id # "RemoveAll"
  <2> SUFFICES ASSUME NEW i \in DOMAIN cmds, cmds[i].id = "RemoveAll" PROVE FALSE
    OBVIOUS
  <2>1. 1 \in 1 .. i
    BY <1>1
  <2> QED
    BY <1>2, <2>1 DEF Synced
<1>5. Answered(M, list, held, evs)
  BY <1>4 DEF Synced
<1>6. /\ e \in Events /\ e.id = "SetBreakpoint" /\ e.line = x0 /\ e.set = (x0 \notin held)
  <2> DEFINE b == x0 \notin held
  <2>1. b \in BOOLEAN
    OBVIOUS
  <2> HIDE DEF b
  <2>2. SetBreakpoint(x0, b) \in Events
    BY <2>1, MessagesType
  <2>3. /\ SetBreakpoint(x0, b).id = "SetBreakpoint" /\ SetBreakpoint(x0, b).line = x0
        /\ SetBreakpoint(x0, b).set = b
    BY MessagesType
  <2> QED
    BY <2>2, <2>3 DEF b
<1>7. /\ n \in Nat /\ DOMAIN evs = 1 .. n /\ DOMAIN new = 1 .. n + 1
      /\ \A i \in 1 .. n : new[i] = evs[i]
      /\ new[n + 1] = e
  BY <1>6, Appended
<1>8. \A x : x \in now <=> IF x = x0 THEN x \notin held ELSE x \in held
  BY DEF SymDiff
<1> HIDE DEF e, new, n, now, rest
<1>9. \A i \in DOMAIN new : i \in Nat /\ (i = n + 1 \/ (i \in DOMAIN evs /\ i < n + 1 /\ new[i] = evs[i]))
  BY <1>7
<1>10. \A i \in DOMAIN evs : i \in DOMAIN new /\ new[i] = evs[i]
  BY <1>7
<1>11. n + 1 \in DOMAIN new
  BY <1>7
<1>12. ASSUME NEW x \in Nat \ {InvalidLine}, NEW i \in DOMAIN new, LastFor(x, i, new)
       PROVE  new[i].set <=> x \in now
  <2>1. CASE i = n + 1
    <3>1. x = x0
      BY <1>6, <1>7, <1>12, <2>1 DEF LastFor
    <3> QED
      BY <1>6, <1>7, <1>8, <2>1, <3>1
  <2>2. CASE i # n + 1
    <3>1. i \in DOMAIN evs /\ i < n + 1 /\ new[i] = evs[i]
      BY <1>9, <2>2
    <3>2. x # x0
      BY <1>6, <1>7, <1>11, <1>12, <3>1 DEF LastFor
    <3>3. LastFor(x, i, evs)
      BY <1>10, <1>12, <3>1 DEF LastFor
    <3> QED
      BY <1>5, <1>8, <3>1, <3>2, <3>3 DEF Answered
  <2> QED
    BY <2>1, <2>2
<1>13. ASSUME NEW x \in Nat \ {InvalidLine}, \A i \in DOMAIN new : new[i].line # x
       PROVE  x \in now <=> Comes(M, x, list)
  <2>1. x # x0
    BY <1>6, <1>7, <1>11, <1>13
  <2>2. \A i \in DOMAIN evs : evs[i].line # x
    BY <1>10, <1>13
  <2> QED
    BY <1>5, <1>8, <2>1, <2>2 DEF Answered
<1>14. Answered(M, list, now, new)
  BY <1>12, <1>13 DEF Answered
<1>15. \A i \in DOMAIN new : Proper(M, new[i].line)
  BY <1>3, <1>6, <1>7, <1>9 DEF Synced
<1>16. InvalidLine \notin now
  BY <1>3, <1>8 DEF Synced, Proper
<1>17. \A i \in DOMAIN rest : i + 1 \in DOMAIN cmds /\ rest[i] = cmds[i + 1]
  BY <1>1
<1>18. Synced(M, list, now, rest, new)
  BY <1>4, <1>14, <1>15, <1>16, <1>17 DEF Synced
<1> QED
  BY <1>18 DEF now, rest, new, e

LEMMA SyncedRemoves ==
  ASSUME NEW M, NEW list, NEW held, NEW cmds \in Seq(Commands), NEW evs,
         Synced(M, list, held, cmds, evs), cmds # <<>>, Head(cmds).id = "RemoveAll"
  PROVE  Synced(M, list, {}, Tail(cmds), evs)
<1> DEFINE rest == Tail(cmds)
<1>1. /\ DOMAIN cmds = 1 .. Len(cmds) /\ Len(cmds) \in Nat \ {0} /\ Head(cmds) = cmds[1]
      /\ DOMAIN rest = 1 .. Len(cmds) - 1
      /\ \A i \in 1 .. Len(cmds) - 1 : rest[i] = cmds[i + 1]
  BY Tailed
<1> HIDE DEF rest
<1>2. 1 \in DOMAIN cmds /\ cmds[1].id = "RemoveAll"
  BY <1>1
<1>3. evs = <<>> /\ \A y \in Nat : Contains(list, y) => GetOldLine(M, y) = InvalidLine
  BY <1>2 DEF Synced
<1>4. Answered(M, list, {}, evs)
  BY <1>3 DEF Answered, Comes
<1>5. \A i \in DOMAIN rest : i \in Nat /\ i + 1 \in DOMAIN cmds /\ rest[i] = cmds[i + 1]
  BY <1>1
<1>6. ASSUME NEW i \in DOMAIN rest, rest[i].id = "RemoveAll", NEW k \in 1 .. i
      PROVE  rest[k].id = "RemoveAll"
  <2>1. k + 1 \in 1 .. i + 1 /\ k \in DOMAIN rest
    BY <1>1, <1>5
  <2>2. cmds[i + 1].id = "RemoveAll" /\ i + 1 \in DOMAIN cmds
    BY <1>5, <1>6
  <2>3. cmds[k + 1].id = "RemoveAll"
    BY <2>1, <2>2 DEF Synced
  <2> QED
    BY <1>5, <2>1, <2>3
<1>7. \A i \in DOMAIN rest : rest[i].id = "Toggle" => Proper(M, rest[i].line)
  BY <1>5 DEF Synced
<1>8. ListIsProper(M, list) /\ \A i \in DOMAIN evs : Proper(M, evs[i].line)
  BY DEF Synced
<1>9. Synced(M, list, {}, rest, evs)
  BY <1>3, <1>4, <1>6, <1>7, <1>8 DEF Synced
<1> QED
  BY <1>9 DEF rest

(* Everything is deleted while no answer is on its way.                      *)
LEMMA SyncedDeletes ==
  ASSUME NEW M, NEW list, NEW held, Synced(M, list, held, <<>>, <<>>)
  PROVE  Synced(M, <<>>, held, <<RemoveAll>>, <<>>)
<1>1. DOMAIN <<RemoveAll>> = {1} /\ <<RemoveAll>>[1] = RemoveAll /\ RemoveAll.id = "RemoveAll"
  BY MessagesType
<1>2. \A i \in DOMAIN <<RemoveAll>> : <<RemoveAll>>[i].id = "RemoveAll"
  BY <1>1
<1>3. \A i \in DOMAIN <<RemoveAll>> : \A k \in 1 .. i : k \in DOMAIN <<RemoveAll>>
  BY <1>1
<1>4. 1 \in DOMAIN <<RemoveAll>>
  BY <1>1
<1> DEFINE c == <<RemoveAll>>
<1> HIDE DEF c
<1>5. /\ \A i \in DOMAIN c : c[i].id = "RemoveAll"
      /\ \A i \in DOMAIN c : \A k \in 1 .. i : k \in DOMAIN c
      /\ 1 \in DOMAIN c
  BY <1>2, <1>3, <1>4 DEF c
<1>6. Synced(M, <<>>, held, c, <<>>)
  BY <1>5, EmptyList DEF Synced
<1> QED
  BY <1>6 DEF c

(* A script is loaded: the list starts empty, behind what is to be removed   *)
(* the backend is asked for lines the mapping gave.                          *)
LEMMA SyncedStarts ==
  ASSUME NEW M, NEW cmds \in Seq(Commands), NEW sent \in Seq(Nat),
         \A i \in DOMAIN cmds : cmds[i].id = "RemoveAll",
         \A i \in DOMAIN sent : Proper(M, sent[i])
  PROVE  Synced(M, <<>>, {}, cmds \o [i \in DOMAIN sent |-> Toggle(sent[i])], <<>>)
<1> DEFINE t == [i \in DOMAIN sent |-> Toggle(sent[i])]
           new == cmds \o t
           n == Len(cmds)
<1>1. Len(sent) \in Nat /\ DOMAIN sent = 1 .. Len(sent) /\ \A i \in 1 .. Len(sent) : sent[i] \in Nat
  BY ElementOfSeq
<1>2. t \in [1 .. Len(sent) -> Commands]
  BY <1>1, MessagesType
<1>3. \A i \in 1 .. Len(sent) : t[i].id = "Toggle" /\ t[i].line = sent[i]
  BY <1>1, MessagesType
<1> HIDE DEF t
<1>4. t \in Seq(Commands) /\ Len(t) = Len(sent)
  BY <1>1, <1>2, FunctionIsSequence
<1>5. /\ new \in Seq(Commands) /\ Len(new) = n + Len(sent)
      /\ \A i \in 1 .. n + Len(sent) : new[i] = IF i <= n THEN cmds[i] ELSE t[i - n]
  <2>1. /\ cmds \o t \in Seq(Commands) /\ Len(cmds \o t) = Len(cmds) + Len(t)
        /\ \A i \in 1 .. Len(cmds) + Len(t) :
             (cmds \o t)[i] = IF i <= Len(cmds) THEN cmds[i] ELSE t[i - Len(cmds)]
    <3>1. cmds \in Seq(Commands) /\ t \in Seq(Commands)
      BY <1>4
    <3> HIDE DEF n, new
    <3> QED
      BY ONLY <3>1, ConcatProperties
  <2> QED
    BY <1>4, <2>1
<1>6. n \in Nat /\ DOMAIN cmds = 1 .. n /\ DOMAIN new = 1 .. n + Len(sent)
  BY <1>5
<1> HIDE DEF new, n
<1>7. ASSUME NEW i \in DOMAIN new
      PROVE  /\ i \in DOMAIN cmds => new[i] = cmds[i] /\ new[i].id = "RemoveAll"
             /\ i \notin DOMAIN cmds => new[i].id = "Toggle" /\ Proper(M, new[i].line)
  <2>1. CASE i <= n
    <3>1. i \in DOMAIN cmds /\ new[i] = cmds[i]
      BY <1>1, <1>5, <1>6, <2>1
    <3> QED
      BY <3>1
  <2>2. CASE i > n
    <3>1. i - n \in 1 .. Len(sent) /\ ~(i <= n) /\ i \notin DOMAIN cmds
      BY <1>1, <1>6, <2>2
    <3>2. new[i] = t[i - n]
      BY <1>5, <1>6, <3>1
    <3>3. Proper(M, sent[i - n])
      BY <1>1, <3>1
    <3> QED
      BY <1>3, <3>1, <3>2, <3>3
  <2>3. i <= n \/ i > n
    BY <1>1, <1>6
  <2> QED
    BY <2>1, <2>2, <2>3
<1>8. ASSUME NEW i \in DOMAIN new, new[i].id = "RemoveAll", NEW k \in 1 .. i
      PROVE  new[k].id = "RemoveAll"
  <2>1. i \in DOMAIN cmds
    BY <1>7, <1>8
  <2>2. k \in DOMAIN cmds /\ k \in DOMAIN new
    BY <1>1, <1>6, <2>1
  <2> QED
    BY <1>7, <2>2
<1>9. \A i \in DOMAIN new : new[i].id = "Toggle" => Proper(M, new[i].line)
  BY <1>7
<1>10. Answered(M, <<>>, {}, <<>>)
  <2>1. \A x : ~Comes(M, x, <<>>) /\ x \notin {}
    BY EmptyList
  <2>2. \A i \in DOMAIN <<>> : FALSE
    OBVIOUS
  <2> QED
    BY <2>1, <2>2 DEF Answered
<1>11. Synced(M, <<>>, {}, new, <<>>)
  BY <1>8, <1>9, <1>10, EmptyList DEF Synced
<1> QED
  BY <1>11 DEF new, t

LEMMA SessionStep == Inv /\ SessionInv /\ [Next]_vars => SessionInv'
<1> SUFFICES ASSUME Inv, SessionInv, [Next]_vars PROVE SessionInv'
  OBVIOUS
<1>0. /\ EventsInv /\ MappingInv /\ events \in Seq(Events) /\ commands \in Seq(Commands)
      /\ Len(events) \in Nat /\ DOMAIN events = 1 .. Len(events)
      /\ running \in BOOLEAN /\ loaded \in BOOLEAN /\ apart \in BOOLEAN /\ stale \in BOOLEAN
      /\ dirty \in BOOLEAN
  BY DEF Inv, Types, SessionTypes, FlagTypes
<1>1. ASSUME running' = running, loaded' = loaded, source' = source, backend' = backend,
             commands' = commands, events' = events,
             (running /\ loaded /\ ~apart') => (~apart /\ (~stale => ~stale'))
      PROVE  SessionInv'
  BY <1>0, <1>1 DEF SessionInv
<1>2. CASE Editing
  BY <1>0, <1>1, <1>2, EditsMarkTheMapping
<1>3. CASE Reload
  BY <1>0, <1>1, <1>3 DEF Reload, sessionVars, channelVars
<1>4. CASE Save \/ OtherWrites \/ KeepText \/ UNCHANGED vars
  BY <1>0, <1>1, <1>4 DEF Save, OtherWrites, KeepText, sessionVars, channelVars, vars
<1>5. ASSUME NEW line \in DOMAIN text, ToggleInBackend(line) PROVE SessionInv'
  <2>1. /\ loaded /\ running' = running /\ loaded' = loaded /\ source' = source
        /\ backend' = backend /\ events' = events /\ apart' = apart
    BY <1>5 DEF ToggleInBackend, sessionVars
  <2>2. stale' => stale
    BY <1>5 DEF ToggleInBackend
  <2>3. loaded' /\ (running' <=> running) /\ (apart' <=> apart)
    BY <2>1
  <2> QED
    BY <2>1, <2>2, <2>3 DEF SessionInv
<1>6. ASSUME NEW line \in DOMAIN text, ToggleLocally(line) PROVE SessionInv'
  BY <1>0, <1>1, <1>6 DEF ToggleLocally, sessionVars, channelVars
<1>7. CASE DeleteAllBreakpoints
  <2>1. /\ running' = running /\ loaded' = loaded /\ source' = source /\ backend' = backend
        /\ events' = events /\ stale' = stale /\ Send(<<RemoveAll>>)
        /\ ~apart' => ~apart
    BY <1>7 DEF DeleteAllBreakpoints, sessionVars
  <2>2. ASSUME \A i \in DOMAIN commands : commands[i].id = "RemoveAll"
        PROVE  \A i \in DOMAIN commands' : commands'[i].id = "RemoveAll"
    <3>1. CASE running
      <4>1. commands' = commands \o <<RemoveAll>>
        BY <2>1, <3>1 DEF Send
      <4>2. /\ <<RemoveAll>> \in Seq(Commands) /\ Len(<<RemoveAll>>) = 1
            /\ <<RemoveAll>>[1] = RemoveAll /\ RemoveAll.id = "RemoveAll"
        BY MessagesType
      <4> DEFINE t == <<RemoveAll>>
                 n == Len(commands)
      <4>3. t \in Seq(Commands) /\ Len(t) = 1 /\ t[1].id = "RemoveAll" /\ commands' = commands \o t
        BY <4>1, <4>2
      <4> HIDE DEF t
      <4>4. /\ commands \o t \in Seq(Commands) /\ Len(commands \o t) = Len(commands) + Len(t)
            /\ \A i \in 1 .. Len(commands) + Len(t) :
                 (commands \o t)[i] = IF i <= Len(commands) THEN commands[i]
                                                            ELSE t[i - Len(commands)]
        BY <1>0, <4>3, ConcatProperties
      <4>5. /\ DOMAIN commands' = 1 .. n + 1 /\ n \in Nat /\ DOMAIN commands = 1 .. n
            /\ \A i \in 1 .. n + 1 :
                 commands'[i] = IF i <= n THEN commands[i] ELSE t[i - n]
        BY <1>0, <4>3, <4>4
      <4> HIDE DEF n
      <4> SUFFICES ASSUME NEW i \in 1 .. n + 1 PROVE commands'[i].id = "RemoveAll"
        BY <4>5
      <4>6. CASE i <= n
        BY <2>2, <4>5, <4>6
      <4>7. CASE i > n
        <5>1. i - n = 1 /\ ~(i <= n)
          BY <4>5, <4>7
        <5> QED
          BY <4>3, <4>5, <5>1
      <4> QED
        BY <4>5, <4>6, <4>7
    <3>2. CASE ~running
      BY <2>1, <2>2, <3>2 DEF Send
    <3> QED
      BY <3>1, <3>2
  <2> QED
    BY <1>0, <2>1, <2>2 DEF SessionInv
<1>8. ASSUME NEW saves \in BOOLEAN, StartSession(saves) PROVE SessionInv'
  <2>1. /\ ~running /\ events = <<>> /\ running' = TRUE /\ events' = <<>> /\ commands' = commands
        /\ loaded' = loaded /\ source' = source /\ backend' = backend
    BY <1>8 DEF StartSession, channelVars
  <2>2. source = NoSource /\ backend = {} /\ commands = <<>> /\ ~loaded
    BY <1>0, <2>1 DEF SessionInv, EventsInv, MappingInv
  <2> QED
    BY <2>1, <2>2 DEF SessionInv
<1>9. ASSUME NEW id, NextEvent(id)
      PROVE  /\ DOMAIN events' = 1 .. Len(events) - 1 /\ 1 \in DOMAIN events /\ events[1].id = id
             /\ \A i \in DOMAIN events' :
                  i + 1 \in DOMAIN events /\ events'[i] = events[i + 1] /\ i # 0 /\ i \in Nat
             /\ \A i \in DOMAIN events : i # 1 => i - 1 \in DOMAIN events' /\ events'[i - 1] = events[i]
  <2>1. /\ Len(events) \in Nat \ {0} /\ DOMAIN events' = 1 .. Len(events) - 1
        /\ \A i \in 1 .. Len(events) - 1 : events'[i] = events[i + 1]
        /\ 1 \in DOMAIN events /\ events[1].id = id
    BY <1>0, <1>9, NextEventFacts
  <2>2. \A i \in DOMAIN events' :
          i + 1 \in DOMAIN events /\ events'[i] = events[i + 1] /\ i # 0 /\ i \in Nat
    BY <1>0, <2>1
  <2>3. ASSUME NEW i \in DOMAIN events, i # 1
        PROVE  i - 1 \in DOMAIN events' /\ events'[i - 1] = events[i]
    <3>1. i - 1 \in 1 .. Len(events) - 1 /\ (i - 1) + 1 = i
      BY <1>0, <2>1, <2>3
    <3> QED
      BY <2>1, <3>1
  <2> QED
    BY <2>1, <2>2, <2>3
<1>10. CASE OnLoadScript
  <2>1. /\ NextEvent("LoadScript") /\ loaded' = TRUE /\ running' = running /\ backend' = backend
        /\ source' = source /\ (~apart' => text = disk) /\ stale' = (~dirty' /\ text # disk)
    BY <1>10 DEF OnLoadScript
  <2>2. ASSUME running PROVE DOMAIN events' = {}
    <3>1. ~loaded
      BY <1>9, <2>1, <2>2 DEF SessionInv
    <3>2. \A i \in DOMAIN events : i = 1
      BY <2>2, <3>1 DEF SessionInv
    <3>3. \A i \in DOMAIN events' : i + 1 = 1 /\ i \in Nat /\ i # 0
      BY <1>9, <2>1, <3>2
    <3>4. \A i \in DOMAIN events' : FALSE
      BY <3>3
    <3> QED
      BY <3>4
  <2>3. ASSUME ~running, source # NoSource
        PROVE  \E i \in DOMAIN events' : events'[i].id = "SessionEnd"
    <3>1. PICK i \in DOMAIN events : events[i].id = "SessionEnd"
      BY <2>3 DEF SessionInv
    <3>2. i # 1
      BY <1>9, <2>1, <3>1
    <3> QED
      BY <1>9, <2>1, <3>1, <3>2
  <2> QED
    BY <1>0, <2>1, <2>2, <2>3 DEF SessionInv
<1>11. CASE OnSetBreakpoint
  <2>1. /\ NextEvent("SetBreakpoint") /\ loaded' = loaded /\ running' = running
        /\ backend' = backend /\ source' = source /\ commands' = commands /\ apart' = apart
        /\ stale' = (stale /\ ~dirty)
    BY <1>11 DEF OnSetBreakpoint, sessionVars
  <2>2. 1 \in DOMAIN events /\ events[1].id = "SetBreakpoint"
    BY <1>9, <2>1
  <2>3. running => loaded
    BY <1>0, <2>2 DEF SessionInv
  <2>4. ASSUME ~running, source # NoSource
        PROVE  \E i \in DOMAIN events' : events'[i].id = "SessionEnd"
    <3>1. PICK i \in DOMAIN events : events[i].id = "SessionEnd"
      BY <2>4 DEF SessionInv
    <3>2. i # 1
      BY <2>2, <3>1
    <3> QED
      BY <1>9, <2>1, <3>1, <3>2
  <2>5. (running /\ loaded) => \A i \in DOMAIN events' : events'[i].id = "SetBreakpoint"
    BY <1>9, <2>1 DEF SessionInv
  <2> QED
    BY <1>0, <2>1, <2>3, <2>4, <2>5 DEF SessionInv
<1>12. CASE OnSessionEnd
  <2>1. /\ NextEvent("SessionEnd") /\ loaded' = FALSE /\ running' = running
        /\ backend' = backend /\ source' = NoSource
    BY <1>12 DEF OnSessionEnd
  <2>2. ~running
    BY <1>9, <2>1 DEF SessionInv, EventsInv
  <2> QED
    BY <2>1, <2>2 DEF SessionInv
<1>13. CASE ProgramLoads
  <2>1. /\ running /\ source = NoSource /\ events' = Append(events, LoadScript)
        /\ running' = running /\ loaded' = loaded /\ backend' = backend
        /\ commands' = commands
    BY <1>13 DEF ProgramLoads
  <2>2. ~loaded
    BY <1>0, <2>1 DEF MappingInv
  <2>3. \A i \in DOMAIN events : FALSE
    BY <1>0, <2>1, <2>2 DEF SessionInv, EventsInv
  <2>4. Len(events) = 0
    <3>1. Len(events) # 0 => 1 \in DOMAIN events
      BY <1>0
    <3> QED
      BY <2>3, <3>1
  <2>5. DOMAIN events' = 1 .. 1 /\ events'[1] = LoadScript
    BY <1>0, <2>1, <2>4, MessagesType, Appended, SMTT(30)
  <2>6. \A i \in DOMAIN events' : events'[i].id = "LoadScript" /\ i = 1
    BY <2>5, MessagesType
  <2> QED
    BY <2>1, <2>2, <2>6 DEF SessionInv
<1>14. CASE BackendToggles
  <2>1. PICK e \in Events : events' = Append(events, e) /\ e.id = "SetBreakpoint"
    <3> DEFINE line == Head(commands).line
               b == line \notin backend
    <3>1. /\ commands # <<>> /\ Head(commands).id = "Toggle"
          /\ events' = Append(events, SetBreakpoint(line, b))
      BY <1>14 DEF BackendToggles
    <3>2. line \in Nat
      BY <1>0, <3>1, Tailed, MessagesType
    <3>3. b \in BOOLEAN
      OBVIOUS
    <3> HIDE DEF line, b
    <3> QED
      BY <3>1, <3>2, <3>3, MessagesType
  <2>2. /\ commands # <<>> /\ Head(commands).id = "Toggle"
        /\ running' = running /\ loaded' = loaded /\ source' = source
        /\ apart' = apart /\ stale' = stale
    BY <1>14 DEF BackendToggles
  <2>3. running
    BY <1>0, <2>2 DEF EventsInv
  <2>4. 1 \in DOMAIN commands /\ commands[1].id = "Toggle"
    BY <1>0, <2>2, Tailed
  <2>5. loaded
    BY <1>0, <2>3, <2>4 DEF SessionInv
  <2>6. /\ DOMAIN events' = 1 .. Len(events) + 1 /\ events'[Len(events) + 1] = e
        /\ \A i \in 1 .. Len(events) : events'[i] = events[i]
    BY <1>0, <2>1, Appended
  <2>7. \A i \in 1 .. Len(events) + 1 : i \in DOMAIN events \/ i = Len(events) + 1
    BY <1>0
  <2>8. \A i \in DOMAIN events' : events'[i].id = "SetBreakpoint"
    BY <1>0, <2>1, <2>3, <2>5, <2>6, <2>7 DEF SessionInv
  <2> QED
    BY <1>0, <2>2, <2>3, <2>5, <2>8 DEF SessionInv
<1>15. CASE BackendRemovesAll
  <2>1. /\ commands # <<>> /\ commands' = Tail(commands) /\ backend' = {}
        /\ running' = running /\ loaded' = loaded /\ source' = source /\ events' = events
        /\ apart' = apart /\ stale' = stale
    BY <1>15 DEF BackendRemovesAll
  <2>2. \A i \in DOMAIN commands' : i + 1 \in DOMAIN commands /\ commands'[i] = commands[i + 1]
    BY <1>0, <2>1, Tailed
  <2> QED
    BY <1>0, <2>1, <2>2 DEF SessionInv
<1>16. CASE ProgramEnds
  <2>1. /\ running' = FALSE /\ backend' = {} /\ events' = Append(events, SessionEnd)
    BY <1>16 DEF ProgramEnds
  <2>2. DOMAIN events' = 1 .. Len(events) + 1 /\ events'[Len(events) + 1] = SessionEnd
    BY <1>0, <2>1, MessagesType, Appended
  <2>3. Len(events) + 1 \in DOMAIN events' /\ events'[Len(events) + 1].id = "SessionEnd"
    BY <1>0, <2>2, MessagesType
  <2> QED
    BY <2>1, <2>3 DEF SessionInv
<1> QED
  BY <1>2, <1>3, <1>4, <1>5, <1>6, <1>7, <1>8, <1>10, <1>11, <1>12, <1>13, <1>14, <1>15, <1>16
  DEF Next

(* What the window looks lines up in while nothing is apart.                 *)
LEMMA SyncedLookups ==
  ASSUME Inv, SessionInv, loaded, running, ~apart
  PROVE  UpdateLineMappingIfNecessary = Update(source, text)
BY DEF Inv, Types, FlagTypes, MappingInv, MappingIsCurrent, SessionInv,
       UpdateLineMappingIfNecessary

LEMMA SyncedStep == Inv /\ SessionInv /\ SyncedInv /\ [Next]_vars => SyncedInv'
<1> SUFFICES ASSUME Inv, SessionInv, SyncedInv, [Next]_vars,
                    loaded', running', ~apart', DivideIntoLines(text') # <<>>
             PROVE  Synced(Update(source', text'), breakpoints', backend', commands', events')
  BY DEF SyncedInv
<1> DEFINE M == Update(source, text)
           Goal == Synced(Update(source', text'), breakpoints', backend', commands', events')
<1>0. /\ Types /\ EventsInv /\ MappingInv /\ text \in Texts /\ breakpoints \in Seq(Nat)
      /\ commands \in Seq(Commands) /\ events \in Seq(Events)
      /\ DOMAIN text = 1 .. Len(text) /\ Len(text) \in Nat
      /\ \A i \in DOMAIN events : events[i] \in Events
      /\ running \in BOOLEAN /\ loaded \in BOOLEAN /\ apart \in BOOLEAN
      /\ (loaded => source # NoSource)
  BY TextFacts, ElementOfSeq
  DEF Inv, Types, DocumentTypes, SessionTypes, FlagTypes, MappingInv
<1>1. ASSUME text' = text, source' = source, loaded' = loaded, running' = running, apart' = apart
      PROVE  /\ loaded /\ running /\ ~apart /\ source # NoSource
             /\ DivideIntoLines(text) # <<>>
             /\ Synced(M, breakpoints, backend, commands, events)
             /\ UpdateLineMappingIfNecessary = M
             /\ Update(source', text') = M
  <2>1. loaded /\ running /\ ~apart /\ source # NoSource /\ DivideIntoLines(text) # <<>>
    BY <1>0, <1>1
  <2> QED
    BY <1>1, <2>1, SyncedLookups DEF SyncedInv
<1>2. ASSUME text' = text, source' = source, loaded' = loaded, running' = running,
             apart' = apart, breakpoints' = breakpoints, backend' = backend,
             commands' = commands, events' = events
      PROVE  Goal
  BY <1>1, <1>2
<1> HIDE DEF Goal
<1>3. CASE Editing
  <2>1. apart' = (apart \/ running) /\ running' = running
    BY <1>3, EditsMarkTheMapping
  <2> QED
    BY <2>1
<1>4. CASE Reload
  <2>1. apart' = (apart \/ running) /\ running' = running
    BY <1>4 DEF Reload, sessionVars
  <2> QED
    BY <2>1
<1>5. CASE Save \/ OtherWrites \/ KeepText \/ UNCHANGED vars
  <2>1. /\ text' = text /\ source' = source /\ loaded' = loaded /\ running' = running
        /\ apart' = apart /\ breakpoints' = breakpoints /\ backend' = backend
        /\ commands' = commands /\ events' = events
    <3>1. CASE Save
      BY <3>1 DEF Save, sessionVars, channelVars
    <3>2. CASE OtherWrites
      BY <3>2 DEF OtherWrites, documentVars, sessionVars, channelVars
    <3>3. CASE KeepText
      BY <3>3 DEF KeepText, documentVars, sessionVars, channelVars
    <3>4. CASE UNCHANGED vars
      BY <3>4 DEF vars
    <3> QED
      BY <1>5, <3>1, <3>2, <3>3, <3>4
  <2> QED
    BY <1>2, <2>1 DEF Goal
<1>6. ASSUME NEW line \in DOMAIN text, ToggleInBackend(line) PROVE Goal
  <2> DEFINE x == GetOldLine(UpdateLineMappingIfNecessary, line)
  <2>1. /\ x # InvalidLine /\ Send(<<Toggle(x)>>)
        /\ text' = text /\ source' = source /\ loaded' = loaded /\ running' = running
        /\ apart' = apart /\ breakpoints' = breakpoints /\ backend' = backend
        /\ events' = events
    BY <1>6 DEF ToggleInBackend, sessionVars
  <2>2. /\ loaded /\ running /\ source # NoSource /\ DivideIntoLines(text) # <<>>
        /\ Synced(M, breakpoints, backend, commands, events)
        /\ UpdateLineMappingIfNecessary = M /\ Update(source', text') = M
    BY <1>1, <2>1
  <2>3. line \in Nat /\ x \in Nat
    BY <1>0, LookupsType
  <2>4. x = GetOldLine(M, line)
    BY <2>2
  <2> HIDE DEF x, M
  <2>5. Proper(M, x)
    BY <1>0, <2>1, <2>2, <2>3, <2>4, OldLinesAreProper DEF M
  <2>6. commands' = commands \o <<Toggle(x)>>
    BY <2>1, <2>2 DEF Send
  <2>7. Synced(M, breakpoints, backend, commands \o <<Toggle(x)>>, events)
    BY <1>0, <2>2, <2>3, <2>5, SyncedSends
  <2> QED
    BY <2>1, <2>2, <2>6, <2>7 DEF Goal
<1>7. ASSUME NEW line \in DOMAIN text, ToggleLocally(line) PROVE Goal
  <2> DEFINE set == ~Contains(breakpoints, line)
  <2>1. /\ loaded => GetOldLine(UpdateLineMappingIfNecessary, line) = InvalidLine
        /\ text' = text /\ source' = source /\ loaded' = loaded /\ running' = running
        /\ apart' = apart /\ breakpoints' = Listed(breakpoints, line, set)
        /\ backend' = backend /\ events' = events /\ commands' = commands
    BY <1>7 DEF ToggleLocally, sessionVars, channelVars
  <2>2. /\ loaded /\ Synced(M, breakpoints, backend, commands, events)
        /\ UpdateLineMappingIfNecessary = M /\ Update(source', text') = M
    BY <1>1, <2>1
  <2>3. line \in Nat /\ set \in BOOLEAN /\ GetOldLine(M, line) = InvalidLine
    BY <1>0, <2>1, <2>2
  <2> HIDE DEF set, M
  <2>4. Synced(M, Listed(breakpoints, line, set), backend, commands, events)
    BY <1>0, <2>2, <2>3, SyncedLocally
  <2> QED
    BY <2>1, <2>2, <2>4 DEF Goal
<1>8. CASE DeleteAllBreakpoints
  <2>1. /\ text' = text /\ source' = source /\ loaded' = loaded /\ running' = running
        /\ apart' = (apart \/ (running /\ (commands # <<>> \/ events # <<>>)))
        /\ breakpoints' = <<>>
        /\ backend' = backend /\ events' = events /\ Send(<<RemoveAll>>)
    BY <1>8 DEF DeleteAllBreakpoints, sessionVars
  <2>2. running /\ commands = <<>> /\ events = <<>> /\ apart' = apart
    BY <1>0, <2>1
  <2>3. Synced(M, breakpoints, backend, commands, events) /\ Update(source', text') = M
    BY <1>1, <2>1, <2>2
  <2> HIDE DEF M
  <2>4. Synced(M, <<>>, backend, <<RemoveAll>>, <<>>)
    BY <2>2, <2>3, SyncedDeletes
  <2>5. commands' = <<>> \o <<RemoveAll>>
    BY <2>1, <2>2 DEF Send
  <2>6. <<>> \o <<RemoveAll>> = <<RemoveAll>>
    OBVIOUS
  <2> QED
    BY <2>1, <2>2, <2>3, <2>4, <2>5, <2>6 DEF Goal
<1>9. ASSUME NEW saves \in BOOLEAN, StartSession(saves) PROVE Goal
  <2>1. ~running /\ events = <<>> /\ loaded' = loaded /\ source' = source
    BY <1>9 DEF StartSession
  <2>2. source = NoSource
    BY <2>1 DEF SessionInv
  <2> QED
    BY <1>0, <2>1, <2>2
<1>10. CASE OnLoadScript
  <2>1. /\ NextEvent("LoadScript") /\ breakpoints' = <<>> /\ running' = running
        /\ backend' = backend /\ source' = source /\ text' = text /\ apart' = (text # disk)
        /\ Send([i \in DOMAIN Sent |-> Toggle(Sent[i])])
    BY <1>10 DEF OnLoadScript, Sent
  <2>2. /\ 1 \in DOMAIN events /\ events[1].id = "LoadScript"
        /\ events' \in Seq(Events) /\ Len(events') = Len(events) - 1
        /\ Len(events) \in Nat \ {0} /\ DOMAIN events = 1 .. Len(events)
    BY <1>0, <2>1, NextEventFacts
  <2>3. running /\ ~loaded
    BY <2>1, <2>2 DEF SessionInv
  <2>4. /\ backend = {} /\ \A i \in DOMAIN commands : commands[i].id = "RemoveAll"
        /\ \A i \in DOMAIN events : i = 1
    BY <2>3 DEF SessionInv
  <2>5. events' = <<>>
    <3>1. Len(events) \in DOMAIN events
      BY <2>2
    <3>2. Len(events) = 1
      BY <2>4, <3>1
    <3>3. Len(events') = 0
      BY <2>2, <3>2
    <3> QED
      BY <2>2, <3>3, EmptySeq
  <2>6. source # NoSource
    BY <1>0, <2>2 DEF EventsInv
  <2>7. text = disk
    BY <2>1
  <2>8. /\ Sent \in Seq(Nat)
        /\ \A r \in DOMAIN Sent :
             /\ Sent[r] # InvalidLine
             /\ \E i \in DOMAIN breakpoints : Sent[r] = GetOldLine(Update(source, disk), breakpoints[i])
    BY <1>0, <2>6, SentLines
  <2>9. ASSUME NEW r \in DOMAIN Sent PROVE Proper(M, Sent[r])
    <3>1. PICK i \in DOMAIN breakpoints : Sent[r] = GetOldLine(M, breakpoints[i])
      BY <2>7, <2>8
    <3>2. breakpoints[i] \in Nat /\ DivideIntoLines(text) # <<>>
      BY <1>0, <2>1, ElementOfSeq
    <3>3. GetOldLine(M, breakpoints[i]) # InvalidLine
      BY <2>8, <3>1
    <3> QED
      BY <1>0, <2>6, <3>1, <3>2, <3>3, OldLinesAreProper
  <2>10. commands' = commands \o [i \in DOMAIN Sent |-> Toggle(Sent[i])]
    BY <2>1, <2>3 DEF Send
  <2>11. Update(source', text') = M
    BY <2>1
  <2> HIDE DEF M
  <2>12. Synced(M, <<>>, {}, commands \o [i \in DOMAIN Sent |-> Toggle(Sent[i])], <<>>)
    BY <1>0, <2>4, <2>8, <2>9, SyncedStarts
  <2> QED
    BY <2>1, <2>4, <2>5, <2>10, <2>11, <2>12 DEF Goal
<1>11. CASE OnSetBreakpoint
  <2> DEFINE l == Head(events).line
             set == Head(events).set
  <2>1. /\ NextEvent("SetBreakpoint")
        /\ text' = text /\ source' = source /\ loaded' = loaded /\ running' = running
        /\ apart' = apart
        /\ breakpoints' = Listed(breakpoints, GetNewLine(UpdateLineMappingIfNecessary, l), set)
        /\ backend' = backend /\ commands' = commands
    BY <1>11 DEF OnSetBreakpoint, sessionVars, OldToNewLine
  <2>2. /\ loaded /\ running /\ Synced(M, breakpoints, backend, commands, events)
        /\ UpdateLineMappingIfNecessary = M /\ Update(source', text') = M
    BY <1>1, <2>1
  <2>3. /\ events # <<>> /\ events' = Tail(events)
        /\ Head(events) \in Events /\ Head(events).id = "SetBreakpoint"
    BY <1>0, <2>1, NextEventFacts
  <2>4. l \in Nat
    BY <2>3, MessagesType
  <2>5. GetNewLine(M, l) \in Nat
    BY <1>0, <2>2, <2>4, LookupsType DEF OldToNewLine
  <2>6. \A i \in DOMAIN events : events[i].id = "SetBreakpoint"
    BY <2>2 DEF SessionInv
  <2> HIDE DEF M
  <2>7. Synced(M, Listed(breakpoints, GetNewLine(M, l), set), backend, commands, Tail(events))
    BY <1>0, <2>2, <2>3, <2>5, <2>6, SyncedAnswer
  <2> QED
    BY <2>1, <2>2, <2>3, <2>7 DEF Goal
<1>12. CASE OnSessionEnd
  BY <1>12 DEF OnSessionEnd
<1>13. CASE ProgramLoads
  <2>1. source = NoSource /\ loaded' = loaded
    BY <1>13 DEF ProgramLoads
  <2> QED
    BY <1>0, <2>1
<1>14. CASE BackendToggles
  <2> DEFINE x == Head(commands).line
  <2>1. /\ commands # <<>> /\ Head(commands).id = "Toggle" /\ commands' = Tail(commands)
        /\ backend' = SymDiff(backend, {x})
        /\ events' = Append(events, SetBreakpoint(x, x \notin backend))
        /\ text' = text /\ breakpoints' = breakpoints
        /\ source' = source /\ loaded' = loaded /\ running' = running /\ apart' = apart
    BY <1>14 DEF BackendToggles, documentVars
  <2>2. Synced(M, breakpoints, backend, commands, events) /\ Update(source', text') = M
    BY <1>1, <2>1
  <2>3. x \in Nat
    BY <1>0, <2>1, Tailed, MessagesType
  <2>4. x = Head(commands).line
    OBVIOUS
  <2> HIDE DEF M, x
  <2>5. Synced(M, breakpoints, SymDiff(backend, {x}), Tail(commands),
               Append(events, SetBreakpoint(x, x \notin backend)))
    BY <1>0, <2>1, <2>2, <2>3, <2>4, SyncedToggles
  <2> QED
    BY <2>1, <2>2, <2>5 DEF Goal
<1>15. CASE BackendRemovesAll
  <2>1. /\ commands # <<>> /\ Head(commands).id = "RemoveAll" /\ commands' = Tail(commands)
        /\ backend' = {} /\ events' = events /\ text' = text /\ breakpoints' = breakpoints
        /\ source' = source /\ loaded' = loaded /\ running' = running /\ apart' = apart
    BY <1>15 DEF BackendRemovesAll, documentVars
  <2>2. Synced(M, breakpoints, backend, commands, events) /\ Update(source', text') = M
    BY <1>1, <2>1
  <2> HIDE DEF M
  <2>3. Synced(M, breakpoints, {}, Tail(commands), events)
    BY <1>0, <2>1, <2>2, SyncedRemoves
  <2> QED
    BY <2>1, <2>2, <2>3 DEF Goal
<1>16. CASE ProgramEnds
  BY <1>16 DEF ProgramEnds
<1>17. CASE \E line \in DOMAIN text : ToggleInBackend(line) \/ ToggleLocally(line)
  BY <1>6, <1>7, <1>17 DEF Goal
<1>18. CASE \E saves \in BOOLEAN : StartSession(saves)
  BY <1>9, <1>18 DEF Goal
<1>19. Goal
  <2>1. Next \/ UNCHANGED vars
    OBVIOUS
  <2>2. CASE Next
    BY <1>3, <1>4, <1>5, <1>8, <1>10, <1>11, <1>12, <1>13, <1>14, <1>15, <1>16, <1>17, <1>18, <2>2
    DEF Next, Goal
  <2> QED
    BY <1>5, <2>1, <2>2 DEF Goal
<1> QED
  BY <1>19 DEF Goal

LEMMA SyncedMeans == Inv /\ SyncedInv => BackendHasListedLines
<1> SUFFICES ASSUME Inv, SyncedInv, loaded, running, commands = <<>>, events = <<>>, ~apart,
                    DivideIntoLines(text) # <<>>
             PROVE  backend = {GetOldLine(Update(source, text), breakpoints[i]) :
                                 i \in DOMAIN breakpoints} \ {InvalidLine}
  BY DEF BackendHasListedLines
<1> DEFINE M == Update(source, text)
<1>1. Synced(M, breakpoints, backend, <<>>, <<>>)
  BY DEF SyncedInv
<1>2. breakpoints \in Seq(Nat) /\ backend \subseteq Nat /\ Types /\ MappingInv
  BY DEF Inv, Types, DocumentTypes, SessionTypes
<1>3. /\ DOMAIN breakpoints = 1 .. Len(breakpoints)
      /\ \A i \in DOMAIN breakpoints : breakpoints[i] \in Nat
  BY <1>2, ElementOfSeq
<1>4. \A y \in Nat : GetOldLine(M, y) \in Nat
  <2>1. source \in Seq(Contents) \ {<<>>} /\ text \in Seq(Contents) \ {<<>>}
    BY <1>2 DEF Types, DocumentTypes, SessionTypes, MappingInv, Texts
  <2>2. M \in Tables
    BY <2>1, ContentsAssumption, UpdateType DEF Tables
  <2> HIDE DEF M
  <2> QED
    BY <2>2, LookupType DEF Tables, GetOldLine
<1> HIDE DEF M
<1>5. InvalidLine \notin backend /\ Answered(M, breakpoints, backend, <<>>)
  <2>1. \A i \in DOMAIN <<>> : FALSE
    OBVIOUS
  <2> QED
    BY <1>1, <2>1 DEF Synced
<1>6. \A x \in Nat \ {InvalidLine} : x \in backend <=> Comes(M, x, breakpoints)
  <2>1. \A i \in DOMAIN <<>> : FALSE
    OBVIOUS
  <2> QED
    BY <1>5, <2>1 DEF Answered
<1>7. \A x : Comes(M, x, breakpoints) <=> \E i \in DOMAIN breakpoints : GetOldLine(M, breakpoints[i]) = x
  BY <1>3 DEF Comes, Contains
<1>8. backend = {GetOldLine(M, breakpoints[i]) : i \in DOMAIN breakpoints} \ {InvalidLine}
  <2>1. ASSUME NEW x \in backend
        PROVE  x \in {GetOldLine(M, breakpoints[i]) : i \in DOMAIN breakpoints} \ {InvalidLine}
    BY <1>2, <1>5, <1>6, <1>7
  <2>2. ASSUME NEW i \in DOMAIN breakpoints, GetOldLine(M, breakpoints[i]) # InvalidLine
        PROVE  GetOldLine(M, breakpoints[i]) \in backend
    BY <1>3, <1>4, <1>6, <1>7, <2>2
  <2> QED
    BY <2>1, <2>2
<1> QED
  BY <1>8 DEF M

(* ToggleBreakpoint, OnLoadScript, OnSetBreakpoint: however clicks, answers, *)
(* "Delete All", loads and ends of sessions interleave, once every command   *)
(* and event has been handled the backend stops on exactly the lines the     *)
(* listed ones come from.                                                    *)
THEOREM BackendAgreesWithList == Spec => []BackendHasListedLines
<1>1. Init => SessionInv /\ SyncedInv
  BY DEF Init, SessionInv, SyncedInv
<1>2. Inv /\ SessionInv /\ SyncedInv /\ [Next]_vars => (Inv /\ SessionInv /\ SyncedInv)'
  BY InvStep, SessionStep, SyncedStep
<1> QED
  BY InitHolds, <1>1, <1>2, SyncedMeans, PTL DEF Spec

=============================================================================
