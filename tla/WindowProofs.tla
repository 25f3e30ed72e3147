---------------------------- MODULE WindowProofs ----------------------------
(* The window, for any number of processes, files and directories and        *)
(* whatever the user and other programs do meanwhile: no file given to a     *)
(* process is lost, the tab order is the order of use, the editor is         *)
(* read-only when its file is, and the types.                                *)
EXTENDS Window, SequenceTheorems, TLAPS

(* A file that was handed over, or belongs to a window, is opened, being     *)
(* opened, overwritten, or the command that nobody has read yet.             *)
Accounted(f) ==
  \/ f \in opened \cup overwritten
  \/ opening = <<f>>
  \/ unread /\ command = f

(* Nobody forgets an unread command: the process that wrote it has still to  *)
(* post its message, or some window has still to take one from its queue.    *)
MessageUnderWay ==
  \/ \E s \in Senders : at[s] = "post"
  \/ \E p \in Processes : posted[p] > 0

InstanceInv ==
  /\ posted \in [Processes -> Nat]
  /\ at \in [Processes -> Places]
  /\ target \in [Senders -> Processes \cup {None}]
  /\ hWnd \in Processes \cup {None}
  /\ opening = <<>> \/ \E f \in Files : opening = <<f>>
  /\ command \in Files \cup {None}
  /\ \A s \in Senders : at[s] \in {"send", "post"} => target[s] \in Processes
  /\ \A s \in Senders : at[s] \in {"post", "done", "window"} => Accounted(FileOf[s])
  /\ unread => command \in Files /\ MessageUnderWay

-----------------------------------------------------------------------------

LEMMA InstanceInit == Init => InstanceInv
BY WindowAssumption DEF Init, InstanceInv, Processes, Places

(* A process that moves on without touching the command or any window.       *)
LEMMA StartStep ==
  ASSUME InstanceInv, NEW p \in Processes,
         \/ OpenMapping(p) \/ CreateMutex(p) \/ CreateMapping(p) \/ StoreHandle(p)
  PROVE  InstanceInv'
<1> USE WindowAssumption DEF InstanceInv, GoTo, Places
<1>1. /\ UNCHANGED <<posted, target, opening, command, opened, overwritten, unread>>
      /\ hWnd' \in Processes \cup {None}
      /\ at[p] \in {"start", "create", "map", "handle"}
      /\ \E place \in {"connect", "create", "map", "handle", "clear"} :
           at' = [at EXCEPT ![p] = place]
  BY DEF OpenMapping, CreateMutex, CreateMapping, StoreHandle
<1>2. at' \in [Processes -> Places]
  BY <1>1
<1>3. \A s \in Senders : s \in Processes
  BY DEF Processes
<1>4. \A s \in Senders : at'[s] \in {"send", "post", "done", "window"} => at'[s] = at[s]
  BY <1>1, <1>3
<1>5. MessageUnderWay => MessageUnderWay'
  BY <1>1, <1>3 DEF MessageUnderWay
<1> QED
  BY <1>1, <1>2, <1>4, <1>5 DEF Accounted

LEMMA CommandStep ==
  ASSUME InstanceInv, NEW p \in Processes,
         ClearCommand(p) \/ (p \in Senders /\ SetCommand(p))
  PROVE  InstanceInv'
<1> USE WindowAssumption DEF InstanceInv, GoTo, Places
<1>1. \A s \in Senders : s \in Processes
  BY DEF Processes
<1>2. /\ UNCHANGED <<posted, target, hWnd, opening, opened>>
      /\ overwritten' = overwritten \cup Lost
  BY DEF ClearCommand, SetCommand
<1>3. \A f : Accounted(f) => Accounted(f)'
  BY <1>2 DEF Accounted, Lost
<1>4. CASE ClearCommand(p)
  <2>1. at[p] = "clear" /\ at' = [at EXCEPT ![p] = "release"] /\ unread' = FALSE
        /\ command' = None
    BY <1>4 DEF ClearCommand
  <2> QED
    BY <1>1, <1>2, <1>3, <2>1
<1>5. CASE p \in Senders /\ SetCommand(p)
  <2>1. /\ at[p] = "send" /\ at' = [at EXCEPT ![p] = "post"] /\ unread' = TRUE
        /\ command' = FileOf[p]
    BY <1>5 DEF SetCommand
  <2>2. FileOf[p] \in Files /\ Accounted(FileOf[p])' /\ MessageUnderWay'
    BY <1>1, <1>5, <2>1 DEF Accounted, MessageUnderWay
  <2> QED
    BY <1>1, <1>2, <1>3, <2>1, <2>2
<1> QED
  BY <1>4, <1>5

LEMMA WindowAppears ==
  ASSUME InstanceInv, NEW p \in Processes, ReleaseMutex(p) \/ Connect(p)
  PROVE  InstanceInv'
<1> USE WindowAssumption DEF InstanceInv, GoTo, Places
<1>1. \A s \in Senders : s \in Processes
  BY DEF Processes
<1>2. UNCHANGED <<posted, hWnd, opening, command, overwritten, unread>>
  BY DEF ReleaseMutex, Connect
<1>3. at[p] \in {"release", "connect"}
  BY DEF ReleaseMutex, Connect
<1>4. CASE BecomesWindow(p) /\ UNCHANGED target
  <2>1. /\ at' = [at EXCEPT ![p] = "window"]
        /\ opened \subseteq opened' /\ (p \in Senders => FileOf[p] \in opened')
    BY <1>4 DEF BecomesWindow
  <2>2. \A f : Accounted(f) => Accounted(f)'
    BY <1>2, <2>1 DEF Accounted
  <2>3. p \in Senders => Accounted(FileOf[p])'
    BY <2>1 DEF Accounted
  <2>4. MessageUnderWay => MessageUnderWay'
    BY <1>1, <1>2, <1>3, <2>1 DEF MessageUnderWay
  <2> QED
    BY <1>1, <1>2, <1>3, <1>4, <2>1, <2>2, <2>3, <2>4
<1>5. CASE SendsFile(p) /\ at' = [at EXCEPT ![p] = "send"] /\ UNCHANGED opened
           /\ target' = [target EXCEPT ![p] = hWnd]
  <2>1. p \in Senders /\ target'[p] \in Processes
    BY <1>5 DEF SendsFile
  <2>2. \A f : Accounted(f) => Accounted(f)'
    BY <1>2, <1>5 DEF Accounted
  <2>3. MessageUnderWay => MessageUnderWay'
    BY <1>1, <1>2, <1>3, <1>5 DEF MessageUnderWay
  <2> QED
    BY <1>1, <1>2, <1>3, <1>5, <2>1, <2>2, <2>3
<1> QED
  BY <1>4, <1>5 DEF ReleaseMutex, Connect

LEMMA PostStep ==
  ASSUME InstanceInv, NEW s \in Senders, Post(s)
  PROVE  InstanceInv'
<1> USE WindowAssumption DEF InstanceInv, GoTo, Places
<1>1. \A r \in Senders : r \in Processes
  BY DEF Processes
<1>2. target[s] \in Processes /\ target[s] # None
  BY DEF Post
<1>3. /\ posted' = [posted EXCEPT ![target[s]] = @ + 1]
      /\ at[s] = "post" /\ at' = [at EXCEPT ![s] = "done"]
      /\ UNCHANGED <<target, hWnd, opening, command, opened, overwritten, unread>>
  BY <1>2 DEF Post
<1>4. posted' \in [Processes -> Nat] /\ posted'[target[s]] > 0
  BY <1>2, <1>3
<1>5. MessageUnderWay'
  BY <1>2, <1>4 DEF MessageUnderWay
<1>6. \A f : Accounted(f) => Accounted(f)'
  BY <1>3 DEF Accounted
<1> QED
  BY <1>1, <1>3, <1>4, <1>5, <1>6

LEMMA FilesReachWindow ==
  ASSUME InstanceInv, (\E p \in Processes : OnOpenFiles(p)) \/ OpenNext
  PROVE  InstanceInv'
<1> USE WindowAssumption, OpenFilesAssumption DEF InstanceInv
<1>1. UNCHANGED <<at, target, hWnd, command, overwritten>>
  BY DEF OnOpenFiles, OpenNext
<1>2. CASE OpenNext
  <2>1. PICK f \in Files : opening = <<f>>
    BY <1>2 DEF OpenNext
  <2>2. opening' = <<>> /\ opened' = opened \cup {f} /\ UNCHANGED <<unread, posted>>
    BY <1>2, <2>1 DEF OpenNext
  <2>3. \A g : Accounted(g) => Accounted(g)'
    BY <1>1, <2>1, <2>2 DEF Accounted
  <2> QED
    BY <1>1, <2>2, <2>3 DEF MessageUnderWay
<1>3. ASSUME NEW p \in Processes, OnOpenFiles(p)
      PROVE  InstanceInv'
  <2>1. /\ posted' = [posted EXCEPT ![p] = @ - 1] /\ posted[p] > 0
        /\ unread' = FALSE
    BY <1>3 DEF OnOpenFiles
  <2>2. posted' \in [Processes -> Nat]
    BY <2>1
  <2>3. CASE p = Main
    <3>1. opening = <<>> /\ opened' = opened
          /\ opening' = IF command = None THEN <<>> ELSE <<command>>
      BY <1>3, <2>3 DEF OnOpenFiles, Ready
    <3>2. \A s \in Senders : Accounted(FileOf[s]) => Accounted(FileOf[s])'
      BY <1>1, <2>1, <3>1 DEF Accounted
    <3> QED
      BY <1>1, <2>1, <2>2, <3>1, <3>2
  <2>4. CASE p # Main
    <3>1. opening' = opening /\ opened' = opened \cup ({command} \ {None})
      BY <1>3, <2>4 DEF OnOpenFiles
    <3>2. \A s \in Senders : Accounted(FileOf[s]) => Accounted(FileOf[s])'
      BY <1>1, <2>1, <3>1 DEF Accounted
    <3> QED
      BY <1>1, <2>1, <2>2, <3>1, <3>2
  <2> QED
    BY <2>3, <2>4
<1> QED
  BY <1>2, <1>3

LEMMA InstanceStepHolds == InstanceInv /\ [Next]_vars => InstanceInv'
<1> SUFFICES ASSUME InstanceInv, [Next]_vars PROVE InstanceInv'
  OBVIOUS
<1>1. ASSUME UNCHANGED instanceVars PROVE InstanceInv'
  BY <1>1 DEF instanceVars, InstanceInv, Accounted, MessageUnderWay
<1>2. ASSUME NEW p \in Processes, InstanceStep(p) PROVE InstanceInv'
  BY <1>2, StartStep, CommandStep, WindowAppears, FilesReachWindow DEF InstanceStep
<1>3. ASSUME NEW s \in Senders, SenderStep(s) PROVE InstanceInv'
  BY <1>3, CommandStep, PostStep DEF SenderStep, Processes
<1> QED
  BY <1>1, <1>2, <1>3, FilesReachWindow DEF Next, WindowStep, vars

(* However many processes start at one time, every file given to one that    *)
(* ended was opened by some window, or its command was overwritten before it *)
(* was read: once every message is handled no command is left unread.        *)
THEOREM NoFileIsLost == Spec => []FilesAreOpened
<1>1. InstanceInv => FilesAreOpened
  <2> SUFFICES ASSUME InstanceInv, NobodyStarts, opening = <<>>,
                      \A p \in Processes : posted[p] = 0,
                      NEW s \in Senders, at[s] # "start"
               PROVE  FileOf[s] \in opened \cup overwritten
    BY DEF FilesAreOpened
  <2>1. \A r \in Senders : r \in Processes
    BY DEF Processes
  <2>2. ~unread
    BY <2>1 DEF InstanceInv, MessageUnderWay, NobodyStarts
  <2>3. Accounted(FileOf[s])
    BY <2>1 DEF InstanceInv, NobodyStarts
  <2> QED
    BY <2>2, <2>3 DEF Accounted
<1> QED
  BY <1>1, InstanceInit, InstanceStepHolds, PTL DEF Spec

-----------------------------------------------------------------------------
(* Lists that an entry is taken out of, or brought to the front of.          *)

LEMMA OneRemoved ==
  ASSUME NEW S, NEW s \in Seq(S), NEW k \in 1 .. Len(s)
  PROVE  /\ RemoveAt(s, k) \in Seq(S)
         /\ Len(RemoveAt(s, k)) = Len(s) - 1
         /\ \A i \in 1 .. Len(s) - 1 :
              RemoveAt(s, k)[i] = IF i < k THEN s[i] ELSE s[i + 1]
<1> DEFINE a == SubSeq(s, 1, k - 1)
           b == SubSeq(s, k + 1, Len(s))
<1>0. Len(s) \in Nat /\ k \in Nat /\ 1 <= k /\ k <= Len(s)
  OBVIOUS
<1>1. /\ a \in Seq(S) /\ Len(a) = k - 1
      /\ \A i \in 1 .. k - 1 : a[i] = s[i]
  <2>1. /\ 1 \in Int /\ k - 1 \in Int /\ \A i \in 1 .. k - 1 : s[i] \in S
        /\ (k - 1) - 1 + 1 = k - 1
        /\ (IF 1 <= k - 1 THEN (k - 1) - 1 + 1 ELSE 0) = k - 1
        /\ \A i \in 1 .. k - 1 : 1 + i - 1 = i
    BY <1>0
  <2>2. /\ SubSeq(s, 1, k - 1) \in Seq(S)
        /\ Len(SubSeq(s, 1, k - 1)) = IF 1 <= k - 1 THEN (k - 1) - 1 + 1 ELSE 0
        /\ \A i \in 1 .. (k - 1) - 1 + 1 : SubSeq(s, 1, k - 1)[i] = s[1 + i - 1]
    BY <2>1, SubSeqProperties
  <2> QED
    BY <2>1, <2>2
<1>2. /\ b \in Seq(S) /\ Len(b) = Len(s) - k
      /\ \A i \in 1 .. Len(s) - k : b[i] = s[k + i]
  <2> DEFINE m == k + 1
             n == Len(s)
  <2>1. /\ m \in Int /\ n \in Int /\ \A i \in m .. n : s[i] \in S
        /\ n - m + 1 = n - k
        /\ (IF m <= n THEN n - m + 1 ELSE 0) = n - k
        /\ \A i \in 1 .. n - k : m + i - 1 = k + i
    BY <1>0
  <2>2. b = SubSeq(s, m, n) /\ n = Len(s)
    OBVIOUS
  <2> HIDE DEF m, n, b
  <2>3. /\ SubSeq(s, m, n) \in Seq(S)
        /\ Len(SubSeq(s, m, n)) = IF m <= n THEN n - m + 1 ELSE 0
        /\ \A i \in 1 .. n - m + 1 : SubSeq(s, m, n)[i] = s[m + i - 1]
    BY <2>1, SubSeqProperties
  <2> QED
    BY <2>1, <2>2, <2>3
<1>3. RemoveAt(s, k) = a \o b
  BY DEF RemoveAt
<1> HIDE DEF a, b
<1>4. /\ a \o b \in Seq(S) /\ Len(a \o b) = Len(a) + Len(b)
      /\ \A i \in 1 .. Len(a) + Len(b) :
           (a \o b)[i] = IF i <= Len(a) THEN a[i] ELSE b[i - Len(a)]
  BY <1>1, <1>2, ConcatProperties
<1>5. Len(a) + Len(b) = Len(s) - 1
  BY <1>0, <1>1, <1>2
<1>6. ASSUME NEW i \in 1 .. Len(s) - 1
      PROVE  RemoveAt(s, k)[i] = IF i < k THEN s[i] ELSE s[i + 1]
  <2>1. CASE i < k
    <3>1. i \in 1 .. k - 1 /\ i <= Len(a)
      BY <1>0, <1>1, <2>1
    <3> QED
      BY <1>1, <1>3, <1>4, <1>5, <2>1, <3>1
  <2>2. CASE ~(i < k)
    <3>1. /\ ~(i <= Len(a)) /\ i - Len(a) \in 1 .. Len(s) - k
          /\ k + (i - Len(a)) = i + 1
      BY <1>0, <1>1, <2>2
    <3>2. b[i - Len(a)] = s[i + 1]
      BY <1>2, <3>1
    <3>3. (a \o b)[i] = b[i - Len(a)]
      BY <1>4, <1>5, <3>1
    <3> QED
      BY <1>3, <2>2, <3>2, <3>3
  <2> QED
    BY <2>1, <2>2
<1> QED
  BY <1>3, <1>4, <1>5, <1>6

(* An entry that is in the list once.                                        *)
OnlyAt(s, k) == \A i \in 1 .. Len(s) : s[i] = s[k] => i = k

LEMMA TakenOut ==
  ASSUME NEW S, NEW s \in Seq(S), NEW k \in 1 .. Len(s), OnlyAt(s, k), NEW e, e = s[k]
  PROVE  RemoveFirst(s, e) = RemoveAt(s, k)
<1> DEFINE I == {i \in 1 .. Len(s) : s[i] = e}
<1>1. I = {k} /\ \E i \in 1 .. Len(s) : s[i] = e
  BY DEF OnlyAt
<1>2. RemoveFirst(s, e) = RemoveAt(s, Min(I))
  BY <1>1 DEF RemoveFirst, SelectInSeq
<1>3. Min({k}) = k
  BY DEF Min
<1> QED
  BY <1>1, <1>2, <1>3

LEMMA BroughtToFront ==
  ASSUME NEW S, NEW s \in Seq(S), NEW k \in 1 .. Len(s), OnlyAt(s, k), NEW e, e = s[k]
  PROVE  /\ <<e>> \o RemoveFirst(s, e) \in Seq(S)
         /\ Len(<<e>> \o RemoveFirst(s, e)) = Len(s)
         /\ (<<e>> \o RemoveFirst(s, e))[1] = e
         /\ \A i \in 2 .. Len(s) :
              (<<e>> \o RemoveFirst(s, e))[i] = IF i <= k THEN s[i - 1] ELSE s[i]
<1> DEFINE f == <<e>>
           r == RemoveAt(s, k)
<1>1. f \in Seq(S) /\ Len(f) = 1 /\ f[1] = e
  OBVIOUS
<1>2. /\ r \in Seq(S) /\ Len(r) = Len(s) - 1 /\ Len(s) \in Nat
      /\ \A i \in 1 .. Len(s) - 1 : r[i] = IF i < k THEN s[i] ELSE s[i + 1]
  <2>1. /\ RemoveAt(s, k) \in Seq(S) /\ Len(RemoveAt(s, k)) = Len(s) - 1
        /\ \A i \in 1 .. Len(s) - 1 :
             RemoveAt(s, k)[i] = IF i < k THEN s[i] ELSE s[i + 1]
    BY OneRemoved
  <2> QED
    BY <2>1
<1>3. <<e>> \o RemoveFirst(s, e) = f \o r
  BY TakenOut
<1> HIDE DEF f, r
<1>8. f \in Seq(S) /\ r \in Seq(S)
  BY <1>1, <1>2
<1>4. /\ f \o r \in Seq(S) /\ Len(f \o r) = Len(f) + Len(r)
      /\ \A i \in 1 .. Len(f) + Len(r) :
           (f \o r)[i] = IF i <= Len(f) THEN f[i] ELSE r[i - Len(f)]
  BY <1>8, ConcatProperties
<1>5. Len(f) + Len(r) = Len(s)
  BY <1>1, <1>2
<1>6. (f \o r)[1] = e
  BY <1>1, <1>2, <1>4, <1>5
<1>7. ASSUME NEW i \in 2 .. Len(s)
      PROVE  (f \o r)[i] = IF i <= k THEN s[i - 1] ELSE s[i]
  <2>1. /\ i \in 1 .. Len(f) + Len(r) /\ ~(i <= Len(f)) /\ i - Len(f) = i - 1
        /\ i - 1 \in 1 .. Len(s) - 1 /\ (i - 1) + 1 = i /\ (i - 1 < k <=> i <= k)
    BY <1>1, <1>2, <1>5
  <2>2. (f \o r)[i] = r[i - 1]
    BY <1>4, <2>1
  <2> QED
    BY <1>2, <2>1, <2>2
<1> QED
  BY <1>3, <1>4, <1>5, <1>6, <1>7

LEMMA PutInFront ==
  ASSUME NEW S, NEW s \in Seq(S), NEW e \in S, \A i \in 1 .. Len(s) : s[i] # e
  PROVE  /\ <<e>> \o RemoveFirst(s, e) \in Seq(S)
         /\ Len(<<e>> \o RemoveFirst(s, e)) = Len(s) + 1
         /\ (<<e>> \o RemoveFirst(s, e))[1] = e
         /\ \A i \in 2 .. Len(s) + 1 : (<<e>> \o RemoveFirst(s, e))[i] = s[i - 1]
<1> DEFINE f == <<e>>
<1>1. f \in Seq(S) /\ Len(f) = 1 /\ f[1] = e
  OBVIOUS
<1>2. <<e>> \o RemoveFirst(s, e) = f \o s
  BY DEF RemoveFirst
<1> HIDE DEF f
<1>3. /\ f \o s \in Seq(S) /\ Len(f \o s) = Len(f) + Len(s)
      /\ \A i \in 1 .. Len(f) + Len(s) :
           (f \o s)[i] = IF i <= Len(f) THEN f[i] ELSE s[i - Len(f)]
  BY <1>1, ConcatProperties
<1>4. Len(s) \in Nat
  OBVIOUS
<1>5. (f \o s)[1] = e /\ Len(f) + Len(s) = Len(s) + 1
  BY <1>1, <1>3, <1>4
<1>6. ASSUME NEW i \in 2 .. Len(s) + 1 PROVE (f \o s)[i] = s[i - 1]
  <2>1. i \in 1 .. Len(f) + Len(s) /\ ~(i <= Len(f)) /\ i - Len(f) = i - 1
    BY <1>1, <1>4
  <2> QED
    BY <1>3, <2>1
<1> QED
  BY <1>2, <1>3, <1>5, <1>6

-----------------------------------------------------------------------------
(* The tabs.  Each file is open once, the order has each page once, and the  *)
(* history has the files in that order.                                      *)

Tabs(files, order, list) ==
  /\ files \in Seq(Files) /\ order \in Seq(Nat) /\ list \in Seq(Files)
  /\ Len(order) = Len(files) /\ Len(list) = Len(files)
  /\ \A i \in 1 .. Len(files) : order[i] \in 1 .. Len(files) /\ list[i] = files[order[i]]
  /\ \A p \in 1 .. Len(files) : \E i \in 1 .. Len(files) : order[i] = p
  /\ \A i, j \in 1 .. Len(files) : files[i] = files[j] => i = j
  /\ \A i, j \in 1 .. Len(files) : order[i] = order[j] => i = j

LEMMA TabPlace ==
  ASSUME NEW files, NEW order, NEW list, Tabs(files, order, list), NEW p \in 1 .. Len(files)
  PROVE  \E k \in 1 .. Len(files) : /\ order[k] = p /\ list[k] = files[p]
                                    /\ OnlyAt(order, k) /\ OnlyAt(list, k)
<1>1. PICK k \in 1 .. Len(files) : order[k] = p
  BY DEF Tabs
<1>2. list[k] = files[p]
  BY <1>1 DEF Tabs
<1>3. OnlyAt(order, k)
  BY DEF Tabs, OnlyAt
<1>4. ASSUME NEW i \in 1 .. Len(files), list[i] = list[k] PROVE i = k
  <2>1. /\ order[i] \in 1 .. Len(files) /\ order[k] \in 1 .. Len(files)
        /\ files[order[i]] = files[order[k]]
    BY <1>4 DEF Tabs
  <2>2. \A l, m \in 1 .. Len(files) : files[l] = files[m] => l = m
    BY DEF Tabs
  <2>3. order[i] = order[k]
    BY <2>1, <2>2
  <2>4. \A l, m \in 1 .. Len(files) : order[l] = order[m] => l = m
    BY DEF Tabs
  <2> QED
    BY <2>3, <2>4
<1>5. OnlyAt(list, k)
  BY <1>4 DEF Tabs, OnlyAt
<1> QED
  BY <1>1, <1>2, <1>3, <1>5

Permutes(g, n) ==
  /\ g \in [1 .. n -> 1 .. n]
  /\ \A i, j \in 1 .. n : g[i] = g[j] => i = j
  /\ \A j \in 1 .. n : \E i \in 1 .. n : g[i] = j
Follows(s2, s, g, n) == \A i \in 1 .. n : s2[i] = s[g[i]]

LEMMA Reordered ==
  ASSUME NEW files, NEW order, NEW list, Tabs(files, order, list),
         NEW order2 \in Seq(Nat), NEW list2 \in Seq(Files),
         Len(order2) = Len(files), Len(list2) = Len(files),
         NEW g, Permutes(g, Len(files)),
         Follows(order2, order, g, Len(files)), Follows(list2, list, g, Len(files))
  PROVE  Tabs(files, order2, list2)
<1> USE DEF Permutes, Follows
<1>1. ASSUME NEW i \in 1 .. Len(files)
      PROVE  order2[i] \in 1 .. Len(files) /\ list2[i] = files[order2[i]]
  <2>1. g[i] \in 1 .. Len(files)
    OBVIOUS
  <2>2. order[g[i]] \in 1 .. Len(files) /\ list[g[i]] = files[order[g[i]]]
    BY <2>1 DEF Tabs
  <2> QED
    BY <2>2
<1>2. ASSUME NEW p \in 1 .. Len(files) PROVE \E i \in 1 .. Len(files) : order2[i] = p
  <2>1. PICK j \in 1 .. Len(files) : order[j] = p
    BY DEF Tabs
  <2>2. PICK i \in 1 .. Len(files) : g[i] = j
    OBVIOUS
  <2> QED
    BY <2>1, <2>2
<1>3. ASSUME NEW i \in 1 .. Len(files), NEW j \in 1 .. Len(files), order2[i] = order2[j]
      PROVE  i = j
  <2>1. g[i] \in 1 .. Len(files) /\ g[j] \in 1 .. Len(files) /\ order[g[i]] = order[g[j]]
    BY <1>3
  <2>2. g[i] = g[j]
    BY <2>1 DEF Tabs
  <2> QED
    BY <2>2
<1> QED
  BY <1>1, <1>2, <1>3 DEF Tabs

(* SetMostRecentlyUsedPage of a page that is there.                          *)
LEMMA PageUsed ==
  ASSUME NEW files, NEW order, NEW list, Tabs(files, order, list), NEW p \in 1 .. Len(files)
  PROVE  Tabs(files, <<p>> \o RemoveFirst(order, p),
              <<files[p]>> \o RemoveFirst(list, files[p]))
<1> DEFINE n == Len(files)
           f == files[p]
           order2 == <<p>> \o RemoveFirst(order, p)
           list2 == <<f>> \o RemoveFirst(list, f)
<1>1. PICK k \in 1 .. n : /\ order[k] = p /\ list[k] = f
                          /\ OnlyAt(order, k) /\ OnlyAt(list, k)
  BY TabPlace
<1>2. /\ order \in Seq(Nat) /\ list \in Seq(Files) /\ Len(order) = n /\ Len(list) = n
      /\ n \in Nat
  BY DEF Tabs
<1> DEFINE g == [i \in 1 .. n |-> IF i = 1 THEN k ELSE IF i <= k THEN i - 1 ELSE i]
<1> HIDE DEF f
<1>3. /\ order2 \in Seq(Nat) /\ Len(order2) = n /\ order2[1] = p
      /\ \A i \in 2 .. n : order2[i] = IF i <= k THEN order[i - 1] ELSE order[i]
  <2>1. order \in Seq(Nat) /\ k \in 1 .. Len(order) /\ OnlyAt(order, k) /\ p = order[k]
    BY <1>1, <1>2
  <2> HIDE DEF n
  <2>2. /\ <<p>> \o RemoveFirst(order, p) \in Seq(Nat)
        /\ Len(<<p>> \o RemoveFirst(order, p)) = Len(order)
        /\ (<<p>> \o RemoveFirst(order, p))[1] = p
        /\ \A i \in 2 .. Len(order) :
             (<<p>> \o RemoveFirst(order, p))[i] = IF i <= k THEN order[i - 1] ELSE order[i]
    BY <2>1, BroughtToFront, SMTT(30)
  <2> QED
    BY <1>2, <2>2
<1>4. /\ list2 \in Seq(Files) /\ Len(list2) = n /\ list2[1] = f
      /\ \A i \in 2 .. n : list2[i] = IF i <= k THEN list[i - 1] ELSE list[i]
  <2>1. list \in Seq(Files) /\ k \in 1 .. Len(list) /\ OnlyAt(list, k) /\ f = list[k]
    BY <1>1, <1>2
  <2> HIDE DEF n
  <2>2. /\ <<f>> \o RemoveFirst(list, f) \in Seq(Files)
        /\ Len(<<f>> \o RemoveFirst(list, f)) = Len(list)
        /\ (<<f>> \o RemoveFirst(list, f))[1] = f
        /\ \A i \in 2 .. Len(list) :
             (<<f>> \o RemoveFirst(list, f))[i] = IF i <= k THEN list[i - 1] ELSE list[i]
    BY <2>1, BroughtToFront
  <2> QED
    BY <1>2, <2>2
<1> HIDE DEF n, order2, list2
<1>5. g \in [1 .. n -> 1 .. n]
  BY <1>2
<1>6. \A i, j \in 1 .. n : g[i] = g[j] => i = j
  BY <1>2
<1>7. ASSUME NEW j \in 1 .. n PROVE \E i \in 1 .. n : g[i] = j
  <2>1. CASE j = k
    <3>1. 1 \in 1 .. n /\ g[1] = k
      BY <1>2
    <3> QED
      BY <2>1, <3>1
  <2>2. CASE j < k
    <3>1. j + 1 \in 1 .. n /\ g[j + 1] = j
      BY <1>2, <2>2
    <3> QED
      BY <3>1
  <2>3. CASE j > k
    <3>1. j \in 1 .. n /\ g[j] = j
      BY <1>2, <2>3
    <3> QED
      BY <3>1
  <2> QED
    BY <1>2, <2>1, <2>2, <2>3
<1>8. ASSUME NEW i \in 1 .. n PROVE order2[i] = order[g[i]] /\ list2[i] = list[g[i]]
  <2>1. CASE i = 1
    BY <1>1, <1>3, <1>4, <2>1
  <2>2. CASE i # 1
    <3>1. i \in 2 .. n /\ g[i] = IF i <= k THEN i - 1 ELSE i
      BY <1>2, <2>2
    <3> HIDE DEF g
    <3> QED
      BY <1>3, <1>4, <3>1
  <2> QED
    BY <2>1, <2>2
<1> HIDE DEF g
<1>9. Tabs(files, order2, list2)
  <2>1. order2 \in Seq(Nat) /\ list2 \in Seq(Files)
        /\ Len(order2) = Len(files) /\ Len(list2) = Len(files)
    BY <1>3, <1>4 DEF n
  <2>2. Permutes(g, Len(files))
    BY <1>5, <1>6, <1>7 DEF n, Permutes
  <2>3. Follows(order2, order, g, Len(files)) /\ Follows(list2, list, g, Len(files))
    BY <1>8 DEF n, Follows
  <2> QED
    BY <2>1, <2>2, <2>3, Reordered
<1> QED
  BY <1>9 DEF order2, list2, f

(* ... of the page of a file that was not open.                              *)
LEMMA PageAdded ==
  ASSUME NEW files, NEW order, NEW list, Tabs(files, order, list), NEW f \in Files,
         \A i \in 1 .. Len(files) : files[i] # f, NEW p, p = Len(files) + 1
  PROVE  Tabs(Append(files, f), <<p>> \o RemoveFirst(order, p), <<f>> \o RemoveFirst(list, f))
<1> DEFINE n == Len(files)
           files2 == Append(files, f)
           order2 == <<p>> \o RemoveFirst(order, p)
           list2 == <<f>> \o RemoveFirst(list, f)
<1>1. /\ order \in Seq(Nat) /\ list \in Seq(Files) /\ Len(order) = n /\ Len(list) = n
      /\ files \in Seq(Files) /\ n \in Nat /\ p \in Nat
  BY DEF Tabs
<1>2. ASSUME NEW i \in 1 .. n
      PROVE  /\ order[i] \in 1 .. n /\ order[i] # p
             /\ list[i] = files[order[i]] /\ list[i] # f
  <2>1. order[i] \in 1 .. n /\ list[i] = files[order[i]]
    BY DEF Tabs
  <2> QED
    BY <1>1, <2>1
<1>3. /\ files2 \in Seq(Files) /\ Len(files2) = n + 1 /\ files2[n + 1] = f
      /\ \A i \in 1 .. n : files2[i] = files[i]
  BY <1>1, AppendProperties
<1>13. /\ \A i \in 1 .. Len(order) : order[i] # p
       /\ \A i \in 1 .. Len(list) : list[i] # f
  BY <1>1, <1>2
<1>4. /\ order2 \in Seq(Nat) /\ Len(order2) = n + 1 /\ order2[1] = p
      /\ \A i \in 2 .. n + 1 : order2[i] = order[i - 1]
  <2>1. /\ <<p>> \o RemoveFirst(order, p) \in Seq(Nat)
        /\ Len(<<p>> \o RemoveFirst(order, p)) = Len(order) + 1
        /\ (<<p>> \o RemoveFirst(order, p))[1] = p
        /\ \A i \in 2 .. Len(order) + 1 : (<<p>> \o RemoveFirst(order, p))[i] = order[i - 1]
    <3>1. order \in Seq(Nat) /\ p \in Nat /\ \A i \in 1 .. Len(order) : order[i] # p
      BY <1>1, <1>13
    <3>2. <<p>> \o RemoveFirst(order, p) \in Seq(Nat)
      BY <3>1, PutInFront
    <3>3. Len(<<p>> \o RemoveFirst(order, p)) = Len(order) + 1
      BY <3>1, PutInFront
    <3>4. (<<p>> \o RemoveFirst(order, p))[1] = p
      BY <3>1, PutInFront
    <3>5. \A i \in 2 .. Len(order) + 1 : (<<p>> \o RemoveFirst(order, p))[i] = order[i - 1]
      BY <3>1, PutInFront, SMTT(30)
    <3> QED
      BY <3>2, <3>3, <3>4, <3>5
  <2> QED
    BY <1>1, <2>1
<1>5. /\ list2 \in Seq(Files) /\ Len(list2) = n + 1 /\ list2[1] = f
      /\ \A i \in 2 .. n + 1 : list2[i] = list[i - 1]
  <2>1. list \in Seq(Files) /\ f \in Files /\ \A i \in 1 .. Len(list) : list[i] # f
    BY <1>1, <1>13
  <2> HIDE DEF n
  <2>2. /\ <<f>> \o RemoveFirst(list, f) \in Seq(Files)
        /\ Len(<<f>> \o RemoveFirst(list, f)) = Len(list) + 1
        /\ (<<f>> \o RemoveFirst(list, f))[1] = f
        /\ \A i \in 2 .. Len(list) + 1 : (<<f>> \o RemoveFirst(list, f))[i] = list[i - 1]
    BY <2>1, PutInFront
  <2> QED
    BY <1>1, <2>2
<1> HIDE DEF n, files2, order2, list2
<1>6. p = n + 1
  BY DEF n
<1>7. ASSUME NEW i \in 1 .. n + 1
      PROVE  order2[i] \in 1 .. n + 1 /\ list2[i] = files2[order2[i]]
  <2>1. CASE i = 1
    BY <1>1, <1>3, <1>4, <1>5, <1>6, <2>1
  <2>2. CASE i # 1
    <3>1. i \in 2 .. n + 1 /\ i - 1 \in 1 .. n
      BY <1>1, <2>2
    <3>2. order[i - 1] \in 1 .. n /\ list[i - 1] = files[order[i - 1]]
      BY <1>2, <3>1
    <3>3. order2[i] = order[i - 1] /\ list2[i] = list[i - 1]
      BY <1>4, <1>5, <3>1
    <3>4. order2[i] \in 1 .. n + 1
      BY <1>1, <3>2, <3>3
    <3> QED
      BY <1>3, <3>2, <3>3, <3>4
  <2> QED
    BY <2>1, <2>2
<1>8. ASSUME NEW q \in 1 .. n + 1 PROVE \E i \in 1 .. n + 1 : order2[i] = q
  <2>1. CASE q = n + 1
    <3>1. 1 \in 1 .. n + 1 /\ order2[1] = q
      BY <1>1, <1>4, <1>6, <2>1
    <3> QED
      BY <3>1
  <2>2. CASE q # n + 1
    <3>1. q \in 1 .. n
      BY <1>1, <2>2
    <3>2. PICK i \in 1 .. n : order[i] = q
      BY <3>1 DEF Tabs, n
    <3>3. i + 1 \in 2 .. n + 1 /\ i + 1 \in 1 .. n + 1 /\ (i + 1) - 1 = i
      BY <1>1
    <3> QED
      BY <1>4, <3>2, <3>3
  <2> QED
    BY <2>1, <2>2
<1>9. ASSUME NEW i \in 1 .. n + 1, NEW j \in 1 .. n + 1, files2[i] = files2[j] PROVE i = j
  <2>1. \A m \in 1 .. n + 1 : m \in 1 .. n \/ m = n + 1
    BY <1>1
  <2>2. \A m \in 1 .. n : files[m] # f
    BY DEF n
  <2>3. \A l, m \in 1 .. n : files[l] = files[m] => l = m
    BY DEF n, Tabs
  <2> QED
    BY <1>3, <1>9, <2>1, <2>2, <2>3
<1>10. ASSUME NEW i \in 1 .. n + 1, NEW j \in 1 .. n + 1, order2[i] = order2[j] PROVE i = j
  <2>1. \A m \in 1 .. n + 1 : m = 1 \/ (m \in 2 .. n + 1 /\ m - 1 \in 1 .. n)
    BY <1>1
  <2>2. \A l, m \in 1 .. n : order[l] = order[m] => l = m
    BY DEF n, Tabs
  <2>3. i - 1 = j - 1 => i = j
    BY <1>1
  <2> QED
    BY <1>2, <1>4, <1>10, <2>1, <2>2, <2>3, SMTT(30)
<1>11. Len(files2) = n + 1
  BY <1>3
<1>12. Tabs(files2, order2, list2)
  BY <1>3, <1>4, <1>5, <1>7, <1>8, <1>9, <1>10, <1>11 DEF Tabs
<1> QED
  BY <1>12 DEF files2, order2, list2

(* RemovePageFromTabOrder.                                                   *)
LEMMA Renumbered ==
  ASSUME NEW order \in Seq(Nat), NEW k \in 1 .. Len(order), OnlyAt(order, k),
         NEW p \in Nat \ {0}, p = order[k]
  PROVE  /\ RemovePageFromTabOrder(order, p) \in Seq(Nat)
         /\ Len(RemovePageFromTabOrder(order, p)) = Len(order) - 1
         /\ \A i \in 1 .. Len(order) - 1 :
              RemovePageFromTabOrder(order, p)[i] =
                LET q == IF i < k THEN order[i] ELSE order[i + 1]
                IN IF q > p THEN q - 1 ELSE q
<1> DEFINE rest == RemoveAt(order, k)
           order2 == [i \in 1 .. Len(order) - 1 |-> IF rest[i] > p THEN rest[i] - 1 ELSE rest[i]]
<1>1. /\ rest \in Seq(Nat) /\ Len(rest) = Len(order) - 1
      /\ \A i \in 1 .. Len(order) - 1 : rest[i] = IF i < k THEN order[i] ELSE order[i + 1]
  <2>1. /\ RemoveAt(order, k) \in Seq(Nat) /\ Len(RemoveAt(order, k)) = Len(order) - 1
        /\ \A i \in 1 .. Len(order) - 1 :
             RemoveAt(order, k)[i] = IF i < k THEN order[i] ELSE order[i + 1]
    BY OneRemoved
  <2> QED
    BY <2>1
<1>2. RemoveFirst(order, p) = rest
  BY TakenOut
<1> HIDE DEF rest
<1>3. DOMAIN rest = 1 .. Len(order) - 1 /\ Len(order) - 1 \in Nat
  BY <1>1
<1>4. RemovePageFromTabOrder(order, p) = order2
  BY <1>2, <1>3 DEF RemovePageFromTabOrder
<1>5. \A i \in 1 .. Len(order) - 1 : rest[i] \in Nat
  BY <1>1, <1>3, SMTT(30)
<1>6. \A i \in 1 .. Len(order) - 1 : (IF rest[i] > p THEN rest[i] - 1 ELSE rest[i]) \in Nat
  BY <1>5
<1>7. order2 \in Seq(Nat)
  BY <1>3, <1>6, IsASeq
<1>8. Len(order2) = Len(order) - 1
  BY <1>3, <1>7
<1>9. \A i \in 1 .. Len(order) - 1 :
        order2[i] = IF rest[i] > p THEN rest[i] - 1 ELSE rest[i]
  OBVIOUS
<1> HIDE DEF order2
<1> QED
  BY <1>1, <1>4, <1>7, <1>8, <1>9

LEMMA PageRemoved ==
  ASSUME NEW files, NEW order, NEW list, Tabs(files, order, list), NEW p \in 1 .. Len(files)
  PROVE  Tabs(RemoveAt(files, p), RemovePageFromTabOrder(order, p), RemoveFirst(list, files[p]))
<1> DEFINE n == Len(files)
           f == files[p]
           files2 == RemoveAt(files, p)
           order2 == RemovePageFromTabOrder(order, p)
           list2 == RemoveFirst(list, f)
           Before(i, k) == IF i < k THEN i ELSE i + 1
           Shifted(q) == IF q > p THEN q - 1 ELSE q
<1>1. PICK k \in 1 .. n : /\ order[k] = p /\ list[k] = f
                          /\ OnlyAt(order, k) /\ OnlyAt(list, k)
  BY TabPlace
<1>2. /\ order \in Seq(Nat) /\ list \in Seq(Files) /\ Len(order) = n /\ Len(list) = n
      /\ files \in Seq(Files) /\ n \in Nat /\ p \in 1 .. n /\ k \in 1 .. n
      /\ k \in 1 .. Len(order) /\ k \in 1 .. Len(list) /\ p \in Nat \ {0}
  BY DEF Tabs
<1> HIDE DEF f
<1>3. /\ files2 \in Seq(Files) /\ Len(files2) = n - 1
      /\ \A i \in 1 .. n - 1 : files2[i] = files[Before(i, p)]
  <2>1. /\ RemoveAt(files, p) \in Seq(Files) /\ Len(RemoveAt(files, p)) = Len(files) - 1
        /\ \A i \in 1 .. Len(files) - 1 :
             RemoveAt(files, p)[i] = IF i < p THEN files[i] ELSE files[i + 1]
    BY <1>2, OneRemoved
  <2> QED
    BY <2>1
<1>4. /\ order2 \in Seq(Nat) /\ Len(order2) = n - 1
      /\ \A i \in 1 .. n - 1 : order2[i] = Shifted(order[Before(i, k)])
  <2>1. /\ order2 \in Seq(Nat) /\ Len(order2) = Len(order) - 1
        /\ \A i \in 1 .. Len(order) - 1 :
             order2[i] = LET q == IF i < k THEN order[i] ELSE order[i + 1]
                         IN IF q > p THEN q - 1 ELSE q
    BY <1>1, <1>2, Renumbered
  <2> HIDE DEF order2
  <2> QED
    BY <1>2, <2>1
<1>5. /\ list2 \in Seq(Files) /\ Len(list2) = n - 1
      /\ \A i \in 1 .. n - 1 : list2[i] = list[Before(i, k)]
  <2>1. list2 = RemoveAt(list, k)
    BY <1>1, <1>2, TakenOut
  <2>2. /\ RemoveAt(list, k) \in Seq(Files) /\ Len(RemoveAt(list, k)) = Len(list) - 1
        /\ \A i \in 1 .. Len(list) - 1 :
             RemoveAt(list, k)[i] = IF i < k THEN list[i] ELSE list[i + 1]
    BY <1>2, OneRemoved
  <2> HIDE DEF list2
  <2> QED
    BY <1>2, <2>1, <2>2
<1>6. /\ \A i \in 1 .. n : order[i] \in 1 .. n
      /\ \A i \in 1 .. n : list[i] = files[order[i]]
  BY DEF Tabs
<1>7. \A i, j \in 1 .. n : order[i] = order[j] => i = j
  BY DEF Tabs
<1>8. \A i, j \in 1 .. n : files[i] = files[j] => i = j
  BY DEF Tabs
<1>9. \A q \in 1 .. n : \E i \in 1 .. n : order[i] = q
  BY DEF Tabs
<1> HIDE DEF n, files2, order2, list2
<1>10. ASSUME NEW i \in 1 .. n - 1, NEW m \in 1 .. n
       PROVE  /\ Before(i, m) \in 1 .. n /\ Before(i, m) # m
              /\ \A j \in 1 .. n - 1 : Before(i, m) = Before(j, m) => i = j
  BY <1>2
<1>11. ASSUME NEW q \in 1 .. n, q # p
       PROVE  /\ Shifted(q) \in 1 .. n - 1 /\ Before(Shifted(q), p) = q
              /\ \A r \in 1 .. n : r # p /\ Shifted(q) = Shifted(r) => q = r
  BY <1>2, <1>11
<1>12. ASSUME NEW i \in 1 .. n - 1
       PROVE  order[Before(i, k)] \in 1 .. n /\ order[Before(i, k)] # p
  <2>1. Before(i, k) \in 1 .. n /\ Before(i, k) # k
    BY <1>2, <1>10
  <2> HIDE DEF Before
  <2> QED
    BY <1>1, <1>2, <1>6, <1>7, <2>1
<1>13. ASSUME NEW q \in 1 .. n - 1 PROVE Shifted(Before(q, p)) = q
  BY <1>2
<1>14. ASSUME NEW j \in 1 .. n, j # k PROVE \E i \in 1 .. n - 1 : Before(i, k) = j
  <2>1. CASE j < k
    <3>1. j \in 1 .. n - 1 /\ Before(j, k) = j
      BY <1>2, <2>1
    <3> QED
      BY <3>1
  <2>2. CASE j > k
    <3>1. j - 1 \in 1 .. n - 1 /\ Before(j - 1, k) = j
      BY <1>2, <2>2
    <3> QED
      BY <3>1
  <2> QED
    BY <1>2, <1>14, <2>1, <2>2
<1> HIDE DEF Before, Shifted
<1>15. ASSUME NEW i \in 1 .. n - 1
       PROVE  order2[i] \in 1 .. n - 1 /\ list2[i] = files2[order2[i]]
  <2>1. order[Before(i, k)] \in 1 .. n /\ order[Before(i, k)] # p
    BY <1>12
  <2>2. /\ Shifted(order[Before(i, k)]) \in 1 .. n - 1
        /\ Before(Shifted(order[Before(i, k)]), p) = order[Before(i, k)]
    BY <1>11, <2>1
  <2>3. order2[i] \in 1 .. n - 1 /\ Before(order2[i], p) = order[Before(i, k)]
    BY <1>4, <2>2
  <2>4. files2[order2[i]] = files[order[Before(i, k)]]
    BY <1>3, <2>3
  <2>5. Before(i, k) \in 1 .. n
    BY <1>2, <1>10
  <2> QED
    BY <1>5, <1>6, <2>3, <2>4, <2>5
<1>16. ASSUME NEW q \in 1 .. n - 1 PROVE \E i \in 1 .. n - 1 : order2[i] = q
  <2>1. Before(q, p) \in 1 .. n /\ Before(q, p) # p
    BY <1>2, <1>10
  <2>2. PICK j \in 1 .. n : order[j] = Before(q, p)
    BY <1>9, <2>1
  <2>3. j # k
    BY <1>1, <2>1, <2>2
  <2>4. PICK i \in 1 .. n - 1 : Before(i, k) = j
    BY <1>14, <2>3
  <2>5. order2[i] = Shifted(Before(q, p))
    BY <1>4, <2>2, <2>4
  <2> QED
    BY <1>13, <2>5
<1>17. ASSUME NEW i \in 1 .. n - 1, NEW j \in 1 .. n - 1, files2[i] = files2[j] PROVE i = j
  <2>1. Before(i, p) \in 1 .. n /\ Before(j, p) \in 1 .. n
    BY <1>2, <1>10
  <2>2. Before(i, p) = Before(j, p)
    BY <1>3, <1>8, <1>17, <2>1
  <2> QED
    BY <1>2, <1>10, <2>2
<1>18. ASSUME NEW i \in 1 .. n - 1, NEW j \in 1 .. n - 1, order2[i] = order2[j] PROVE i = j
  <2>1. /\ order[Before(i, k)] \in 1 .. n /\ order[Before(i, k)] # p
        /\ order[Before(j, k)] \in 1 .. n /\ order[Before(j, k)] # p
        /\ Before(i, k) \in 1 .. n /\ Before(j, k) \in 1 .. n
    BY <1>2, <1>10, <1>12
  <2>2. Shifted(order[Before(i, k)]) = Shifted(order[Before(j, k)])
    BY <1>4, <1>18
  <2>3. order[Before(i, k)] = order[Before(j, k)]
    BY <1>11, <2>1, <2>2
  <2>4. Before(i, k) = Before(j, k)
    BY <1>7, <2>1, <2>3
  <2> QED
    BY <1>2, <1>10, <2>4
<1>19. Tabs(files2, order2, list2)
  BY <1>3, <1>4, <1>5, <1>15, <1>16, <1>17, <1>18 DEF Tabs
<1> QED
  BY <1>19 DEF files2, order2, list2, f

LEMMA SelectedUsed ==
  ASSUME NEW files, NEW order, NEW list, Tabs(files, order, list),
         NEW p \in 1 .. Len(files), NEW f, f = files[p]
  PROVE  Tabs(files, SetMostRecentlyUsedPage(order, p), Used(f, list))
<1>1. Tabs(files, <<p>> \o RemoveFirst(order, p), <<f>> \o RemoveFirst(list, f))
  BY PageUsed
<1>2. CASE tabOrderIndex' = 0
  BY <1>1, <1>2 DEF SetMostRecentlyUsedPage, Used
<1>3. CASE tabOrderIndex' # 0
  BY <1>3 DEF SetMostRecentlyUsedPage, Used
<1> QED
  BY <1>2, <1>3

TabInv ==
  /\ Tabs(openFiles, tabOrder, recent)
  /\ selection \in 0 .. Len(openFiles) /\ (selection = 0 <=> Len(openFiles) = 0)
  /\ tabOrderIndex \in Nat

(* What the user does with the tabs, to the handler of the changed page.     *)
Moved ==
  \/ ui' = "status" /\ selection' # 0
  \/ ui' = ui /\ selection' = 0
  \/ ui' = ui /\ selection' = selection /\ openFiles' = openFiles
HandlerKept == sameDirectory' = sameDirectory /\ found' = found

LEMMA LenOfTabs ==
  ASSUME NEW files, NEW order, NEW list, Tabs(files, order, list)
  PROVE  /\ files \in Seq(Files) /\ order \in Seq(Nat) /\ Len(files) \in Nat
         /\ DOMAIN files = 1 .. Len(files) /\ Len(order) = Len(files)
         /\ DOMAIN order = 1 .. Len(files)
         /\ \A i \in 1 .. Len(files) : files[i] \in Files /\ order[i] \in 1 .. Len(files)
BY DEF Tabs

LEMMA SelectStep ==
  ASSUME TabInv, NEW page \in 1 .. Len(openFiles), Select(page),
         openFiles' = openFiles, tabOrderIndex' \in Nat
  PROVE  TabInv' /\ Moved /\ HandlerKept
<1>0. Len(openFiles) \in Nat
  BY LenOfTabs DEF TabInv
<1>1. /\ selection' = page /\ page # 0 /\ Len(openFiles) # 0
      /\ selection' \in 0 .. Len(openFiles')
  BY <1>0 DEF Select
<1>2. CASE page = selection
  <2>1. tabOrder' = tabOrder /\ recent' = recent
        /\ ui' = ui /\ sameDirectory' = sameDirectory /\ found' = found
    BY <1>2 DEF Select, handlerVars
  <2>2. Tabs(openFiles', tabOrder', recent')
    BY <2>1 DEF TabInv
  <2>3. TabInv'
    BY <1>0, <1>1, <2>2 DEF TabInv
  <2> QED
    BY <1>1, <1>2, <2>1, <2>3 DEF Moved, HandlerKept
<1>3. CASE page # selection
  <2>1. /\ tabOrder' = SetMostRecentlyUsedPage(tabOrder, page)
        /\ recent' = Used(openFiles[page], recent)
        /\ ui' = "status" /\ sameDirectory' = sameDirectory /\ found' = found
    BY <1>3 DEF Select
  <2>2. Tabs(openFiles', tabOrder', recent')
    BY <2>1, SelectedUsed DEF TabInv
  <2>3. TabInv'
    BY <1>0, <1>1, <2>2 DEF TabInv
  <2> QED
    BY <1>1, <2>1, <2>3 DEF Moved, HandlerKept
<1> QED
  BY <1>2, <1>3

LEMMA OpenStep ==
  ASSUME TabInv, NEW file \in Files, OpenProjectFile(file) \/ OpenDocument(file)
  PROVE  TabInv' /\ Moved /\ HandlerKept
<1>0. /\ Len(openFiles) \in Nat /\ openFiles \in Seq(Files)
      /\ DOMAIN openFiles = 1 .. Len(openFiles) /\ tabOrderIndex \in Nat
  BY LenOfTabs DEF TabInv
<1>1. CASE IsOpen(file)
  <2>1. IndexOf(file) \in 1 .. Len(openFiles)
    <3>1. \E i \in DOMAIN openFiles : openFiles[i] = file
      BY <1>0, <1>1 DEF IsOpen, Contains
    <3> QED
      BY <1>0, <3>1 DEF IndexOf
  <2>2. Select(IndexOf(file)) /\ openFiles' = openFiles /\ tabOrderIndex' \in Nat
    BY <1>0, <1>1 DEF OpenProjectFile, OpenDocument
  <2> QED
    BY <2>1, <2>2, SelectStep
<1>2. CASE ~IsOpen(file)
  <2>1. /\ tabOrderIndex' = 0 /\ openFiles' = Append(openFiles, file)
        /\ selection' = Len(openFiles')
        /\ tabOrder' = SetMostRecentlyUsedPage(tabOrder, selection')
        /\ recent' = Used(file, recent)
        /\ ui' = "status" /\ sameDirectory' = sameDirectory /\ found' = found
    BY <1>2 DEF OpenProjectFile, OpenDocument
  <2>2. Len(openFiles') = Len(openFiles) + 1
    BY <1>0, <2>1, AppendProperties
  <2>3. \A i \in 1 .. Len(openFiles) : openFiles[i] # file
    BY <1>2 DEF IsOpen, Contains
  <2>4. /\ tabOrder' = <<selection'>> \o RemoveFirst(tabOrder, selection')
        /\ recent' = <<file>> \o RemoveFirst(recent, file)
    BY <2>1 DEF SetMostRecentlyUsedPage, Used
  <2>5. selection' = Len(openFiles) + 1
    BY <2>1, <2>2
  <2>6. Tabs(openFiles, tabOrder, recent)
    BY DEF TabInv
  <2>7. Tabs(Append(openFiles, file), <<selection'>> \o RemoveFirst(tabOrder, selection'),
             <<file>> \o RemoveFirst(recent, file))
    BY <2>3, <2>5, <2>6, PageAdded
  <2>8. Tabs(openFiles', tabOrder', recent')
    BY <2>1, <2>4, <2>7
  <2>9. selection' \in 0 .. Len(openFiles') /\ selection' # 0 /\ Len(openFiles') # 0
    BY <1>0, <2>2, <2>5
  <2> QED
    BY <2>1, <2>8, <2>9 DEF TabInv, Moved, HandlerKept
<1> QED
  BY <1>1, <1>2

LEMMA PageStep ==
  ASSUME TabInv, PageThroughTabs
  PROVE  TabInv' /\ Moved /\ HandlerKept
<1> DEFINE n == Len(tabOrder)
           place == IF tabOrderIndex = 0 THEN 0 ELSE tabOrderIndex - 1
<1>0. /\ n \in Nat /\ n = Len(openFiles) /\ tabOrderIndex \in Nat
      /\ \A i \in 1 .. n : tabOrder[i] \in 1 .. Len(openFiles)
  BY LenOfTabs DEF TabInv
<1>1. /\ n > 0
      /\ tabOrderIndex' \in {1 + ((place + 1) % n),
                             1 + (IF place = 0 THEN Wrapped(n) ELSE (place - 1) % n)}
      /\ Select(tabOrder[tabOrderIndex']) /\ openFiles' = openFiles
  BY DEF PageThroughTabs
<1>2. place \in Nat /\ place + 1 \in Nat /\ (place # 0 => place - 1 \in Nat) /\ n \in Nat \ {0}
  BY <1>0, <1>1
<1>3. \A a \in Nat : a % n \in 0 .. n - 1
  BY <1>2
<1>4. Wrapped(n) \in 0 .. n - 1
  <2> DEFINE r == 65536 % n
             square == r * r
             q == square % n
  <2>1. r \in Nat
    BY <1>2, <1>3
  <2>2. square \in Nat
    <3> HIDE DEF r
    <3> QED
      BY <2>1
  <2> HIDE DEF r, square
  <2>3. q \in Nat
    BY <1>2, <1>3, <2>2
  <2> HIDE DEF q
  <2>4. q + (n - 1) \in Nat
    BY <1>2, <2>3
  <2>5. Wrapped(n) = (q + (n - 1)) % n
    BY DEF Wrapped, q, square, r
  <2> QED
    BY <1>3, <2>4, <2>5
<1> HIDE DEF n, place
<1>5. (place + 1) % n \in 0 .. n - 1
  BY <1>2, <1>3
<1>6. place # 0 => (place - 1) % n \in 0 .. n - 1
  BY <1>2, <1>3
<1>7. tabOrderIndex' \in 1 .. n
  <2>1. CASE tabOrderIndex' = 1 + ((place + 1) % n)
    BY <1>2, <1>5, <2>1
  <2>2. CASE tabOrderIndex' = 1 + Wrapped(n)
    BY <1>2, <1>4, <2>2
  <2>3. CASE place # 0 /\ tabOrderIndex' = 1 + ((place - 1) % n)
    BY <1>2, <1>6, <2>3
  <2> QED
    BY <1>1, <2>1, <2>2, <2>3
<1>8. tabOrder[tabOrderIndex'] \in 1 .. Len(openFiles) /\ tabOrderIndex' \in Nat
  BY <1>0, <1>7
<1> QED
  BY <1>1, <1>8, SelectStep

(* The page that is selected when one is removed is there, if any is left.   *)
LEMMA SelectionStays ==
  ASSUME TabInv, NEW page \in DOMAIN openFiles
  PROVE  LET rest == RemoveAt(openFiles, page)
             next == SelectedAfter(page)
         IN  /\ Len(openFiles) \in Nat /\ openFiles \in Seq(Files)
             /\ page \in 1 .. Len(openFiles)
             /\ rest \in Seq(Files) /\ Len(rest) = Len(openFiles) - 1
             /\ next \in 0 .. Len(rest) /\ (next = 0 <=> Len(rest) = 0)
             /\ rest # <<>> => next \in 1 .. Len(rest)
<1> DEFINE n == Len(openFiles)
           rest == RemoveAt(openFiles, page)
           next == SelectedAfter(page)
<1>1. n \in Nat /\ openFiles \in Seq(Files) /\ page \in 1 .. n
  BY LenOfTabs DEF TabInv
<1>2. rest \in Seq(Files) /\ Len(rest) = n - 1
  BY <1>1, OneRemoved
<1>3. selection \in 1 .. n
  BY <1>1 DEF TabInv
<1>4. /\ page < selection => next = selection - 1
      /\ page > selection => next = selection
      /\ page = selection => next = IF page = n THEN page - 1 ELSE page
  BY <1>1, <1>3 DEF SelectedAfter
<1> HIDE DEF n, rest, next
<1>5. next \in 0 .. n - 1 /\ (next = 0 <=> n - 1 = 0)
  BY <1>1, <1>3, <1>4
<1>6. rest # <<>> => Len(rest) # 0
  BY <1>2, EmptySeq
<1>7. /\ next \in 0 .. Len(rest) /\ (next = 0 <=> Len(rest) = 0)
      /\ rest # <<>> => next \in 1 .. Len(rest)
  BY <1>1, <1>2, <1>5, <1>6
<1> QED
  BY <1>1, <1>2, <1>7 DEF n, rest, next

LEMMA CloseStep ==
  ASSUME TabInv, NEW page \in DOMAIN openFiles, CloseDocument(page)
  PROVE  TabInv' /\ Moved /\ HandlerKept
<1> DEFINE rest == RemoveAt(openFiles, page)
           order == RemovePageFromTabOrder(tabOrder, page)
           list == RemoveFirst(recent, openFiles[page])
           next == SelectedAfter(page)
<1>1. /\ rest \in Seq(Files) /\ page \in 1 .. Len(openFiles)
      /\ next \in 0 .. Len(rest) /\ (next = 0 <=> Len(rest) = 0)
      /\ rest # <<>> => next \in 1 .. Len(rest)
  BY SelectionStays
<1>2. Tabs(rest, order, list)
  BY <1>1, PageRemoved DEF TabInv
<1>3. /\ openFiles' = rest /\ selection' = next /\ tabOrderIndex' = tabOrderIndex
      /\ sameDirectory' = sameDirectory /\ found' = found
      /\ rest = <<>> => tabOrder' = order /\ recent' = list /\ ui' = ui
      /\ rest # <<>> => /\ tabOrder' = SetMostRecentlyUsedPage(order, next)
                        /\ recent' = Used(rest[next], list)
                        /\ ui' = "status"
  BY DEF CloseDocument
<1> HIDE DEF rest, order, list, next
<1>4. Tabs(openFiles', tabOrder', recent')
  <2>1. CASE rest = <<>>
    BY <1>2, <1>3, <2>1
  <2>2. CASE rest # <<>>
    BY <1>1, <1>2, <1>3, <2>2, SelectedUsed
  <2> QED
    BY <2>1, <2>2
<1>6. rest = <<>> => selection' = 0 /\ ui' = ui
  BY <1>1, <1>3, EmptySeq
<1>7. rest # <<>> => ui' = "status" /\ selection' # 0
  BY <1>1, <1>3
<1> QED
  BY <1>1, <1>3, <1>4, <1>6, <1>7 DEF TabInv, Moved, HandlerKept

LEMMA DeleteStep ==
  ASSUME TabInv, NEW page \in DOMAIN openFiles, DeleteProjectFile(page)
  PROVE  TabInv' /\ Moved /\ HandlerKept
<1> DEFINE rest == RemoveAt(openFiles, page)
           next == SelectedAfter(page)
           old == IF next >= page THEN next + 1 ELSE next
           f == rest[next]
<1>1. /\ rest \in Seq(Files) /\ page \in 1 .. Len(openFiles)
      /\ next \in 0 .. Len(rest) /\ (next = 0 <=> Len(rest) = 0)
      /\ rest # <<>> => next \in 1 .. Len(rest)
      /\ Len(rest) = Len(openFiles) - 1 /\ Len(openFiles) \in Nat
      /\ openFiles \in Seq(Files)
  BY SelectionStays
<1>2. \A i \in 1 .. Len(openFiles) - 1 :
        rest[i] = IF i < page THEN openFiles[i] ELSE openFiles[i + 1]
  BY <1>1, OneRemoved
<1>3. /\ openFiles' = rest /\ selection' = next /\ tabOrderIndex' = tabOrderIndex
      /\ sameDirectory' = sameDirectory /\ found' = found
      /\ rest = <<>> => /\ tabOrder' = RemovePageFromTabOrder(tabOrder, page)
                        /\ recent' = RemoveFirst(recent, openFiles[page]) /\ ui' = ui
      /\ rest # <<>> => /\ tabOrder' = RemovePageFromTabOrder(
                                         SetMostRecentlyUsedPage(tabOrder, old), page)
                        /\ recent' = RemoveFirst(Used(f, recent), openFiles[page])
                        /\ ui' = "status"
  BY DEF DeleteProjectFile
<1> HIDE DEF rest, next
<1>4. rest # <<>> => old \in 1 .. Len(openFiles) /\ f = openFiles[old]
  BY <1>1, <1>2
<1> HIDE DEF old, f
<1>5. Tabs(openFiles', tabOrder', recent')
  <2>1. CASE rest = <<>>
    <3>1. Tabs(RemoveAt(openFiles, page), RemovePageFromTabOrder(tabOrder, page),
               RemoveFirst(recent, openFiles[page]))
      BY <1>1, PageRemoved DEF TabInv
    <3> QED
      BY <1>3, <2>1, <3>1 DEF rest
  <2>2. CASE rest # <<>>
    <3> DEFINE order == SetMostRecentlyUsedPage(tabOrder, old)
               list == Used(f, recent)
    <3>1. Tabs(openFiles, order, list)
      BY <1>4, <2>2, SelectedUsed DEF TabInv
    <3> HIDE DEF order, list
    <3>2. Tabs(RemoveAt(openFiles, page), RemovePageFromTabOrder(order, page),
               RemoveFirst(list, openFiles[page]))
      BY <1>1, <3>1, PageRemoved
    <3> QED
      BY <1>3, <2>2, <3>2 DEF rest, order, list
  <2> QED
    BY <2>1, <2>2
<1>6. rest = <<>> => selection' = 0 /\ ui' = ui
  BY <1>1, <1>3, EmptySeq
<1>7. rest # <<>> => ui' = "status" /\ selection' # 0
  BY <1>1, <1>3
<1> QED
  BY <1>1, <1>3, <1>5, <1>6, <1>7 DEF TabInv, Moved, HandlerKept

LEMMA PagingEndsStep ==
  ASSUME TabInv, PagingEnds
  PROVE  TabInv' /\ Moved /\ HandlerKept
<1>1. /\ openFiles' = openFiles /\ selection' = selection /\ tabOrderIndex' = 0
      /\ ui' = ui /\ sameDirectory' = sameDirectory /\ found' = found
  BY DEF PagingEnds, handlerVars
<1>2. Tabs(openFiles', tabOrder', recent')
  <2>1. CASE selection = 0
    <3>1. tabOrder' = tabOrder /\ recent' = recent
      BY <2>1 DEF PagingEnds
    <3> QED
      BY <1>1, <3>1 DEF TabInv
  <2>2. CASE selection # 0
    <3>1. /\ tabOrder' = SetMostRecentlyUsedPage(tabOrder, selection)
          /\ recent' = Used(openFiles[selection], recent)
      BY <2>2 DEF PagingEnds
    <3>2. selection \in 1 .. Len(openFiles)
      BY <2>2, LenOfTabs DEF TabInv
    <3> QED
      BY <1>1, <3>1, <3>2, SelectedUsed DEF TabInv
  <2> QED
    BY <2>1, <2>2
<1> QED
  BY <1>1, <1>2 DEF TabInv, Moved, HandlerKept

LEMMA TabsAreRecency == TabInv => TabOrderIsRecency
<1> SUFFICES ASSUME TabInv PROVE TabOrderIsRecency
  OBVIOUS
<1>1. /\ DOMAIN tabOrder = 1 .. Len(openFiles) /\ DOMAIN openFiles = 1 .. Len(openFiles)
      /\ Len(tabOrder) = Len(openFiles)
      /\ \A i \in 1 .. Len(openFiles) : tabOrder[i] \in 1 .. Len(openFiles)
  BY LenOfTabs DEF TabInv
<1>2. /\ recent \in Seq(Files) /\ Len(recent) = Len(openFiles)
      /\ \A i \in 1 .. Len(openFiles) : recent[i] = openFiles[tabOrder[i]]
  BY DEF TabInv, Tabs
<1>3. recent = [i \in 1 .. Len(openFiles) |-> recent[i]]
  BY <1>2, LenProperties
<1>4. recent = [i \in DOMAIN tabOrder |-> openFiles[tabOrder[i]]]
  BY <1>1, <1>2, <1>3
<1> QED
  BY <1>1, <1>4 DEF TabOrderIsRecency

-----------------------------------------------------------------------------
(* The steps of the window, as the handler and the thread meet them.         *)

WatchKept ==
  /\ readOnly' = readOnly /\ fileEvents' = fileEvents /\ fileName' = fileName
  /\ attributes' = attributes /\ handle' = handle /\ notified' = notified
  /\ endEvent' = endEvent /\ watcher' = watcher /\ saw' = saw
  /\ protected' = protected /\ missed' = missed
TabsKept ==
  /\ openFiles' = openFiles /\ selection' = selection /\ tabOrder' = tabOrder
  /\ tabOrderIndex' = tabOrderIndex /\ recent' = recent

TabChange == ui = "idle" /\ Moved /\ HandlerKept /\ WatchKept

WatchStep ==
  \/ HandlerStep \/ WatcherStep \/ OnFileEvent \/ \E f \in Files : AttributeChanges(f)

LEMMA UserSteps ==
  ASSUME TabInv, UserStep
  PROVE  TabInv' /\ TabChange
<1>1. TabInv' /\ Moved /\ HandlerKept
  <2>1. ASSUME NEW f \in Files, OpenFromProject(f) PROVE TabInv' /\ Moved /\ HandlerKept
    BY <2>1, OpenStep DEF OpenFromProject
  <2>2. ASSUME NEW p \in DOMAIN openFiles, ClickTab(p) PROVE TabInv' /\ Moved /\ HandlerKept
    <3>1. /\ Select(p) /\ openFiles' = openFiles /\ tabOrderIndex' = tabOrderIndex
          /\ p \in 1 .. Len(openFiles) /\ tabOrderIndex \in Nat
      BY <2>2, LenOfTabs DEF ClickTab, TabInv
    <3> QED
      BY <3>1, SelectStep
  <2>3. ASSUME NEW p \in DOMAIN openFiles, CloseDocument(p) \/ DeleteProjectFile(p)
        PROVE  TabInv' /\ Moved /\ HandlerKept
    BY <2>3, CloseStep, DeleteStep
  <2> QED
    BY <2>1, <2>2, <2>3, PageStep DEF UserStep
<1>2. UserOperates
  BY DEF UserStep, OpenFromProject, ClickTab, CloseDocument, DeleteProjectFile, PageThroughTabs
<1>3. ui = "idle" /\ WatchKept
  BY <1>2 DEF UserOperates, Idle, statusVars, watchVars, threadVars, WatchKept
<1> QED
  BY <1>1, <1>3 DEF TabChange

LEMMA OtherTabSteps ==
  ASSUME TabInv, InstanceInv, PagingEnds \/ OpenNext
  PROVE  TabInv' /\ TabChange
<1>1. CASE PagingEnds
  <2>1. ui = "idle" /\ WatchKept
    BY <1>1 DEF PagingEnds, Idle, statusVars, watchVars, threadVars, WatchKept
  <2> QED
    BY <1>1, <2>1, PagingEndsStep DEF TabChange
<1>2. CASE OpenNext
  <2>1. ui = "idle" /\ WatchKept
    BY <1>2 DEF OpenNext, Idle, statusVars, watchVars, threadVars, WatchKept
  <2>2. PICK f \in Files : opening = <<f>>
    BY <1>2 DEF OpenNext, InstanceInv
  <2>3. OpenDocument(f)
    BY <1>2, <2>2 DEF OpenNext
  <2> QED
    BY <2>1, <2>3, OpenStep DEF TabChange
<1> QED
  BY <1>1, <1>2

LEMMA WatchStepsKeepTabs == WatchStep => TabsKept
<1>1. HandlerStep => TabsKept
  BY DEF HandlerStep, ShowStatus, SetFileName, GetAttributes, StoreAttributes,
         SetThreadEndEvent, ThreadHasEnded, StartWatching, tabVars, TabsKept
<1>2. WatcherStep => TabsKept
  BY DEF WatcherStep, WatcherWakes, WatcherEnds, WatcherReads, WatcherLooks, WatcherStores,
         WatcherCompares, tabVars, TabsKept
<1>3. OnFileEvent \/ (\E f \in Files : AttributeChanges(f)) => TabsKept
  BY DEF OnFileEvent, AttributeChanges, tabVars, TabsKept
<1> QED
  BY <1>1, <1>2, <1>3 DEF WatchStep

NothingChanges == TabsKept /\ WatchKept /\ HandlerKept /\ ui' = ui

LEMMA StepKinds ==
  ASSUME TabInv, InstanceInv, [Next]_vars
  PROVE  /\ TabInv'
         /\ TabChange \/ WatchStep \/ NothingChanges
<1>1. TabsKept => TabInv'
  BY DEF TabsKept, TabInv
<1>2. (UNCHANGED fileVars) => NothingChanges
  BY DEF fileVars, tabVars, statusVars, watchVars, threadVars, handlerVars,
         NothingChanges, TabsKept, WatchKept, HandlerKept
<1>3. ASSUME NEW p \in Processes, InstanceStep(p) PROVE UNCHANGED fileVars
  BY <1>3 DEF InstanceStep, OpenMapping, CreateMutex, CreateMapping, StoreHandle,
              ClearCommand, ReleaseMutex, Connect, OnOpenFiles
<1>4. ASSUME NEW s \in Senders, SenderStep(s) PROVE UNCHANGED fileVars
  BY <1>4 DEF SenderStep, SetCommand, Post
<1>5. CASE UNCHANGED vars
  BY <1>1, <1>2, <1>5 DEF vars, NothingChanges
<1>6. CASE OpenNext
  BY <1>6, OtherTabSteps
<1>7. CASE WindowStep
  BY <1>1, <1>7, UserSteps, OtherTabSteps, WatchStepsKeepTabs DEF WindowStep, WatchStep
<1> QED
  BY <1>1, <1>2, <1>3, <1>4, <1>5, <1>6, <1>7 DEF Next, NothingChanges

-----------------------------------------------------------------------------
(* The handler of the changed page and the watching thread.                  *)

Attributes == BOOLEAN \cup {None}

WatchTypes ==
  /\ readOnly \in [Files -> BOOLEAN] /\ protected \in [Files -> BOOLEAN]
  /\ ui \in {"idle", "status", "name", "look", "store", "end", "wait", "watch"}
  /\ found \in Attributes /\ attributes \in Attributes
  /\ fileName \in Files \cup {None} /\ handle \in Directories \cup {None}
  /\ sameDirectory \in BOOLEAN /\ notified \in BOOLEAN /\ endEvent \in BOOLEAN
  /\ missed \in BOOLEAN
  /\ watcher \in {"none", "wait", "read", "look", "store", "compare"}
  /\ saw \in [file : Files \cup {None}, old : Attributes, new : Attributes]
  /\ fileEvents \in Nat

(* The handler runs only while a page is selected, and has given its file to *)
(* the watcher when it is done.                                              *)
HandlerInv ==
  /\ ui # "idle" => selection # 0
  /\ ui \notin {"status", "name"} /\ selection # 0 => fileName = Selected

(* A thread watches the directory of the file, but for the time in which the *)
(* window ends the one of another directory; a change in the directory since *)
(* the thread looked has notified it.                                        *)
ThreadInv ==
  /\ handle # None /\ ui \in {"idle", "status", "name"} =>
       fileName # None /\ handle = Directory[fileName]
  /\ handle # None /\ ui \in {"look", "store"} /\ sameDirectory => handle = Directory[fileName]
  /\ watcher # "none" => handle # None
  /\ handle # None /\ ui \notin {"wait", "watch"} => watcher # "none"
  /\ ui = "end" => watcher # "none"
  /\ ui = "watch" => watcher = "none"
  /\ endEvent => ui = "wait" /\ watcher # "none"
  /\ watcher = "store" => saw.file # None
  /\ watcher = "store" /\ Directory[saw.file] = handle =>
       notified \/ saw.new = protected[saw.file]

(* What the editor was told is what the thread will compare the file with,   *)
(* or an event is on its way that tells the editor again.                    *)
ShownInv ==
  ui \in {"end", "wait", "watch", "idle"} /\ selection # 0 /\ ~missed =>
    /\ watcher \in {"none", "wait", "read", "look"} /\ fileEvents = 0 =>
         readOnly[Selected] = attributes
    /\ watcher = "store" /\ saw.file = fileName /\ saw.old = attributes /\ fileEvents = 0 =>
         readOnly[Selected] \in {saw.old, saw.new}
    /\ watcher = "compare" /\ fileEvents = 0 /\ saw.old = attributes =>
         readOnly[Selected] = attributes
    /\ ui = "idle" /\ ~notified /\ watcher \in {"wait", "compare"} =>
         protected[fileName] = attributes

WatchInv == WatchTypes /\ HandlerInv /\ ThreadInv /\ ShownInv

LEMMA WatchInit == Init => TabInv /\ WatchInv
<1> SUFFICES ASSUME Init PROVE TabInv /\ WatchInv
  OBVIOUS
<1>1. FilesInit
  BY DEF Init
<1>2. TabInv
  <2>1. /\ openFiles = <<>> /\ tabOrder = <<>> /\ recent = <<>> /\ selection = 0
        /\ tabOrderIndex = 0
    BY <1>1 DEF FilesInit
  <2>2. /\ <<>> \in Seq(Files) /\ <<>> \in Seq(Nat) /\ Len(<<>>) = 0
        /\ 0 \in 0 .. 0 /\ \A i \in 1 .. 0 : FALSE
    BY EmptySeq
  <2>3. Tabs(openFiles, tabOrder, recent)
    BY <2>1, <2>2 DEF Tabs
  <2> QED
    BY <2>1, <2>2, <2>3 DEF TabInv
<1>3. WatchTypes
  <2>1. [f \in Files |-> f \in Protected] \in [Files -> BOOLEAN]
    OBVIOUS
  <2>2. [f \in Files |-> FALSE] \in [Files -> BOOLEAN]
    OBVIOUS
  <2>3. /\ ui = "idle" /\ found = None /\ attributes = None /\ fileName = None /\ handle = None
        /\ sameDirectory = FALSE /\ notified = FALSE /\ endEvent = FALSE /\ missed = FALSE
        /\ watcher = "none" /\ fileEvents = 0
    BY <1>1 DEF FilesInit
  <2>4. saw \in [file : Files \cup {None}, old : Attributes, new : Attributes]
    BY <1>1 DEF FilesInit, NothingSeen, Attributes
  <2>5. readOnly \in [Files -> BOOLEAN] /\ protected \in [Files -> BOOLEAN]
    BY <1>1, <2>1, <2>2 DEF FilesInit
  <2> QED
    BY <2>3, <2>4, <2>5 DEF WatchTypes, Attributes
<1>4. HandlerInv /\ ThreadInv /\ ShownInv
  BY <1>1 DEF FilesInit, HandlerInv, ThreadInv, ShownInv
<1> QED
  BY <1>2, <1>3, <1>4 DEF WatchInv

(* The selected file is a file.                                              *)
LEMMA SelectedFile ==
  ASSUME TabInv, selection # 0
  PROVE  Selected \in Files /\ Selected # None
<1>1. selection \in 1 .. Len(openFiles)
  BY LenOfTabs DEF TabInv
<1> QED
  BY <1>1, LenOfTabs, OpenFilesAssumption DEF TabInv, Selected

LEMMA TabChangeHolds ==
  ASSUME TabInv, WatchInv, TabInv', TabChange \/ NothingChanges
  PROVE  WatchInv'
<1> USE DEF WatchInv
<1>1. CASE TabChange
  <2>1. /\ ui = "idle" /\ Moved /\ WatchKept /\ sameDirectory' = sameDirectory /\ found' = found
    BY <1>1 DEF TabChange, HandlerKept
  <2>2. ui' \in {"idle", "status"} /\ (ui' = "status" => selection' # 0)
    BY <2>1 DEF Moved
  <2>3. ui' = "idle" /\ selection' # 0 => selection' = selection /\ openFiles' = openFiles
    BY <2>1 DEF Moved
  <2>4. WatchTypes'
    BY <2>1, <2>2 DEF WatchTypes, WatchKept
  <2>5. HandlerInv'
    BY <2>1, <2>2, <2>3 DEF HandlerInv, WatchKept, Selected
  <2>6. ThreadInv'
    BY <2>1, <2>2 DEF ThreadInv, WatchKept
  <2>7. ShownInv'
    BY <2>1, <2>2, <2>3 DEF ShownInv, WatchKept, Selected
  <2> QED
    BY <2>4, <2>5, <2>6, <2>7
<1>2. CASE NothingChanges
  <2> USE <1>2 DEF NothingChanges, TabsKept, WatchKept, HandlerKept
  <2>1. WatchTypes'
    BY DEF WatchTypes
  <2>2. HandlerInv'
    BY DEF HandlerInv, Selected
  <2>3. ThreadInv'
    BY DEF ThreadInv
  <2>4. ShownInv'
    BY DEF ShownInv, Selected
  <2> QED
    BY <2>1, <2>2, <2>3, <2>4
<1> QED
  BY <1>1, <1>2

LEMMA WatchStepHolds ==
  ASSUME TabInv, WatchInv, WatchStep
  PROVE  WatchInv'
<1> USE DEF WatchInv
<1>0. /\ openFiles' = openFiles /\ selection' = selection /\ Selected' = Selected
      /\ selection # 0 => Selected \in Files /\ Selected # None
  BY WatchStepsKeepTabs, SelectedFile DEF TabsKept, Selected
<1> HIDE DEF Selected
<1>1. CASE ShowStatus
  <2>1. /\ ui = "status" /\ ui' = "name" /\ missed' = FALSE
        /\ fileEvents' = fileEvents /\ sameDirectory' = sameDirectory /\ found' = found
        /\ fileName' = fileName /\ attributes' = attributes /\ handle' = handle
        /\ notified' = notified /\ endEvent' = endEvent /\ watcher' = watcher /\ saw' = saw
        /\ protected' = protected
    BY <1>1 DEF ShowStatus, watchVars, threadVars
  <2>2. readOnly' \in [Files -> BOOLEAN]
    BY <1>0, <1>1 DEF ShowStatus, UpdateDocumentReadOnlyStatus, WatchTypes
  <2> QED
    BY <1>0, <2>1, <2>2 DEF WatchTypes, HandlerInv, ThreadInv, ShownInv
<1>2. CASE SetFileName
  <2>1. /\ ui = "name" /\ ui' = "look" /\ sameDirectory' = IsSameDirectory(Selected)
        /\ fileName' = Selected /\ found' = found
        /\ attributes' = attributes /\ handle' = handle
        /\ notified' = notified /\ endEvent' = endEvent /\ watcher' = watcher /\ saw' = saw
        /\ protected' = protected /\ readOnly' = readOnly /\ fileEvents' = fileEvents
        /\ missed' = missed
    BY <1>2 DEF SetFileName, statusVars, threadVars
  <2>2. sameDirectory' \in BOOLEAN
    BY <2>1 DEF IsSameDirectory
  <2>3. selection # 0
    BY <2>1 DEF HandlerInv
  <2>4. handle # None /\ sameDirectory' => handle = Directory[Selected]
    BY <2>1 DEF IsSameDirectory, ThreadInv
  <2> QED
    BY <1>0, <2>1, <2>2, <2>3, <2>4 DEF WatchTypes, HandlerInv, ThreadInv, ShownInv
<1>3. CASE GetAttributes
  <2>1. /\ ui = "look" /\ ui' = "store" /\ found' = protected[fileName]
        /\ sameDirectory' = sameDirectory
        /\ fileName' = fileName /\ attributes' = attributes /\ handle' = handle
        /\ notified' = notified /\ endEvent' = endEvent /\ watcher' = watcher /\ saw' = saw
        /\ protected' = protected /\ readOnly' = readOnly /\ fileEvents' = fileEvents
        /\ missed' = missed
    BY <1>3 DEF GetAttributes, statusVars, watchVars, threadVars
  <2>2. found' \in Attributes
    BY <1>0, <2>1 DEF WatchTypes, HandlerInv, Attributes
  <2> QED
    BY <1>0, <2>1, <2>2 DEF WatchTypes, HandlerInv, ThreadInv, ShownInv
<1>4. CASE StoreAttributes
  <2>1. /\ ui = "store" /\ attributes' = found
        /\ missed' = (\/ missed \/ found # readOnly[Selected]
                      \/ found # protected[fileName] /\ ~notified /\ watcher \in {"wait", "compare"})
        /\ ui' = IF sameDirectory /\ handle # None THEN "idle"
                 ELSE IF watcher # "none" THEN "end" ELSE "watch"
        /\ sameDirectory' = sameDirectory /\ found' = found
        /\ fileName' = fileName /\ handle' = handle
        /\ notified' = notified /\ endEvent' = endEvent /\ watcher' = watcher /\ saw' = saw
        /\ protected' = protected /\ readOnly' = readOnly /\ fileEvents' = fileEvents
    BY <1>4 DEF StoreAttributes, statusVars, threadVars
  <2>2. /\ ui' \in {"idle", "end", "watch"} /\ (ui' = "watch" <=> watcher = "none" /\ ui' # "idle")
        /\ ui' = "idle" => sameDirectory /\ handle # None
        /\ ui' = "end" => watcher # "none"
    BY <2>1 DEF ThreadInv
  <2>3. selection # 0 /\ fileName = Selected
    BY <2>1 DEF HandlerInv
  <2>4. ~missed' => /\ found = readOnly[Selected]
                    /\ ~notified /\ watcher \in {"wait", "compare"} => found = protected[fileName]
    BY <2>1
  <2>5. WatchTypes'
    BY <2>1, <2>2 DEF WatchTypes
  <2>6. HandlerInv'
    BY <1>0, <2>1, <2>2, <2>3 DEF HandlerInv
  <2>7. ThreadInv'
    BY <1>0, <2>1, <2>2, <2>3 DEF ThreadInv
  <2>8. ShownInv'
    BY <1>0, <2>1, <2>2, <2>3, <2>4 DEF ShownInv
  <2> QED
    BY <2>5, <2>6, <2>7, <2>8
<1>5. CASE SetThreadEndEvent
  <2>1. /\ ui = "end" /\ ui' = "wait" /\ endEvent' = TRUE
        /\ sameDirectory' = sameDirectory /\ found' = found
        /\ fileName' = fileName /\ attributes' = attributes /\ handle' = handle
        /\ notified' = notified /\ watcher' = watcher /\ saw' = saw
        /\ protected' = protected /\ readOnly' = readOnly /\ fileEvents' = fileEvents
        /\ missed' = missed
    BY <1>5 DEF SetThreadEndEvent, statusVars, threadVars
  <2> QED
    BY <1>0, <2>1 DEF WatchTypes, HandlerInv, ThreadInv, ShownInv
<1>15. CASE ThreadHasEnded
  <2>1. /\ ui = "wait" /\ ui' = "watch" /\ watcher = "none" /\ endEvent' = endEvent
        /\ sameDirectory' = sameDirectory /\ found' = found
        /\ fileName' = fileName /\ attributes' = attributes /\ handle' = handle
        /\ notified' = notified /\ watcher' = watcher /\ saw' = saw
        /\ protected' = protected /\ readOnly' = readOnly /\ fileEvents' = fileEvents
        /\ missed' = missed
    BY <1>15 DEF ThreadHasEnded, statusVars, watchVars, threadVars
  <2> QED
    BY <1>0, <2>1 DEF WatchTypes, HandlerInv, ThreadInv, ShownInv
<1>6. CASE StartWatching
  <2>1. /\ ui = "watch" /\ ui' = "idle" /\ handle' = Directory[fileName]
        /\ notified' = FALSE /\ watcher' = "wait"
        /\ missed' = (missed \/ protected[fileName] # attributes)
        /\ sameDirectory' = sameDirectory /\ found' = found
        /\ fileName' = fileName /\ attributes' = attributes
        /\ endEvent' = endEvent /\ saw' = saw
        /\ protected' = protected /\ readOnly' = readOnly /\ fileEvents' = fileEvents
    BY <1>6 DEF StartWatching, statusVars
  <2>2. selection # 0 /\ fileName = Selected /\ fileName \in Files /\ fileName # None
    BY <1>0, <2>1 DEF HandlerInv
  <2>3. Directory[fileName] \in Directories /\ Directory[fileName] # None
    BY <2>2, OpenFilesAssumption DEF Directories
  <2> QED
    BY <1>0, <2>1, <2>2, <2>3 DEF WatchTypes, HandlerInv, ThreadInv, ShownInv
<1>7. CASE WatcherWakes
  <2>1. /\ watcher = "wait" /\ notified' = FALSE /\ watcher' = "read"
        /\ ui' = ui /\ sameDirectory' = sameDirectory /\ found' = found
        /\ fileName' = fileName /\ attributes' = attributes /\ handle' = handle
        /\ endEvent' = endEvent /\ saw' = saw /\ missed' = missed
        /\ protected' = protected /\ readOnly' = readOnly /\ fileEvents' = fileEvents
    BY <1>7 DEF WatcherWakes, statusVars, handlerVars
  <2> QED
    BY <1>0, <2>1 DEF WatchTypes, HandlerInv, ThreadInv, ShownInv
<1>8. CASE WatcherEnds
  <2>1. /\ watcher = "wait" /\ endEvent /\ endEvent' = FALSE /\ watcher' = "none"
        /\ ui' = ui /\ sameDirectory' = sameDirectory /\ found' = found
        /\ fileName' = fileName /\ attributes' = attributes /\ handle' = handle
        /\ notified' = notified /\ saw' = saw /\ missed' = missed
        /\ protected' = protected /\ readOnly' = readOnly /\ fileEvents' = fileEvents
    BY <1>8 DEF WatcherEnds, NoticesEnd, statusVars, handlerVars
  <2>2. ui = "wait"
    BY <2>1 DEF ThreadInv
  <2> QED
    BY <1>0, <2>1, <2>2 DEF WatchTypes, HandlerInv, ThreadInv, ShownInv
<1>9. CASE WatcherReads
  <2>1. /\ watcher = "read" /\ watcher' = "look" /\ saw' = [saw EXCEPT !.old = attributes]
        /\ ui' = ui /\ sameDirectory' = sameDirectory /\ found' = found
        /\ fileName' = fileName /\ attributes' = attributes /\ handle' = handle
        /\ notified' = notified /\ endEvent' = endEvent /\ missed' = missed
        /\ protected' = protected /\ readOnly' = readOnly /\ fileEvents' = fileEvents
    BY <1>9 DEF WatcherReads, statusVars, watchVars, handlerVars
  <2>2. saw' \in [file : Files \cup {None}, old : Attributes, new : Attributes]
    BY <2>1 DEF WatchTypes
  <2> QED
    BY <1>0, <2>1, <2>2 DEF WatchTypes, HandlerInv, ThreadInv, ShownInv
<1>10. CASE WatcherLooks
  <2>1. /\ watcher = "look" /\ watcher' = "store"
        /\ saw' = [saw EXCEPT !.file = fileName, !.new = protected[fileName]]
        /\ ui' = ui /\ sameDirectory' = sameDirectory /\ found' = found
        /\ fileName' = fileName /\ attributes' = attributes /\ handle' = handle
        /\ notified' = notified /\ endEvent' = endEvent /\ missed' = missed
        /\ protected' = protected /\ readOnly' = readOnly /\ fileEvents' = fileEvents
    BY <1>10 DEF WatcherLooks, statusVars, watchVars, handlerVars
  <2>2. fileName # None /\ fileName \in Files
    BY <1>0, <2>1 DEF WatchTypes, HandlerInv, ThreadInv
  <2>3. /\ saw' \in [file : Files \cup {None}, old : Attributes, new : Attributes]
        /\ saw'.file = fileName /\ saw'.new = protected[fileName] /\ saw'.old = saw.old
    BY <2>1, <2>2 DEF WatchTypes, Attributes
  <2> QED
    BY <1>0, <2>1, <2>2, <2>3 DEF WatchTypes, HandlerInv, ThreadInv, ShownInv
<1>11. CASE WatcherStores
  <2>1. /\ watcher = "store" /\ watcher' = "compare" /\ attributes' = saw.new
        /\ missed' = (missed \/ saw.file # fileName \/ attributes # saw.old)
        /\ ui' = ui /\ sameDirectory' = sameDirectory /\ found' = found
        /\ fileName' = fileName /\ handle' = handle /\ saw' = saw
        /\ notified' = notified /\ endEvent' = endEvent
        /\ protected' = protected /\ readOnly' = readOnly /\ fileEvents' = fileEvents
    BY <1>11 DEF WatcherStores, statusVars, handlerVars
  <2>2. /\ WatchTypes' /\ HandlerInv' /\ ThreadInv'
    BY <1>0, <2>1 DEF WatchTypes, HandlerInv, ThreadInv
  <2>3. ShownInv'
    <3> SUFFICES ASSUME ui \in {"end", "wait", "watch", "idle"}, selection # 0, ~missed'
                 PROVE  /\ fileEvents = 0 /\ saw.old = saw.new => readOnly[Selected] = saw.new
                        /\ ui = "idle" /\ ~notified => protected[fileName] = saw.new
      BY <1>0, <2>1 DEF ShownInv
    <3>1. ~missed /\ saw.file = fileName /\ saw.old = attributes
      BY <2>1 DEF WatchTypes
    <3>2. fileEvents = 0 => readOnly[Selected] \in {saw.old, saw.new}
      BY <2>1, <3>1 DEF ShownInv
    <3>3. ui = "idle" => Directory[saw.file] = handle
      BY <2>1, <3>1 DEF ThreadInv
    <3>4. ui = "idle" /\ ~notified => saw.new = protected[fileName]
      BY <2>1, <3>1, <3>3 DEF ThreadInv
    <3> QED
      BY <3>2, <3>4
  <2> QED
    BY <2>2, <2>3
<1>12. CASE WatcherCompares
  <2>1. /\ watcher = "compare" /\ watcher' = "wait"
        /\ fileEvents' = IF attributes # saw.old THEN fileEvents + 1 ELSE fileEvents
        /\ saw' = NothingSeen
        /\ ui' = ui /\ sameDirectory' = sameDirectory /\ found' = found
        /\ fileName' = fileName /\ attributes' = attributes /\ handle' = handle
        /\ notified' = notified /\ endEvent' = endEvent /\ missed' = missed
        /\ protected' = protected /\ readOnly' = readOnly
    BY <1>12 DEF WatcherCompares, watchVars, handlerVars
  <2>2. saw' \in [file : Files \cup {None}, old : Attributes, new : Attributes]
    BY <2>1 DEF NothingSeen, Attributes
  <2>3. fileEvents' \in Nat /\ (fileEvents' = 0 => fileEvents = 0 /\ attributes = saw.old)
    BY <2>1 DEF WatchTypes
  <2> QED
    BY <1>0, <2>1, <2>2, <2>3 DEF WatchTypes, HandlerInv, ThreadInv, ShownInv
<1>13. CASE OnFileEvent
  <2>1. /\ ui = "idle" /\ fileEvents > 0 /\ fileEvents' = fileEvents - 1
        /\ missed' = (missed \/ (selection # 0 /\ protected[Selected] # Known))
        /\ ui' = ui /\ sameDirectory' = sameDirectory /\ found' = found
        /\ fileName' = fileName /\ attributes' = attributes /\ handle' = handle
        /\ notified' = notified /\ endEvent' = endEvent /\ watcher' = watcher /\ saw' = saw
        /\ protected' = protected
    BY <1>13 DEF OnFileEvent, Idle, watchVars, threadVars, handlerVars
  <2>2. fileEvents' \in Nat
    BY <2>1 DEF WatchTypes
  <2>3. /\ selection = 0 => readOnly' = readOnly
        /\ selection # 0 => readOnly' = [readOnly EXCEPT ![Selected] = protected[Selected]]
    BY <1>13 DEF OnFileEvent, UpdateDocumentReadOnlyStatus
  <2>4. /\ readOnly' \in [Files -> BOOLEAN]
        /\ selection # 0 => readOnly'[Selected] = protected[Selected]
    BY <1>0, <2>3 DEF WatchTypes
  <2>5. /\ WatchTypes' /\ HandlerInv' /\ ThreadInv'
    BY <1>0, <2>1, <2>2, <2>4 DEF WatchTypes, HandlerInv, ThreadInv
  <2>6. ShownInv'
    BY <1>0, <2>1, <2>4 DEF ShownInv, Known
  <2> QED
    BY <2>5, <2>6
<1>14. ASSUME NEW f \in Files, AttributeChanges(f) PROVE WatchInv'
  <2>1. /\ protected' = [protected EXCEPT ![f] = ~@]
        /\ notified' = (notified \/ handle = Directory[f])
        /\ ui' = ui /\ sameDirectory' = sameDirectory /\ found' = found
        /\ fileName' = fileName /\ attributes' = attributes /\ handle' = handle
        /\ endEvent' = endEvent /\ watcher' = watcher /\ saw' = saw /\ missed' = missed
        /\ readOnly' = readOnly /\ fileEvents' = fileEvents
    BY <1>14 DEF AttributeChanges, statusVars, threadVars, handlerVars
  <2>2. /\ protected' \in [Files -> BOOLEAN]
        /\ \A g \in Files : g # f => protected'[g] = protected[g]
    BY <2>1 DEF WatchTypes
  <2>3. notified' \in BOOLEAN /\ (~notified' => ~notified /\ handle # Directory[f])
    BY <2>1 DEF WatchTypes
  <2>4. WatchTypes' /\ HandlerInv'
    BY <1>0, <2>1, <2>2, <2>3 DEF WatchTypes, HandlerInv
  <2>5. ThreadInv'
    <3>1. watcher = "store" => saw.file \in Files
      BY DEF WatchTypes, ThreadInv
    <3>2. watcher = "store" /\ Directory[saw.file] = handle =>
            notified' \/ saw.new = protected'[saw.file]
      BY <2>2, <2>3, <3>1 DEF ThreadInv
    <3> QED
      BY <2>1, <3>2 DEF ThreadInv
  <2>6. ShownInv'
    <3>1. ui = "idle" /\ selection # 0 /\ watcher \in {"wait", "compare"} /\ ~notified' =>
            /\ fileName \in Files /\ handle = Directory[fileName] /\ fileName # f
            /\ protected'[fileName] = protected[fileName]
      BY <1>0, <2>2, <2>3 DEF HandlerInv, ThreadInv
    <3> QED
      BY <1>0, <2>1, <2>3, <3>1 DEF ShownInv
  <2> QED
    BY <2>4, <2>5, <2>6
<1> QED
  BY <1>1, <1>2, <1>3, <1>4, <1>5, <1>6, <1>7, <1>8, <1>9, <1>10, <1>11, <1>12, <1>13, <1>14, <1>15
  DEF WatchStep, HandlerStep, WatcherStep

-----------------------------------------------------------------------------

FilesInv == TabInv /\ InstanceInv /\ WatchInv

LEMMA FilesInvInit == Init => FilesInv
BY InstanceInit, WatchInit DEF FilesInv

LEMMA FilesInvStep == FilesInv /\ [Next]_vars => FilesInv'
<1> SUFFICES ASSUME FilesInv, [Next]_vars PROVE FilesInv'
  OBVIOUS
<1>1. TabInv /\ InstanceInv /\ WatchInv
  BY DEF FilesInv
<1>2. InstanceInv'
  BY <1>1, InstanceStepHolds
<1>3. TabInv' /\ (TabChange \/ WatchStep \/ NothingChanges)
  BY <1>1, StepKinds
<1>4. WatchInv'
  BY <1>1, <1>3, TabChangeHolds, WatchStepHolds
<1> QED
  BY <1>2, <1>3, <1>4 DEF FilesInv

(* SetMostRecentlyUsedPage, RemovePageFromTabOrder: however files are        *)
(* opened, paged through, closed and deleted, the page numbers of the tab    *)
(* order name every open file once, in the order the files were used.        *)
THEOREM TabOrderFollowsUse == Spec => []TabOrderIsRecency
<1>1. FilesInv => TabOrderIsRecency
  BY TabsAreRecency DEF FilesInv
<1> QED
  BY <1>1, FilesInvInit, FilesInvStep, PTL DEF Spec

(* FileChangeWatcher, OnFileEvent: however often the attributes of any file  *)
(* change, and wherever the window and the thread meet, the editor of the    *)
(* selected file is read-only exactly when the file is once nothing is under *)
(* way, unless a change was missed.                                          *)
THEOREM EditorFollowsFile == Spec => []StatusIsCurrent
<1>1. FilesInv => StatusIsCurrent
  <2> SUFFICES ASSUME FilesInv, selection # 0, Idle, watcher = "wait", ~notified,
                      fileEvents = 0, ~missed
               PROVE  readOnly[Selected] = protected[Selected]
    BY DEF StatusIsCurrent
  <2>1. ui = "idle" /\ HandlerInv /\ ShownInv
    BY DEF Idle, FilesInv, WatchInv
  <2>2. fileName = Selected
    BY <2>1 DEF HandlerInv
  <2>3. readOnly[Selected] = attributes /\ protected[fileName] = attributes
    BY <2>1 DEF ShownInv
  <2> QED
    BY <2>2, <2>3
<1> QED
  BY <1>1, FilesInvInit, FilesInvStep, PTL DEF Spec

(* What InstanceInv leaves open.                                             *)
InstanceTypes ==
  /\ mapping \in BOOLEAN /\ unread \in BOOLEAN
  /\ mutex \in Processes \cup {"absent", "free"}
  /\ overwritten \subseteq Files \cup {None} /\ opened \subseteq Files

LEMMA InstanceTypesStep == InstanceInv /\ InstanceTypes /\ [Next]_vars => InstanceTypes'
<1> SUFFICES ASSUME InstanceInv, InstanceTypes, [Next]_vars PROVE InstanceTypes'
  OBVIOUS
<1>1. command \in Files \cup {None} /\ Lost \subseteq Files \cup {None}
      /\ \A s \in Senders : FileOf[s] \in Files
  BY WindowAssumption DEF InstanceInv, Lost
<1>2. ASSUME UNCHANGED instanceVars PROVE InstanceTypes'
  BY <1>2 DEF instanceVars, InstanceTypes
<1>3. ASSUME NEW p \in Processes, InstanceStep(p) PROVE InstanceTypes'
  <2>1. CASE OpenMapping(p) \/ CreateMutex(p) \/ CreateMapping(p) \/ StoreHandle(p)
    BY <2>1 DEF OpenMapping, CreateMutex, CreateMapping, StoreHandle, InstanceTypes
  <2>2. CASE ClearCommand(p)
    BY <1>1, <2>2 DEF ClearCommand, InstanceTypes
  <2>3. CASE ReleaseMutex(p) \/ Connect(p)
    <3>1. opened' = opened \/ BecomesWindow(p)
      BY <2>3 DEF ReleaseMutex, Connect
    <3>2. opened' \subseteq Files
      BY <1>1, <3>1 DEF BecomesWindow, Processes, InstanceTypes
    <3> QED
      BY <2>3, <3>2 DEF ReleaseMutex, Connect, InstanceTypes
  <2>4. CASE OnOpenFiles(p)
    BY <1>1, <2>4 DEF OnOpenFiles, InstanceTypes
  <2> QED
    BY <1>3, <2>1, <2>2, <2>3, <2>4 DEF InstanceStep
<1>4. ASSUME NEW s \in Senders, SenderStep(s) PROVE InstanceTypes'
  BY <1>1, <1>4 DEF SenderStep, SetCommand, Post, InstanceTypes
<1>5. CASE OpenNext
  <2>1. PICK f \in Files : opening = <<f>>
    BY <1>5 DEF OpenNext, InstanceInv
  <2> QED
    BY <1>5, <2>1 DEF OpenNext, InstanceTypes
<1> QED
  BY <1>2, <1>3, <1>4, <1>5 DEF Next, WindowStep, vars

(* The values the variables of the window and of the processes can have.     *)
THEOREM WindowTypes == Spec => []TypeOK
<1>1. Init => InstanceTypes
  BY DEF Init, InstanceTypes
<1>2. FilesInv /\ InstanceTypes => TypeOK
  <2> SUFFICES ASSUME FilesInv, InstanceTypes PROVE TypeOK
    OBVIOUS
  <2>1. TabInv /\ InstanceInv /\ WatchTypes
    BY DEF FilesInv, WatchInv
  <2>2. /\ openFiles \in Seq(Files) /\ recent \in Seq(Files) /\ tabOrder \in Seq(Nat)
        /\ selection \in 0 .. Len(openFiles) /\ tabOrderIndex \in Nat
    BY <2>1 DEF TabInv, Tabs
  <2>3. FilesTypeOK
    BY <2>1, <2>2 DEF FilesTypeOK, WatchTypes, Attributes
  <2>4. opening \in Seq(Files)
    <3>1. <<>> \in Seq(Files) /\ \A f \in Files : <<f>> \in Seq(Files)
      BY EmptySeq
    <3> QED
      BY <2>1, <3>1 DEF InstanceInv
  <2> QED
    BY <2>1, <2>3, <2>4 DEF TypeOK, InstanceInv, InstanceTypes
<1>3. FilesInv => InstanceInv
  BY DEF FilesInv
<1> QED
  BY <1>1, <1>2, <1>3, FilesInvInit, FilesInvStep, InstanceTypesStep, PTL DEF Spec

=============================================================================
