------------------------- MODULE SessionTablesProofs ------------------------
(***************************************************************************)
(* That the two halves of a session agree about scripts, breakpoints and   *)
(* virtual machines, although each keeps its own tables and learns of the  *)
(* other's changes through a pipe and a queue.                             *)
(***************************************************************************)
EXTENDS SessionProofs

(* A step of the backend: what it writes and to which table.                *)
BackendEffect ==
  /\ UNCHANGED frontendVars
  /\ commands' = commands \/ (commands # <<>> /\ commands' = Tail(commands))
  /\ Live \/ UNCHANGED events
  /\ \/ \E t \in LuaThreads : Attaches(t) \/ Detaches(t)
     \/ \E t \in LuaThreads, s \in Scripts : Registers(t, s)
     \/ ReportsOnly
     \/ \E i \in DOMAIN scripts, l \in Lines : Toggles(i, l)
     \/ /\ NextCommand([id |-> "DeleteAllBreakpoints"])
        /\ UNCHANGED <<vms, scripts, events>>
     \/ ~Live' /\ UNCHANGED events

LEMMA BackendEffects ==
  ASSUME SessionInv, BackendStep
  PROVE  BackendEffect
<1>1. processAlive /\ ~Crashed /\ UNCHANGED frontendVars
  BY DEF BackendStep, BackendNext
<1>2. TypeInv
  BY DEF SessionInv
<1>3. CASE \E t \in LuaThreads : ThreadStep(t)
  <2>1. PICK t \in LuaThreads : ThreadEffect(t)
    BY <1>2, <1>3, ThreadEffects
  <2>2. commands' = commands
    BY <2>1 DEF ThreadEffect
  <2>3. Live \/ UNCHANGED events
    BY <1>1, <2>1 DEF ThreadEffect, Attaches, Detaches, Registers, ReportsOnly, Written, Live
  <2> QED
    BY <1>1, <2>1, <2>2, <2>3 DEF BackendEffect, ThreadEffect
<1>4. CASE CommandStep
  <2>1. CommandEffect
    BY <1>2, <1>4, CommandEffects
  <2>2. Live \/ UNCHANGED events
    BY <1>1, <2>1 DEF CommandEffect, Toggles, ReportsOnly, Written, Live
  <2>3. commandPc' = "done" => ~Live'
    BY DEF Live
  <2> QED
    BY <1>1, <2>1, <2>2, <2>3 DEF BackendEffect, CommandEffect
<1> QED
  BY <1>3, <1>4 DEF BackendStep, BackendNext

(* Appending to a sequence, element by element.                             *)
LEMMA ConcatElements ==
  ASSUME NEW S, NEW a \in Seq(S), NEW b \in Seq(S)
  PROVE  /\ a \o b \in Seq(S)
         /\ DOMAIN a = 1..Len(a) /\ DOMAIN b = 1..Len(b)
         /\ Len(a) \in Nat /\ Len(b) \in Nat
         /\ Len(a \o b) = Len(a) + Len(b)
         /\ DOMAIN (a \o b) = 1..Len(a) + Len(b)
         /\ \A k \in 1..Len(a) : (a \o b)[k] = a[k]
         /\ \A k \in 1..Len(b) : (a \o b)[Len(a) + k] = b[k]
BY ConcatProperties, LenProperties

-----------------------------------------------------------------------------
(***************************************************************************)
(* Counting the scripts that events announce.                              *)
(***************************************************************************)

Announces(es, k) == {j \in 1..k : es[j].id = "LoadScript"}
Count(es, k) == Cardinality(Announces(es, k))

LEMMA AnnouncedIsCount == \A k : Announced(k) = Count(events, k)
BY DEF Announced, Count, Announces

LEMMA CountType ==
  ASSUME NEW es, NEW k \in Nat
  PROVE  IsFiniteSet(Announces(es, k)) /\ Count(es, k) \in 0..k
<1>1. IsFiniteSet(1..k) /\ Cardinality(1..k) = k
  BY FS_Interval
<1>2. Announces(es, k) \subseteq 1..k
  BY DEF Announces
<1> QED
  BY <1>1, <1>2, FS_Subset, FS_CardinalityType DEF Count

LEMMA CountNext ==
  ASSUME NEW es, NEW k \in Nat
  PROVE  /\ Count(es, 0) = 0
         /\ Count(es, k + 1) = IF es[k + 1].id = "LoadScript" THEN Count(es, k) + 1
                                                              ELSE Count(es, k)
<1>1. Announces(es, 0) = {}
  BY DEF Announces
<1>2. Count(es, 0) = 0
  BY <1>1, FS_EmptySet DEF Count
<1>3. CASE es[k + 1].id = "LoadScript"
  <2>1. Announces(es, k + 1) = Announces(es, k) \cup {k + 1} /\ k + 1 \notin Announces(es, k)
    BY <1>3 DEF Announces
  <2> QED
    BY <1>2, <1>3, <2>1, CountType, FS_AddElement DEF Count
<1>4. CASE es[k + 1].id # "LoadScript"
  <2>1. Announces(es, k + 1) = Announces(es, k)
    BY <1>4 DEF Announces
  <2> QED
    BY <1>2, <1>4, <2>1 DEF Count
<1> QED
  BY <1>3, <1>4

LEMMA CountMonotone ==
  ASSUME NEW es, NEW k \in Nat, NEW m \in Nat, k <= m
  PROVE  Count(es, k) <= Count(es, m)
<1>1. Announces(es, k) \subseteq Announces(es, m)
  BY DEF Announces
<1> QED
  BY <1>1, CountType, FS_Subset DEF Count

(* Two announcements have different numbers.                                *)
LEMMA CountGrows ==
  ASSUME NEW es, NEW k \in Nat, NEW m \in Nat \ {0}, k < m, es[m].id = "LoadScript"
  PROVE  Count(es, k) + 1 <= Count(es, m)
<1>1. m - 1 \in Nat /\ k <= m - 1 /\ m - 1 + 1 = m
  OBVIOUS
<1>2. Count(es, k) <= Count(es, m - 1) /\ Count(es, m - 1) \in Nat /\ Count(es, k) \in Nat
  BY <1>1, CountMonotone, CountType
<1>3. Count(es, m) = Count(es, m - 1) + 1
  BY <1>1, CountNext
<1> QED
  BY <1>2, <1>3

LEMMA CountConcat ==
  ASSUME NEW S, NEW es \in Seq(S), NEW fs \in Seq(S)
  PROVE  /\ \A k \in 0..Len(es) : Count(es \o fs, k) = Count(es, k)
         /\ (\A j \in DOMAIN fs : fs[j].id # "LoadScript")
              => Count(es \o fs, Len(es \o fs)) = Count(es, Len(es))
<1>1. ASSUME NEW k \in 0..Len(es) PROVE Count(es \o fs, k) = Count(es, k)
  <2>1. Announces(es \o fs, k) = Announces(es, k)
    BY ConcatElements DEF Announces
  <2> QED
    BY <2>1 DEF Count
<1>2. ASSUME \A j \in DOMAIN fs : fs[j].id # "LoadScript"
      PROVE  Count(es \o fs, Len(es \o fs)) = Count(es, Len(es))
  <2>1. ASSUME NEW j \in 1..Len(es) + Len(fs), (es \o fs)[j].id = "LoadScript"
        PROVE  j \in 1..Len(es)
    <3>1. SUFFICES ASSUME j > Len(es) PROVE FALSE
      BY ConcatElements
    <3>2. j - Len(es) \in DOMAIN fs /\ (es \o fs)[j] = fs[j - Len(es)]
      <4>1. j - Len(es) \in 1..Len(fs) /\ Len(es) + (j - Len(es)) = j
        BY <3>1, ConcatElements
      <4> QED
        BY <4>1, ConcatElements
    <3> QED
      BY <1>2, <2>1, <3>2
  <2>2. Announces(es \o fs, Len(es \o fs)) = Announces(es, Len(es))
    BY <2>1, ConcatElements DEF Announces
  <2> QED
    BY <2>2 DEF Count
<1> QED
  BY <1>1, <1>2

LEMMA CountTail ==
  ASSUME NEW S, NEW es \in Seq(S), es # <<>>, NEW k \in 0..Len(es) - 1
  PROVE  Count(es, k + 1) = IF es[1].id = "LoadScript" THEN Count(Tail(es), k) + 1
                                                       ELSE Count(Tail(es), k)
<1> DEFINE A == Announces(Tail(es), k)
           B == Announces(es, k + 1)
           shift == [j \in A |-> j + 1]
<1>1. \A j \in 1..k : Tail(es)[j] = es[j + 1]
  BY HeadTailProperties, EmptySeq, LenProperties
<1>2. shift \in Bijection(A, B \ {1})
  <2>1. \A j \in A : j + 1 \in B \ {1}
    BY <1>1 DEF Announces
  <2>2. \A i \in B \ {1} : i - 1 \in A /\ shift[i - 1] = i
    BY <1>1 DEF Announces
  <2>3. \A i, j \in A : shift[i] = shift[j] => i = j
    BY DEF Announces
  <2> QED
    BY <2>1, <2>2, <2>3 DEF Bijection, Injection, Surjection, IsInjective
<1>3. IsFiniteSet(A) /\ IsFiniteSet(B)
  BY CountType
<1>4. Cardinality(B \ {1}) = Cardinality(A)
  BY <1>2, <1>3, FS_Bijection DEF ExistsBijection
<1>5. 1 \in B <=> es[1].id = "LoadScript"
  BY DEF Announces
<1>6. CASE 1 \in B
  BY <1>3, <1>4, <1>5, <1>6, FS_RemoveElement, FS_CardinalityType DEF Count
<1>7. CASE 1 \notin B
  <2>1. B \ {1} = B
    BY <1>7
  <2> QED
    BY <1>4, <1>5, <1>7, <2>1 DEF Count
<1> QED
  BY <1>6, <1>7

-----------------------------------------------------------------------------
(***************************************************************************)
(* The tables of scripts.                                                  *)
(***************************************************************************)

(* What the frontend has read and what it will read make a table.           *)
Follows(table) ==
  /\ Len(table) = Len(frontendScripts) + Count(events, Len(events))
  /\ \A i \in DOMAIN frontendScripts : table[i] = frontendScripts[i]
  /\ \A k \in DOMAIN events :
       events[k].id = "LoadScript"
         => table[Len(frontendScripts) + Count(events, k)] = events[k].script

(* What is stopped at has been announced before.                            *)
BreaksAnnounced ==
  \A k \in DOMAIN events :
    events[k].id = "Break" => events[k].index <= Len(frontendScripts) + Count(events, k)

Distinct(table) == \A i, j \in DOMAIN table : table[i] = table[j] => i = j

(* The frontend follows the table of the backend, or the one the backend had*)
(* when it could last tell something: its cleanup empties it.               *)
FollowsBackend ==
  \E table \in Seq(Scripts) :
    /\ Distinct(table)
    /\ Follows(table)
    /\ Live => scripts = table

NamesInv ==
  /\ Distinct(frontendScripts)
  /\ eventThread = "reading" => FollowsBackend
  /\ Live => BreaksAnnounced

(* The events that announce no script and name only registered ones.        *)
Known ==
  {es \in Seq(Event) :
     \A k \in DOMAIN es :
       /\ es[k].id # "LoadScript"
       /\ es[k].id = "Break" => es[k].index \in 0..Len(scripts)}

LEMMA TableTypes ==
  ASSUME SessionInv
  PROVE  /\ scripts \in Seq(Scripts) /\ frontendScripts \in Seq(Scripts)
         /\ events \in Seq(Event) /\ pending \in Seq(Queued) /\ commands \in Seq(Command)
         /\ Len(scripts) \in Nat /\ DOMAIN scripts = 1..Len(scripts)
         /\ Len(frontendScripts) \in Nat /\ DOMAIN frontendScripts = 1..Len(frontendScripts)
         /\ Len(events) \in Nat /\ DOMAIN events = 1..Len(events)
         /\ Len(pending) \in Nat /\ DOMAIN pending = 1..Len(pending)
         /\ Len(commands) \in Nat /\ DOMAIN commands = 1..Len(commands)
         /\ Count(events, Len(events)) \in Nat
         /\ vms \subseteq LuaThreads /\ vmList \subseteq LuaThreads
         /\ breakpoints \in [Scripts -> SUBSET Lines]
         /\ fileScript \in [Scripts -> Nat]
         /\ fileBreakpoints \in [Scripts -> SUBSET Lines]
<1>1. /\ scripts \in Seq(Scripts) /\ frontendScripts \in Seq(Scripts)
      /\ events \in Seq(Event) /\ pending \in Seq(Queued) /\ commands \in Seq(Command)
      /\ vms \subseteq LuaThreads /\ vmList \subseteq LuaThreads
      /\ breakpoints \in [Scripts -> SUBSET Lines]
      /\ fileScript \in [Scripts -> Nat]
      /\ fileBreakpoints \in [Scripts -> SUBSET Lines]
  BY DEF SessionInv, TypeInv, TypeOK, ChannelTypeOK, FrontendTypeOK, Index
<1>2. /\ Len(scripts) \in Nat /\ DOMAIN scripts = 1..Len(scripts)
      /\ Len(frontendScripts) \in Nat /\ DOMAIN frontendScripts = 1..Len(frontendScripts)
      /\ Len(events) \in Nat /\ DOMAIN events = 1..Len(events)
      /\ Len(pending) \in Nat /\ DOMAIN pending = 1..Len(pending)
      /\ Len(commands) \in Nat /\ DOMAIN commands = 1..Len(commands)
  BY <1>1, LenProperties
<1>3. Count(events, Len(events)) \in Nat
  BY <1>2, CountType
<1> QED
  BY <1>1, <1>2, <1>3

LEMMA BackendTable ==
  ASSUME SessionInv, NamesInv, Live
  PROVE  Distinct(scripts) /\ Follows(scripts)
<1>1. eventThread = "reading"
  BY DEF SessionInv, FrontendTypeOK, PendingOK
<1>2. PICK table : Distinct(table) /\ Follows(table) /\ scripts = table
  BY <1>1 DEF NamesInv, FollowsBackend
<1> QED
  BY <1>2, Zenon

(* Events that announce nothing leave the tables as they agree.             *)
LEMMA NamesKnown ==
  ASSUME SessionInv, NamesInv, NEW es \in Known, events' = events \o es, Live,
         UNCHANGED <<scripts, frontendScripts, eventThread>>
  PROVE  NamesInv'
<1>0. /\ es \in Seq(Event) /\ \A k \in DOMAIN es : es[k].id # "LoadScript"
      /\ \A k \in DOMAIN es : es[k].id = "Break" => es[k].index \in 0..Len(scripts)
  BY DEF Known
<1>1. /\ \A k \in 0..Len(events) : Count(events', k) = Count(events, k)
      /\ Count(events', Len(events')) = Count(events, Len(events))
  BY <1>0, TableTypes, CountConcat
<1>2. /\ DOMAIN events' = 1..Len(events) + Len(es)
      /\ DOMAIN es = 1..Len(es) /\ Len(es) \in Nat
      /\ \A k \in 1..Len(events) : events'[k] = events[k]
      /\ \A k \in 1..Len(es) : events'[Len(events) + k] = es[k]
  BY <1>0, TableTypes, ConcatElements
<1>3. ASSUME NEW k \in DOMAIN events'
      PROVE  \/ k \in DOMAIN events /\ k \in 0..Len(events) /\ events'[k] = events[k]
             \/ /\ k > Len(events) /\ k \in Nat
                /\ k - Len(events) \in DOMAIN es /\ events'[k] = es[k - Len(events)]
  <2>1. CASE k <= Len(events)
    BY <1>2, <2>1, TableTypes
  <2>2. CASE k > Len(events)
    <3>1. k - Len(events) \in 1..Len(es) /\ Len(events) + (k - Len(events)) = k
      BY <1>2, <2>2, TableTypes
    <3> QED
      BY <1>2, <2>2, <3>1, TableTypes
  <2> QED
    BY <1>2, <2>1, <2>2, TableTypes
<1>4. Distinct(scripts) /\ Follows(scripts) /\ BreaksAnnounced
  BY BackendTable DEF NamesInv
<1>5. Follows(scripts)'
  BY <1>0, <1>1, <1>3, <1>4, TableTypes DEF Follows
<1>6. BreaksAnnounced'
  <2> SUFFICES ASSUME NEW k \in DOMAIN events', events'[k].id = "Break"
               PROVE  events'[k].index <= Len(frontendScripts) + Count(events', k)
    BY DEF BreaksAnnounced
  <2>1. CASE k \in DOMAIN events /\ k \in 0..Len(events) /\ events'[k] = events[k]
    BY <1>1, <1>4, <2>1 DEF BreaksAnnounced
  <2>2. CASE /\ k > Len(events) /\ k \in Nat
             /\ k - Len(events) \in DOMAIN es /\ events'[k] = es[k - Len(events)]
    <3>1. events'[k].index \in 0..Len(scripts)
      BY <1>0, <2>2
    <3>2. Count(events', Len(events)) <= Count(events', k)
      BY <2>2, TableTypes, CountMonotone
    <3>3. Count(events', Len(events)) = Count(events, Len(events))
      BY <1>1, TableTypes
    <3>4. Count(events', k) \in Nat
      BY <2>2, CountType
    <3>5. Len(scripts) = Len(frontendScripts) + Count(events, Len(events))
      BY <1>4 DEF Follows
    <3> QED
      BY <3>1, <3>2, <3>3, <3>4, <3>5, TableTypes, SMTT(30)
  <2> QED
    BY <1>3, <2>1, <2>2
<1>7. FollowsBackend'
  <2>1. scripts' \in Seq(Scripts) /\ Distinct(scripts)'
    BY <1>4, TableTypes DEF Distinct
  <2> QED
    BY <1>5, <2>1 DEF FollowsBackend
<1> QED
  BY <1>6, <1>7 DEF NamesInv, Distinct

LEMMA NamesSame ==
  ASSUME NamesInv, Live' => Live /\ scripts' = scripts,
         frontendScripts' = frontendScripts, events' = events,
         eventThread' = eventThread \/ eventThread' = "ended"
  PROVE  NamesInv'
<1>1. Distinct(frontendScripts)' /\ (Live' => BreaksAnnounced')
  BY DEF NamesInv, Distinct, BreaksAnnounced
<1>2. ASSUME eventThread' = "reading" PROVE FollowsBackend'
  <2>1. PICK table \in Seq(Scripts) :
          Distinct(table) /\ Follows(table) /\ (Live => scripts = table)
    BY <1>2 DEF NamesInv, FollowsBackend
  <2>2. Follows(table)' /\ (Live' => scripts' = table)
    BY <2>1 DEF Follows
  <2> QED
    BY <2>1, <2>2 DEF FollowsBackend, Distinct
<1> QED
  BY <1>1, <1>2 DEF NamesInv

(* A script that is registered is announced last.                           *)
LEMMA NamesRegister ==
  ASSUME SessionInv, NamesInv, Live, NEW t \in LuaThreads, NEW s \in Scripts,
         GetScriptIndex(s) = 0, scripts' = Append(scripts, s),
         events' = events \o <<[id |-> "LoadScript", vm |-> t, script |-> s]>>,
         UNCHANGED <<frontendScripts, eventThread>>
  PROVE  NamesInv'
<1> DEFINE n == Len(events)
           e == [id |-> "LoadScript", vm |-> t, script |-> s]
<1>1. Distinct(scripts) /\ Follows(scripts) /\ BreaksAnnounced
  BY BackendTable DEF NamesInv
<1>2. /\ DOMAIN events' = 1..n + 1 /\ Len(events') = n + 1
      /\ \A k \in 1..n : events'[k] = events[k]
      /\ events'[n + 1] = e
  <2>1. e \in Event /\ <<e>> \in Seq(Event) /\ Len(<<e>>) = 1 /\ <<e>>[1] = e
    BY DEF Event
  <2> QED
    BY <2>1, TableTypes, ConcatElements
<1>3. \A k \in 0..n : Count(events', k) = Count(events, k)
  <2>1. e \in Event /\ <<e>> \in Seq(Event)
    BY DEF Event
  <2> QED
    BY <2>1, TableTypes, CountConcat
<1>n. n \in Nat /\ n = Len(events) /\ DOMAIN events = 1..n /\ n \in 0..n
      /\ e.id = "LoadScript" /\ e.script = s
  BY TableTypes
<1> HIDE DEF n, e
<1>4. Count(events', n + 1) = Count(events, n) + 1
  <2>1. Count(events', n + 1) = Count(events', n) + 1
    BY <1>2, <1>n, CountNext
  <2> QED
    BY <1>3, <1>n, <2>1
<1>5. /\ scripts' \in Seq(Scripts) /\ DOMAIN scripts' = 1..Len(scripts) + 1
      /\ Len(scripts') = Len(scripts) + 1
      /\ \A i \in 1..Len(scripts) : scripts'[i] = scripts[i]
      /\ scripts'[Len(scripts) + 1] = s
  BY TableTypes, AppendProperties
<1>6. \A i \in 1..Len(scripts) : scripts[i] # s
  <2> SUFFICES ASSUME NEW i \in 1..Len(scripts), scripts[i] = s PROVE FALSE
    OBVIOUS
  <2>1. GetScriptIndex(s) \in DOMAIN scripts
    BY TableTypes DEF GetScriptIndex
  <2> QED
    BY <2>1, TableTypes
<1>7. Distinct(scripts)'
  BY <1>1, <1>5, <1>6, TableTypes DEF Distinct
<1>8. Len(scripts) = Len(frontendScripts) + Count(events, n)
  BY <1>1, <1>n DEF Follows
<1>9. ASSUME NEW k \in DOMAIN events'
      PROVE  \/ k = n + 1
             \/ /\ k \in DOMAIN events /\ k \in 0..n /\ events'[k] = events[k]
                /\ Count(events', k) = Count(events, k) /\ Count(events, k) \in Nat
                /\ Count(events, k) <= Count(events, n)
  <2>1. CASE k <= n
    <3>1. k \in DOMAIN events /\ k \in 0..n /\ k \in Nat /\ events'[k] = events[k]
      BY <1>2, <1>n, <2>1
    <3>2. Count(events, k) \in Nat /\ Count(events, k) <= Count(events, n)
      BY <1>n, <2>1, <3>1, CountMonotone, CountType
    <3> QED
      BY <1>3, <3>1, <3>2
  <2> QED
    BY <1>2, <1>n, <2>1
<1>10. Follows(scripts)'
  <2>1. Len(scripts') = Len(frontendScripts') + Count(events', Len(events'))
    BY <1>2, <1>4, <1>5, <1>8, <1>n, TableTypes
  <2>2. \A i \in DOMAIN frontendScripts : i \in 1..Len(scripts) /\ scripts'[i] = frontendScripts[i]
    BY <1>1, <1>5, <1>8, TableTypes DEF Follows
  <2>3. ASSUME NEW k \in DOMAIN events', events'[k].id = "LoadScript"
        PROVE  scripts'[Len(frontendScripts) + Count(events', k)] = events'[k].script
    <3>1. CASE k = n + 1
      BY <1>2, <1>4, <1>5, <1>8, <1>n, <3>1, TableTypes
    <3>2. CASE k # n + 1
      <4>1. /\ k \in DOMAIN events /\ k \in Nat \ {0} /\ events'[k] = events[k]
            /\ Count(events', k) = Count(events, k)
            /\ Count(events, k) \in Nat /\ Count(events, k) <= Count(events, n)
            /\ Count(events, n) \in Nat
        BY <1>9, <1>n, <3>2, CountType
      <4>2. Count(events, k) \in 1..Count(events, n)
        <5>1. Count(events, 0) = 0 /\ 0 \in Nat /\ 0 < k
          BY <4>1, CountNext
        <5>2. Count(events, 0) + 1 <= Count(events, k)
          BY <2>3, <4>1, <5>1, CountGrows
        <5> QED
          BY <4>1, <5>1, <5>2
      <4>3. Len(frontendScripts) + Count(events, k) \in 1..Len(scripts)
        <5>1. Len(frontendScripts) \in Nat /\ Len(scripts) \in Nat
          BY TableTypes
        <5> QED
          BY <1>8, <4>1, <4>2, <5>1
      <4> QED
        BY <1>1, <1>5, <2>3, <4>1, <4>3 DEF Follows
    <3> QED
      BY <3>1, <3>2
  <2> QED
    BY <2>1, <2>2, <2>3 DEF Follows
<1>11. BreaksAnnounced'
  <2> SUFFICES ASSUME NEW k \in DOMAIN events', events'[k].id = "Break"
               PROVE  events'[k].index <= Len(frontendScripts) + Count(events', k)
    BY DEF BreaksAnnounced
  <2>1. k # n + 1
    BY <1>2
  <2> QED
    BY <1>1, <1>9, <2>1 DEF BreaksAnnounced
<1>12. FollowsBackend'
  BY <1>5, <1>7, <1>10, TableTypes DEF FollowsBackend
<1> QED
  BY <1>11, <1>12 DEF NamesInv, Distinct

(* The event thread numbers the script it reads as the backend did.         *)
LEMMA NamesRead ==
  ASSUME SessionInv, NamesInv, ReadEvent, Live' => Live /\ scripts' = scripts
  PROVE  NamesInv'
<1> DEFINE e == Head(events)
           n == Len(frontendScripts)
<1>1. /\ eventThread = "reading" /\ events # <<>> /\ events' = Tail(events)
      /\ frontendScripts' = IF e.id = "LoadScript" THEN Append(frontendScripts, e.script)
                                                   ELSE frontendScripts
  BY DEF ReadEvent
<1>2. PICK table \in Seq(Scripts) :
        Distinct(table) /\ Follows(table) /\ (Live => scripts = table)
  BY <1>1 DEF NamesInv, FollowsBackend
<1>3. /\ e \in Event /\ e = events[1]
      /\ e.id = "LoadScript" => e.script \in Scripts
      /\ Len(events) \in Nat \ {0}
      /\ events' \in Seq(Event) /\ Len(events') = Len(events) - 1
      /\ DOMAIN events' = 1..Len(events) - 1
      /\ \A k \in 1..Len(events) - 1 : events'[k] = events[k + 1]
  BY <1>1, NextEvent DEF SessionInv, TypeInv, TypeOK
<1>4. \A k \in 0..Len(events) - 1 :
        /\ Count(events', k) \in Nat
        /\ Count(events, k + 1) = IF e.id = "LoadScript" THEN Count(events', k) + 1
                                                         ELSE Count(events', k)
  <2> SUFFICES ASSUME NEW k \in 0..Len(events) - 1
               PROVE  /\ Count(events', k) \in Nat
                      /\ Count(events, k + 1) = IF e.id = "LoadScript"
                                                THEN Count(events', k) + 1
                                                ELSE Count(events', k)
    OBVIOUS
  <2>1. Count(events', k) \in Nat
    BY CountType
  <2>2. events \in Seq(Event)
    BY TableTypes
  <2> QED
    BY <1>1, <1>3, <2>1, <2>2, CountTail
<1>5. CASE e.id = "LoadScript"
  <2>1. /\ frontendScripts' \in Seq(Scripts) /\ Len(frontendScripts') = n + 1
        /\ DOMAIN frontendScripts' = 1..n + 1
        /\ \A i \in 1..n : frontendScripts'[i] = frontendScripts[i]
        /\ frontendScripts'[n + 1] = e.script
    BY <1>1, <1>3, <1>5, TableTypes, AppendProperties
  <2>2. \A k \in 0..Len(events) - 1 :
          Len(frontendScripts') + Count(events', k) = n + Count(events, k + 1)
    BY <1>4, <1>5, <2>1, TableTypes
  <2>3. Len(table) = Len(frontendScripts') + Count(events', Len(events'))
    <3>1. Len(events') \in 0..Len(events) - 1 /\ Len(events') + 1 = Len(events)
      BY <1>3
    <3> QED
      BY <1>2, <2>2, <3>1 DEF Follows
  <2>4. table[n + 1] = e.script
    <3>1. Count(events, 1) = 1
      <4>1. Count(events, 0) = 0 /\ Count(events, 0 + 1) = Count(events, 0) + 1
        BY <1>3, <1>5, CountNext
      <4> QED
        BY <4>1
    <3>2. 1 \in DOMAIN events
      BY <1>3, TableTypes
    <3> QED
      BY <1>2, <1>3, <1>5, <3>1, <3>2 DEF Follows
  <2>5. \A i \in DOMAIN frontendScripts' : table[i] = frontendScripts'[i]
    <3> SUFFICES ASSUME NEW i \in 1..n + 1 PROVE table[i] = frontendScripts'[i]
      BY <2>1
    <3>1. CASE i = n + 1
      BY <2>1, <2>4, <3>1
    <3>2. CASE i # n + 1
      <4>1. i \in DOMAIN frontendScripts /\ i \in 1..n
        BY <3>2, TableTypes
      <4> QED
        BY <1>2, <2>1, <4>1 DEF Follows
    <3> QED
      BY <3>1, <3>2
  <2>6. ASSUME NEW k \in DOMAIN events'
        PROVE  /\ k + 1 \in DOMAIN events /\ events'[k] = events[k + 1]
               /\ Len(frontendScripts') + Count(events', k) = n + Count(events, k + 1)
    BY <1>3, <2>2, TableTypes
  <2>7. Follows(table)'
    BY <1>2, <2>3, <2>5, <2>6 DEF Follows
  <2>8. Distinct(frontendScripts)'
    <3>1. Len(table) \in Nat /\ Count(events', Len(events')) \in Nat
      BY <1>2, <1>3, CountType, LenProperties
    <3>2. DOMAIN frontendScripts' \subseteq DOMAIN table
      BY <1>2, <2>1, <2>3, <3>1, TableTypes
    <3> QED
      BY <1>2, <2>5, <3>2 DEF Distinct
  <2>9. Live' => BreaksAnnounced'
    BY <2>6 DEF NamesInv, BreaksAnnounced
  <2> QED
    BY <1>2, <2>7, <2>8, <2>9 DEF NamesInv, FollowsBackend, Distinct
<1>6. CASE e.id # "LoadScript"
  <2>1. frontendScripts' = frontendScripts
    BY <1>1, <1>6
  <2>2. \A k \in 0..Len(events) - 1 : Count(events', k) = Count(events, k + 1)
    BY <1>4, <1>6
  <2>3. Len(table) = n + Count(events', Len(events'))
    <3>1. Len(events') \in 0..Len(events) - 1 /\ Len(events') + 1 = Len(events)
      BY <1>3
    <3> QED
      BY <1>2, <2>2, <3>1 DEF Follows
  <2>6. ASSUME NEW k \in DOMAIN events'
        PROVE  /\ k + 1 \in DOMAIN events /\ events'[k] = events[k + 1]
               /\ Count(events', k) = Count(events, k + 1)
    BY <1>3, <2>2, TableTypes
  <2>7. Follows(table)'
    BY <1>2, <2>1, <2>3, <2>6 DEF Follows
  <2>8. Distinct(frontendScripts)' /\ (Live' => BreaksAnnounced')
    BY <2>1, <2>6 DEF NamesInv, BreaksAnnounced, Distinct
  <2> QED
    BY <1>2, <2>7, <2>8 DEF NamesInv, FollowsBackend, Distinct
<1> QED
  BY <1>5, <1>6

-----------------------------------------------------------------------------
(* Neither side does anything the other learns of.                          *)
Idle ==
  UNCHANGED <<vars, frontendScripts, pending, eventThread, vmList, project>>

LEMMA SessionEffects ==
  ASSUME SessionInv, [SessionNext]_sessionVars
  PROVE  /\ Live' => Live
         /\ \/ BackendEffect
            \/ FrontendEffect /\ UNCHANGED backendVars
            \/ Idle
<1>1. TypeInv /\ ChannelTypeOK /\ FrontendTypeOK
  BY DEF SessionInv, TypeInv, TypeOK
<1>2. Live' => Live
  BY <1>1, LiveBefore
<1>3. CASE BackendStep
  BY <1>2, <1>3, BackendEffects
<1>4. CASE FrontendStep
  BY <1>1, <1>2, <1>4, FrontendEffects DEF FrontendStep
<1>5. CASE ProcessEnds \/ UNCHANGED sessionVars
  BY <1>2, <1>5 DEF ProcessEnds, sessionVars, frontendVars, Idle, project
<1> QED
  BY <1>3, <1>4, <1>5 DEF SessionNext

(* What is written while the frontend can read it.                          *)
LEMMA LiveWrites ==
  ASSUME Live, NEW es, Written(es)
  PROVE  events' = events \o es
BY DEF Live, Written

LEMMA NamesInvInit == SessionInit => NamesInv
<1> SUFFICES ASSUME SessionInit PROVE NamesInv
  OBVIOUS
<1>1. scripts = <<>> /\ frontendScripts = <<>> /\ events = <<>>
  BY DEF SessionInit, Init, BackendInit, ChannelInit, FrontendInit
<1>2. Count(events, 0) = 0
  BY CountNext
<1>3. Follows(scripts) /\ Distinct(scripts)
  BY <1>1, <1>2 DEF Follows, Distinct
<1>4. scripts \in Seq(Scripts)
  BY <1>1, EmptySeq
<1>5. FollowsBackend
  BY <1>3, <1>4 DEF FollowsBackend
<1> QED
  BY <1>1, <1>5 DEF NamesInv, BreaksAnnounced, Distinct

LEMMA NamesInvNext == SessionInv /\ NamesInv /\ [SessionNext]_sessionVars => NamesInv'
<1> SUFFICES ASSUME SessionInv, NamesInv, [SessionNext]_sessionVars PROVE NamesInv'
  OBVIOUS
<1>1. Live' => Live
  BY SessionEffects
<1>2. CASE Idle
  BY <1>1, <1>2, NamesSame DEF Idle, vars, backendVars, code, channelVars
<1>3. CASE BackendEffect
  <2>1. UNCHANGED <<frontendScripts, eventThread>> /\ (Live \/ UNCHANGED events)
    BY <1>3 DEF BackendEffect, frontendVars
  <2>2. CASE ~Live
    BY <1>1, <2>1, <2>2, NamesSame
  <2>3. CASE Live
    <3>1. ASSUME NEW es \in Known, Written(es), UNCHANGED scripts PROVE NamesInv'
      BY <2>1, <2>3, <3>1, NamesKnown, LiveWrites
    <3>2. ASSUME NEW t \in LuaThreads
          PROVE  /\ <<[id |-> "CreateVM", vm |-> t]>> \in Known
                 /\ <<[id |-> "DestroyVM", vm |-> t]>> \in Known
      BY DEF Known, Event
    <3>3. Reports \subseteq Known
      BY DEF Reports, Known
    <3>4. ASSUME NEW t \in LuaThreads, NEW s \in Scripts, Registers(t, s) PROVE NamesInv'
      <4>1. /\ events' = events \o <<[id |-> "LoadScript", vm |-> t, script |-> s]>>
            /\ GetScriptIndex(s) = 0 /\ scripts' = Append(scripts, s)
        BY <2>3, <3>4, LiveWrites DEF Registers
      <4> QED
        BY <2>1, <2>3, <4>1, NamesRegister
    <3>5. ASSUME NEW i \in DOMAIN scripts, NEW l \in Lines, Toggles(i, l) PROVE NamesInv'
      <4> DEFINE e == [id |-> "SetBreakpoint", index |-> i, line |-> l,
                       set |-> l \notin breakpoints[scripts[i]]]
      <4>1. e \in Event
        BY TableTypes DEF Event, Index
      <4>2. <<e>> \in Known
        BY <4>1 DEF Known
      <4> QED
        BY <3>1, <3>5, <4>2 DEF Toggles
    <3>6. CASE events' = events /\ (scripts' = scripts \/ ~Live')
      BY <1>1, <2>1, <3>6, NamesSame
    <3>7. CASE ReportsOnly
      BY <3>1, <3>3, <3>7 DEF ReportsOnly, code
    <3>8. CASE \E t \in LuaThreads : Attaches(t) \/ Detaches(t)
      BY <3>1, <3>2, <3>8 DEF Attaches, Detaches, code
    <3> QED
      BY <1>3, <3>4, <3>5, <3>6, <3>7, <3>8 DEF BackendEffect
  <2> QED
    BY <2>2, <2>3
<1>4. CASE FrontendEffect /\ UNCHANGED backendVars
  <2>1. scripts' = scripts
    BY <1>4 DEF backendVars, code
  <2>2. CASE ReadEvent
    BY <1>1, <2>1, <2>2, NamesRead
  <2>3. CASE Ends
    <3>1. eventThread' = "ended" /\ frontendScripts' = <<>>
      BY <2>3, NextPending DEF Ends, Pops, SessionInv, PendingOK
    <3>2. ~Live'
      BY <1>1, <3>1, <2>3, NextPending DEF Ends, Pops, SessionInv, PendingOK
    <3> QED
      BY <3>1, <3>2 DEF NamesInv, Distinct
  <2>4. CASE ReadEventFails(BackendClosed)
    BY <1>1, <2>1, <2>4, NamesSame DEF ReadEventFails, NoPipe, channelVars
  <2>5. CASE OnLoadScript \/ OnSetBreakpoint \/ OnCreateVM \/ OnDestroyVM
    BY <1>1, <2>1, <2>5, NamesSame
    DEF OnLoadScript, OnSetBreakpoint, OnCreateVM, OnDestroyVM, Handle, Send, NoPipe,
        channelVars
  <2>6. CASE Tells \/ NoTable \/ \E s \in Scripts, l \in Lines : TogglesFile(s, l)
    BY <1>1, <2>1, <2>6, NamesSame DEF Tells, NoTable, TogglesFile
  <2>7. CASE UserDeleteAllBreakpoints
    BY <1>1, <2>1, <2>7, NamesSame DEF UserDeleteAllBreakpoints, User, Send
  <2> QED
    BY <1>4, <2>2, <2>3, <2>4, <2>5, <2>6, <2>7 DEF FrontendEffect
<1> QED
  BY <1>2, <1>3, <1>4, SessionEffects

LEMMA NamesInvariant == SessionSpec => []NamesInv
BY SessionInvariant, NamesInvInit, NamesInvNext, PTL DEF SessionSpec

(* The two tables of scripts are one: what the frontend has read is the     *)
(* beginning of the backend's table, and the rest is on its way in the same *)
(* order, so that an index means the same script on both sides.             *)
THEOREM ScriptTables == SessionSpec => []ScriptTablesAgree
<1>1. SessionInv /\ NamesInv => ScriptTablesAgree
  <2> SUFFICES ASSUME SessionInv, NamesInv, Connected
               PROVE  /\ Len(scripts) = Len(frontendScripts) + Announced(Len(events))
                      /\ \A i \in DOMAIN frontendScripts : scripts[i] = frontendScripts[i]
                      /\ \A k \in DOMAIN events :
                           events[k].id = "LoadScript"
                             => scripts[Len(frontendScripts) + Announced(k)] = events[k].script
    BY DEF ScriptTablesAgree
  <2>1. Follows(scripts)
    BY ConnectedIsLive, BackendTable
  <2> QED
    BY <2>1, AnnouncedIsCount DEF Follows
<1> QED
  BY <1>1, SessionInvariant, NamesInvariant, PTL

(* When the frontend reads where a thread stopped, it has read the name of  *)
(* the script: the assertion in EventThreadProc cannot fail.                *)
THEOREM BreakNames == SessionSpec => []BreakNamesKnownScript
<1>1. SessionInv /\ NamesInv => BreakNamesKnownScript
  <2> SUFFICES ASSUME SessionInv, NamesInv, Connected, NEW k \in DOMAIN events,
                      events[k].id = "Break"
               PROVE  events[k].index <= Len(frontendScripts) + Announced(k)
    BY DEF BreakNamesKnownScript
  <2>1. BreaksAnnounced
    BY ConnectedIsLive DEF NamesInv
  <2> QED
    BY <2>1, AnnouncedIsCount DEF BreaksAnnounced
<1> QED
  BY <1>1, SessionInvariant, NamesInvariant, PTL

-----------------------------------------------------------------------------
(***************************************************************************)
(* The files of the scripts.                                               *)
(***************************************************************************)

(* A file has the script of its name, unless that script still waits in the *)
(* queue; and a script waits there only once.                               *)
FilesInv ==
  /\ \A s \in Scripts :
       fileScript[s] # 0
         => fileScript[s] \in DOMAIN frontendScripts /\ frontendScripts[fileScript[s]] = s
  /\ \A k \in DOMAIN pending :
       pending[k].id = "LoadScript" => fileScript[frontendScripts[pending[k].index]] = 0
  /\ \A k, j \in DOMAIN pending :
       /\ pending[k].id = "LoadScript" /\ pending[j].id = "LoadScript"
       /\ pending[k].index = pending[j].index
       => k = j

LEMMA PendingAppend ==
  ASSUME SessionInv, NEW e \in Queued, pending' = Append(pending, e)
  PROVE  /\ DOMAIN pending' = 1..Len(pending) + 1
         /\ \A k \in DOMAIN pending : k \in DOMAIN pending' /\ pending'[k] = pending[k]
         /\ pending'[Len(pending) + 1] = e
         /\ \A k \in DOMAIN pending' : k \in DOMAIN pending \/ k = Len(pending) + 1
<1>1. /\ DOMAIN pending' = 1..Len(pending) + 1
      /\ \A k \in 1..Len(pending) : pending'[k] = pending[k]
      /\ pending'[Len(pending) + 1] = e
  BY TableTypes, AppendProperties
<1> QED
  BY <1>1, TableTypes

(* The scripts in the queue have indices of the table.                      *)
LEMMA QueuedIndex ==
  ASSUME SessionInv, NEW k \in DOMAIN pending, pending[k].id = "LoadScript"
  PROVE  /\ pending[k].index \in DOMAIN frontendScripts
         /\ frontendScripts[pending[k].index] \in Scripts
<1>1. pending[k] \in [id : {"LoadScript"}, index : 1..Len(frontendScripts)]
  BY DEF SessionInv, PendingOK
<1> QED
  BY <1>1, TableTypes

LEMMA FilesSame ==
  ASSUME FilesInv, frontendScripts' = frontendScripts, fileScript' = fileScript,
         pending' = pending
  PROVE  FilesInv'
BY DEF FilesInv

LEMMA FilesPop ==
  ASSUME SessionInv, FilesInv, pending # <<>>, pending' = Tail(pending),
         frontendScripts' = frontendScripts, fileScript' = fileScript
  PROVE  FilesInv'
<1>1. ASSUME NEW k \in DOMAIN pending'
      PROVE  k + 1 \in DOMAIN pending /\ pending'[k] = pending[k + 1] /\ k \in Nat
  BY NextPending DEF SessionInv
<1> QED
  BY <1>1 DEF FilesInv

LEMMA FilesAppend ==
  ASSUME SessionInv, FilesInv, NEW e \in Queued, e.id # "LoadScript",
         pending' = Append(pending, e),
         frontendScripts' = frontendScripts, fileScript' = fileScript
  PROVE  FilesInv'
BY PendingAppend DEF FilesInv

(* A script that is read is new to the files and to the queue.              *)
LEMMA FilesRead ==
  ASSUME SessionInv, FilesInv, NamesInv', ReadEvent
  PROVE  FilesInv'
<1> DEFINE e == Head(events)
           n == Len(frontendScripts)
<1>1. /\ events # <<>> /\ fileScript' = fileScript
      /\ pending' = Append(pending, Translated(e))
      /\ frontendScripts' = IF e.id = "LoadScript" THEN Append(frontendScripts, e.script)
                                                   ELSE frontendScripts
  BY DEF ReadEvent, Translated, project
<1>2. Translated(e) \in Queued /\ (e.id = "LoadScript" => e.script \in Scripts)
  BY <1>1, NextEvent DEF SessionInv, TypeInv, TypeOK
<1>3. CASE e.id # "LoadScript"
  <2>1. Translated(e).id # "LoadScript" /\ frontendScripts' = frontendScripts
    BY <1>1, <1>3 DEF Translated
  <2> QED
    BY <1>1, <1>2, <2>1, FilesAppend
<1>4. CASE e.id = "LoadScript"
  <2> DEFINE m == Len(pending) + 1
  <2>1. /\ DOMAIN frontendScripts' = 1..n + 1 /\ n \in Nat
        /\ DOMAIN frontendScripts = 1..n
        /\ \A i \in 1..n : frontendScripts'[i] = frontendScripts[i]
        /\ frontendScripts'[n + 1] = e.script
    BY <1>1, <1>2, <1>4, TableTypes, AppendProperties
  <2>2. Translated(e) = [id |-> "LoadScript", index |-> n + 1]
    BY <1>4 DEF Translated
  <2>3. /\ \A k \in DOMAIN pending : k \in DOMAIN pending' /\ pending'[k] = pending[k]
        /\ pending'[m] = Translated(e)
        /\ \A k \in DOMAIN pending' : k \in DOMAIN pending \/ k = m
    BY <1>1, <1>2, PendingAppend
  <2>4. ASSUME NEW s \in Scripts, fileScript[s] # 0
        PROVE  /\ fileScript[s] \in 1..n /\ frontendScripts'[fileScript[s]] = s
    BY <2>1, <2>4 DEF FilesInv
  <2>5. fileScript[e.script] = 0
    <3>1. SUFFICES ASSUME fileScript[e.script] # 0 PROVE FALSE
      OBVIOUS
    <3>2. /\ fileScript[e.script] \in 1..n
          /\ frontendScripts'[fileScript[e.script]] = frontendScripts'[n + 1]
      BY <1>2, <1>4, <2>1, <2>4, <3>1
    <3> QED
      BY <2>1, <3>2 DEF NamesInv, Distinct
  <2>6. ASSUME NEW k \in DOMAIN pending, pending[k].id = "LoadScript"
        PROVE  /\ pending[k].index \in 1..n
               /\ frontendScripts'[pending[k].index] = frontendScripts[pending[k].index]
    BY <2>1, <2>6, QueuedIndex
  <2>7. \A s \in Scripts :
          fileScript'[s] # 0
            => /\ fileScript'[s] \in DOMAIN frontendScripts'
               /\ frontendScripts'[fileScript'[s]] = s
    BY <1>1, <2>1, <2>4
  <2>8. ASSUME NEW k \in DOMAIN pending', pending'[k].id = "LoadScript"
        PROVE  fileScript'[frontendScripts'[pending'[k].index]] = 0
    <3>1. CASE k \in DOMAIN pending
      BY <1>1, <2>3, <2>6, <2>8, <3>1 DEF FilesInv
    <3>2. CASE k = m
      BY <1>1, <2>1, <2>2, <2>3, <2>5, <3>2
    <3> QED
      BY <2>3, <3>1, <3>2
  <2>9. ASSUME NEW k \in DOMAIN pending', NEW j \in DOMAIN pending',
               pending'[k].id = "LoadScript", pending'[j].id = "LoadScript",
               pending'[k].index = pending'[j].index
        PROVE  k = j
    <3>1. CASE k \in DOMAIN pending /\ j \in DOMAIN pending
      BY <2>3, <2>9, <3>1 DEF FilesInv
    <3>2. ASSUME NEW i \in DOMAIN pending, pending'[i].id = "LoadScript"
          PROVE  pending'[i].index # pending'[m].index
      <4>1. pending'[i].index \in 1..n
        BY <2>3, <2>6, <3>2
      <4>2. pending'[m].index = n + 1
        BY <2>2, <2>3
      <4> QED
        BY <2>1, <4>1, <4>2
    <3> QED
      BY <2>3, <2>9, <3>1, <3>2
  <2> QED
    BY <2>7, <2>8, <2>9 DEF FilesInv
<1> QED
  BY <1>3, <1>4

(* A script that is handled leaves the queue.                               *)
LEMMA FilesLoad ==
  ASSUME SessionInv, FilesInv, NamesInv, OnLoadScript
  PROVE  FilesInv'
<1> DEFINE i == Head(pending).index
           s == frontendScripts[i]
<1>1. /\ pending # <<>> /\ pending' = Tail(pending)
      /\ fileScript' = [fileScript EXCEPT ![s] = i]
      /\ frontendScripts' = frontendScripts
      /\ Head(pending) = pending[1] /\ pending[1].id = "LoadScript" /\ 1 \in DOMAIN pending
  BY NextPending DEF OnLoadScript, Handle, SessionInv
<1>2. i \in DOMAIN frontendScripts /\ s \in Scripts
  BY <1>1, QueuedIndex
<1>3. ASSUME NEW k \in DOMAIN pending'
      PROVE  /\ k + 1 \in DOMAIN pending /\ pending'[k] = pending[k + 1] /\ k \in Nat
             /\ k + 1 # 1
  BY <1>1, NextPending DEF SessionInv
<1>4. ASSUME NEW k \in DOMAIN pending', pending'[k].id = "LoadScript"
      PROVE  fileScript'[frontendScripts[pending'[k].index]] = 0
  <2>1. /\ pending[k + 1].id = "LoadScript" /\ k + 1 \in DOMAIN pending
        /\ pending'[k].index = pending[k + 1].index
    BY <1>3, <1>4
  <2>2. pending[k + 1].index # i
    BY <1>1, <1>3, <2>1 DEF FilesInv
  <2>3. pending[k + 1].index \in DOMAIN frontendScripts
        /\ frontendScripts[pending[k + 1].index] \in Scripts
    BY <2>1, QueuedIndex
  <2>4. frontendScripts[pending[k + 1].index] # s
    BY <1>2, <2>2, <2>3 DEF NamesInv, Distinct
  <2>5. fileScript[frontendScripts[pending[k + 1].index]] = 0
    BY <2>1 DEF FilesInv
  <2> QED
    BY <1>1, <1>2, <2>1, <2>3, <2>4, <2>5, TableTypes
<1>5. \A u \in Scripts :
        fileScript'[u] # 0
          => /\ fileScript'[u] \in DOMAIN frontendScripts
             /\ frontendScripts[fileScript'[u]] = u
  BY <1>1, <1>2, TableTypes DEF FilesInv
<1>6. \A k, j \in DOMAIN pending' :
        /\ pending'[k].id = "LoadScript" /\ pending'[j].id = "LoadScript"
        /\ pending'[k].index = pending'[j].index
        => k = j
  <2> SUFFICES ASSUME NEW k \in DOMAIN pending', NEW j \in DOMAIN pending',
                      pending'[k].id = "LoadScript", pending'[j].id = "LoadScript",
                      pending'[k].index = pending'[j].index
               PROVE  k = j
    OBVIOUS
  <2>1. k + 1 = j + 1
    BY <1>3 DEF FilesInv
  <2> QED
    BY <1>3, <2>1
<1> QED
  BY <1>1, <1>4, <1>5, <1>6 DEF FilesInv

LEMMA FilesInvInit == SessionInit => FilesInv
BY DEF SessionInit, FrontendInit, FilesInv

LEMMA FilesInvNext ==
  ASSUME SessionInv, FilesInv, NamesInv, NamesInv', [SessionNext]_sessionVars
  PROVE  FilesInv'
<1>1. CASE BackendEffect \/ Idle
  BY <1>1, FilesSame DEF BackendEffect, frontendVars, Idle, project
<1>2. CASE ReadEvent
  BY <1>2, FilesRead
<1>3. CASE ReadEventFails(BackendClosed)
  <2>1. [id |-> "SessionEnd"] \in Queued
    BY DEF Queued
  <2> QED
    BY <1>3, <2>1, FilesAppend DEF ReadEventFails, project
<1>4. CASE OnLoadScript
  BY <1>4, FilesLoad
<1>5. CASE OnSetBreakpoint \/ OnCreateVM \/ OnDestroyVM \/ Tells
  BY <1>5, FilesPop
  DEF OnSetBreakpoint, OnCreateVM, OnDestroyVM, Handle, Tells, Pops, project
<1>6. CASE Ends
  <2>1. Len(pending) = 1 /\ DOMAIN pending' = 1..Len(pending) - 1
    BY <1>6, NextPending DEF Ends, Pops, SessionInv
  <2>2. DOMAIN pending' = {}
    BY <2>1
  <2>3. \A s \in Scripts : fileScript'[s] = 0
    BY <1>6 DEF Ends
  <2> QED
    BY <2>2, <2>3 DEF FilesInv
<1>7. CASE NoTable \/ UserDeleteAllBreakpoints
           \/ \E s \in Scripts, l \in Lines : TogglesFile(s, l)
  BY <1>7, FilesSame DEF NoTable, UserDeleteAllBreakpoints, User, TogglesFile, project
<1> QED
  BY <1>1, <1>2, <1>3, <1>4, <1>5, <1>6, <1>7, SessionEffects DEF FrontendEffect

LEMMA FilesInvariant == SessionSpec => []FilesInv
BY SessionInvariant, NamesInvariant, FilesInvInit, FilesInvNext, PTL DEF SessionSpec

(* A script's file has no script when its LoadScript event is handled: the  *)
(* assertion in OnDebugEvent cannot fail, however many events wait.         *)
THEOREM FilesFree == SessionSpec => []FileHasNoScriptYet
<1>1. FilesInv => FileHasNoScriptYet
  BY DEF FilesInv, FileHasNoScriptYet
<1> QED
  BY <1>1, FilesInvariant, PTL

-----------------------------------------------------------------------------
(***************************************************************************)
(* News on its way.  A thing that the backend knows (x \in B) and the      *)
(* frontend shows (x \in A) changes with the messages M, of which those in *)
(* Yes say that it is so: the last message on the way tells what the       *)
(* backend knows, and when none is on the way the frontend shows it.       *)
(***************************************************************************)

News(msgs, M) == {k \in DOMAIN msgs : msgs[k] \in M}

Agrees(msgs, M, Yes, x, A, B) ==
  /\ News(msgs, M) = {} => (x \in A <=> x \in B)
  /\ \A k \in News(msgs, M) :
       (\A j \in News(msgs, M) : j <= k) => (msgs[k] \in Yes <=> x \in B)

(* Messages that say nothing of it.                                         *)
LEMMA AgreesConcat ==
  ASSUME NEW S, NEW msgs \in Seq(S), NEW es \in Seq(S), NEW M, NEW Yes, NEW x,
         NEW A, NEW B, NEW B1, Agrees(msgs, M, Yes, x, A, B), x \in B1 <=> x \in B,
         \A k \in DOMAIN es : es[k] \notin M
  PROVE  Agrees(msgs \o es, M, Yes, x, A, B1)
<1>1. ASSUME NEW k \in DOMAIN (msgs \o es), (msgs \o es)[k] \in M
      PROVE  k \in DOMAIN msgs
  <2>1. SUFFICES ASSUME k \notin DOMAIN msgs PROVE FALSE
    OBVIOUS
  <2>2. k - Len(msgs) \in 1..Len(es) /\ Len(msgs) + (k - Len(msgs)) = k
    BY <2>1, ConcatElements
  <2>3. k - Len(msgs) \in DOMAIN es /\ (msgs \o es)[k] = es[k - Len(msgs)]
    BY <2>2, ConcatElements
  <2> QED
    BY <1>1, <2>3
<1>2. \A k \in DOMAIN msgs : k \in DOMAIN (msgs \o es) /\ (msgs \o es)[k] = msgs[k]
  BY ConcatElements
<1>3. News(msgs \o es, M) = News(msgs, M)
  BY <1>1, <1>2 DEF News
<1>4. \A k \in News(msgs, M) : (msgs \o es)[k] = msgs[k]
  BY <1>2 DEF News
<1> QED
  BY <1>3, <1>4 DEF Agrees

(* A message that says how it is now.                                       *)
LEMMA AgreesTold ==
  ASSUME NEW S, NEW msgs \in Seq(S), NEW e \in S, NEW M, NEW Yes, NEW x, NEW A, NEW B,
         e \in M, e \in Yes <=> x \in B
  PROVE  Agrees(msgs \o <<e>>, M, Yes, x, A, B)
<1>1. /\ DOMAIN (msgs \o <<e>>) = 1..Len(msgs) + 1 /\ Len(msgs) \in Nat
      /\ (msgs \o <<e>>)[Len(msgs) + 1] = e
  <2>1. <<e>> \in Seq(S) /\ Len(<<e>>) = 1 /\ <<e>>[1] = e
    OBVIOUS
  <2> QED
    BY <2>1, ConcatElements
<1>2. Len(msgs) + 1 \in News(msgs \o <<e>>, M)
  BY <1>1 DEF News
<1>3. ASSUME NEW k \in News(msgs \o <<e>>, M), \A j \in News(msgs \o <<e>>, M) : j <= k
      PROVE  (msgs \o <<e>>)[k] = e
  <2>1. Len(msgs) + 1 <= k /\ k \in 1..Len(msgs) + 1
    BY <1>1, <1>2, <1>3 DEF News
  <2>2. k = Len(msgs) + 1
    BY <1>1, <2>1
  <2> QED
    BY <1>1, <2>2
<1> QED
  BY <1>2, <1>3 DEF Agrees

(* The first message is handled.                                            *)
LEMMA AgreesTail ==
  ASSUME NEW S, NEW msgs \in Seq(S), msgs # <<>>, NEW M, NEW Yes, NEW x,
         NEW A, NEW A1, NEW B, Agrees(msgs, M, Yes, x, A, B),
         msgs[1] \in M => (x \in A1 <=> msgs[1] \in Yes),
         msgs[1] \notin M => (x \in A1 <=> x \in A)
  PROVE  Agrees(Tail(msgs), M, Yes, x, A1, B)
<1>1. /\ Len(msgs) \in Nat \ {0} /\ DOMAIN msgs = 1..Len(msgs)
      /\ DOMAIN Tail(msgs) = 1..Len(msgs) - 1
      /\ \A k \in 1..Len(msgs) - 1 : Tail(msgs)[k] = msgs[k + 1]
  BY EmptySeq, LenProperties, HeadTailProperties
<1>2. \A k \in News(Tail(msgs), M) : k + 1 \in News(msgs, M) /\ Tail(msgs)[k] = msgs[k + 1]
  BY <1>1 DEF News
<1>3. \A k \in News(msgs, M) : k = 1 \/ k - 1 \in News(Tail(msgs), M)
  <2> SUFFICES ASSUME NEW k \in 1..Len(msgs), msgs[k] \in M, k # 1
               PROVE  k - 1 \in 1..Len(msgs) - 1 /\ Tail(msgs)[k - 1] \in M
    BY <1>1 DEF News
  <2>1. k - 1 \in 1..Len(msgs) - 1 /\ k - 1 + 1 = k
    BY <1>1
  <2> QED
    BY <1>1, <2>1
<1>4. ASSUME News(Tail(msgs), M) = {} PROVE x \in A1 <=> x \in B
  <2>1. CASE msgs[1] \in M
    <3>0. 1 \in News(msgs, M)
      BY <1>1, <2>1 DEF News
    <3>1. \A j \in News(msgs, M) : j <= 1
      BY <1>3, <1>4
    <3>2. msgs[1] \in Yes <=> x \in B
      BY <3>0, <3>1 DEF Agrees
    <3> QED
      BY <2>1, <3>2
  <2>2. CASE msgs[1] \notin M
    <3>1. News(msgs, M) = {}
      BY <1>1, <1>3, <1>4, <2>2 DEF News
    <3> QED
      BY <2>2, <3>1 DEF Agrees
  <2> QED
    BY <2>1, <2>2
<1>5. ASSUME NEW k \in News(Tail(msgs), M), \A j \in News(Tail(msgs), M) : j <= k
      PROVE  Tail(msgs)[k] \in Yes <=> x \in B
  <2>1. k \in Nat \ {0} /\ k + 1 \in News(msgs, M) /\ Tail(msgs)[k] = msgs[k + 1]
    BY <1>1, <1>2 DEF News
  <2>2. \A j \in News(msgs, M) : j <= k + 1
    <3> SUFFICES ASSUME NEW j \in News(msgs, M), j # 1 PROVE j <= k + 1
      BY <2>1
    <3>1. j - 1 <= k /\ j \in Nat
      BY <1>1, <1>3, <1>5 DEF News
    <3> QED
      BY <2>1, <3>1
  <2> QED
    BY <2>1, <2>2 DEF Agrees
<1> QED
  BY <1>4, <1>5 DEF Agrees

(* A message that is none of M is replaced by another.                      *)
LEMMA AgreesSame ==
  ASSUME NEW msgs, NEW msgs1, NEW M, NEW Yes, NEW x, NEW A, NEW B,
         Agrees(msgs, M, Yes, x, A, B), DOMAIN msgs1 = DOMAIN msgs,
         \A k \in DOMAIN msgs :
           msgs1[k] = msgs[k] \/ (msgs1[k] \notin M /\ msgs[k] \notin M)
  PROVE  Agrees(msgs1, M, Yes, x, A, B)
<1>1. News(msgs1, M) = News(msgs, M)
  BY DEF News
<1>2. \A k \in News(msgs, M) : msgs1[k] = msgs[k]
  BY DEF News
<1> QED
  BY <1>1, <1>2 DEF Agrees

(* What is on its way from the backend to the UI thread.                    *)
Transit == pending \o events

LEMMA TransitType ==
  ASSUME SessionInv
  PROVE  Transit \in Seq(Queued) /\ Len(Transit) = Len(pending) + Len(events)
<1>1. events \in Seq(Queued)
  <2>1. events \in Seq(Event) /\ Event \subseteq Queued
    BY TableTypes DEF Queued
  <2> QED
    BY <2>1
<1> QED
  BY <1>1, TableTypes, ConcatElements DEF Transit

LEMMA TransitWritten ==
  ASSUME SessionInv, NEW es \in Seq(Event), pending' = pending, events' = events \o es
  PROVE  Transit' = Transit \o es
<1>1. events \in Seq(Queued) /\ es \in Seq(Queued)
  <2>1. events \in Seq(Event) /\ Event \subseteq Queued
    BY TableTypes DEF Queued
  <2> QED
    BY <2>1
<1>2. (pending \o events) \o es = pending \o (events \o es)
  <2>1. pending \in Seq(Queued)
    BY TableTypes
  <2> QED
    BY <1>1, <2>1, ConcatAssociative
<1> QED
  BY <1>2 DEF Transit

LEMMA TransitRead ==
  ASSUME SessionInv, ReadEvent
  PROVE  /\ DOMAIN Transit' = DOMAIN Transit
         /\ \A k \in DOMAIN Transit :
              \/ Transit'[k] = Transit[k]
              \/ Transit'[k].id = "LoadScript" /\ Transit[k].id = "LoadScript"
<1> DEFINE p == Len(pending)
           e == Head(events)
<1>1. /\ events # <<>> /\ events' = Tail(events) /\ pending' = Append(pending, Translated(e))
  BY DEF ReadEvent, Translated
<1>2. /\ e = events[1] /\ Translated(e) \in Queued
      /\ Len(events) \in Nat \ {0} /\ Len(Tail(events)) = Len(events) - 1
      /\ Tail(events) \in Seq(Event)
      /\ \A k \in 1..Len(events) - 1 : Tail(events)[k] = events[k + 1]
  BY <1>1, NextEvent DEF SessionInv, TypeInv, TypeOK
<1>3. Event \subseteq Queued
  BY DEF Queued
<1>4. /\ pending' \in Seq(Queued) /\ Len(pending') = p + 1 /\ pending'[p + 1] = Translated(e)
      /\ \A k \in 1..p : pending'[k] = pending[k]
      /\ p \in Nat
  BY <1>1, <1>2, TableTypes, AppendProperties
<1>5. events \in Seq(Queued) /\ events' \in Seq(Queued)
  BY <1>1, <1>2, <1>3, TableTypes
<1>6. /\ DOMAIN Transit = 1..p + Len(events)
      /\ \A k \in 1..p : Transit[k] = pending[k]
      /\ \A k \in 1..Len(events) : Transit[p + k] = events[k]
  BY <1>5, TableTypes, ConcatElements DEF Transit
<1>7. /\ DOMAIN Transit' = 1..p + 1 + (Len(events) - 1)
      /\ \A k \in 1..p + 1 : Transit'[k] = pending'[k]
      /\ \A k \in 1..Len(events) - 1 : Transit'[p + 1 + k] = Tail(events)[k]
  BY <1>1, <1>2, <1>4, <1>5, ConcatElements DEF Transit
<1>8. DOMAIN Transit' = DOMAIN Transit
  BY <1>2, <1>4, <1>6, <1>7
<1>9. ASSUME NEW k \in DOMAIN Transit
      PROVE  \/ Transit'[k] = Transit[k]
             \/ Transit'[k].id = "LoadScript" /\ Transit[k].id = "LoadScript"
  <2>0. k \in 1..p + Len(events)
    BY <1>6, <1>9
  <2>1. CASE k <= p
    <3>1. k \in 1..p /\ k \in 1..p + 1
      BY <1>4, <2>0, <2>1
    <3> QED
      BY <1>4, <1>6, <1>7, <3>1
  <2>2. CASE k = p + 1
    <3>1. 1 \in 1..Len(events) /\ p + 1 \in 1..p + 1
      BY <1>2, <1>4
    <3>2. Transit'[k] = Translated(e) /\ Transit[k] = e
      BY <1>2, <1>4, <1>6, <1>7, <2>2, <3>1
    <3> QED
      BY <3>2 DEF Translated
  <2>3. CASE k > p + 1
    <3>0. p \in Nat /\ Len(events) \in Nat \ {0}
      BY <1>2, <1>4
    <3> HIDE DEF p
    <3>1. k - p - 1 \in 1..Len(events) - 1 /\ k - p \in 1..Len(events)
          /\ p + 1 + (k - p - 1) = k /\ p + (k - p) = k /\ k - p - 1 + 1 = k - p
      BY <2>0, <2>3, <3>0
    <3>2. Transit'[k] = Tail(events)[k - p - 1] /\ Transit[k] = events[k - p]
      BY <1>6, <1>7, <3>1
    <3>3. Tail(events)[k - p - 1] = events[k - p]
      BY <1>2, <3>1
    <3> QED
      BY <3>2, <3>3
  <2> QED
    BY <1>4, <2>0, <2>1, <2>2, <2>3
<1> QED
  BY <1>8, <1>9

LEMMA TransitPop ==
  ASSUME SessionInv, pending # <<>>, pending' = Tail(pending), events' = events
  PROVE  /\ Transit # <<>> /\ Transit[1] = Head(pending) /\ 1 \in DOMAIN Transit
         /\ Transit' = Tail(Transit)
         /\ \A k \in DOMAIN Transit' :
              k + 1 \in DOMAIN Transit /\ Transit'[k] = Transit[k + 1]
<1>1. events \in Seq(Queued) /\ pending \in Seq(Queued)
  <2>1. events \in Seq(Event) /\ Event \subseteq Queued
    BY TableTypes DEF Queued
  <2> QED
    BY <2>1, TableTypes
<1>2. /\ Head(pending) = pending[1] /\ Len(pending) \in Nat \ {0}
      /\ Tail(pending) \in Seq(Queued) /\ Len(Tail(pending)) = Len(pending) - 1
      /\ \A k \in 1..Len(pending) - 1 : Tail(pending)[k] = pending[k + 1]
  BY NextPending DEF SessionInv
<1> DEFINE p == Len(pending)
           n == Len(events)
<1>3. /\ DOMAIN Transit = 1..p + n /\ Transit \in Seq(Queued) /\ n \in Nat
      /\ Len(Transit) = p + n
      /\ \A k \in 1..p : Transit[k] = pending[k]
      /\ \A k \in 1..n : Transit[p + k] = events[k]
  BY <1>1, ConcatElements DEF Transit
<1>4. /\ DOMAIN Transit' = 1..p - 1 + n /\ Transit' \in Seq(Queued)
      /\ Len(Transit') = p - 1 + n
      /\ \A k \in 1..p - 1 : Transit'[k] = Tail(pending)[k]
      /\ \A k \in 1..n : Transit'[p - 1 + k] = events[k]
  BY <1>1, <1>2, ConcatElements DEF Transit
<1>5. ASSUME NEW k \in DOMAIN Transit'
      PROVE  k + 1 \in DOMAIN Transit /\ Transit'[k] = Transit[k + 1]
  <2>0. k \in 1..p - 1 + n /\ k + 1 \in 1..p + n
    BY <1>2, <1>3, <1>4, <1>5
  <2>1. CASE k <= p - 1
    <3>1. k \in 1..p - 1 /\ k + 1 \in 1..p
      BY <1>2, <2>0, <2>1
    <3> QED
      BY <1>2, <1>3, <1>4, <2>0, <3>1
  <2>2. CASE k > p - 1
    <3>1. k - p + 1 \in 1..n /\ p + (k - p + 1) = k + 1 /\ p - 1 + (k - p + 1) = k
      BY <1>2, <1>3, <2>0, <2>2
    <3>2. Transit[k + 1] = events[k - p + 1] /\ Transit'[k] = events[k - p + 1]
      BY <1>3, <1>4, <3>1, SMTT(30)
    <3> QED
      BY <1>3, <2>0, <3>2
  <2> QED
    BY <1>2, <2>0, <2>1, <2>2
<1>6. Transit # <<>> /\ Transit[1] = Head(pending) /\ 1 \in DOMAIN Transit
  <2>1. 1 \in 1..p /\ 1 \in 1..p + n
    BY <1>2, <1>3
  <2>2. Transit[1] = Head(pending) /\ 1 \in DOMAIN Transit
    BY <1>2, <1>3, <2>1
  <2> QED
    BY <2>2
<1>7. Transit' = Tail(Transit)
  <2>1. /\ Tail(Transit) \in Seq(Queued) /\ Len(Tail(Transit)) = p + n - 1
        /\ \A k \in 1..p + n - 1 : Tail(Transit)[k] = Transit[k + 1]
    BY <1>3, <1>6, HeadTailProperties
  <2>2. Len(Transit') = Len(Tail(Transit))
    BY <1>2, <1>3, <1>4, <2>1
  <2>3. \A k \in 1..Len(Transit') : Transit'[k] = Tail(Transit)[k]
    <3> SUFFICES ASSUME NEW k \in 1..p - 1 + n PROVE Transit'[k] = Tail(Transit)[k]
      BY <1>4
    <3>1. k \in 1..p + n - 1
      BY <1>2, <1>3
    <3> QED
      BY <1>4, <1>5, <2>1, <3>1
  <2> QED
    BY <1>4, <2>1, <2>2, <2>3, SeqEqual
<1> QED
  BY <1>5, <1>6, <1>7

-----------------------------------------------------------------------------
(***************************************************************************)
(* The virtual machines.                                                   *)
(***************************************************************************)

VmNews(t) == [id : {"CreateVM", "DestroyVM"}, vm : {t}]
VmAdded(t) == [id : {"CreateVM"}, vm : {t}]

VmsInv ==
  Live => \A t \in LuaThreads :
            Agrees(Transit, VmNews(t), VmAdded(t), t, vmList, vms)

(* Messages of another kind say nothing of a virtual machine.               *)
LEMMA OtherNews ==
  ASSUME NEW t, NEW e, e.id \notin {"CreateVM", "DestroyVM"}
  PROVE  e \notin VmNews(t)
BY DEF VmNews

LEMMA VmsWrite ==
  ASSUME SessionInv, VmsInv, Live, NEW es \in Seq(Event), pending' = pending,
         events' = events \o es, vms' = vms, vmList' = vmList,
         \A k \in DOMAIN es : es[k].id \notin {"CreateVM", "DestroyVM"}
  PROVE  VmsInv'
<1> SUFFICES ASSUME NEW t \in LuaThreads
             PROVE  Agrees(Transit', VmNews(t), VmAdded(t), t, vmList, vms)
  BY DEF VmsInv
<1>1. Agrees(Transit, VmNews(t), VmAdded(t), t, vmList, vms)
  BY DEF VmsInv
<1>2. Transit' = Transit \o es /\ Transit \in Seq(Queued) /\ es \in Seq(Queued)
  <2>1. es \in Seq(Queued)
    <3>1. Event \subseteq Queued
      BY DEF Queued
    <3> QED
      BY <3>1
  <2> QED
    BY <2>1, TransitType, TransitWritten
<1>3. \A k \in DOMAIN es : es[k] \notin VmNews(t)
  BY OtherNews
<1>4. Agrees(Transit \o es, VmNews(t), VmAdded(t), t, vmList, vms)
  BY <1>1, <1>2, <1>3, AgreesConcat
<1> QED
  BY <1>2, <1>4

(* A state is attached or detached and the frontend is told.                *)
LEMMA VmsTell ==
  ASSUME SessionInv, VmsInv, Live, NEW u \in LuaThreads, NEW e \in Event,
         \/ e = [id |-> "CreateVM", vm |-> u] /\ vms' = vms \cup {u}
         \/ e = [id |-> "DestroyVM", vm |-> u] /\ vms' = vms \ {u},
         pending' = pending, events' = events \o <<e>>, vmList' = vmList
  PROVE  VmsInv'
<1> SUFFICES ASSUME NEW t \in LuaThreads
             PROVE  Agrees(Transit', VmNews(t), VmAdded(t), t, vmList, vms')
  BY DEF VmsInv
<1>1. Agrees(Transit, VmNews(t), VmAdded(t), t, vmList, vms)
  BY DEF VmsInv
<1>2. e \in Queued /\ Transit \in Seq(Queued) /\ Transit' = Transit \o <<e>>
  <2>1. e \in Queued /\ <<e>> \in Seq(Event)
    BY DEF Queued
  <2> QED
    BY <2>1, TransitType, TransitWritten
<1>3. CASE t = u
  <2>1. e \in VmNews(t) /\ (e \in VmAdded(t) <=> t \in vms')
    BY <1>3 DEF VmNews, VmAdded
  <2>2. Agrees(Transit \o <<e>>, VmNews(t), VmAdded(t), t, vmList, vms')
    BY <1>2, <2>1, AgreesTold
  <2> QED
    BY <1>2, <2>2
<1>4. CASE t # u
  <2>1. e \notin VmNews(t) /\ (t \in vms' <=> t \in vms)
    BY <1>4 DEF VmNews
  <2>2. <<e>> \in Seq(Queued) /\ \A k \in DOMAIN <<e>> : <<e>>[k] \notin VmNews(t)
    BY <1>2, <2>1
  <2>3. Agrees(Transit \o <<e>>, VmNews(t), VmAdded(t), t, vmList, vms')
    BY <1>1, <1>2, <2>1, <2>2, AgreesConcat
  <2> QED
    BY <1>2, <2>3
<1> QED
  BY <1>3, <1>4

(* The frontend handles an event.                                           *)
LEMMA VmsPop ==
  ASSUME SessionInv, VmsInv, Live, pending # <<>>, pending' = Tail(pending),
         events' = events, vms' = vms,
         \A t \in LuaThreads :
           IF Head(pending) \in VmNews(t)
           THEN t \in vmList' <=> Head(pending) \in VmAdded(t)
           ELSE t \in vmList' <=> t \in vmList
  PROVE  VmsInv'
<1> SUFFICES ASSUME NEW t \in LuaThreads
             PROVE  Agrees(Transit', VmNews(t), VmAdded(t), t, vmList', vms)
  BY DEF VmsInv
<1>1. Agrees(Transit, VmNews(t), VmAdded(t), t, vmList, vms)
  BY DEF VmsInv
<1>2. /\ Transit \in Seq(Queued) /\ Transit # <<>> /\ Transit[1] = Head(pending)
      /\ Transit' = Tail(Transit)
  BY TransitType, TransitPop
<1>3. Agrees(Tail(Transit), VmNews(t), VmAdded(t), t, vmList', vms)
  BY <1>1, <1>2, AgreesTail
<1> QED
  BY <1>2, <1>3

LEMMA VmsSame ==
  ASSUME VmsInv, Live, DOMAIN Transit' = DOMAIN Transit, vms' = vms, vmList' = vmList,
         \A k \in DOMAIN Transit :
           \/ Transit'[k] = Transit[k]
           \/ Transit'[k].id = "LoadScript" /\ Transit[k].id = "LoadScript"
  PROVE  VmsInv'
<1> SUFFICES ASSUME NEW t \in LuaThreads
             PROVE  Agrees(Transit', VmNews(t), VmAdded(t), t, vmList, vms)
  BY DEF VmsInv
<1>1. Agrees(Transit, VmNews(t), VmAdded(t), t, vmList, vms)
  BY DEF VmsInv
<1>2. \A k \in DOMAIN Transit :
        \/ Transit'[k] = Transit[k]
        \/ Transit'[k] \notin VmNews(t) /\ Transit[k] \notin VmNews(t)
  BY OtherNews
<1> QED
  BY <1>1, <1>2, AgreesSame

LEMMA VmsInvInit == SessionInit => VmsInv
<1> SUFFICES ASSUME SessionInit PROVE VmsInv
  OBVIOUS
<1>1. pending = <<>> /\ events = <<>> /\ vms = {} /\ vmList = {}
  BY DEF SessionInit, Init, BackendInit, ChannelInit, FrontendInit
<1>2. DOMAIN Transit = {}
  BY <1>1 DEF Transit
<1> QED
  BY <1>1, <1>2 DEF VmsInv, Agrees, News

LEMMA VmsInvNext == SessionInv /\ VmsInv /\ [SessionNext]_sessionVars => VmsInv'
<1> SUFFICES ASSUME SessionInv, VmsInv, [SessionNext]_sessionVars, Live' PROVE VmsInv'
  BY DEF VmsInv
<1>1. Live
  BY SessionEffects
<1>2. ASSUME pending' = pending, events' = events, vms' = vms, vmList' = vmList
      PROVE  VmsInv'
  BY <1>1, <1>2, VmsSame DEF Transit
<1>3. CASE Idle
  BY <1>2, <1>3 DEF Idle, vars, backendVars, channelVars
<1>4. CASE BackendEffect
  <2>1. pending' = pending /\ vmList' = vmList
    BY <1>4 DEF BackendEffect, frontendVars
  <2>2. ASSUME NEW es \in Seq(Event), Written(es), vms' = vms,
               \A k \in DOMAIN es : es[k].id \notin {"CreateVM", "DestroyVM"}
        PROVE  VmsInv'
    BY <1>1, <2>1, <2>2, VmsWrite, LiveWrites
  <2>3. ASSUME NEW t \in LuaThreads, Attaches(t) \/ Detaches(t) PROVE VmsInv'
    <3>1. PICK e \in Event :
            /\ \/ e = [id |-> "CreateVM", vm |-> t] /\ vms' = vms \cup {t}
               \/ e = [id |-> "DestroyVM", vm |-> t] /\ vms' = vms \ {t}
            /\ Written(<<e>>)
      BY <2>3 DEF Attaches, Detaches, Event
    <3>2. events' = events \o <<e>>
      BY <1>1, <3>1, LiveWrites
    <3> QED
      BY <1>1, <2>1, <3>1, <3>2, VmsTell
  <2>4. ASSUME NEW t \in LuaThreads, NEW s \in Scripts, Registers(t, s) PROVE VmsInv'
    <3> DEFINE e == [id |-> "LoadScript", vm |-> t, script |-> s]
    <3>1. e \in Event /\ e.id \notin {"CreateVM", "DestroyVM"}
      BY DEF Event
    <3>2. Written(<<e>>) /\ vms' = vms
      BY <2>4 DEF Registers
    <3> HIDE DEF e
    <3>3. /\ <<e>> \in Seq(Event)
          /\ \A k \in DOMAIN <<e>> : <<e>>[k].id \notin {"CreateVM", "DestroyVM"}
      BY <3>1
    <3> QED
      BY <2>2, <3>2, <3>3
  <2>5. ASSUME NEW i \in DOMAIN scripts, NEW l \in Lines, Toggles(i, l) PROVE VmsInv'
    <3> DEFINE e == [id |-> "SetBreakpoint", index |-> i, line |-> l,
                     set |-> l \notin breakpoints[scripts[i]]]
    <3>1. e \in Event /\ e.id \notin {"CreateVM", "DestroyVM"}
      BY TableTypes DEF Event, Index
    <3>2. Written(<<e>>) /\ vms' = vms
      BY <2>5 DEF Toggles
    <3> HIDE DEF e
    <3>3. /\ <<e>> \in Seq(Event)
          /\ \A k \in DOMAIN <<e>> : <<e>>[k].id \notin {"CreateVM", "DestroyVM"}
      BY <3>1
    <3> QED
      BY <2>2, <3>2, <3>3
  <2>6. CASE ReportsOnly
    <3>1. PICK es \in Reports : Written(es)
      BY <2>6 DEF ReportsOnly
    <3>2. es \in Seq(Event) /\ \A k \in DOMAIN es : es[k].id \notin {"CreateVM", "DestroyVM"}
      BY DEF Reports
    <3> QED
      BY <2>2, <2>6, <3>1, <3>2 DEF ReportsOnly
  <2>7. CASE UNCHANGED <<vms, scripts, events>>
    BY <1>2, <2>1, <2>7
  <2> QED
    BY <1>4, <2>3, <2>4, <2>5, <2>6, <2>7 DEF BackendEffect
<1>5. CASE FrontendEffect /\ UNCHANGED backendVars
  <2>1. vms' = vms
    BY <1>5 DEF backendVars
  <2>2. CASE ReadEvent
    BY <1>1, <2>1, <2>2, TransitRead, VmsSame DEF ReadEvent
  <2>3. CASE ReadEventFails(BackendClosed) \/ Ends
    <3>1. eventThread' = "ended"
      BY <2>3, NextPending DEF ReadEventFails, Ends, Pops, SessionInv, PendingOK
    <3>2. SessionInv'
      BY SessionInvNext
    <3> QED
      BY <3>1, <3>2 DEF SessionInv, PendingOK
  <2>4. ASSUME pending # <<>>, pending' = Tail(pending), events' = events,
               vmList' = vmList, Head(pending).id \notin {"CreateVM", "DestroyVM"}
        PROVE  VmsInv'
    <3>1. \A t \in LuaThreads : Head(pending) \notin VmNews(t)
      BY <2>4, OtherNews
    <3> QED
      BY <1>1, <2>1, <2>4, <3>1, VmsPop
  <2>5. CASE OnLoadScript \/ OnSetBreakpoint
    BY <2>4, <2>5 DEF OnLoadScript, OnSetBreakpoint, Handle, Send, NoPipe, channelVars
  <2>6. CASE Tells
    BY <2>4, <2>6 DEF Tells, Pops
  <2>7. CASE OnCreateVM \/ OnDestroyVM
    <3> DEFINE h == Head(pending)
    <3>1. /\ pending # <<>> /\ pending' = Tail(pending) /\ events' = events
          /\ \/ h.id = "CreateVM" /\ vmList' = vmList \cup {h.vm}
             \/ h.id = "DestroyVM" /\ vmList' = vmList \ {h.vm}
      BY <2>7 DEF OnCreateVM, OnDestroyVM, Handle, NoPipe, channelVars, VmsWithout
    <3>2. h \in [id : {"CreateVM", "DestroyVM"}, vm : LuaThreads]
      <4>1. h \in Queued
        BY <3>1, NextPending DEF SessionInv
      <4> QED
        BY <3>1, <4>1 DEF Queued, Event
    <3>3. ASSUME NEW t \in LuaThreads
          PROVE  IF h \in VmNews(t) THEN t \in vmList' <=> h \in VmAdded(t)
                                    ELSE t \in vmList' <=> t \in vmList
      <4>1. h \in VmNews(t) <=> h.vm = t
        BY <3>2 DEF VmNews
      <4>2. h.vm = t => (h \in VmAdded(t) <=> h.id = "CreateVM")
        BY <3>2 DEF VmAdded
      <4> QED
        BY <3>1, <4>1, <4>2
    <3> QED
      BY <1>1, <2>1, <3>1, <3>3, VmsPop
  <2>8. CASE NoTable \/ UserDeleteAllBreakpoints
             \/ \E s \in Scripts, l \in Lines : TogglesFile(s, l)
    BY <1>2, <2>1, <2>8 DEF NoTable, UserDeleteAllBreakpoints, User, Send, TogglesFile
  <2> QED
    BY <1>5, <2>2, <2>3, <2>5, <2>6, <2>7, <2>8 DEF FrontendEffect
<1> QED
  BY <1>3, <1>4, <1>5, SessionEffects

LEMMA VmsInvariant == SessionSpec => []VmsInv
BY SessionInvariant, VmsInvInit, VmsInvNext, PTL DEF SessionSpec

(* The user sees the virtual machines the backend knows: every attach and   *)
(* every detach is told, and what is told last is what holds.               *)
THEOREM VmLists == SessionSpec => []VmListAgrees
<1>1. SessionInv /\ VmsInv => VmListAgrees
  <2> SUFFICES ASSUME SessionInv, VmsInv, Connected, pending = <<>>, events = <<>>
               PROVE  vmList = vms
    BY DEF VmListAgrees
  <2>1. DOMAIN Transit = {}
    BY DEF Transit
  <2>2. \A t \in LuaThreads : t \in vmList <=> t \in vms
    BY <2>1, ConnectedIsLive DEF VmsInv, Agrees, News
  <2> QED
    BY <2>2, TableTypes
<1> QED
  BY <1>1, SessionInvariant, VmsInvariant, PTL

-----------------------------------------------------------------------------
(***************************************************************************)
(* The breakpoints.                                                        *)
(***************************************************************************)

BreakpointNews(i, l) ==
  [id : {"SetBreakpoint"}, index : {i}, line : {l}, set : BOOLEAN]
BreakpointSet(i, l) ==
  [id : {"SetBreakpoint"}, index : {i}, line : {l}, set : {TRUE}]

(* The index of a script that a file has.                                   *)
Taken(i, files) == i # 0 /\ \E s \in Scripts : files[s] = i

(* Commands toggle breakpoints only of scripts that have a file.            *)
TogglesOK(msgs, files) ==
  \A k \in DOMAIN msgs :
    /\ msgs[k].id # "DeleteAllBreakpoints"
    /\ msgs[k].id = "ToggleBreakpoint" => Taken(msgs[k].index, files)

(* The same of the answers.                                                 *)
SetsOK(msgs, files) ==
  \A k \in DOMAIN msgs : msgs[k].id = "SetBreakpoint" => Taken(msgs[k].index, files)

(* A script has no breakpoint before it has a file; then the file shows what*)
(* the backend has, up to the news.                                         *)
BreakpointsInv ==
  Live =>
    /\ \A s \in Scripts : fileScript[s] = 0 => breakpoints[s] = {}
    /\ TogglesOK(commands, fileScript)
    /\ SetsOK(Transit, fileScript)
    /\ \A s \in Scripts, l \in Lines :
         fileScript[s] # 0
           => Agrees(Transit, BreakpointNews(fileScript[s], l),
                     BreakpointSet(fileScript[s], l), l,
                     fileBreakpoints[s], breakpoints[s])

LEMMA OtherBreakpointNews ==
  ASSUME NEW i, NEW l, NEW e, e.id # "SetBreakpoint"
  PROVE  e \notin BreakpointNews(i, l)
BY DEF BreakpointNews

(* Two scripts never have the same file.                                    *)
LEMMA FileOfOneScript ==
  ASSUME FilesInv, NEW s \in Scripts, NEW u \in Scripts, fileScript[s] = fileScript[u],
         fileScript[s] # 0
  PROVE  s = u
<1>1. frontendScripts[fileScript[s]] = s /\ frontendScripts[fileScript[u]] = u
  BY DEF FilesInv
<1> QED
  BY <1>1

LEMMA TogglesConcat ==
  ASSUME NEW S, NEW msgs \in Seq(S), NEW es \in Seq(S), NEW files,
         TogglesOK(msgs, files), TogglesOK(es, files)
  PROVE  TogglesOK(msgs \o es, files)
<1> SUFFICES ASSUME NEW k \in DOMAIN (msgs \o es)
             PROVE  /\ (msgs \o es)[k].id # "DeleteAllBreakpoints"
                    /\ (msgs \o es)[k].id = "ToggleBreakpoint"
                         => Taken((msgs \o es)[k].index, files)
  BY DEF TogglesOK
<1>1. CASE k \in DOMAIN msgs
  <2>1. (msgs \o es)[k] = msgs[k]
    BY <1>1, ConcatElements
  <2> QED
    BY <1>1, <2>1 DEF TogglesOK
<1>2. CASE k \notin DOMAIN msgs
  <2>1. k - Len(msgs) \in 1..Len(es) /\ Len(msgs) + (k - Len(msgs)) = k
    BY <1>2, ConcatElements
  <2>2. k - Len(msgs) \in DOMAIN es /\ (msgs \o es)[k] = es[k - Len(msgs)]
    BY <2>1, ConcatElements
  <2> QED
    BY <2>2 DEF TogglesOK
<1> QED
  BY <1>1, <1>2

LEMMA SetsConcat ==
  ASSUME NEW S, NEW msgs \in Seq(S), NEW es \in Seq(S), NEW files,
         SetsOK(msgs, files), SetsOK(es, files)
  PROVE  SetsOK(msgs \o es, files)
<1> SUFFICES ASSUME NEW k \in DOMAIN (msgs \o es), (msgs \o es)[k].id = "SetBreakpoint"
             PROVE  Taken((msgs \o es)[k].index, files)
  BY DEF SetsOK
<1>1. CASE k \in DOMAIN msgs
  <2>1. (msgs \o es)[k] = msgs[k]
    BY <1>1, ConcatElements
  <2> QED
    BY <1>1, <2>1 DEF SetsOK
<1>2. CASE k \notin DOMAIN msgs
  <2>1. k - Len(msgs) \in 1..Len(es) /\ Len(msgs) + (k - Len(msgs)) = k
    BY <1>2, ConcatElements
  <2>2. k - Len(msgs) \in DOMAIN es /\ (msgs \o es)[k] = es[k - Len(msgs)]
    BY <2>1, ConcatElements
  <2> QED
    BY <2>2 DEF SetsOK
<1> QED
  BY <1>1, <1>2

LEMMA TogglesTail ==
  ASSUME NEW S, NEW msgs \in Seq(S), msgs # <<>>, NEW files, TogglesOK(msgs, files)
  PROVE  TogglesOK(Tail(msgs), files)
<1>1. ASSUME NEW k \in DOMAIN Tail(msgs)
      PROVE  k + 1 \in DOMAIN msgs /\ Tail(msgs)[k] = msgs[k + 1]
  <2>1. /\ Len(msgs) \in Nat \ {0} /\ DOMAIN msgs = 1..Len(msgs)
        /\ DOMAIN Tail(msgs) = 1..Len(msgs) - 1
        /\ \A j \in 1..Len(msgs) - 1 : Tail(msgs)[j] = msgs[j + 1]
    BY EmptySeq, LenProperties, HeadTailProperties
  <2> QED
    BY <1>1, <2>1
<1> QED
  BY <1>1 DEF TogglesOK

(* What the backend reads or does not read.                                 *)
LEMMA TogglesRead ==
  ASSUME SessionInv, TogglesOK(commands, fileScript), fileScript' = fileScript,
         commands' = commands \/ (commands # <<>> /\ commands' = Tail(commands))
  PROVE  TogglesOK(commands', fileScript')
BY TableTypes, TogglesTail

(* What the frontend sends.                                                 *)
LEMMA TogglesSent ==
  ASSUME SessionInv, TogglesOK(commands, fileScript'), NEW msgs \in Seq(Command),
         TogglesOK(msgs, fileScript'), Sent(msgs)
  PROVE  TogglesOK(commands', fileScript')
BY TableTypes, TogglesConcat DEF Sent

LEMMA TogglesRequested ==
  ASSUME SessionInv, TogglesOK(commands, fileScript), fileScript' = fileScript,
         RequestsOnly
  PROVE  TogglesOK(commands', fileScript')
<1>1. PICK msgs \in Requests : Sent(msgs)
  BY DEF RequestsOnly
<1>2. msgs \in Seq(Command) /\ TogglesOK(msgs, fileScript')
  BY DEF Requests, TogglesOK
<1> QED
  BY <1>1, <1>2, TogglesSent

(* The backend writes something else.                                       *)
LEMMA BreakpointsWrite ==
  ASSUME SessionInv, BreakpointsInv, Live, NEW es \in Seq(Event), pending' = pending,
         events' = events \o es, breakpoints' = breakpoints, fileScript' = fileScript,
         fileBreakpoints' = fileBreakpoints, TogglesOK(commands', fileScript'),
         \A k \in DOMAIN es : es[k].id # "SetBreakpoint"
  PROVE  BreakpointsInv'
<1>1. Transit' = Transit \o es /\ Transit \in Seq(Queued) /\ es \in Seq(Queued)
  <2>1. es \in Seq(Queued)
    <3>1. Event \subseteq Queued
      BY DEF Queued
    <3> QED
      BY <3>1
  <2> QED
    BY <2>1, TransitType, TransitWritten
<1>2. SetsOK(Transit', fileScript)
  <2>1. SetsOK(es, fileScript) /\ SetsOK(Transit, fileScript)
    BY DEF SetsOK, BreakpointsInv
  <2>2. SetsOK(Transit \o es, fileScript)
    BY <1>1, <2>1, SetsConcat
  <2> QED
    BY <1>1, <2>2
<1>3. ASSUME NEW s \in Scripts, NEW l \in Lines, fileScript[s] # 0
      PROVE  Agrees(Transit', BreakpointNews(fileScript[s], l),
                    BreakpointSet(fileScript[s], l), l,
                    fileBreakpoints[s], breakpoints[s])
  <2> DEFINE M == BreakpointNews(fileScript[s], l)
             Yes == BreakpointSet(fileScript[s], l)
  <2>1. Agrees(Transit, M, Yes, l, fileBreakpoints[s], breakpoints[s])
    BY <1>3 DEF BreakpointsInv
  <2>2. \A k \in DOMAIN es : es[k] \notin M
    BY OtherBreakpointNews
  <2> HIDE DEF M, Yes
  <2>3. Agrees(Transit \o es, M, Yes, l, fileBreakpoints[s], breakpoints[s])
    BY <1>1, <2>1, <2>2, AgreesConcat
  <2>4. Agrees(Transit', M, Yes, l, fileBreakpoints[s], breakpoints[s])
    BY <1>1, <2>3
  <2> QED
    BY <2>4 DEF M, Yes
<1> QED
  BY <1>2, <1>3 DEF BreakpointsInv

(* A breakpoint is set or removed, and the frontend is told.                *)
LEMMA BreakpointsToggle ==
  ASSUME SessionInv, BreakpointsInv, FilesInv, NamesInv, Live,
         NEW i \in DOMAIN scripts, NEW line \in Lines, Toggles(i, line),
         pending' = pending, fileScript' = fileScript,
         fileBreakpoints' = fileBreakpoints, TogglesOK(commands', fileScript')
  PROVE  BreakpointsInv'
<1> DEFINE s0 == scripts[i]
           set == line \notin breakpoints[s0]
           e == [id |-> "SetBreakpoint", index |-> i, line |-> line, set |-> set]
<1>1. /\ breakpoints' = [breakpoints EXCEPT ![s0] = IF set THEN @ \cup {line}
                                                            ELSE @ \ {line}]
      /\ events' = events \o <<e>>
      /\ commands # <<>> /\ Head(commands) = [id |-> "ToggleBreakpoint", index |-> i, line |-> line]
  BY LiveWrites DEF Toggles, NextCommand
<1>2. s0 \in Scripts /\ fileScript[s0] = i /\ i # 0
  <2>1. Taken(i, fileScript)
    <3>1. Head(commands) = commands[1] /\ 1 \in DOMAIN commands
      BY <1>1, TableTypes, EmptySeq, LenProperties, HeadTailProperties
    <3>2. commands[1].id = "ToggleBreakpoint" /\ commands[1].index = i
      BY <1>1, <3>1
    <3> QED
      BY <3>1, <3>2 DEF BreakpointsInv, TogglesOK
  <2>2. PICK s \in Scripts : fileScript[s] = i /\ i # 0
    BY <2>1 DEF Taken
  <2>3. i \in DOMAIN frontendScripts /\ frontendScripts[i] = s
    BY <2>2 DEF FilesInv
  <2>4. scripts[i] = s
    BY <2>3, BackendTable DEF Follows
  <2> QED
    BY <2>2, <2>4
<1>3. e \in Event /\ e \in Queued /\ Transit \in Seq(Queued) /\ Transit' = Transit \o <<e>>
  <2>1. set \in BOOLEAN /\ i \in Nat
    BY TableTypes
  <2>2. e \in Event
    BY <2>1 DEF Event, Index
  <2>3. e \in Queued /\ <<e>> \in Seq(Event)
    BY <2>2 DEF Queued
  <2> QED
    BY <1>1, <2>2, <2>3, TransitType, TransitWritten
<1>4. SetsOK(Transit', fileScript)
  <2>1. <<e>> \in Seq(Queued) /\ SetsOK(<<e>>, fileScript) /\ SetsOK(Transit, fileScript)
    BY <1>2, <1>3 DEF SetsOK, Taken, BreakpointsInv
  <2>2. SetsOK(Transit \o <<e>>, fileScript)
    BY <1>3, <2>1, SetsConcat
  <2> QED
    BY <1>3, <2>2
<1>5. ASSUME NEW s \in Scripts, NEW l \in Lines, fileScript[s] # 0
      PROVE  Agrees(Transit', BreakpointNews(fileScript[s], l),
                    BreakpointSet(fileScript[s], l), l,
                    fileBreakpoints[s], breakpoints'[s])
  <2> DEFINE M == BreakpointNews(fileScript[s], l)
             Yes == BreakpointSet(fileScript[s], l)
  <2>1. Agrees(Transit, M, Yes, l, fileBreakpoints[s], breakpoints[s])
    BY <1>5 DEF BreakpointsInv
  <2>2. CASE s = s0 /\ l = line
    <3>1. set <=> line \in breakpoints'[s0]
      BY <1>1, <1>2, TableTypes
    <3>2. e \in M
      BY <1>2, <2>2 DEF BreakpointNews
    <3>3. e \in Yes <=> set
      BY <1>2, <2>2 DEF BreakpointSet
    <3>4. e \in Yes <=> l \in breakpoints'[s]
      BY <2>2, <3>1, <3>3
    <3> HIDE DEF M, Yes, e
    <3>5. Agrees(Transit \o <<e>>, M, Yes, l, fileBreakpoints[s], breakpoints'[s])
      BY <1>3, <3>2, <3>4, AgreesTold
    <3>6. Agrees(Transit', M, Yes, l, fileBreakpoints[s], breakpoints'[s])
      BY <1>3, <3>5
    <3> QED
      BY <3>6 DEF M, Yes
  <2>3. CASE ~(s = s0 /\ l = line)
    <3>1. l \in breakpoints'[s] <=> l \in breakpoints[s]
      BY <1>1, <1>2, <2>3, TableTypes
    <3>2. e \notin M
      <4>1. SUFFICES ASSUME fileScript[s] = i, l = line PROVE FALSE
        BY DEF BreakpointNews
      <4>2. s = s0
        BY <1>2, <4>1, FileOfOneScript
      <4> QED
        BY <2>3, <4>1, <4>2
    <3> HIDE DEF M, Yes, e
    <3>3. <<e>> \in Seq(Queued) /\ \A k \in DOMAIN <<e>> : <<e>>[k] \notin M
      BY <1>3, <3>2
    <3>4. Agrees(Transit \o <<e>>, M, Yes, l, fileBreakpoints[s], breakpoints'[s])
      BY <1>3, <2>1, <3>1, <3>3, AgreesConcat
    <3>5. Agrees(Transit', M, Yes, l, fileBreakpoints[s], breakpoints'[s])
      BY <1>3, <3>4
    <3> QED
      BY <3>5 DEF M, Yes
  <2> QED
    BY <2>2, <2>3
<1>6. ASSUME NEW s \in Scripts, fileScript[s] = 0 PROVE breakpoints'[s] = {}
  <2>1. s # s0
    BY <1>2, <1>6
  <2> QED
    BY <1>1, <1>6, <2>1, TableTypes DEF BreakpointsInv
<1> QED
  BY <1>4, <1>5, <1>6 DEF BreakpointsInv

(* The frontend reads, sends or changes a file without a script.            *)
LEMMA BreakpointsSame ==
  ASSUME BreakpointsInv, Live, DOMAIN Transit' = DOMAIN Transit,
         \A k \in DOMAIN Transit :
           \/ Transit'[k] = Transit[k]
           \/ Transit'[k].id = "LoadScript" /\ Transit[k].id = "LoadScript",
         breakpoints' = breakpoints, fileScript' = fileScript,
         TogglesOK(commands', fileScript'),
         \A s \in Scripts : fileScript[s] # 0 => fileBreakpoints'[s] = fileBreakpoints[s]
  PROVE  BreakpointsInv'
<1>1. ASSUME NEW s \in Scripts, NEW l \in Lines, fileScript[s] # 0
      PROVE  Agrees(Transit', BreakpointNews(fileScript[s], l),
                    BreakpointSet(fileScript[s], l), l,
                    fileBreakpoints'[s], breakpoints[s])
  <2> DEFINE M == BreakpointNews(fileScript[s], l)
             Yes == BreakpointSet(fileScript[s], l)
  <2>1. Agrees(Transit, M, Yes, l, fileBreakpoints[s], breakpoints[s])
    BY <1>1 DEF BreakpointsInv
  <2>2. \A k \in DOMAIN Transit :
          \/ Transit'[k] = Transit[k]
          \/ Transit'[k] \notin M /\ Transit[k] \notin M
    BY OtherBreakpointNews
  <2> HIDE DEF M, Yes
  <2>3. Agrees(Transit', M, Yes, l, fileBreakpoints[s], breakpoints[s])
    BY <2>1, <2>2, AgreesSame
  <2>4. Agrees(Transit', M, Yes, l, fileBreakpoints'[s], breakpoints[s])
    BY <1>1, <2>3
  <2> QED
    BY <2>4 DEF M, Yes
<1>2. SetsOK(Transit', fileScript')
  BY DEF BreakpointsInv, SetsOK
<1> QED
  BY <1>1, <1>2 DEF BreakpointsInv

(* The frontend handles an event that gives no file a script.               *)
LEMMA BreakpointsPop ==
  ASSUME SessionInv, BreakpointsInv, Live, pending # <<>>, pending' = Tail(pending),
         events' = events, breakpoints' = breakpoints, fileScript' = fileScript,
         TogglesOK(commands', fileScript'),
         \A s \in Scripts, l \in Lines :
           fileScript[s] # 0 =>
             IF Head(pending) \in BreakpointNews(fileScript[s], l)
             THEN l \in fileBreakpoints'[s]
                    <=> Head(pending) \in BreakpointSet(fileScript[s], l)
             ELSE l \in fileBreakpoints'[s] <=> l \in fileBreakpoints[s]
  PROVE  BreakpointsInv'
<1>1. /\ Transit \in Seq(Queued) /\ Transit # <<>> /\ Transit[1] = Head(pending)
      /\ Transit' = Tail(Transit)
      /\ \A k \in DOMAIN Transit' :
           k + 1 \in DOMAIN Transit /\ Transit'[k] = Transit[k + 1]
  BY TransitType, TransitPop
<1>2. ASSUME NEW s \in Scripts, NEW l \in Lines, fileScript[s] # 0
      PROVE  Agrees(Transit', BreakpointNews(fileScript[s], l),
                    BreakpointSet(fileScript[s], l), l,
                    fileBreakpoints'[s], breakpoints[s])
  <2> DEFINE M == BreakpointNews(fileScript[s], l)
             Yes == BreakpointSet(fileScript[s], l)
             h == Head(pending)
  <2>1. Agrees(Transit, M, Yes, l, fileBreakpoints[s], breakpoints[s])
    BY <1>2 DEF BreakpointsInv
  <2>2. IF h \in M THEN l \in fileBreakpoints'[s] <=> h \in Yes
                   ELSE l \in fileBreakpoints'[s] <=> l \in fileBreakpoints[s]
    BY <1>2
  <2> HIDE DEF M, Yes
  <2>3. Agrees(Tail(Transit), M, Yes, l, fileBreakpoints'[s], breakpoints[s])
    BY <1>1, <2>1, <2>2, AgreesTail
  <2>4. Agrees(Transit', M, Yes, l, fileBreakpoints'[s], breakpoints[s])
    BY <1>1, <2>3
  <2> QED
    BY <2>4 DEF M, Yes
<1>3. SetsOK(Transit', fileScript')
  BY <1>1 DEF BreakpointsInv, SetsOK
<1> QED
  BY <1>2, <1>3 DEF BreakpointsInv

(* The answer to a new script toggles breakpoints of that script.           *)
LEMMA ReplyToggles ==
  ASSUME NEW i, NEW files, Taken(i, files), NEW S \in SUBSET Lines
  PROVE  TogglesOK(LoadReply(i, SetToSeq(S)), files)
<1> DEFINE lines == SetToSeq(S)
           toggles == [k \in DOMAIN lines |->
                         [id |-> "ToggleBreakpoint", index |-> i, line |-> lines[k]]]
           done == [id |-> "LoadDone"]
<1>1. PICK n \in Nat : lines \in [1..n -> S]
  BY LinesInSequence
<1> DEFINE T == {toggles[k] : k \in 1..n} \cup {done}
<1>2. toggles \in Seq(T) /\ Len(toggles) = n /\ DOMAIN toggles = 1..n
  <2>1. DOMAIN toggles = 1..n
    BY <1>1
  <2>2. toggles = [k \in 1..n |-> toggles[k]] /\ \A k \in 1..n : toggles[k] \in T
    BY <2>1
  <2> HIDE DEF toggles, T
  <2>3. toggles \in [1..n -> T]
    BY <2>2
  <2>4. toggles \in Seq(T) /\ Len(toggles) = n
    BY <1>1, <2>3
  <2> QED
    BY <2>1, <2>4
<1>3. \A k \in 1..n : toggles[k].id = "ToggleBreakpoint" /\ toggles[k].index = i
  BY <1>2
<1>4. done \in T /\ done.id = "LoadDone"
  OBVIOUS
<1> HIDE DEF toggles, done, T
<1>5. /\ DOMAIN Append(toggles, done) = 1..n + 1
      /\ \A k \in 1..n : Append(toggles, done)[k] = toggles[k]
      /\ Append(toggles, done)[n + 1] = done
  BY <1>2, <1>4, AppendProperties
<1>6. TogglesOK(Append(toggles, done), files)
  <2> SUFFICES ASSUME NEW k \in 1..n + 1
               PROVE  /\ Append(toggles, done)[k].id # "DeleteAllBreakpoints"
                      /\ Append(toggles, done)[k].id = "ToggleBreakpoint"
                           => Append(toggles, done)[k].index = i
    BY <1>5 DEF TogglesOK
  <2>1. CASE k = n + 1
    BY <1>4, <1>5, <2>1
  <2>2. CASE k # n + 1
    <3>1. k \in 1..n
      BY <1>1, <2>2
    <3> QED
      BY <1>3, <1>5, <3>1
  <2> QED
    BY <2>1, <2>2
<1> QED
  BY <1>6 DEF LoadReply, toggles, done

(* A file gets its script: its breakpoints are forgotten, the backend has   *)
(* none of the script and no answer of the backend speaks of it.            *)
LEMMA BreakpointsLoad ==
  ASSUME SessionInv, BreakpointsInv, FilesInv, Live, breakpoints' = breakpoints,
         OnLoadScript
  PROVE  BreakpointsInv'
<1> DEFINE i == Head(pending).index
           s0 == frontendScripts[i]
<1>1. /\ pending # <<>> /\ pending' = Tail(pending) /\ events' = events
      /\ Head(pending).id = "LoadScript"
      /\ fileScript' = [fileScript EXCEPT ![s0] = i]
      /\ fileBreakpoints' = [fileBreakpoints EXCEPT ![s0] = {}]
      /\ Sent(LoadReply(i, SetToSeq(fileBreakpoints[s0])))
  BY SendSends DEF OnLoadScript, Handle, Send
<1>2. /\ 1 \in DOMAIN pending /\ pending[1] = Head(pending)
      /\ i \in DOMAIN frontendScripts /\ s0 \in Scripts /\ i \in Nat \ {0}
  BY <1>1, NextPending, TableTypes DEF SessionInv
<1>3. fileScript[s0] = 0
  BY <1>1, <1>2 DEF FilesInv
<1>4. \A s \in Scripts : fileScript[s] # i
  <2> SUFFICES ASSUME NEW s \in Scripts, fileScript[s] = i PROVE FALSE
    OBVIOUS
  <2>1. s = s0
    BY <1>2 DEF FilesInv
  <2> QED
    BY <1>2, <1>3, <2>1
<1>5. \A s \in Scripts :
        /\ s # s0 => fileScript'[s] = fileScript[s] /\ fileBreakpoints'[s] = fileBreakpoints[s]
        /\ s = s0 => fileScript'[s] = i /\ fileBreakpoints'[s] = {}
  BY <1>1, TableTypes
<1>6. \A j : Taken(j, fileScript) => Taken(j, fileScript')
  BY <1>3, <1>5 DEF Taken
<1>7. TogglesOK(commands', fileScript')
  <2>1. Taken(i, fileScript')
    BY <1>2, <1>5 DEF Taken
  <2>2. fileBreakpoints[s0] \in SUBSET Lines /\ i \in Index
    BY <1>2, TableTypes DEF Index
  <2>3. TogglesOK(commands, fileScript')
    BY <1>6 DEF BreakpointsInv, TogglesOK
  <2> DEFINE reply0 == LoadReply(i, SetToSeq(fileBreakpoints[s0]))
  <2>4. reply0 \in Seq(Command) /\ TogglesOK(reply0, fileScript')
    BY <2>1, <2>2, ReplyType, ReplyToggles
  <2>5. Sent(reply0)
    BY <1>1
  <2> HIDE DEF reply0
  <2> QED
    BY <2>3, <2>4, <2>5, TogglesSent
<1>8. /\ Transit \in Seq(Queued) /\ Transit # <<>> /\ Transit[1] = Head(pending)
      /\ Transit' = Tail(Transit)
      /\ \A k \in DOMAIN Transit' :
           k + 1 \in DOMAIN Transit /\ Transit'[k] = Transit[k + 1]
  BY <1>1, TransitType, TransitPop
<1>9. SetsOK(Transit', fileScript) /\ SetsOK(Transit', fileScript')
  BY <1>6, <1>8 DEF BreakpointsInv, SetsOK
<1>10. ASSUME NEW s \in Scripts, NEW l \in Lines, fileScript'[s] # 0
       PROVE  Agrees(Transit', BreakpointNews(fileScript'[s], l),
                     BreakpointSet(fileScript'[s], l), l,
                     fileBreakpoints'[s], breakpoints[s])
  <2>1. CASE s = s0
    <3>1. fileScript'[s] = i /\ fileBreakpoints'[s] = {} /\ breakpoints[s] = {}
      BY <1>3, <1>5, <2>1 DEF BreakpointsInv
    <3>2. News(Transit', BreakpointNews(i, l)) = {}
      <4> SUFFICES ASSUME NEW k \in DOMAIN Transit',
                          Transit'[k] \in BreakpointNews(i, l)
                   PROVE  FALSE
        BY DEF News
      <4>1. Transit'[k].id = "SetBreakpoint" /\ Transit'[k].index = i
        BY DEF BreakpointNews
      <4>2. Taken(i, fileScript)
        BY <1>9, <4>1 DEF SetsOK
      <4> QED
        BY <1>4, <4>2 DEF Taken
    <3> QED
      BY <3>1, <3>2 DEF Agrees
  <2>2. CASE s # s0
    <3> DEFINE M == BreakpointNews(fileScript[s], l)
               Yes == BreakpointSet(fileScript[s], l)
    <3>1. fileScript'[s] = fileScript[s] /\ fileBreakpoints'[s] = fileBreakpoints[s]
      BY <1>5, <2>2
    <3>2. Agrees(Transit, M, Yes, l, fileBreakpoints[s], breakpoints[s])
      BY <1>10, <3>1 DEF BreakpointsInv
    <3>3. Transit[1] \notin M
      BY <1>1, <1>8, OtherBreakpointNews
    <3> HIDE DEF M, Yes
    <3>4. Agrees(Tail(Transit), M, Yes, l, fileBreakpoints[s], breakpoints[s])
      BY <1>8, <3>2, <3>3, AgreesTail
    <3>5. Agrees(Transit', M, Yes, l, fileBreakpoints[s], breakpoints[s])
      BY <1>8, <3>4
    <3> QED
      BY <3>1, <3>5 DEF M, Yes
  <2> QED
    BY <2>1, <2>2
<1>11. ASSUME NEW s \in Scripts, fileScript'[s] = 0 PROVE breakpoints[s] = {}
  BY <1>2, <1>5, <1>11 DEF BreakpointsInv
<1> QED
  BY <1>7, <1>9, <1>10, <1>11 DEF BreakpointsInv

LEMMA BreakpointsInvInit == SessionInit => BreakpointsInv
<1> SUFFICES ASSUME SessionInit PROVE BreakpointsInv
  OBVIOUS
<1>1. pending = <<>> /\ events = <<>> /\ commands = <<>>
  BY DEF SessionInit, Init, BackendInit, ChannelInit, FrontendInit
<1>2. \A s \in Scripts : fileScript[s] = 0 /\ breakpoints[s] = {}
  BY DEF SessionInit, Init, BackendInit, FrontendInit
<1>3. DOMAIN Transit = {} /\ DOMAIN commands = {}
  BY <1>1 DEF Transit
<1> QED
  BY <1>2, <1>3 DEF BreakpointsInv, TogglesOK, SetsOK

(* Nothing empties the tables: "Delete All" does, at once on the frontend's *)
(* side, while an answer of the backend may be under way.                   *)
LEMMA BreakpointsInvNext ==
  ASSUME "DeleteAll" \notin UserMay, SessionInv, NamesInv, FilesInv, BreakpointsInv,
         [SessionNext]_sessionVars
  PROVE  BreakpointsInv'
<1> SUFFICES ASSUME Live' PROVE BreakpointsInv'
  BY DEF BreakpointsInv
<1>1. Live
  BY SessionEffects
<1>0. TogglesOK(commands, fileScript)
  BY <1>1 DEF BreakpointsInv
<1>2. ASSUME pending' = pending, events' = events, breakpoints' = breakpoints,
             fileScript' = fileScript, TogglesOK(commands', fileScript'),
             \A s \in Scripts : fileScript[s] # 0 => fileBreakpoints'[s] = fileBreakpoints[s]
      PROVE  BreakpointsInv'
  BY <1>1, <1>2, BreakpointsSame DEF Transit
<1>3. CASE Idle
  <2>1. /\ pending' = pending /\ events' = events /\ breakpoints' = breakpoints
        /\ fileScript' = fileScript /\ commands' = commands
        /\ fileBreakpoints' = fileBreakpoints
    BY <1>3 DEF Idle, vars, backendVars, channelVars, code, project
  <2> QED
    BY <1>0, <1>2, <2>1
<1>4. CASE BackendEffect
  <2>1. /\ pending' = pending /\ fileScript' = fileScript
        /\ fileBreakpoints' = fileBreakpoints
    BY <1>4 DEF BackendEffect, frontendVars, project
  <2>2. TogglesOK(commands', fileScript')
    BY <1>0, <1>4, <2>1, TogglesRead DEF BackendEffect
  <2>3. ASSUME NEW es \in Seq(Event), Written(es), breakpoints' = breakpoints,
               \A k \in DOMAIN es : es[k].id # "SetBreakpoint"
        PROVE  BreakpointsInv'
    <3>1. events' = events \o es
      BY <1>1, <2>3, LiveWrites
    <3> QED
      BY <1>1, <2>1, <2>2, <2>3, <3>1, BreakpointsWrite
  <2>4. ASSUME NEW t \in LuaThreads, NEW e \in Event, e.id # "SetBreakpoint",
               Written(<<e>>), breakpoints' = breakpoints
        PROVE  BreakpointsInv'
    <3>1. <<e>> \in Seq(Event) /\ \A k \in DOMAIN <<e>> : <<e>>[k].id # "SetBreakpoint"
      BY <2>4
    <3> QED
      BY <2>3, <2>4, <3>1
  <2>5. ASSUME NEW t \in LuaThreads, Attaches(t) \/ Detaches(t) PROVE BreakpointsInv'
    <3>1. PICK e \in Event : e.id # "SetBreakpoint" /\ Written(<<e>>) /\ breakpoints' = breakpoints
      BY <2>5 DEF Attaches, Detaches, Event, code
    <3> QED
      BY <2>4, <3>1
  <2>6. ASSUME NEW t \in LuaThreads, NEW s \in Scripts, Registers(t, s)
        PROVE  BreakpointsInv'
    <3>1. PICK e \in Event : e.id # "SetBreakpoint" /\ Written(<<e>>) /\ breakpoints' = breakpoints
      BY <2>6 DEF Registers, Event
    <3> QED
      BY <2>4, <3>1
  <2>7. CASE ReportsOnly
    <3>1. PICK es \in Reports : Written(es)
      BY <2>7 DEF ReportsOnly
    <3>2. es \in Seq(Event) /\ \A k \in DOMAIN es : es[k].id # "SetBreakpoint"
      BY DEF Reports
    <3> QED
      BY <2>3, <2>7, <3>1, <3>2 DEF ReportsOnly, code
  <2>8. ASSUME NEW i \in DOMAIN scripts, NEW l \in Lines, Toggles(i, l)
        PROVE  BreakpointsInv'
    BY <1>1, <2>1, <2>2, <2>8, BreakpointsToggle
  <2>9. ~NextCommand([id |-> "DeleteAllBreakpoints"])
    <3> SUFFICES ASSUME NextCommand([id |-> "DeleteAllBreakpoints"]) PROVE FALSE
      OBVIOUS
    <3>1. commands[1].id = "DeleteAllBreakpoints" /\ 1 \in DOMAIN commands
      <4>1. commands # <<>> /\ Head(commands).id = "DeleteAllBreakpoints"
        BY DEF NextCommand
      <4> QED
        BY <4>1, TableTypes, EmptySeq, LenProperties, HeadTailProperties
    <3> QED
      BY <1>0, <3>1 DEF TogglesOK
  <2> QED
    BY <1>4, <2>5, <2>6, <2>7, <2>8, <2>9 DEF BackendEffect
<1>5. CASE FrontendEffect /\ UNCHANGED backendVars
  <2>1. breakpoints' = breakpoints
    BY <1>5 DEF backendVars, code
  <2>2. CASE ReadEvent
    <3>1. /\ fileScript' = fileScript /\ fileBreakpoints' = fileBreakpoints
          /\ commands' = commands
      BY <2>2 DEF ReadEvent, project
    <3>2. TogglesOK(commands', fileScript')
      BY <1>0, <3>1
    <3> QED
      BY <1>1, <2>1, <2>2, <3>1, <3>2, TransitRead, BreakpointsSame
  <2>3. CASE ReadEventFails(BackendClosed) \/ Ends
    <3>1. eventThread' = "ended"
      BY <2>3, NextPending DEF ReadEventFails, Ends, Pops, SessionInv, PendingOK
    <3>2. SessionInv'
      BY SessionInvNext
    <3> QED
      BY <3>1, <3>2 DEF SessionInv, PendingOK
  <2>4. CASE OnLoadScript
    BY <1>1, <2>1, <2>4, BreakpointsLoad
  <2>5. ASSUME pending # <<>>, pending' = Tail(pending), events' = events,
               fileScript' = fileScript, fileBreakpoints' = fileBreakpoints,
               TogglesOK(commands', fileScript'), Head(pending).id # "SetBreakpoint"
        PROVE  BreakpointsInv'
    <3>1. \A s \in Scripts, l \in Lines : Head(pending) \notin BreakpointNews(fileScript[s], l)
      BY <2>5, OtherBreakpointNews
    <3> QED
      BY <1>1, <2>1, <2>5, <3>1, BreakpointsPop
  <2>6. CASE OnCreateVM \/ OnDestroyVM
    <3>1. /\ pending # <<>> /\ pending' = Tail(pending) /\ events' = events
          /\ fileScript' = fileScript /\ fileBreakpoints' = fileBreakpoints
          /\ commands' = commands /\ Head(pending).id # "SetBreakpoint"
      BY <2>6 DEF OnCreateVM, OnDestroyVM, Handle, NoPipe, channelVars, project
    <3> QED
      BY <1>0, <2>5, <3>1
  <2>7. CASE Tells
    <3>1. /\ pending # <<>> /\ pending' = Tail(pending) /\ events' = events
          /\ fileScript' = fileScript /\ fileBreakpoints' = fileBreakpoints
          /\ Head(pending).id # "SetBreakpoint"
      BY <2>7 DEF Tells, Pops, project
    <3>2. TogglesOK(commands', fileScript')
      BY <1>0, <2>7, <3>1, TogglesRequested DEF Tells
    <3> QED
      BY <2>5, <3>1, <3>2
  <2>8. CASE OnSetBreakpoint
    <3> DEFINE h == Head(pending)
    <3>1. /\ pending # <<>> /\ pending' = Tail(pending) /\ events' = events
          /\ fileScript' = fileScript /\ commands' = commands
          /\ h.id = "SetBreakpoint"
          /\ fileBreakpoints' = [s \in Scripts |->
               IF fileScript[s] = h.index
               THEN IF h.set THEN fileBreakpoints[s] \cup {h.line}
                             ELSE fileBreakpoints[s] \ {h.line}
               ELSE fileBreakpoints[s]]
      BY <2>8 DEF OnSetBreakpoint, Handle, NoPipe, channelVars, FileForScript,
         WithBreakpoint
    <3>2. h \in [id : {"SetBreakpoint"}, index : Index, line : Lines, set : BOOLEAN]
      <4>1. h \in Queued
        BY <3>1, NextPending DEF SessionInv
      <4> QED
        BY <3>1, <4>1 DEF Queued, Event
    <3>3. ASSUME NEW s \in Scripts, NEW l \in Lines
          PROVE  IF h \in BreakpointNews(fileScript[s], l)
                 THEN l \in fileBreakpoints'[s] <=> h \in BreakpointSet(fileScript[s], l)
                 ELSE l \in fileBreakpoints'[s] <=> l \in fileBreakpoints[s]
      <4>1. h \in BreakpointNews(fileScript[s], l) <=> h.index = fileScript[s] /\ h.line = l
        BY <3>2 DEF BreakpointNews
      <4>2. h.index = fileScript[s] /\ h.line = l
              => (h \in BreakpointSet(fileScript[s], l) <=> h.set)
        BY <3>2 DEF BreakpointSet
      <4>3. fileBreakpoints'[s] = IF fileScript[s] = h.index
                                  THEN IF h.set THEN fileBreakpoints[s] \cup {h.line}
                                                ELSE fileBreakpoints[s] \ {h.line}
                                  ELSE fileBreakpoints[s]
        BY <3>1
      <4> HIDE DEF h
      <4> QED
        BY <4>1, <4>2, <4>3
    <3>4. TogglesOK(commands', fileScript')
      BY <1>0, <3>1
    <3> QED
      BY <1>1, <2>1, <3>1, <3>3, <3>4, BreakpointsPop
  <2>9. CASE NoTable
    <3>1. TogglesOK(commands', fileScript')
      BY <1>0, <2>9, TogglesRequested DEF NoTable, project
    <3> QED
      BY <1>2, <2>1, <2>9, <3>1 DEF NoTable, project
  <2>10. ASSUME NEW s \in Scripts, NEW l \in Lines, TogglesFile(s, l)
         PROVE  BreakpointsInv'
    <3>1. pending' = pending /\ events' = events /\ fileScript' = fileScript
      BY <2>10 DEF TogglesFile
    <3>2. CASE fileScript[s] # 0
      <4> DEFINE c == [id |-> "ToggleBreakpoint", index |-> fileScript[s], line |-> l]
      <4>1. Sent(<<c>>) /\ fileBreakpoints' = fileBreakpoints
        BY <2>10, <3>2 DEF TogglesFile
      <4>2. c \in Command /\ c.id = "ToggleBreakpoint" /\ Taken(c.index, fileScript')
        BY <3>1, <3>2, TableTypes DEF Command, Index, Taken
      <4> HIDE DEF c
      <4>3. <<c>> \in Seq(Command) /\ TogglesOK(<<c>>, fileScript')
        BY <4>2 DEF TogglesOK
      <4>4. TogglesOK(commands', fileScript')
        BY <1>0, <3>1, <4>1, <4>3, TogglesSent
      <4> QED
        BY <1>2, <2>1, <3>1, <4>1, <4>4
    <3>3. CASE fileScript[s] = 0
      <4>1. /\ fileBreakpoints' = [fileBreakpoints EXCEPT ![s] = SymDiff(@, {l})]
            /\ commands' = commands
        BY <2>10, <3>3 DEF TogglesFile
      <4>2. \A u \in Scripts : fileScript[u] # 0 => fileBreakpoints'[u] = fileBreakpoints[u]
        BY <3>3, <4>1, TableTypes
      <4> QED
        BY <1>0, <1>2, <2>1, <3>1, <4>1, <4>2
    <3> QED
      BY <3>2, <3>3
  <2>11. ~UserDeleteAllBreakpoints
    BY DEF UserDeleteAllBreakpoints, User
  <2> QED
    BY <1>5, <2>2, <2>3, <2>4, <2>6, <2>7, <2>8, <2>9, <2>10, <2>11 DEF FrontendEffect
<1> QED
  BY <1>3, <1>4, <1>5, SessionEffects

(* Once the messages about breakpoints have arrived, the user sees the      *)
(* breakpoints the backend stops at, in every session in which "Delete All" *)
(* is not used (it is a race: see UserDeleteAllBreakpoints).                *)
THEOREM BreakpointTables ==
  ASSUME "DeleteAll" \notin UserMay
  PROVE  SessionSpec => []BreakpointsAgree
<1>1. SessionInit => BreakpointsInv
  BY BreakpointsInvInit
<1>2. SessionInv /\ NamesInv /\ FilesInv /\ BreakpointsInv /\ [SessionNext]_sessionVars
        => BreakpointsInv'
  BY BreakpointsInvNext
<1>3. SessionInv /\ BreakpointsInv => BreakpointsAgree
  <2> SUFFICES ASSUME SessionInv, BreakpointsInv, BreakpointsSettled,
                      NEW s \in Scripts, fileScript[s] # 0
               PROVE  fileBreakpoints[s] = breakpoints[s]
    BY DEF BreakpointsAgree
  <2>1. Live
    BY ConnectedIsLive DEF BreakpointsSettled
  <2>2. \A k \in DOMAIN Transit : Transit[k].id # "SetBreakpoint"
    <3> SUFFICES ASSUME NEW k \in DOMAIN Transit PROVE Transit[k].id # "SetBreakpoint"
      OBVIOUS
    <3>1. /\ \A j \in DOMAIN pending : pending[j].id # "SetBreakpoint"
          /\ \A j \in DOMAIN events : events[j].id # "SetBreakpoint"
      BY DEF BreakpointsSettled, Has
    <3>2. events \in Seq(Queued) /\ pending \in Seq(Queued)
      <4>1. events \in Seq(Event) /\ Event \subseteq Queued
        BY TableTypes DEF Queued
      <4> QED
        BY <4>1, TableTypes
    <3>3. CASE k \in DOMAIN pending
      <4>1. Transit[k] = pending[k]
        BY <3>2, <3>3, ConcatElements DEF Transit
      <4> QED
        BY <3>1, <3>3, <4>1
    <3>4. CASE k \notin DOMAIN pending
      <4>1. k - Len(pending) \in 1..Len(events) /\ Len(pending) + (k - Len(pending)) = k
        BY <3>2, <3>4, ConcatElements DEF Transit
      <4>2. k - Len(pending) \in DOMAIN events /\ Transit[k] = events[k - Len(pending)]
        BY <3>2, <4>1, ConcatElements DEF Transit
      <4> QED
        BY <3>1, <4>2
    <3> QED
      BY <3>3, <3>4
  <2>3. \A l \in Lines : News(Transit, BreakpointNews(fileScript[s], l)) = {}
    BY <2>2, OtherBreakpointNews DEF News
  <2>4. \A l \in Lines : l \in fileBreakpoints[s] <=> l \in breakpoints[s]
    BY <2>1, <2>3 DEF BreakpointsInv, Agrees
  <2> QED
    BY <2>4, TableTypes
<1> QED
  BY <1>1, <1>2, <1>3, SessionInvariant, NamesInvariant, FilesInvariant, PTL DEF SessionSpec

-----------------------------------------------------------------------------
(***************************************************************************)
(* A new script waits for its breakpoints.                                 *)
(***************************************************************************)

(* Every script the frontend knows has its file or waits in the queue.      *)
HandledInv ==
  \A i \in DOMAIN frontendScripts :
    \/ fileScript[frontendScripts[i]] # 0
    \/ \E k \in DOMAIN pending : pending[k].id = "LoadScript" /\ pending[k].index = i

LEMMA HandledSame ==
  ASSUME HandledInv, frontendScripts' = frontendScripts, fileScript' = fileScript,
         pending' = pending
  PROVE  HandledInv'
BY DEF HandledInv

LEMMA HandledPop ==
  ASSUME SessionInv, HandledInv, pending # <<>>, pending' = Tail(pending),
         Head(pending).id # "LoadScript",
         frontendScripts' = frontendScripts, fileScript' = fileScript
  PROVE  HandledInv'
<1>1. ASSUME NEW k \in DOMAIN pending, pending[k].id = "LoadScript"
      PROVE  k - 1 \in DOMAIN pending' /\ pending'[k - 1] = pending[k]
  <2>1. k # 1
    BY <1>1, NextPending DEF SessionInv
  <2>2. k - 1 \in 1..Len(pending) - 1 /\ (k - 1) + 1 = k
    BY <2>1, NextPending DEF SessionInv
  <2> QED
    BY <2>2, NextPending DEF SessionInv
<1> QED
  BY <1>1 DEF HandledInv

LEMMA HandledAppend ==
  ASSUME SessionInv, HandledInv, NEW e \in Queued, pending' = Append(pending, e),
         fileScript' = fileScript,
         \/ frontendScripts' = frontendScripts
         \/ /\ \E s \in Scripts : frontendScripts' = Append(frontendScripts, s)
            /\ e = [id |-> "LoadScript", index |-> Len(frontendScripts) + 1]
  PROVE  HandledInv'
<1>1. /\ \A k \in DOMAIN pending : k \in DOMAIN pending' /\ pending'[k] = pending[k]
      /\ Len(pending) + 1 \in DOMAIN pending'
      /\ pending'[Len(pending) + 1] = e
  BY PendingAppend, TableTypes
<1>2. CASE frontendScripts' = frontendScripts
  BY <1>1, <1>2 DEF HandledInv
<1>3. ASSUME NEW s \in Scripts, frontendScripts' = Append(frontendScripts, s),
             e = [id |-> "LoadScript", index |-> Len(frontendScripts) + 1]
      PROVE  HandledInv'
  <2>1. /\ DOMAIN frontendScripts' = 1..Len(frontendScripts) + 1
        /\ DOMAIN frontendScripts = 1..Len(frontendScripts)
        /\ Len(frontendScripts) \in Nat
        /\ \A i \in 1..Len(frontendScripts) : frontendScripts'[i] = frontendScripts[i]
    <3>1. /\ frontendScripts \in Seq(Scripts) /\ Len(frontendScripts) \in Nat
          /\ DOMAIN frontendScripts = 1..Len(frontendScripts)
      BY TableTypes
    <3> DEFINE longer == Append(frontendScripts, s)
    <3>2. /\ DOMAIN longer = 1..Len(frontendScripts) + 1
          /\ \A i \in 1..Len(frontendScripts) : longer[i] = frontendScripts[i]
      BY <3>1, AppendProperties
    <3>3. frontendScripts' = longer
      BY <1>3
    <3> QED
      BY <3>1, <3>2, <3>3
  <2>2. ASSUME NEW i \in DOMAIN frontendScripts'
        PROVE  \/ fileScript'[frontendScripts'[i]] # 0
               \/ \E k \in DOMAIN pending' :
                    pending'[k].id = "LoadScript" /\ pending'[k].index = i
    <3>1. CASE i \in DOMAIN frontendScripts
      BY <1>1, <2>1, <3>1 DEF HandledInv
    <3>2. CASE i = Len(frontendScripts) + 1
      BY <1>1, <1>3, <3>2
    <3> QED
      BY <2>1, <3>1, <3>2
  <2> QED
    BY <2>2 DEF HandledInv
<1> QED
  BY <1>2, <1>3

LEMMA HandledLoad ==
  ASSUME SessionInv, HandledInv, OnLoadScript
  PROVE  HandledInv'
<1> DEFINE i == Head(pending).index
           s == frontendScripts[i]
<1>1. /\ pending # <<>> /\ pending' = Tail(pending)
      /\ fileScript' = [fileScript EXCEPT ![s] = i]
      /\ frontendScripts' = frontendScripts
      /\ Head(pending) = pending[1]
      /\ i \in DOMAIN frontendScripts /\ s \in Scripts /\ i # 0
  BY NextPending, TableTypes DEF OnLoadScript, Handle, SessionInv
<1>2. ASSUME NEW k \in DOMAIN pending, pending[k].id = "LoadScript", pending[k].index # i
      PROVE  k - 1 \in DOMAIN pending' /\ pending'[k - 1] = pending[k]
  <2>1. k # 1
    BY <1>1, <1>2
  <2>2. k - 1 \in 1..Len(pending) - 1 /\ (k - 1) + 1 = k
    BY <1>1, <2>1, NextPending DEF SessionInv
  <2> QED
    BY <1>1, <2>2, NextPending DEF SessionInv
<1>3. fileScript \in [Scripts -> Nat]
  BY DEF SessionInv, FrontendTypeOK, Index
<1>4. fileScript'[s] = i
  BY <1>1, <1>3
<1> HIDE DEF i, s
<1>5. ASSUME NEW j \in DOMAIN frontendScripts
      PROVE  \/ fileScript'[frontendScripts[j]] # 0
             \/ \E k \in DOMAIN pending' :
                  pending'[k].id = "LoadScript" /\ pending'[k].index = j
  <2>1. CASE j = i
    BY <1>1, <1>4, <2>1 DEF s
  <2>2. CASE fileScript[frontendScripts[j]] # 0
    <3>1. frontendScripts[j] \in Scripts
      BY TableTypes
    <3> QED
      BY <1>1, <1>3, <2>2, <3>1
  <2>3. ASSUME j # i, NEW k \in DOMAIN pending, pending[k].id = "LoadScript", pending[k].index = j
        PROVE  \E n \in DOMAIN pending' :
                 pending'[n].id = "LoadScript" /\ pending'[n].index = j
    BY <1>2, <2>3
  <2> QED
    BY <2>1, <2>2, <2>3 DEF HandledInv
<1> QED
  BY <1>1, <1>5 DEF HandledInv

LEMMA HandledInvNext ==
  ASSUME SessionInv, HandledInv, [SessionNext]_sessionVars
  PROVE  HandledInv'
<1>1. CASE BackendEffect \/ Idle
  BY <1>1, HandledSame DEF BackendEffect, frontendVars, Idle, project
<1>2. CASE ReadEvent
  <2> DEFINE e == Head(events)
  <2>1. /\ events # <<>> /\ fileScript' = fileScript
        /\ pending' = Append(pending, Translated(e))
        /\ frontendScripts' = IF e.id = "LoadScript" THEN Append(frontendScripts, e.script)
                                                     ELSE frontendScripts
    BY <1>2 DEF ReadEvent, Translated, project
  <2>2. Translated(e) \in Queued /\ (e.id = "LoadScript" => e.script \in Scripts)
    BY <2>1, NextEvent DEF SessionInv, TypeInv, TypeOK
  <2> QED
    BY <2>1, <2>2, HandledAppend DEF Translated
<1>3. CASE ReadEventFails(BackendClosed)
  <2>1. [id |-> "SessionEnd"] \in Queued
    BY DEF Queued
  <2> QED
    BY <1>3, <2>1, HandledAppend DEF ReadEventFails, project
<1>4. CASE OnLoadScript
  BY <1>4, HandledLoad
<1>5. CASE OnSetBreakpoint \/ OnCreateVM \/ OnDestroyVM \/ Tells
  BY <1>5, HandledPop
  DEF OnSetBreakpoint, OnCreateVM, OnDestroyVM, Handle, Tells, Pops, project
<1>6. CASE Ends
  <2>1. DOMAIN frontendScripts' = {}
    BY <1>6, EmptySeq DEF Ends
  <2> QED
    BY <2>1 DEF HandledInv
<1>7. CASE NoTable \/ UserDeleteAllBreakpoints
           \/ \E s \in Scripts, l \in Lines : TogglesFile(s, l)
  BY <1>7, HandledSame DEF NoTable, UserDeleteAllBreakpoints, User, TogglesFile, project
<1> QED
  BY <1>1, <1>2, <1>3, <1>4, <1>5, <1>6, <1>7, SessionEffects DEF FrontendEffect

(* A thread waits for the breakpoints of a script, or will when its load    *)
(* error has been continued.                                                *)
Awaits(t) ==
  \/ pc[t] \in WaitsForLoad
  \/ pc[t] \in {"loadErr", "loadErrLock", "loadErrStep"} /\ ev[t].kind = "loadNew"

Awaiting  == \E t \in LuaThreads : Awaits(t)
Untold    == Of(events, {"LoadScript"}) # {}
Unhandled == Of(pending, {"LoadScript"}) # {}
Answered  == Of(commands, {"LoadDone"}) # {}

(* The answer follows the breakpoints.                                      *)
TogglesFirst(s) ==
  \A k \in Of(s, {"ToggleBreakpoint"}) : \E j \in Of(s, {"LoadDone"}) : k < j

(* A thread that waits for a script's breakpoints has one token: the event, *)
(* in the pipe and then in the queue, the answer, and the load event.       *)
LoadInv ==
  /\ Lone(events, {"LoadScript"}) /\ Lone(pending, {"LoadScript"})
  /\ Lone(commands, {"LoadDone"}) /\ TogglesFirst(commands)
  /\ Awaiting <=> Untold \/ Unhandled \/ Answered \/ loadEvent
  /\ Untold    => ~Unhandled /\ ~Answered /\ ~loadEvent
  /\ Unhandled => ~Answered /\ ~loadEvent
  /\ Answered  => ~loadEvent

LEMMA TogglesFirstTail ==
  ASSUME NEW S, NEW s \in Seq(S), s # <<>>, TogglesFirst(s)
  PROVE  TogglesFirst(Tail(s))
<1>1. /\ Len(s) \in Nat \ {0} /\ DOMAIN s = 1..Len(s)
      /\ DOMAIN Tail(s) = 1..Len(s) - 1
      /\ \A k \in 1..Len(s) - 1 : Tail(s)[k] = s[k + 1]
  BY EmptySeq, LenProperties, HeadTailProperties
<1> DEFINE r == Tail(s)
           n == Len(s)
<1> HIDE DEF r, n
<1>2. /\ n \in Nat \ {0} /\ DOMAIN s = 1..n
      /\ DOMAIN r = 1..n - 1 /\ \A k \in 1..n - 1 : r[k] = s[k + 1]
  BY <1>1 DEF r, n
<1>3. ASSUME NEW k \in Of(r, {"ToggleBreakpoint"})
      PROVE  \E j \in Of(r, {"LoadDone"}) : k < j
  <2>1. k \in 1..n - 1 /\ k + 1 \in Of(s, {"ToggleBreakpoint"})
    BY <1>2 DEF Of
  <2>2. PICK j \in Of(s, {"LoadDone"}) : k + 1 < j
    BY <2>1 DEF TogglesFirst
  <2>3. j - 1 \in 1..n - 1 /\ (j - 1) + 1 = j /\ k < j - 1
    BY <1>2, <2>1, <2>2 DEF Of
  <2>4. j - 1 \in Of(r, {"LoadDone"})
    BY <1>2, <2>2, <2>3 DEF Of
  <2> QED
    BY <2>3, <2>4
<1> QED
  BY <1>3 DEF TogglesFirst, r

LEMMA TogglesFirstConcat ==
  ASSUME NEW S, NEW a \in Seq(S), NEW b \in Seq(S), TogglesFirst(a), TogglesFirst(b)
  PROVE  TogglesFirst(a \o b)
<1> DEFINE ab == a \o b
           n  == Len(a)
           m  == Len(b)
<1>1. /\ DOMAIN a = 1..n /\ DOMAIN b = 1..m /\ n \in Nat /\ m \in Nat
      /\ DOMAIN ab = 1..n + m
      /\ \A k \in 1..n : ab[k] = a[k]
      /\ \A k \in 1..m : ab[n + k] = b[k]
  BY ConcatElements
<1> HIDE DEF ab, n, m
<1>2. ASSUME NEW k \in Of(ab, {"ToggleBreakpoint"})
      PROVE  \E j \in Of(ab, {"LoadDone"}) : k < j
  <2>1. CASE k \in 1..n
    <3>1. PICK j \in Of(a, {"LoadDone"}) : k < j
      BY <1>1, <1>2, <2>1 DEF Of, TogglesFirst
    <3>2. j \in Of(ab, {"LoadDone"})
      BY <1>1, <3>1 DEF Of
    <3> QED
      BY <3>1, <3>2
  <2>2. CASE k \notin 1..n
    <3>1. k - n \in 1..m /\ n + (k - n) = k
      BY <1>1, <1>2, <2>2 DEF Of
    <3>2. k - n \in Of(b, {"ToggleBreakpoint"})
      BY <1>1, <1>2, <3>1 DEF Of
    <3>3. PICK j \in Of(b, {"LoadDone"}) : k - n < j
      BY <3>2 DEF TogglesFirst
    <3>4. n + j \in 1..n + m /\ j \in 1..m /\ k < n + j
      BY <1>1, <1>2, <3>3 DEF Of
    <3>5. n + j \in Of(ab, {"LoadDone"})
      BY <1>1, <3>3, <3>4 DEF Of
    <3> QED
      BY <3>4, <3>5
  <2> QED
    BY <2>1, <2>2
<1> QED
  BY <1>2 DEF TogglesFirst, ab

LEMMA TogglesFirstNone ==
  ASSUME NEW s, Of(s, {"ToggleBreakpoint"}) = {}
  PROVE  TogglesFirst(s)
BY DEF TogglesFirst

(* The answer to a LoadScript event.                                        *)
LEMMA ReplyIsOrdered ==
  ASSUME NEW i \in Index, NEW S \in SUBSET Lines
  PROVE  LET msgs == LoadReply(i, SetToSeq(S))
         IN /\ Of(msgs, {"LoadDone"}) # {} /\ Lone(msgs, {"LoadDone"})
            /\ TogglesFirst(msgs)
<1> DEFINE lines == SetToSeq(S)
           toggles == [k \in DOMAIN lines |->
                         [id |-> "ToggleBreakpoint", index |-> i, line |-> lines[k]]]
           msgs == LoadReply(i, lines)
<1>1. PICK n \in Nat : lines \in [1..n -> S]
  BY LinesInSequence
<1>2. toggles \in Seq(Command) /\ DOMAIN toggles = 1..n /\ Len(toggles) = n
  <2>1. \A k \in 1..n : [id |-> "ToggleBreakpoint", index |-> i, line |-> lines[k]] \in Command
    BY <1>1 DEF Command
  <2>2. toggles \in [1..n -> Command]
    BY <1>1, <2>1
  <2> QED
    BY <2>2
<1>3. \A k \in 1..n : toggles[k].id = "ToggleBreakpoint"
  BY <1>1
<1>4. msgs = Append(toggles, [id |-> "LoadDone"]) /\ [id |-> "LoadDone"] \in Command
  BY DEF LoadReply, Command
<1> HIDE DEF lines, toggles, msgs
<1>5. /\ DOMAIN msgs = 1..n + 1
      /\ \A k \in 1..n : msgs[k].id = "ToggleBreakpoint"
      /\ msgs[n + 1].id = "LoadDone"
  <2>1. /\ DOMAIN msgs = 1..Len(toggles) + 1
        /\ \A k \in 1..Len(toggles) : msgs[k] = toggles[k]
        /\ msgs[Len(toggles) + 1] = [id |-> "LoadDone"]
    BY <1>2, <1>4, AppendProperties
  <2> QED
    BY <1>2, <1>3, <2>1
<1>6. Of(msgs, {"LoadDone"}) = {n + 1} /\ \A k \in Of(msgs, {"ToggleBreakpoint"}) : k < n + 1
  BY <1>5 DEF Of
<1> QED
  BY <1>6 DEF Lone, TogglesFirst, msgs, lines

(* Nothing is written or read that stands for a token.                      *)
QuietEvents ==
  \/ events' = events
  \/ \E es \in Seq(Event) : events' = events \o es /\ Of(es, {"LoadScript"}) = {}

QuietPending ==
  \/ pending' = pending
  \/ pending # <<>> /\ pending' = Tail(pending) /\ Head(pending).id # "LoadScript"

QuietCommands ==
  \/ commands' = commands
  \/ commands # <<>> /\ commands' = Tail(commands) /\ Head(commands).id # "LoadDone"
  \/ \E msgs \in Seq(Command) :
       commands' = commands \o msgs /\ Of(msgs, {"LoadDone", "ToggleBreakpoint"}) = {}

LEMMA LoadStays ==
  ASSUME SessionInv, LoadInv, Awaiting' <=> Awaiting, loadEvent' = loadEvent,
         QuietEvents, QuietPending, QuietCommands
  PROVE  LoadInv'
<1>1. (Untold' <=> Untold) /\ Lone(events', {"LoadScript"})
  <2>1. CASE events' = events
    BY <2>1 DEF Untold, LoadInv
  <2>2. ASSUME NEW es \in Seq(Event), events' = events \o es, Of(es, {"LoadScript"}) = {}
        PROVE  Of(events', {"LoadScript"}) = Of(events, {"LoadScript"})
    BY <2>2, TableTypes, OfConcat
  <2> QED
    BY <2>1, <2>2 DEF QuietEvents, Untold, Lone, LoadInv
<1>2. (Unhandled' <=> Unhandled) /\ Lone(pending', {"LoadScript"})
  <2>1. CASE pending' = pending
    BY <2>1 DEF Unhandled, LoadInv
  <2>2. CASE pending # <<>> /\ pending' = Tail(pending) /\ Head(pending).id # "LoadScript"
    BY <2>2, TableTypes, OfTail DEF Unhandled, LoadInv
  <2> QED
    BY <2>1, <2>2 DEF QuietPending
<1>3. (Answered' <=> Answered) /\ Lone(commands', {"LoadDone"}) /\ TogglesFirst(commands')
  <2>1. CASE commands' = commands
    BY <2>1 DEF Answered, LoadInv
  <2>2. CASE commands # <<>> /\ commands' = Tail(commands) /\ Head(commands).id # "LoadDone"
    BY <2>2, TableTypes, OfTail, TogglesFirstTail DEF Answered, LoadInv
  <2>3. ASSUME NEW msgs \in Seq(Command), commands' = commands \o msgs,
               Of(msgs, {"LoadDone", "ToggleBreakpoint"}) = {}
        PROVE  (Answered' <=> Answered) /\ Lone(commands', {"LoadDone"})
               /\ TogglesFirst(commands')
    <3>1. Of(msgs, {"LoadDone"}) = {} /\ Of(msgs, {"ToggleBreakpoint"}) = {}
      BY <2>3 DEF Of
    <3>2. Of(commands', {"LoadDone"}) = Of(commands, {"LoadDone"})
      BY <2>3, <3>1, TableTypes, OfConcat
    <3>3. TogglesFirst(commands')
      BY <2>3, <3>1, TableTypes, TogglesFirstNone, TogglesFirstConcat DEF LoadInv
    <3> QED
      BY <3>2, <3>3 DEF Answered, Lone, LoadInv
  <2> QED
    BY <2>1, <2>2, <2>3 DEF QuietCommands
<1> QED
  BY <1>1, <1>2, <1>3 DEF LoadInv

LEMMA LoadAppears ==
  ASSUME SessionInv, LoadInv, ~Awaiting, Awaiting',
         UNCHANGED <<pending, commands, loadEvent>>,
         NEW e \in Event, e.id = "LoadScript", events' = events \o <<e>>
  PROVE  LoadInv'
<1>1. Of(events, {"LoadScript"}) = {}
  BY DEF LoadInv, Untold
<1> DEFINE es == <<e>>
<1>2. es \in Seq(Event) /\ Of(es, {"LoadScript"}) = {1} /\ events' = events \o es
  BY DEF Of
<1> HIDE DEF es
<1>3. Of(es, {"LoadScript"}) # {} /\ Lone(es, {"LoadScript"})
  BY <1>2 DEF Lone
<1>4. Untold' /\ Lone(events', {"LoadScript"})
  <2>1. events \in Seq(Event)
    BY TableTypes
  <2>2. Of(events \o es, {"LoadScript"}) # {} /\ Lone(events \o es, {"LoadScript"})
    BY <1>1, <1>2, <1>3, <2>1, OfConcat
  <2> QED
    BY <1>2, <2>2 DEF Untold
<1> QED
  BY <1>4 DEF LoadInv, Untold, Unhandled, Answered

LEMMA LoadTaken ==
  ASSUME LoadInv, loadEvent, loadEvent' = FALSE, ~Awaiting',
         UNCHANGED <<events, pending, commands>>
  PROVE  LoadInv'
BY DEF LoadInv, Untold, Unhandled, Answered

LEMMA LoadRead ==
  ASSUME SessionInv, LoadInv, Awaiting' <=> Awaiting, UNCHANGED <<commands, loadEvent>>,
         events # <<>>, events' = Tail(events),
         pending' = Append(pending, Translated(Head(events)))
  PROVE  LoadInv'
<1> DEFINE e == Translated(Head(events))
<1>1. e \in Queued /\ (e.id = "LoadScript" <=> Head(events).id = "LoadScript")
  BY NextEvent DEF SessionInv, TypeInv, TypeOK, Translated
<1> HIDE DEF e
<1> DEFINE es == <<e>>
<1>2. /\ pending' = pending \o es /\ es \in Seq(Queued) /\ pending \in Seq(Queued)
      /\ DOMAIN es = {1} /\ es[1] = e
  <2>1. pending \in Seq(Queued)
    BY TableTypes
  <2>2. Append(pending, e) = pending \o es
    BY <1>1, <2>1, AppendIsConcat
  <2>3. pending' = Append(pending, e)
    BY DEF e
  <2> QED
    BY <1>1, <2>1, <2>2, <2>3
<1> HIDE DEF es
<1>3. Lone(events', {"LoadScript"})
  BY TableTypes, OfTail DEF LoadInv
<1>4. (Answered' <=> Answered)
      /\ Lone(commands', {"LoadDone"}) /\ TogglesFirst(commands')
  BY DEF Answered, LoadInv
<1>5. CASE Head(events).id = "LoadScript"
  <2>1. Untold /\ ~Untold'
    BY <1>5, TableTypes, OfTail DEF LoadInv, Untold
  <2>2. Of(es, {"LoadScript"}) = {1} /\ Of(pending, {"LoadScript"}) = {}
    BY <1>1, <1>2, <1>5, <2>1 DEF Of, LoadInv, Unhandled
  <2>3. Of(es, {"LoadScript"}) # {} /\ Lone(es, {"LoadScript"})
    BY <2>2 DEF Lone
  <2>4. Unhandled' /\ Lone(pending', {"LoadScript"})
    <3>1. /\ Of(pending \o es, {"LoadScript"}) # {}
          /\ Lone(pending \o es, {"LoadScript"})
      BY <1>2, <2>2, <2>3, OfConcat
    <3> QED
      BY <1>2, <3>1 DEF Unhandled
  <2> QED
    BY <1>3, <1>4, <2>1, <2>4 DEF LoadInv
<1>6. CASE Head(events).id # "LoadScript"
  <2>1. Untold' <=> Untold
    BY <1>6, TableTypes, OfTail DEF Untold
  <2>2. Of(es, {"LoadScript"}) = {}
    BY <1>1, <1>2, <1>6 DEF Of
  <2>3. Of(pending', {"LoadScript"}) = Of(pending, {"LoadScript"})
    <3>1. pending \in Seq(Queued) /\ es \in Seq(Queued)
      BY <1>2
    <3>2. Of(pending \o es, {"LoadScript"}) = Of(pending, {"LoadScript"})
      BY <2>2, <3>1, OfConcat
    <3> QED
      BY <1>2, <3>2
  <2>4. (Unhandled' <=> Unhandled) /\ Lone(pending', {"LoadScript"})
    BY <2>3 DEF Unhandled, Lone, LoadInv
  <2> QED
    BY <1>3, <1>4, <2>1, <2>4 DEF LoadInv
<1> QED
  BY <1>5, <1>6

LEMMA LoadAnswer ==
  ASSUME SessionInv, LoadInv, Awaiting' <=> Awaiting, UNCHANGED <<events, loadEvent>>,
         pending # <<>>, pending' = Tail(pending), Head(pending).id = "LoadScript",
         NEW i \in Index, NEW S \in SUBSET Lines,
         commands' = commands \o LoadReply(i, SetToSeq(S))
  PROVE  LoadInv'
<1> DEFINE msgs == LoadReply(i, SetToSeq(S))
<1>1. /\ msgs \in Seq(Command)
      /\ Of(msgs, {"LoadDone"}) # {} /\ Lone(msgs, {"LoadDone"})
      /\ TogglesFirst(msgs)
      /\ commands' = commands \o msgs
  BY ReplyType, ReplyIsOrdered
<1> HIDE DEF msgs
<1>2. Unhandled /\ ~Unhandled' /\ Lone(pending', {"LoadScript"})
  BY TableTypes, OfTail DEF LoadInv, Unhandled
<1>3. Of(commands, {"LoadDone"}) = {}
  BY <1>2 DEF LoadInv, Answered
<1>4. Answered' /\ Lone(commands', {"LoadDone"}) /\ TogglesFirst(commands')
  <2>1. commands \in Seq(Command)
    BY TableTypes
  <2>2. Of(commands \o msgs, {"LoadDone"}) # {} /\ Lone(commands \o msgs, {"LoadDone"})
    BY <1>1, <1>3, <2>1, OfConcat, SMTT(30)
  <2>3. TogglesFirst(commands \o msgs)
    BY <1>1, <2>1, TogglesFirstConcat DEF LoadInv
  <2> QED
    BY <1>1, <2>2, <2>3 DEF Answered
<1>5. (Untold' <=> Untold) /\ Lone(events', {"LoadScript"})
  BY DEF Untold, LoadInv
<1> QED
  BY <1>2, <1>4, <1>5 DEF LoadInv

LEMMA LoadGiven ==
  ASSUME SessionInv, LoadInv, Awaiting' <=> Awaiting, UNCHANGED <<events, pending>>,
         commands # <<>>, commands' = Tail(commands), Head(commands).id = "LoadDone",
         loadEvent' = TRUE
  PROVE  LoadInv'
<1>1. /\ Answered /\ ~Answered'
      /\ Lone(commands', {"LoadDone"}) /\ TogglesFirst(commands')
  BY TableTypes, OfTail, TogglesFirstTail DEF LoadInv, Answered
<1>2. /\ (Untold' <=> Untold) /\ Lone(events', {"LoadScript"})
      /\ (Unhandled' <=> Unhandled) /\ Lone(pending', {"LoadScript"})
  BY DEF Untold, Unhandled, LoadInv
<1> QED
  BY <1>1, <1>2 DEF LoadInv

(* What is not the event of a new script.                                   *)
NoLoad(es) == es \in Seq(Event) /\ Of(es, {"LoadScript"}) = {}

LEMMA NoLoadEvents ==
  ASSUME SessionInv, NEW t \in LuaThreads
  PROVE  /\ \A id \in {"CreateVM", "DestroyVM", "Message"} : NoLoad(<<[id |-> id, vm |-> t]>>)
         /\ \A i \in 0..Len(scripts) :
              /\ NoLoad(<<[id |-> "Break", vm |-> t, index |-> i]>>)
              /\ NoLoad(<<[id |-> "Break", vm |-> t, index |-> i], [id |-> "LoadError", vm |-> t]>>)
         /\ \A m \in Errors : NoLoad(<<[id |-> "Exception", vm |-> t, error |-> m]>>)
<1>1. ASSUME NEW e \in Event, e.id # "LoadScript" PROVE NoLoad(<<e>>)
  BY <1>1 DEF NoLoad, Of
<1>2. ASSUME NEW e \in Event, NEW f \in Event, e.id # "LoadScript", f.id # "LoadScript"
      PROVE  NoLoad(<<e, f>>)
  BY <1>2 DEF NoLoad, Of
<1>3. 0..Len(scripts) \subseteq Index
  BY TableTypes DEF Index
<1>4. /\ \A id \in {"CreateVM", "DestroyVM", "Message", "LoadError"} : [id |-> id, vm |-> t] \in Event
      /\ \A i \in 0..Len(scripts) : [id |-> "Break", vm |-> t, index |-> i] \in Event
      /\ \A m \in Errors : [id |-> "Exception", vm |-> t, error |-> m] \in Event
  BY <1>3 DEF Event
<1>5. \A i \in 0..Len(scripts) :
        NoLoad(<<[id |-> "Break", vm |-> t, index |-> i], [id |-> "LoadError", vm |-> t]>>)
  BY <1>2, <1>4
<1> QED
  BY <1>1, <1>4, <1>5

LEMMA LoadOfThread ==
  ASSUME NEW t, LuaThreads = {t}, SessionInv, Connected, LoadInv,
         UNCHANGED frontendVars, ThreadStep(t)
  PROVE  LoadInv'
<1> USE DEF Awaits, WaitsForLoad, Goto, Return
<1>0. /\ t \in LuaThreads /\ pc \in [LuaThreads -> Places]
      /\ ev \in [LuaThreads ->
                   [kind : {"none", "call", "ret", "line", "load", "loadNew"},
                    script : Scripts \cup {NoScript}, line : Lines \cup {0}]]
      /\ eventsOpen /\ commandPc # "done" /\ ~detachEvent
      /\ commands' = commands /\ pending' = pending
      /\ (Awaiting <=> Awaits(t))
      /\ (Awaiting' <=> Awaits(t)')
  BY ThreadEffects DEF SessionInv, TypeInv, TypeOK, ThreadEffect, Connected, GetIsAttached,
     frontendVars, Awaiting
<1>1. \A es : Write(es) => events' = events \o es
  BY <1>0 DEF Write
<1>2. ASSUME Awaits(t)' <=> Awaits(t), UNCHANGED loadEvent,
             events' = events \/ \E es : NoLoad(es) /\ Write(es)
      PROVE  LoadInv'
  <2>1. QuietEvents
    BY <1>1, <1>2 DEF QuietEvents, NoLoad
  <2>2. QuietPending /\ QuietCommands
    BY <1>0 DEF QuietPending, QuietCommands
  <2>3. Awaiting' <=> Awaiting
    BY <1>0, <1>2
  <2> HIDE DEF Awaits
  <2> QED
    BY <1>2, <2>1, <2>2, <2>3, LoadStays
<1>3. ASSUME NEW place, pc' = [pc EXCEPT ![t] = place],
             place \notin {"regWait", "loadWait", "loadErr", "loadErrLock", "loadErrStep"},
             pc[t] \notin {"regWait", "loadWait", "loadErr", "loadErrLock", "loadErrStep"},
             UNCHANGED loadEvent,
             events' = events \/ \E es : NoLoad(es) /\ Write(es)
      PROVE  LoadInv'
  <2>1. Awaits(t)' <=> Awaits(t)
    BY <1>0, <1>3
  <2> HIDE DEF Awaits
  <2> QED
    BY <1>2, <1>3, <2>1
<1>4. ASSUME NEW s \in Scripts, Register(t, s), ~Awaits(t), Awaits(t)', UNCHANGED loadEvent
      PROVE  LoadInv'
  <2> DEFINE e == [id |-> "LoadScript", vm |-> t, script |-> s]
  <2>1. e \in Event /\ e.id = "LoadScript"
    BY <1>0 DEF Event
  <2>2. events' = events \o <<e>>
    BY <1>1, <1>4 DEF Register, Emit
  <2>3. ~Awaiting /\ Awaiting'
    BY <1>0, <1>4
  <2> HIDE DEF Awaits, e
  <2> QED
    BY <1>0, <1>4, <2>1, <2>2, <2>3, LoadAppears
<1>5. ASSUME NEW place, pc' = [pc EXCEPT ![t] = place], place \in {"lua", "regLock"},
             loadEvent \/ detachEvent, loadEvent' = FALSE, UNCHANGED events
      PROVE  LoadInv'
  <2>1. ~Awaiting'
    BY <1>0, <1>5
  <2> HIDE DEF Awaits
  <2> QED
    BY <1>0, <1>5, <2>1, LoadTaken
<1> HIDE DEF Awaits
<1>6. CASE AttachState(t) \/ HookAttach(t) \/ DetachState(t)
  BY <1>0, <1>3, <1>6, NoLoadEvents DEF AttachState, HookAttach, DetachState, AddVm, Emit,
     signals, channelVars
<1>7. CASE HookInvoke(t) \/ HookCrash(t) \/ \E s \in Scripts : LoadBuffer(t, s)
  BY <1>3, <1>7 DEF HookInvoke, HookCrash, LoadBuffer, signals, channelVars
<1>8. CASE PostLoadRegister(t)
  <2>1. ev[t].script \in Scripts /\ pc[t] = "load" /\ UNCHANGED loadEvent
    BY <1>0, <1>8 DEF PostLoadRegister, SessionInv, TypeInv, EventsOK, signals
  <2>2. ~Awaits(t)
    BY <2>1 DEF Awaits
  <2>3. CASE GetScriptIndex(ev[t].script) # 0
    <3>1. events' = events
      BY <1>8, <2>3 DEF PostLoadRegister, channelVars
    <3>2. ~Awaits(t)'
      <4>1. CASE ev[t].script \in FailingScripts
        <5>1. ev' = [ev EXCEPT ![t].kind = "load"] /\ pc' = [pc EXCEPT ![t] = "loadErr"]
          BY <1>8, <2>3, <4>1 DEF PostLoadRegister
        <5> QED
          BY <1>0, <5>1 DEF Awaits
      <4>2. CASE ev[t].script \notin FailingScripts
        BY <1>0, <1>8, <2>3, <4>2 DEF PostLoadRegister, Awaits
      <4> QED
        BY <4>1, <4>2
    <3> QED
      BY <1>2, <2>1, <2>2, <3>1, <3>2
  <2>4. CASE GetScriptIndex(ev[t].script) = 0
    <3>1. Register(t, ev[t].script)
      BY <1>8, <2>4 DEF PostLoadRegister
    <3>2. Awaits(t)'
      <4>1. CASE ev[t].script \in FailingScripts
        <5>1. ev' = [ev EXCEPT ![t].kind = "loadNew"] /\ pc' = [pc EXCEPT ![t] = "loadErr"]
          BY <1>8, <2>4, <4>1 DEF PostLoadRegister
        <5> QED
          BY <1>0, <5>1 DEF Awaits
      <4>2. CASE ev[t].script \notin FailingScripts
        BY <1>0, <1>8, <2>4, <4>2 DEF PostLoadRegister, Awaits
      <4> QED
        BY <4>1, <4>2
    <3> QED
      BY <1>4, <2>1, <2>2, <3>1, <3>2
  <2> QED
    BY <2>3, <2>4
<1>9. CASE HookRegister(t)
  <2>1. ev[t].script \in Scripts
    BY <1>0, <1>9 DEF HookRegister, SessionInv, TypeInv, EventsOK
  <2>2. /\ Register(t, ev[t].script) /\ UNCHANGED loadEvent
        /\ pc' = [pc EXCEPT ![t] = "regWait"] /\ pc[t] \in {"attached", "hook"}
    BY <1>9 DEF HookRegister, HookEntered, signals
  <2>3. ~Awaits(t) /\ Awaits(t)'
    BY <1>0, <2>2 DEF Awaits
  <2> QED
    BY <1>4, <2>1, <2>2, <2>3
<1>10. CASE PostLoadError(t)
  <2>1. Awaits(t)' <=> Awaits(t)
    BY <1>0, <1>10 DEF PostLoadError, Awaits
  <2> QED
    BY <1>2, <1>10, <2>1 DEF PostLoadError, signals, channelVars
<1>11. CASE PostLoadReport(t)
  <2>1. Awaits(t)' <=> Awaits(t)
    BY <1>0, <1>11 DEF PostLoadReport, Awaits
  <2>2. UNCHANGED loadEvent /\ \E es : NoLoad(es) /\ Write(es)
    BY <1>0, <1>11, NoLoadEvents DEF PostLoadReport, Emit, signals
  <2> QED
    BY <1>2, <2>1, <2>2
<1>12. CASE PostLoadContinue(t)
  <2>1. Awaits(t)' <=> Awaits(t)
    BY <1>0, <1>12 DEF PostLoadContinue, Awaits
  <2> QED
    BY <1>2, <1>12, <2>1 DEF PostLoadContinue, channelVars
<1>13. CASE PostLoadWait(t) \/ RegisterWait(t)
  <2>1. /\ loadEvent \/ detachEvent
        /\ loadEvent' = FALSE /\ UNCHANGED events
        /\ \E place \in {"lua", "regLock"} : pc' = [pc EXCEPT ![t] = place]
    BY <1>13 DEF PostLoadWait, RegisterWait, channelVars
  <2> QED
    BY <1>5, <2>1
<1>14. CASE HookLine(t) \/ HookCallOrReturn(t) \/ UpdateHookMode(t) \/ SetHookMode(t)
  <2>1. /\ UNCHANGED <<loadEvent, events>>
        /\ pc[t] \in {"hook", "attached", "regLock", "setHook"}
        /\ \E place \in {"lua", "break", "setHook"} : pc' = [pc EXCEPT ![t] = place]
    BY <1>14 DEF HookLine, HookCallOrReturn, UpdateHookMode, SetHookMode, HookEntered,
       HookResumed, StopOrReturn, signals, channelVars
  <2> QED
    BY <1>3, <2>1
<1>15. CASE BreakFromScript(t) \/ WaitForContinue(t) \/ StaleVmCrash(t)
  <2>1. /\ UNCHANGED <<loadEvent, events>>
        /\ pc[t] \in {"break", "step", "regLock"}
        /\ \E place \in {"send", "lua", "crashed"} : pc' = [pc EXCEPT ![t] = place]
    BY <1>15 DEF BreakFromScript, WaitForContinue, StaleVmCrash, HookResumed, signals,
       channelVars
  <2> QED
    BY <1>3, <2>1
<1>16. CASE SendBreakEvent(t)
  <2>1. GetScriptIndex(ev[t].script) \in 0..Len(scripts)
    BY IndexInTable, TableTypes
  <2>2. \E es : NoLoad(es) /\ Write(es)
    BY <1>0, <1>16, <2>1, NoLoadEvents DEF SendBreakEvent, Emit
  <2>3. /\ UNCHANGED loadEvent /\ pc[t] = "send"
        /\ \E place \in {"step"} : pc' = [pc EXCEPT ![t] = place]
    BY <1>16 DEF SendBreakEvent, signals
  <2> QED
    BY <1>3, <2>2, <2>3
<1>17. CASE ErrorBreak(t) \/ SendExceptionEvent(t) \/ ErrorCrash(t)
  <2>1. events' = events \/ \E es : NoLoad(es) /\ Write(es)
    BY <1>0, <1>17, NoLoadEvents DEF ErrorBreak, SendExceptionEvent, ErrorCrash, Emit,
       channelVars
  <2>2. /\ UNCHANGED loadEvent /\ pc[t] \in {"errSend", "errEvent", "lua"}
        /\ \E place \in {"errEvent", "step", "crashed"} : pc' = [pc EXCEPT ![t] = place]
    BY <1>17 DEF ErrorBreak, SendExceptionEvent, ErrorCrash, signals
  <2> QED
    BY <1>3, <2>1, <2>2
<1>18. ASSUME NEW m \in Errors, ErrorHandler(t, m) PROVE LoadInv'
  <2>1. events' = events \/ \E es : NoLoad(es) /\ Write(es)
    BY <1>0, <1>18, NoLoadEvents DEF ErrorHandler, Emit, channelVars
  <2>2. /\ UNCHANGED loadEvent /\ pc[t] = "lua" /\ ev' = ev
        /\ pc' = [pc EXCEPT ![t] = "errSend"] \/ pc' = pc
    BY <1>18 DEF ErrorHandler, signals
  <2>3. Awaits(t)' <=> Awaits(t)
    BY <1>0, <2>2 DEF Awaits
  <2> QED
    BY <1>2, <2>1, <2>2, <2>3
<1> QED
  BY <1>6, <1>7, <1>8, <1>9, <1>10, <1>11, <1>12, <1>13, <1>14, <1>15, <1>16, <1>17, <1>18
  DEF ThreadStep, LoadStep, HookStep, ErrorStep

LEMMA LoadOfCommand ==
  ASSUME SessionInv, Connected, Connected', LoadInv, UNCHANGED frontendVars, CommandStep
  PROVE  LoadInv'
<1>0. /\ UNCHANGED <<pc, ev, pending>>
      /\ eventsOpen /\ commandPc # "done" /\ ~detachEvent' /\ commandsOpen
      /\ evalVm \in LuaThreads \cup {Nobody}
      /\ commandPc \in {"evaluate", "evalSend"} => evalVm \in LuaThreads
  BY CommandEffects DEF SessionInv, TypeInv, TypeOK, EventsOK, CommandEffect, threads, Connected,
     GetIsAttached, frontendVars
<1>1. (Awaiting' <=> Awaiting) /\ \A es : Write(es) => events' = events \o es
  BY <1>0 DEF Awaiting, Awaits, Write
<1>2. ASSUME UNCHANGED loadEvent, events' = events \/ \E es : NoLoad(es) /\ Write(es),
             \/ commands' = commands
             \/ commands # <<>> /\ commands' = Tail(commands) /\ Head(commands).id # "LoadDone"
      PROVE  LoadInv'
  <2>1. QuietEvents /\ QuietPending /\ QuietCommands
    BY <1>0, <1>1, <1>2 DEF QuietEvents, NoLoad, QuietPending, QuietCommands
  <2> QED
    BY <1>1, <1>2, <2>1, LoadStays
<1>3. CASE \E m \in Modes : Resume(m)
  BY <1>2, <1>3 DEF Resume, NextCommand, Modes, Consume
<1>4. CASE Break \/ DeleteAllBreakpoints \/ IgnoreException
  <2> DEFINE taken == /\ loadEvent' = loadEvent /\ events' = events /\ commands # <<>>
                      /\ commands' = Tail(commands) /\ Head(commands).id # "LoadDone"
  <2>1. Break => taken
    BY DEF Break, NextCommand, Consume, signals
  <2>2. DeleteAllBreakpoints => taken
    BY DEF DeleteAllBreakpoints, NextCommand, Consume, signals
  <2>3. ASSUME NEW m \in Errors,
               NextCommand([id |-> "IgnoreException", error |-> m]), Consume, UNCHANGED signals
        PROVE  taken
    BY <2>3 DEF NextCommand, Consume, signals
  <2>4. IgnoreException => taken
    BY <2>3 DEF IgnoreException
  <2> QED
    BY <1>2, <1>4, <2>1, <2>2, <2>4
<1>5. CASE LoadDone
  BY <1>0, <1>1, <1>5, LoadGiven DEF LoadDone, NextCommand, Consume
<1>6. CASE BreakHooks \/ EvaluateStops \/ EvaluateGoesOn \/ EvaluateDone
  BY <1>2, <1>6 DEF BreakHooks, EvaluateStops, EvaluateGoesOn, EvaluateDone, signals, channelVars
<1>7. CASE ToggleBreakpoint
  <2>1. PICK i \in DOMAIN scripts, l \in Lines, set \in BOOLEAN :
          /\ Write(<<[id |-> "SetBreakpoint", index |-> i, line |-> l, set |-> set]>>)
          /\ NextCommand([id |-> "ToggleBreakpoint", index |-> i, line |-> l])
          /\ commands' = Tail(commands)
          /\ UNCHANGED loadEvent
    <3>1. PICK i \in DOMAIN scripts, l \in Lines :
            /\ Write(<<[id |-> "SetBreakpoint", index |-> i, line |-> l,
                        set |-> l \notin breakpoints[scripts[i]]]>>)
            /\ NextCommand([id |-> "ToggleBreakpoint", index |-> i, line |-> l])
            /\ commands' = Tail(commands)
            /\ UNCHANGED loadEvent
      BY <1>7, Zenon DEF ToggleBreakpoint, signals
    <3>2. (l \notin breakpoints[scripts[i]]) \in BOOLEAN
      OBVIOUS
    <3> QED
      BY <3>1, <3>2
  <2> DEFINE es == <<[id |-> "SetBreakpoint", index |-> i, line |-> l, set |-> set]>>
  <2>2. NoLoad(es)
    <3>1. [id |-> "SetBreakpoint", index |-> i, line |-> l, set |-> set] \in Event
      BY TableTypes DEF Event, Index
    <3> QED
      BY <3>1 DEF NoLoad, Of
  <2>3. commands # <<>> /\ Head(commands).id # "LoadDone"
    BY <2>1 DEF NextCommand
  <2> HIDE DEF es
  <2>4. Write(es) /\ commands' = Tail(commands) /\ UNCHANGED loadEvent
    BY <2>1 DEF es
  <2> QED
    BY <1>2, <2>2, <2>3, <2>4
<1>8. CASE Evaluate
  <2>1. /\ UNCHANGED <<loadEvent, events>>
        /\ commands # <<>> /\ commands' = Tail(commands) /\ Head(commands).id # "LoadDone"
    BY <1>8 DEF Evaluate, Consume, NextCommand, signals
  <2> QED
    BY <1>2, <2>1
<1>9. CASE EvaluateFails \/ EvaluateReports
  <2>1. evalVm \in LuaThreads
    BY <1>0, <1>9 DEF EvaluateFails, EvaluateReports
  <2>2. \E es : NoLoad(es) /\ Write(es)
    <3>1. CASE EvaluateFails
      BY <2>1, <3>1, NoLoadEvents DEF EvaluateFails, Emit
    <3>2. CASE EvaluateReports
      <4>1. PICK m \in Errors, i \in 0..Len(scripts) :
              Write(<<[id |-> "Break", vm |-> evalVm, index |-> i],
                      [id |-> "Exception", vm |-> evalVm, error |-> m]>>)
        BY <3>2 DEF EvaluateReports, Emit
      <4>2. i \in Index
        BY TableTypes DEF Index
      <4>3. NoLoad(<<[id |-> "Break", vm |-> evalVm, index |-> i],
                     [id |-> "Exception", vm |-> evalVm, error |-> m]>>)
        BY <2>1, <4>2, ExceptionEventType DEF NoLoad, Of
      <4> QED
        BY <4>1, <4>3
    <3> QED
      BY <1>9, <3>1, <3>2
  <2>3. UNCHANGED <<loadEvent, commands>>
    BY <1>9 DEF EvaluateFails, EvaluateReports, Emit, signals
  <2> QED
    BY <1>2, <2>2, <2>3
<1>10. CASE Detach \/ Cleanup \/ ReadFails
  BY <1>0, <1>10 DEF Detach, SignalDetached, Cleanup, ReadFails, Connected
<1> QED
  BY <1>3, <1>4, <1>5, <1>6, <1>7, <1>8, <1>9, <1>10 DEF CommandStep

(* What the frontend does to the tokens while it is connected.              *)
LEMMA LoadOfFrontend ==
  ASSUME "Toggle" \notin UserMay, SessionInv, Connected, Connected', LoadInv, FrontendStep
  PROVE  LoadInv'
<1>0. /\ ChannelTypeOK /\ FrontendTypeOK /\ PendingOK
      /\ Live /\ eventThread # "ended"
      /\ eventsOpen' /\ commandsOpen /\ commandsOpen'
      /\ UNCHANGED <<pc, ev, loadEvent>>
  BY ConnectedIsLive DEF SessionInv, TypeInv, TypeOK, PendingOK, Connected, FrontendStep,
     backendVars, threads, signals
<1>1. Awaiting' <=> Awaiting
  BY <1>0 DEF Awaiting, Awaits
<1> USE DEF NoPipe, channelVars
<1>2. ASSUME events' = events, QuietPending,
             \/ commands' = commands
             \/ \E msg \in Command : msg.id \notin {"LoadDone", "ToggleBreakpoint"} /\ Sent(<<msg>>)
      PROVE  LoadInv'
  <2>1. ASSUME NEW msg \in Command, msg.id \notin {"LoadDone", "ToggleBreakpoint"}, Sent(<<msg>>)
        PROVE  QuietCommands
    <3>1. <<msg>> \in Seq(Command) /\ Of(<<msg>>, {"LoadDone", "ToggleBreakpoint"}) = {}
      BY <2>1 DEF Of
    <3>2. commands' = commands \o <<msg>>
      BY <1>0, <2>1 DEF Sent
    <3> QED
      BY <3>1, <3>2 DEF QuietCommands
  <2>2. QuietCommands /\ QuietEvents
    BY <1>2, <2>1 DEF QuietCommands, QuietEvents
  <2> QED
    BY <1>0, <1>1, <1>2, <2>2, LoadStays
<1>3. CASE ReadEvent
  BY <1>0, <1>1, <1>3, LoadRead DEF ReadEvent, Translated
<1>4. CASE OnLoadScript
  <2> DEFINE i == Head(pending).index
             S == fileBreakpoints[frontendScripts[i]]
  <2>1. i \in Index /\ S \in SUBSET Lines
    <3>1. i \in 1..Len(frontendScripts) /\ frontendScripts[i] \in Scripts
      BY <1>0, <1>4, NextPending DEF OnLoadScript, Handle
    <3> QED
      BY <1>0, <3>1 DEF FrontendTypeOK, Index
  <2>2. /\ pending # <<>> /\ pending' = Tail(pending) /\ Head(pending).id = "LoadScript"
        /\ events' = events /\ commands' = commands \o LoadReply(i, SetToSeq(S))
    BY <1>0, <1>4 DEF OnLoadScript, Handle, Send
  <2> HIDE DEF i, S
  <2> QED
    BY <1>0, <1>1, <2>1, <2>2, LoadAnswer
<1>5. CASE ReadEventFails(BackendClosed)
  BY <1>0, <1>5 DEF ReadEventFails, BackendClosed, Live, Connected
<1>6. CASE OnSetBreakpoint \/ OnCreateVM \/ OnDestroyVM \/ OnException \/ OnLoadError \/ OnMessage
  <2>1. QuietPending /\ UNCHANGED <<events, commands>>
    BY <1>6 DEF OnSetBreakpoint, OnCreateVM, OnDestroyVM, OnException, OnLoadError, OnMessage, Handle,
       QuietPending
  <2> QED
    BY <1>2, <2>1
<1>7. CASE OnBreak
  <2>1. Head(pending).vm \in LuaThreads
    <3>1. Head(pending) \in Queued /\ Head(pending).id = "Break"
      BY <1>0, <1>7, NextPending DEF OnBreak, Handle
    <3> QED
      BY <3>1 DEF Queued, Event
  <2> DEFINE msg == [id |-> "Evaluate", vm |-> vm']
  <2>2. msg \in Command /\ msg.id \notin {"LoadDone", "ToggleBreakpoint"}
    BY <1>7, <2>1 DEF Command, OnBreak
  <2>3. QuietPending /\ events' = events /\ (Sent(<<msg>>) \/ commands' = commands)
    BY <1>7, SendSends DEF OnBreak, Handle, Send, QuietPending
  <2> HIDE DEF msg
  <2> QED
    BY <1>2, <2>2, <2>3
<1>8. CASE OnSessionEnd
  BY <1>0, <1>8, NextPending DEF OnSessionEnd, Handle, PendingOK
<1>9. CASE EvaluateReturns(BackendClosed)
  BY <1>2, <1>9 DEF EvaluateReturns, QuietPending
<1>10. CASE SendResume
  <2>1. [id |-> resume] \in Command /\ resume \notin {"LoadDone", "ToggleBreakpoint"}
    BY <1>0 DEF FrontendTypeOK, ResumeCommands, Command
  <2>2. Sent(<<[id |-> resume]>>) /\ events' = events /\ QuietPending
    BY <1>10, SendSends DEF SendResume, ResumeCommand, Send, QuietPending
  <2> QED
    BY <1>2, <2>1, <2>2
<1>11. CASE StopFlush(BackendClosed) \/ Die \/ \E kill \in BOOLEAN : Stop(kill)
  BY <1>0, <1>11 DEF StopFlush, Die, Stop
<1>12. CASE StopJoin \/ (\E m \in ResumeCommands : UserResume(m))
  BY <1>2, <1>12 DEF StopJoin, UserResume, User, QuietPending
<1>13. ASSUME NEW choice, CloseException(choice) PROVE LoadInv'
  <2>0. Head(dialog).error \in Errors
    BY <1>0, <1>13, ExceptionDialog DEF CloseException
  <2>1. ASSUME NEW m \in Errors, Send(<<[id |-> "IgnoreException", error |-> m]>>)
        PROVE  \E msg \in Command : msg.id \notin {"LoadDone", "ToggleBreakpoint"} /\ Sent(<<msg>>)
    <3>1. [id |-> "IgnoreException", error |-> m] \in Command
      BY DEF Command
    <3> QED
      BY <2>1, <3>1, SendSends
  <2>2. pending' = pending /\ events' = events
    BY <1>13 DEF CloseException, Send
  <2>3. \/ commands' = commands
        \/ \E m \in Errors : Send(<<[id |-> "IgnoreException", error |-> m]>>)
    BY <1>13, <2>0 DEF CloseException
  <2> QED
    BY <1>2, <2>1, <2>2, <2>3 DEF QuietPending
<1>16. CASE CloseLoadError
  BY <1>2, <1>16 DEF CloseLoadError, Close, QuietPending
<1>14. CASE UserBreak \/ UserDeleteAllBreakpoints
  <2>1. [id |-> "Break"] \in Command /\ [id |-> "DeleteAllBreakpoints"] \in Command
    BY DEF Command
  <2>2. /\ QuietPending /\ events' = events
        /\ \E id \in {"Break", "DeleteAllBreakpoints"} : Sent(<<[id |-> id]>>)
    BY <1>14, SendSends DEF UserBreak, UserDeleteAllBreakpoints, User, Send, QuietPending
  <2> QED
    BY <1>2, <2>1, <2>2
<1>15. CASE \E s \in Scripts, l \in Lines : UserToggleBreakpoint(s, l)
  BY <1>15 DEF UserToggleBreakpoint, User
<1> QED
  BY <1>3, <1>4, <1>5, <1>6, <1>7, <1>8, <1>9, <1>10, <1>11, <1>12, <1>13, <1>14, <1>15,
     <1>16
  DEF FrontendStep, FrontendNext, EventThreadStep, UiStep, HandleEvent, UserStep, CloseDialog

LEMMA LoadInvNext ==
  ASSUME \E t : LuaThreads = {t}, "Toggle" \notin UserMay,
         SessionInv, Connected => LoadInv, [SessionNext]_sessionVars
  PROVE  (Connected => LoadInv)'
<1> SUFFICES ASSUME Connected' PROVE LoadInv'
  OBVIOUS
<1>0. Connected /\ LoadInv
  BY ConnectedBefore
<1>1. CASE BackendStep
  BY <1>0, <1>1, LoadOfThread, LoadOfCommand DEF BackendStep, BackendNext
<1>2. CASE FrontendStep
  BY <1>0, <1>2, LoadOfFrontend
<1>3. CASE ProcessEnds
  BY <1>3 DEF ProcessEnds, Connected
<1>4. CASE UNCHANGED sessionVars
  <2>1. /\ pc' = pc /\ ev' = ev /\ loadEvent' = loadEvent
        /\ events' = events /\ commands' = commands /\ pending' = pending
    BY <1>4 DEF sessionVars, vars, backendVars, threads, channelVars, signals, frontendVars
  <2> QED
    BY <1>0, <2>1 DEF LoadInv, Awaiting, Awaits, Untold, Unhandled, Answered
<1> QED
  BY <1>1, <1>2, <1>3, <1>4 DEF SessionNext

(* The script whose breakpoints a thread waits for is in the table.         *)
RegisteredInv ==
  Live => \A t \in LuaThreads :
            Awaits(t) => \E i \in DOMAIN scripts : scripts[i] = ev[t].script

LEMMA AwaitsBefore ==
  ASSUME SessionInv, NEW t \in LuaThreads, ThreadStep(t), Awaits(t)'
  PROVE  \/ Awaits(t) /\ ev'[t].script = ev[t].script
         \/ Register(t, ev[t].script) /\ ev'[t].script = ev[t].script
<1> USE DEF Awaits, WaitsForLoad, Goto, Return
<1>0. /\ pc \in [LuaThreads -> Places]
      /\ ev \in [LuaThreads ->
                   [kind : {"none", "call", "ret", "line", "load", "loadNew"},
                    script : Scripts \cup {NoScript}, line : Lines \cup {0}]]
  BY DEF SessionInv, TypeInv, TypeOK
<1>1. ASSUME NEW place, pc' = [pc EXCEPT ![t] = place],
             place \notin {"regWait", "loadWait", "loadErr", "loadErrLock", "loadErrStep"}
      PROVE  FALSE
  BY <1>0, <1>1
<1>2. CASE AttachState(t) \/ HookAttach(t) \/ DetachState(t) \/ HookInvoke(t) \/ HookCrash(t)
           \/ \E s \in Scripts : LoadBuffer(t, s)
  BY <1>1, <1>2 DEF AttachState, HookAttach, DetachState, HookInvoke, HookCrash, LoadBuffer
<1>3. CASE PostLoadRegister(t)
  <2>1. CASE GetScriptIndex(ev[t].script) = 0
    <3>1. Register(t, ev[t].script)
      BY <1>3, <2>1 DEF PostLoadRegister
    <3>2. \/ ev' = [ev EXCEPT ![t].kind = "loadNew"]
          \/ ev' = ev
      BY <1>3, <2>1 DEF PostLoadRegister
    <3> QED
      BY <1>0, <3>1, <3>2
  <2>2. CASE GetScriptIndex(ev[t].script) # 0
    <3>1. CASE ev[t].script \in FailingScripts
      <4>1. ev' = [ev EXCEPT ![t].kind = "load"] /\ pc' = [pc EXCEPT ![t] = "loadErr"]
        BY <1>3, <2>2, <3>1 DEF PostLoadRegister
      <4> QED
        BY <1>0, <4>1
    <3>2. CASE ev[t].script \notin FailingScripts
      BY <1>1, <1>3, <2>2, <3>2 DEF PostLoadRegister
    <3> QED
      BY <3>1, <3>2
  <2> QED
    BY <2>1, <2>2
<1>4. CASE HookRegister(t)
  BY <1>4 DEF HookRegister
<1>5. CASE PostLoadError(t) \/ PostLoadReport(t)
  BY <1>0, <1>5 DEF PostLoadError, PostLoadReport
<1>6. CASE PostLoadContinue(t)
  BY <1>0, <1>6 DEF PostLoadContinue
<1>7. CASE PostLoadWait(t) \/ RegisterWait(t)
  BY <1>1, <1>7 DEF PostLoadWait, RegisterWait
<1>8. CASE HookLine(t) \/ HookCallOrReturn(t) \/ UpdateHookMode(t) \/ SetHookMode(t)
  BY <1>1, <1>8 DEF HookLine, HookCallOrReturn, UpdateHookMode, SetHookMode, StopOrReturn
<1>9. CASE BreakFromScript(t) \/ SendBreakEvent(t) \/ WaitForContinue(t) \/ StaleVmCrash(t)
  BY <1>1, <1>9 DEF BreakFromScript, SendBreakEvent, WaitForContinue, StaleVmCrash
<1>10. CASE ErrorBreak(t) \/ SendExceptionEvent(t) \/ ErrorCrash(t)
  BY <1>1, <1>10 DEF ErrorBreak, SendExceptionEvent, ErrorCrash
<1>11. ASSUME NEW m \in Errors, ErrorHandler(t, m) PROVE Awaits(t) /\ ev' = ev
  BY <1>1, <1>11 DEF ErrorHandler
<1> QED
  BY <1>2, <1>3, <1>4, <1>5, <1>6, <1>7, <1>8, <1>9, <1>10, <1>11
  DEF ThreadStep, LoadStep, HookStep, ErrorStep

LEMMA RegisteredInvNext ==
  ASSUME \E t : LuaThreads = {t}, SessionInv, RegisteredInv, [SessionNext]_sessionVars
  PROVE  RegisteredInv'
<1> SUFFICES ASSUME Live', NEW t \in LuaThreads, Awaits(t)'
             PROVE  \E i \in DOMAIN scripts' : scripts'[i] = ev'[t].script
  BY DEF RegisteredInv
<1>0. Live
  BY LiveBefore DEF SessionInv
<1>1. ASSUME ev'[t].script = ev[t].script, Awaits(t),
             \/ scripts' = scripts
             \/ \E s \in Scripts : scripts' = Append(scripts, s)
      PROVE  \E i \in DOMAIN scripts' : scripts'[i] = ev'[t].script
  <2>1. PICK i \in DOMAIN scripts : scripts[i] = ev[t].script
    BY <1>0, <1>1 DEF RegisteredInv
  <2>2. i \in DOMAIN scripts' /\ scripts'[i] = scripts[i]
    BY <1>1, TableTypes, AppendProperties
  <2> QED
    BY <1>1, <2>1, <2>2
<1>2. ASSUME NEW u \in LuaThreads, ThreadStep(u)
      PROVE  \E i \in DOMAIN scripts' : scripts'[i] = ev'[t].script
  <2>1. u = t /\ ThreadStep(t)
    BY <1>2
  <2>2. CASE Awaits(t) /\ ev'[t].script = ev[t].script
    <3>1. ThreadEffect(t)
      BY <2>1, ThreadEffects DEF SessionInv
    <3>2. scripts' = scripts \/ \E s \in Scripts : scripts' = Append(scripts, s)
      BY <3>1 DEF ThreadEffect, Attaches, Detaches, Registers, ReportsOnly, code
    <3> QED
      BY <1>1, <2>2, <3>2
  <2>3. CASE Register(t, ev[t].script) /\ ev'[t].script = ev[t].script
    <3>1. scripts' = Append(scripts, ev[t].script) /\ scripts \in Seq(Scripts)
      BY <2>3, TableTypes DEF Register
    <3>2. /\ DOMAIN scripts' = 1..Len(scripts) + 1 /\ Len(scripts) \in Nat
          /\ scripts'[Len(scripts) + 1] = ev[t].script
      BY <3>1, AppendProperties, TableTypes
    <3> QED
      BY <2>3, <3>2
  <2> QED
    BY <2>1, <2>2, <2>3, AwaitsBefore
<1>3. CASE CommandStep
  <2>1. commandPc' # "done" /\ UNCHANGED <<pc, ev>>
    BY <1>3, CommandEffects DEF Live, CommandEffect, threads, SessionInv
  <2>2. scripts' = scripts
    BY <1>3, <2>1, CommandEffects DEF CommandEffect, Toggles, ReportsOnly, code, SessionInv
  <2> QED
    BY <1>1, <2>1, <2>2 DEF Awaits
<1>4. CASE FrontendStep \/ ProcessEnds \/ UNCHANGED sessionVars
  <2>1. pc' = pc /\ ev' = ev /\ scripts' = scripts
    BY <1>4 DEF FrontendStep, ProcessEnds, sessionVars, vars, backendVars, threads, code
  <2> QED
    BY <1>1, <2>1 DEF Awaits
<1> QED
  BY <1>2, <1>3, <1>4 DEF SessionNext, BackendStep, BackendNext

LEMMA LoadInvariant ==
  ASSUME \E t : LuaThreads = {t}, "Toggle" \notin UserMay
  PROVE  SessionSpec => [](HandledInv /\ RegisteredInv /\ (Connected => LoadInv))
<1>1. SessionInit => HandledInv /\ RegisteredInv /\ (Connected => LoadInv)
  <2> SUFFICES ASSUME SessionInit PROVE HandledInv /\ RegisteredInv /\ LoadInv
    OBVIOUS
  <2>1. /\ \A t \in LuaThreads : pc[t] \in {"host", "lua"}
        /\ events = <<>> /\ commands = <<>> /\ pending = <<>> /\ frontendScripts = <<>>
        /\ ~loadEvent
    BY DEF SessionInit, Init, BackendInit, ChannelInit, FrontendInit
  <2>2. \A t \in LuaThreads : ~Awaits(t)
    BY <2>1 DEF Awaits, WaitsForLoad
  <2>3. /\ Of(events, {"LoadScript"}) = {} /\ Of(pending, {"LoadScript"}) = {}
        /\ Of(commands, {"LoadDone"}) = {} /\ Of(commands, {"ToggleBreakpoint"}) = {}
        /\ DOMAIN frontendScripts = {}
    BY <2>1, OfNone, DOMAIN <<>> = {}
  <2> QED
    BY <2>1, <2>2, <2>3 DEF HandledInv, RegisteredInv, LoadInv, Lone, TogglesFirst, Awaiting,
       Untold, Unhandled, Answered
<1>2. /\ SessionInv /\ HandledInv /\ RegisteredInv /\ (Connected => LoadInv)
      /\ [SessionNext]_sessionVars
      => (HandledInv /\ RegisteredInv /\ (Connected => LoadInv))'
  BY HandledInvNext, RegisteredInvNext, LoadInvNext
<1> QED
  BY <1>1, <1>2, SessionInvariant, PTL DEF SessionSpec

(* A script in the table has its file once no LoadScript is on its way.     *)
LEMMA LoadedFile ==
  ASSUME SessionInv, NamesInv, FilesInv, HandledInv, Live, ~Untold, ~Unhandled,
         NEW s, \E i \in DOMAIN scripts : scripts[i] = s
  PROVE  fileScript[s] = GetScriptIndex(s)
<1>1. Distinct(scripts) /\ Follows(scripts)
  BY BackendTable
<1>2. Announces(events, Len(events)) = {}
  BY TableTypes DEF Announces, Untold, Of
<1>3. Len(scripts) = Len(frontendScripts)
  <2>1. Count(events, Len(events)) = 0
    BY <1>2, FS_EmptySet DEF Count
  <2> QED
    BY <1>1, <2>1, TableTypes DEF Follows
<1>4. PICK i \in DOMAIN scripts : scripts[i] = s
  OBVIOUS
<1>5. i \in DOMAIN frontendScripts /\ frontendScripts[i] = s /\ s \in Scripts
  BY <1>1, <1>3, <1>4, TableTypes DEF Follows
<1>6. fileScript[s] # 0
  <2>1. ~\E k \in DOMAIN pending : pending[k].id = "LoadScript"
    BY DEF Unhandled, Of
  <2> QED
    BY <1>5, <2>1 DEF HandledInv
<1>7. fileScript[s] \in DOMAIN scripts /\ scripts[fileScript[s]] = s
  BY <1>1, <1>3, <1>5, <1>6, TableTypes DEF FilesInv, Follows
<1>8. GetScriptIndex(s) \in DOMAIN scripts /\ scripts[GetScriptIndex(s)] = s
  BY <1>4 DEF GetScriptIndex
<1> QED
  BY <1>1, <1>7, <1>8 DEF Distinct

(* A new script does not run before the breakpoints of its file are set:    *)
(* when a thread leaves the wait for LoadDone the frontend has found the    *)
(* file, under the index the backend has for it, and no toggle of it is on  *)
(* its way.  Two threads share the load event, so that the answer to one    *)
(* script may release the thread that loads another; hence one thread.  The *)
(* user's own toggles may of course be on their way at any time.            *)
THEOREM BreakpointsComeFirst ==
  ASSUME \E t : LuaThreads = {t}, "Toggle" \notin UserMay
  PROVE  SessionSpec => BreakpointsBeforeFirstLine
<1> DEFINE Step ==
      \A t \in LuaThreads :
        /\ pc[t] \in WaitsForLoad
        /\ pc'[t] \notin WaitsForLoad
        /\ Connected
        => /\ fileScript[ev[t].script] = GetScriptIndex(ev[t].script)
           /\ \A k \in DOMAIN commands :
                commands[k].id = "ToggleBreakpoint"
                  => commands[k].index # GetScriptIndex(ev[t].script)
<1>1. SessionInv /\ NamesInv /\ FilesInv /\ HandledInv /\ RegisteredInv
        /\ (Connected => LoadInv) /\ [SessionNext]_sessionVars
      => [Step]_sessionVars
  <2> SUFFICES ASSUME SessionInv, NamesInv, FilesInv, HandledInv, RegisteredInv,
                      LoadInv, SessionNext, Connected,
                      NEW t \in LuaThreads,
                      pc[t] \in WaitsForLoad, pc'[t] \notin WaitsForLoad
               PROVE  /\ fileScript[ev[t].script] = GetScriptIndex(ev[t].script)
                      /\ \A k \in DOMAIN commands : commands[k].id # "ToggleBreakpoint"
    OBVIOUS
  <2>1. ThreadStep(t)
    <3>1. CASE CommandStep
      BY <3>1, CommandEffects DEF SessionInv, CommandEffect, threads
    <3>2. CASE FrontendStep \/ ProcessEnds
      BY <3>2 DEF FrontendStep, ProcessEnds, vars, backendVars, threads
    <3> QED
      BY <3>1, <3>2 DEF SessionNext, BackendStep, BackendNext
  <2>2. loadEvent
    BY <2>1 DEF ThreadStep, LoadStep, HookStep, ErrorStep, AttachState, DetachState,
       HookInvoke, LoadBuffer, PostLoadRegister, PostLoadError, PostLoadReport,
       PostLoadContinue, PostLoadWait, HookAttach, HookCrash, HookRegister, RegisterWait,
       HookLine, HookCallOrReturn, UpdateHookMode, SetHookMode, BreakFromScript,
       SendBreakEvent, WaitForContinue, StaleVmCrash, ErrorHandler, ErrorBreak,
       SendExceptionEvent, ErrorCrash, HookEntered, HookResumed, WaitsForLoad, Connected,
       GetIsAttached
  <2>3. ~Untold /\ ~Unhandled /\ ~Answered /\ TogglesFirst(commands)
    BY <2>2 DEF LoadInv
  <2>4. \E i \in DOMAIN scripts : scripts[i] = ev[t].script
    BY ConnectedIsLive DEF RegisteredInv, Awaits
  <2>5. fileScript[ev[t].script] = GetScriptIndex(ev[t].script)
    BY <2>3, <2>4, ConnectedIsLive, LoadedFile
  <2>6. \A k \in DOMAIN commands : commands[k].id # "ToggleBreakpoint"
    BY <2>3 DEF TogglesFirst, Answered, Of
  <2> QED
    BY <2>5, <2>6
<1>2. [][Step]_sessionVars <=> BreakpointsBeforeFirstLine
  BY DEF BreakpointsBeforeFirstLine
<1> QED
  BY <1>1, <1>2, LoadInvariant, SessionInvariant, NamesInvariant, FilesInvariant, PTL
  DEF SessionSpec

=============================================================================
