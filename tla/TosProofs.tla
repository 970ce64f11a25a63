--------------------------- MODULE TosProofs --------------------------
(***************************************************************************)
(* Proofs about what runs on the drive: Processes, for any number of       *)
(* files, modes and pids and any limit, and then Accounts, for any names   *)
(* and passwords.  The two share no state.                                 *)
(***************************************************************************)
EXTENDS Processes, Accounts, FiniteSetTheorems, SequenceTheorems, TLAPS

\* What a step keeps: besides the type, the system process holds no file,
\* and the stack is exactly as high as the programs in progress unless a
\* process was left on it.
SystemHoldsNothing == DOMAIN running[1] = {}
Nested             == ~stranded => Len(running) = depth + 1

-----------------------------------------------------------------------------
\* Type correctness.

\* The handles of a process with one more or with some less are handles.
LEMMA TableAdd ==
  ASSUME NEW h \in HandleTable, NEW f \in File, NEW m \in Mode
  PROVE  /\ Emplaced(h, f, m) \in HandleTable
         /\ DOMAIN Emplaced(h, f, m) = DOMAIN h \cup {f}
         /\ \A g \in DOMAIN h : Emplaced(h, f, m)[g] = h[g]
         /\ f \notin DOMAIN h => Emplaced(h, f, m)[f] = m
<1> PICK D \in SUBSET File : h \in [D -> Mode]
  BY DEF HandleTable
<1>1. D \cup {f} \in SUBSET File
  OBVIOUS
<1>2. Emplaced(h, f, m) \in [D \cup {f} -> Mode]
  BY DEF Emplaced
<1> QED  BY <1>1, <1>2 DEF HandleTable, Emplaced

LEMMA TableWithout ==
  ASSUME NEW h \in HandleTable, NEW S
  PROVE  /\ Without(h, S) \in HandleTable
         /\ DOMAIN Without(h, S) = DOMAIN h \ S
         /\ \A f \in DOMAIN h \ S : Without(h, S)[f] = h[f]
<1> PICK D \in SUBSET File : h \in [D -> Mode]
  BY DEF HandleTable
<1>1. Without(h, S) \in [D \ S -> Mode]
  BY DEF Without
<1>2. D \ S \in SUBSET File
  OBVIOUS
<1> QED  BY <1>1, <1>2 DEF HandleTable, Without

LEMMA TableEmpty == NoHandles \in HandleTable /\ DOMAIN NoHandles = {}
<1>1. NoHandles \in [{} -> Mode]
  BY DEF NoHandles
<1> QED  BY <1>1 DEF HandleTable

\* The stack after a push, a pop and a change of its top.
LEMMA StackSteps ==
  ASSUME NEW h \in HandleTable, running \in Seq(HandleTable) \ {<<>>}
  PROVE  /\ Len(running) \in Nat \ {0}
         /\ Current \in HandleTable
         /\ Holding(h) \in Seq(HandleTable) /\ Len(Holding(h)) = Len(running)
         /\ Pushed \in Seq(HandleTable) /\ Len(Pushed) = Len(running) + 1
         /\ Popped \in Seq(HandleTable) /\ Len(Popped) = Len(running) - 1
         /\ \A k \in 1 .. Len(running) :
              /\ Holding(h)[k] = IF k = Len(running) THEN h ELSE running[k]
              /\ Pushed[k] = running[k]
              /\ k < Len(running) => Popped[k] = running[k]
         /\ Pushed[Len(running) + 1] = NoHandles
<1>1. Len(running) \in Nat \ {0}
  BY EmptySeq
<1>2. Current \in HandleTable
  BY <1>1 DEF Current
<1>3. /\ Holding(h) \in Seq(HandleTable) /\ Len(Holding(h)) = Len(running)
      /\ \A k \in 1 .. Len(running) :
           Holding(h)[k] = IF k = Len(running) THEN h ELSE running[k]
  BY <1>1 DEF Holding
<1>4. /\ Pushed \in Seq(HandleTable) /\ Len(Pushed) = Len(running) + 1
      /\ \A k \in 1 .. Len(running) : Pushed[k] = running[k]
      /\ Pushed[Len(running) + 1] = NoHandles
  BY <1>1, TableEmpty DEF Pushed
<1>5. /\ Popped \in Seq(HandleTable) /\ Len(Popped) = Len(running) - 1
      /\ \A k \in 1 .. Len(running) : k < Len(running) => Popped[k] = running[k]
  <2>1. PICK n \in Nat : n = Len(running) - 1 /\ n < Len(running)
    <3>1. PICK l \in Nat \ {0} : l = Len(running)
      BY <1>1
    <3>2. l - 1 \in Nat /\ l - 1 < l
      OBVIOUS
    <3> QED BY <3>1, <3>2
  <2>2. \A k \in 1 .. n : running[k] \in HandleTable
    BY <1>1, <2>1
  <2>3. PICK s : s = SubSeq(running, 1, n)
    OBVIOUS
  <2>4. /\ s \in Seq(HandleTable) /\ Len(s) = IF 1 <= n THEN n - 1 + 1 ELSE 0
        /\ \A k \in 1 .. (n - 1 + 1) : s[k] = running[1 + k - 1]
    BY <2>2, <2>3, SubSeqProperties
  <2>5. Popped = s
    BY <2>1, <2>3 DEF Popped
  <2>6. Len(s) = n /\ \A k \in 1 .. n : s[k] = running[k]
    BY <2>1, <2>4
  <2> QED  BY <1>1, <2>1, <2>4, <2>5, <2>6
<1> QED  BY <1>1, <1>2, <1>3, <1>4, <1>5

\* The processes that wait, one more or one less.
LEMMA WaitAdd ==
  ASSUME NEW p \in Pid, NEW f \in File, ready \in WaitTable
  PROVE  /\ Emplaced(ready, p, f) \in WaitTable
         /\ DOMAIN Emplaced(ready, p, f) = DOMAIN ready \cup {p}
<1> PICK D \in SUBSET Pid : ready \in [D -> File]
  BY DEF WaitTable
<1>1. D \cup {p} \in SUBSET Pid
  OBVIOUS
<1>2. Emplaced(ready, p, f) \in [D \cup {p} -> File]
  BY DEF Emplaced
<1> QED  BY <1>1, <1>2 DEF WaitTable

LEMMA WaitWithout ==
  ASSUME NEW w \in WaitTable, NEW p \in DOMAIN w
  PROVE  /\ Without(w, {p}) \in WaitTable
         /\ DOMAIN Without(w, {p}) = DOMAIN w \ {p}
         /\ DOMAIN w \subseteq Pid
<1> PICK D \in SUBSET Pid : w \in [D -> File]
  BY DEF WaitTable
<1>1. D \ {p} \in SUBSET Pid
  OBVIOUS
<1>2. Without(w, {p}) \in [D \ {p} -> File]
  BY DEF Without
<1> QED  BY <1>1, <1>2 DEF WaitTable

LEMMA InitTypeOK == Init => TypeOK
<1>1. NoHandles \in WaitTable
  BY NoHandles \in [{} -> File] DEF NoHandles, WaitTable
<1>2. <<NoHandles>> \in Seq(HandleTable) \ {<<>>}
  BY TableEmpty
<1> SUFFICES ASSUME Init PROVE TypeOK
  OBVIOUS
<1>3. files \in HandleTable /\ depth \in Nat /\ stranded \in BOOLEAN
  BY TableEmpty DEF Init
<1> QED  BY <1>1, <1>2, <1>3 DEF Init, TypeOK

\* The step that matters is a pop: it never empties the stack, because a
\* program in progress is above the system process.
LEMMA StepTypeOK == TypeOK /\ SystemStays /\ [Next]_vars => TypeOK'
<1> SUFFICES ASSUME TypeOK, SystemStays, [Next]_vars
             PROVE  TypeOK'
  OBVIOUS
<1> USE StackSteps, TableEmpty, EmptySeq DEF TypeOK
<1>0. Current \in HandleTable /\ Len(running) \in Nat \ {0}
  OBVIOUS
<1>1. ASSUME NEW f \in File, NEW m \in Mode, IoOpen(f, m)
      PROVE  TypeOK'
  <2>1. Emplaced(Current, f, m) \in HandleTable /\ Emplaced(files, f, m) \in HandleTable
    BY <1>0, TableAdd
  <2>2. running' \in Seq(HandleTable) \ {<<>>}
    BY <1>0, <1>1, <2>1 DEF IoOpen
  <2> QED  BY <1>1, <2>1, <2>2 DEF IoOpen
<1>2. ASSUME NEW f \in File, IoClose(f)
      PROVE  TypeOK'
  <2>1. Without(Current, {f}) \in HandleTable /\ Without(files, {f}) \in HandleTable
    BY <1>0, TableWithout
  <2>2. running' \in Seq(HandleTable) \ {<<>>}
    BY <1>0, <1>2, <2>1 DEF IoClose
  <2> QED  BY <1>2, <2>1, <2>2 DEF IoClose
<1>3. ASSUME NEW f \in File, Rm(f)
      PROVE  TypeOK'
  BY <1>3 DEF Rm
<1>4. ASSUME NEW p \in Pid, NEW f \in File, Spawn(p, f)
      PROVE  TypeOK'
  BY <1>4, WaitAdd DEF Spawn
<1>5. ASSUME NEW p \in Pid, Taken(p)
      PROVE  ready' \in WaitTable /\ UNCHANGED <<files, open, present>>
  BY <1>5, WaitWithout DEF Taken
<1>6. Pushed \in Seq(HandleTable) \ {<<>>}
  BY <1>0
<1>7. ASSUME NEW p \in Pid, Execute(p)
      PROVE  TypeOK'
  BY <1>5, <1>6, <1>7 DEF Execute
<1>8. ASSUME NEW p \in Pid, ExecuteMissing(p)
      PROVE  TypeOK'
  BY <1>5, <1>8 DEF ExecuteMissing
<1>9. ASSUME NEW p \in Pid, ExecuteBusy(p)
      PROVE  TypeOK'
  BY <1>5, <1>6, <1>9 DEF ExecuteBusy
<1>10. ASSUME Exit
       PROVE  TypeOK'
  <2>1. Len(running) > 1
    BY <1>0, <1>10 DEF Exit, SystemStays
  <2>2. Popped \in Seq(HandleTable) \ {<<>>}
    BY <1>0, <2>1
  <2>3. Without(files, DOMAIN Current) \in HandleTable
    BY TableWithout
  <2>4. depth' \in Nat
    BY <1>10 DEF Exit
  <2> QED  BY <1>10, <2>2, <2>3, <2>4 DEF Exit
<1>11. CASE UNCHANGED vars
  BY <1>11 DEF vars
<1> QED  BY <1>1, <1>2, <1>3, <1>4, <1>7, <1>8, <1>9, <1>10, <1>11 DEF Next

-----------------------------------------------------------------------------
\* The height of the stack.

Heights == SystemStays /\ SystemHoldsNothing /\ Nested

LEMMA InitHeights == Init => Heights
BY TableEmpty DEF Init, Heights, SystemStays, SystemHoldsNothing, Nested

\* The calling process is above the system process, so that what it opens and
\* closes leaves the first entry alone; a pop takes an entry off together
\* with a program in progress.
LEMMA StepHeights == TypeOK /\ Heights /\ [Next]_vars => Heights'
<1> SUFFICES ASSUME TypeOK, Heights, [Next]_vars
             PROVE  Heights'
  OBVIOUS
<1> USE DEF Heights, SystemStays, SystemHoldsNothing, Nested
<1>0. /\ running \in Seq(HandleTable) \ {<<>>} /\ files \in HandleTable
      /\ Current \in HandleTable /\ Len(running) \in Nat \ {0} /\ depth \in Nat
  BY StackSteps, TableEmpty DEF TypeOK
<1>1. ASSUME NEW h \in HandleTable, running' = Holding(h), depth > 0,
             UNCHANGED <<depth, stranded>>
      PROVE  Heights'
  <2>1. Len(running) > 1
    BY <1>0, <1>1
  <2>2. Len(Holding(h)) = Len(running) /\ Holding(h)[1] = running[1]
    BY <1>0, <2>1, 1 \in 1 .. Len(running), StackSteps
  <2> QED  BY <1>1, <2>2
<1>2. Len(Pushed) = Len(running) + 1 /\ Pushed[1] = running[1]
  BY <1>0, StackSteps
<1>3. ASSUME NEW f \in File, NEW m \in Mode, IoOpen(f, m)
      PROVE  Heights'
  BY <1>0, <1>1, <1>3, TableAdd DEF IoOpen
<1>4. ASSUME NEW f \in File, IoClose(f)
      PROVE  Heights'
  BY <1>0, <1>1, <1>4, TableWithout DEF IoClose
<1>5. ASSUME NEW p \in Pid, Execute(p)
      PROVE  Heights'
  BY <1>0, <1>2, <1>5 DEF Execute
<1>6. ASSUME NEW p \in Pid, ExecuteBusy(p)
      PROVE  Heights'
  <2>1. stranded' = TRUE /\ running' = Pushed /\ depth' = depth
    BY <1>6 DEF ExecuteBusy
  <2> QED  BY <1>0, <1>2, <2>1
<1>7. ASSUME Exit
      PROVE  Heights'
  <2>1. running' = Popped /\ depth' = depth - 1 /\ stranded' = stranded /\ depth > 0
    BY <1>7 DEF Exit
  <2>2. Len(Popped) = Len(running) - 1 /\ Popped[1] = running[1]
    BY <1>0, <2>1, 1 \in 1 .. Len(running), StackSteps, TableEmpty
  <2> QED  BY <1>0, <2>1, <2>2
<1>8. CASE UNCHANGED <<running, depth, stranded>>
  BY <1>8
<1> QED  BY <1>3, <1>4, <1>5, <1>6, <1>7, <1>8
         DEF Next, vars, Rm, Spawn, ExecuteMissing

-----------------------------------------------------------------------------
\* The bound on the stack.

\* No more processes wait than there are pids, and taking one off makes room.
LEMMA Waiting ==
  ASSUME NEW w \in WaitTable
  PROVE  /\ Cardinality(DOMAIN w) \in Nat
         /\ Cardinality(Pid) \in Nat
         /\ Cardinality(DOMAIN w) <= Cardinality(Pid)
         /\ \A p \in DOMAIN w :
              Cardinality(DOMAIN Without(w, {p})) = Cardinality(DOMAIN w) - 1
<1>1. DOMAIN w \subseteq Pid
  <2> PICK D \in SUBSET Pid : w \in [D -> File]
    BY DEF WaitTable
  <2> QED  OBVIOUS
<1>2. /\ IsFiniteSet(DOMAIN w)
      /\ Cardinality(DOMAIN w) <= Cardinality(Pid)
  BY <1>1, PidAssumption, FS_Subset
<1>3. Cardinality(DOMAIN w) \in Nat /\ Cardinality(Pid) \in Nat
  BY <1>2, PidAssumption, FS_CardinalityType
<1>4. ASSUME NEW p \in DOMAIN w
      PROVE  Cardinality(DOMAIN Without(w, {p})) = Cardinality(DOMAIN w) - 1
  <2>1. DOMAIN Without(w, {p}) = DOMAIN w \ {p}
    BY WaitWithout
  <2> QED  BY <1>2, <2>1, FS_RemoveElement
<1> QED  BY <1>2, <1>3, <1>4

LEMMA InitStackBounded == Init => StackBounded
<1> SUFFICES ASSUME Init PROVE StackBounded
  OBVIOUS
<1>1. ready \in WaitTable
  BY InitTypeOK DEF TypeOK
<1>2. Len(running) = 1 /\ DOMAIN ready = {}
  BY TableEmpty DEF Init
<1>3. Cardinality(DOMAIN ready) = 0
  BY <1>2, FS_EmptySet
<1>4. Cardinality(Pid) \in Nat \ {0}
  BY PidAssumption, FS_EmptySet, FS_CardinalityType
<1> QED  BY <1>1, <1>2, <1>3, <1>4, LimitAssumption DEF StackBounded

\* A process leaves m_ready for the stack, so that the sum grows only when
\* one is spawned, below the limit.
LEMMA StepStackBounded == TypeOK /\ TypeOK' /\ StackBounded /\ [Next]_vars => StackBounded'
<1> SUFFICES ASSUME TypeOK, TypeOK', StackBounded, [Next]_vars
             PROVE  StackBounded'
  OBVIOUS
<1> DEFINE N == Cardinality(DOMAIN ready)
           M == Cardinality(DOMAIN ready')
<1>0. /\ running \in Seq(HandleTable) \ {<<>>} /\ files \in HandleTable
      /\ Current \in HandleTable /\ Len(running) \in Nat \ {0}
      /\ N \in Nat /\ Cardinality(Pid) \in Nat /\ N <= Cardinality(Pid)
      /\ M \in Nat /\ M <= Cardinality(Pid)
  <2>1. ready \in WaitTable /\ ready' \in WaitTable
    BY DEF TypeOK
  <2>2. N \in Nat /\ Cardinality(Pid) \in Nat /\ N <= Cardinality(Pid)
    BY <2>1, Waiting
  <2>3. M \in Nat /\ M <= Cardinality(Pid)
    BY <2>1, Waiting
  <2> QED  BY <2>2, <2>3, StackSteps, TableEmpty DEF TypeOK
<1>1. CASE Len(running') = Len(running) /\ UNCHANGED ready
  BY <1>1 DEF StackBounded
<1>2. ASSUME NEW f \in File, NEW m \in Mode, IoOpen(f, m)
      PROVE  StackBounded'
  BY <1>0, <1>1, <1>2, TableAdd, StackSteps DEF IoOpen
<1>3. ASSUME NEW f \in File, IoClose(f)
      PROVE  StackBounded'
  BY <1>0, <1>1, <1>3, TableWithout, StackSteps DEF IoClose
<1>4. ASSUME NEW p \in Pid, NEW f \in File, Spawn(p, f)
      PROVE  StackBounded'
  <2>1. Len(running') = Len(running) /\ Len(running) < Limit
    BY <1>4 DEF Spawn
  <2> QED  BY <1>0, <2>1, LimitAssumption DEF StackBounded
<1>5. ASSUME NEW p \in Pid, Taken(p)
      PROVE  M = N - 1
  BY <1>5, Waiting DEF Taken, TypeOK
<1>6. Len(Pushed) = Len(running) + 1
  BY <1>0, StackSteps
<1>7. ASSUME NEW p \in Pid, Execute(p)
      PROVE  StackBounded'
  BY <1>0, <1>5, <1>6, <1>7, LimitAssumption DEF Execute, StackBounded
<1>8. ASSUME NEW p \in Pid, ExecuteMissing(p)
      PROVE  StackBounded'
  BY <1>0, <1>5, <1>8, LimitAssumption DEF ExecuteMissing, StackBounded
<1>9. ASSUME NEW p \in Pid, ExecuteBusy(p)
      PROVE  StackBounded'
  BY <1>0, <1>5, <1>6, <1>9, LimitAssumption DEF ExecuteBusy, StackBounded
<1>10. ASSUME Exit
       PROVE  StackBounded'
  <2>1. Len(running') = Len(running) - 1 /\ UNCHANGED ready
    BY <1>0, <1>10, StackSteps, TableEmpty DEF Exit
  <2> QED  BY <1>0, <2>1, LimitAssumption DEF StackBounded
<1> QED  BY <1>1, <1>2, <1>3, <1>4, <1>7, <1>8, <1>9, <1>10 DEF Next, vars, Rm

-----------------------------------------------------------------------------
\* Who holds what, in which mode.

Ownership == HandlesOwned /\ ModeIsAsked

LEMMA InitOwnership == Init => Ownership
<1> SUFFICES ASSUME Init PROVE Ownership
  OBVIOUS
<1>1. Len(running) = 1 /\ running[1] = NoHandles
  BY DEF Init
<1>2. DOMAIN running[1] = {} /\ open = {} /\ DOMAIN files = {}
  BY <1>1, TableEmpty DEF Init
<1> QED  BY <1>1, <1>2 DEF Ownership, HandlesOwned, ModeIsAsked

\* A process opens only what is open for nobody, closes only what it holds,
\* and what its end closes is what its entry of the stack held.
LEMMA StepOwnership == TypeOK /\ Ownership /\ [Next]_vars => Ownership'
<1> SUFFICES ASSUME TypeOK, Ownership, [Next]_vars
             PROVE  Ownership'
  OBVIOUS
<1> DEFINE n == Len(running)
           Holds(k, x)  == x \in DOMAIN running[k]
           HoldsN(k, x) == x \in DOMAIN running'[k]
           Goal ==
             /\ open' = DOMAIN files'
             /\ \A x : x \in open' <=> \E k \in 1 .. Len(running') : HoldsN(k, x)
             /\ \A j, k \in 1 .. Len(running') : \A x :
                  HoldsN(j, x) /\ HoldsN(k, x) => j = k
             /\ \A k \in 1 .. Len(running') : \A x :
                  HoldsN(k, x) /\ x \in DOMAIN files' => files'[x] = running'[k][x]
<1> SUFFICES Goal
  <2>1. open' = UNION { DOMAIN running'[k] : k \in 1 .. Len(running') }
    <3>1. \A x : x \in open' <=> \E k \in 1 .. Len(running') : x \in DOMAIN running'[k]
      OBVIOUS
    <3> HIDE DEF Goal
    <3>2. \A x : x \in UNION { DOMAIN running'[k] : k \in 1 .. Len(running') }
                 <=> \E k \in 1 .. Len(running') : x \in DOMAIN running'[k]
      OBVIOUS
    <3> QED  BY <3>1, <3>2
  <2>2. \A j, k \in 1 .. Len(running') :
          j # k => DOMAIN running'[j] \cap DOMAIN running'[k] = {}
    OBVIOUS
  <2>3. HandlesOwned'
    BY <2>1, <2>2 DEF HandlesOwned
  <2>4. ModeIsAsked'
    BY DEF ModeIsAsked
  <2> QED  BY <2>3, <2>4 DEF Ownership
<1>a. /\ open = DOMAIN files
      /\ \A x : x \in open <=> \E k \in 1 .. n : Holds(k, x)
      /\ \A j, k \in 1 .. n : \A x : Holds(j, x) /\ Holds(k, x) => j = k
      /\ \A k \in 1 .. n : \A x :
           Holds(k, x) /\ x \in DOMAIN files => files[x] = running[k][x]
  BY DEF Ownership, HandlesOwned, ModeIsAsked
<1>b. /\ running \in Seq(HandleTable) \ {<<>>} /\ files \in HandleTable
      /\ Current \in HandleTable /\ n \in Nat \ {0} /\ Current = running[n]
  BY StackSteps, TableEmpty DEF TypeOK, Current
<1> HIDE DEF n
<1>1. ASSUME NEW f \in File, NEW m \in Mode, IoOpen(f, m)
      PROVE  Goal
  <2> DEFINE h == Emplaced(Current, f, m)
  <2>1. f \notin open /\ open' = open \cup {f} /\ files' = Emplaced(files, f, m)
    BY <1>1 DEF IoOpen
  <2>a. f \notin DOMAIN running[n] /\ f \notin DOMAIN files
    BY <1>a, <1>b, <2>1
  <2>b. /\ h \in HandleTable /\ DOMAIN h = DOMAIN Current \cup {f}
        /\ \A x \in DOMAIN Current : h[x] = Current[x]
        /\ f \notin DOMAIN Current => h[f] = m
    BY <1>b, TableAdd
  <2>2. /\ h \in HandleTable /\ DOMAIN h = DOMAIN running[n] \cup {f} /\ h[f] = m
        /\ \A x \in DOMAIN running[n] : h[x] = running[n][x]
    BY <1>b, <2>a, <2>b
  <2>c. /\ DOMAIN Emplaced(files, f, m) = DOMAIN files \cup {f}
        /\ \A x \in DOMAIN files : Emplaced(files, f, m)[x] = files[x]
        /\ f \notin DOMAIN files => Emplaced(files, f, m)[f] = m
    BY <1>b, TableAdd
  <2>3. /\ DOMAIN files' = DOMAIN files \cup {f} /\ files'[f] = m
        /\ \A x \in DOMAIN files : files'[x] = files[x]
    BY <2>1, <2>a, <2>c
  <2> HIDE DEF h
  <2>4. /\ Len(running') = n
        /\ \A k \in 1 .. n : running'[k] = IF k = n THEN h ELSE running[k]
    BY <1>1, <1>b, <2>2, StackSteps DEF IoOpen, n, h
  <2>5. \A k \in 1 .. n : \A x : HoldsN(k, x) <=> Holds(k, x) \/ (k = n /\ x = f)
    BY <2>2, <2>4
  <2>6. \A k \in 1 .. n : ~Holds(k, f)
    BY <1>a, <2>1
  <2>7. \A k \in 1 .. n : \A x : Holds(k, x) => running'[k][x] = running[k][x]
    BY <2>2, <2>4
  <2>8. running'[n][f] = m
    BY <1>b, <2>2, <2>4
  <2> HIDE DEF Holds, HoldsN
  <2>9. \A x : x \in open' <=> \E k \in 1 .. n : HoldsN(k, x)
    BY <1>a, <1>b, <2>1, <2>5
  <2>10. \A j, k \in 1 .. n : \A x : HoldsN(j, x) /\ HoldsN(k, x) => j = k
    BY <1>a, <2>5, <2>6
  <2>11. \A k \in 1 .. n : \A x :
           HoldsN(k, x) /\ x \in DOMAIN files' => files'[x] = running'[k][x]
    BY <1>a, <2>3, <2>5, <2>6, <2>7, <2>8
  <2> QED  BY <1>a, <2>1, <2>3, <2>4, <2>9, <2>10, <2>11
<1>2. ASSUME NEW f \in File, IoClose(f)
      PROVE  Goal
  <2> DEFINE h == Without(Current, {f})
  <2>1. /\ f \in DOMAIN running[n] /\ open' = open \ {f}
        /\ files' = Without(files, {f}) /\ running' = Holding(h)
    BY <1>2, <1>b DEF IoClose
  <2>a. /\ h \in HandleTable /\ DOMAIN h = DOMAIN Current \ {f}
        /\ \A x \in DOMAIN Current \ {f} : h[x] = Current[x]
    <3>1. Current \in HandleTable
      BY <1>b
    <3> QED  BY <3>1, TableWithout
  <2>2. /\ h \in HandleTable /\ DOMAIN h = DOMAIN running[n] \ {f}
        /\ \A x \in DOMAIN h : h[x] = running[n][x]
    BY <1>b, <2>a
  <2>b. /\ DOMAIN Without(files, {f}) = DOMAIN files \ {f}
        /\ \A x \in DOMAIN files \ {f} : Without(files, {f})[x] = files[x]
    BY <1>b, TableWithout
  <2>3. /\ DOMAIN files' = DOMAIN files \ {f}
        /\ \A x \in DOMAIN files' : files'[x] = files[x]
    BY <2>1, <2>b
  <2> HIDE DEF h
  <2>4. /\ Len(running') = n
        /\ \A k \in 1 .. n : running'[k] = IF k = n THEN h ELSE running[k]
    BY <1>b, <2>1, <2>2, StackSteps DEF n
  <2>5. \A k \in 1 .. n : \A x : HoldsN(k, x) <=> Holds(k, x) /\ x # f
    <3>1. \A k \in 1 .. n : Holds(k, f) => k = n
      BY <1>a, <1>b, <2>1
    <3> QED  BY <2>2, <2>4, <3>1
  <2>6. \A k \in 1 .. n : \A x : HoldsN(k, x) => running'[k][x] = running[k][x]
    BY <2>2, <2>4
  <2> HIDE DEF Holds, HoldsN
  <2>7. \A x : x \in open' <=> \E k \in 1 .. n : HoldsN(k, x)
    BY <1>a, <2>1, <2>5
  <2>8. \A j, k \in 1 .. n : \A x : HoldsN(j, x) /\ HoldsN(k, x) => j = k
    BY <1>a, <2>5
  <2>9. \A k \in 1 .. n : \A x :
          HoldsN(k, x) /\ x \in DOMAIN files' => files'[x] = running'[k][x]
    BY <1>a, <2>3, <2>5, <2>6
  <2> QED  BY <1>a, <2>1, <2>3, <2>4, <2>7, <2>8, <2>9
<1>3. ASSUME Exit
      PROVE  Goal
  <2> DEFINE S == DOMAIN running[n]
  <2>1. open' = open \ S /\ files' = Without(files, S) /\ running' = Popped
    BY <1>3, <1>b DEF Exit
  <2>2. /\ DOMAIN files' = DOMAIN files \ S
        /\ \A x \in DOMAIN files' : files'[x] = files[x]
    <3>1. /\ DOMAIN Without(files, S) = DOMAIN files \ S
          /\ \A x \in DOMAIN files \ S : Without(files, S)[x] = files[x]
      BY <1>b, TableWithout
    <3> QED  BY <2>1, <3>1
  <2>3. Len(running') = n - 1 /\ \A k \in 1 .. n - 1 : running'[k] = running[k]
    <3>1. \A k \in 1 .. n - 1 : k \in 1 .. n /\ k < n
      BY <1>b
    <3> QED  BY <1>b, <2>1, <3>1, StackSteps, TableEmpty DEF n
  <2>4. \A k \in 1 .. n - 1 : \A x : HoldsN(k, x) <=> Holds(k, x)
    BY <2>3
  <2>5. \A x : x \in S <=> Holds(n, x)
    OBVIOUS
  <2> HIDE DEF S, Holds, HoldsN
  <2>6. \A k : k \in 1 .. n <=> k \in 1 .. n - 1 \/ k = n
    BY <1>b
  <2>7. \A x : x \in open' <=> \E k \in 1 .. n - 1 : HoldsN(k, x)
    <3>1. \A k \in 1 .. n - 1 : k \in 1 .. n /\ k # n
      BY <1>b
    <3> QED  BY <1>a, <2>1, <2>4, <2>5, <2>6, <3>1
  <2>8. \A j, k \in 1 .. n - 1 : \A x : HoldsN(j, x) /\ HoldsN(k, x) => j = k
    BY <1>a, <2>4, <2>6
  <2>9. \A k \in 1 .. n - 1 : \A x :
          HoldsN(k, x) /\ x \in DOMAIN files' => files'[x] = running'[k][x]
    BY <1>a, <2>2, <2>3, <2>4, <2>6
  <2> QED  BY <1>a, <2>1, <2>2, <2>3, <2>7, <2>8, <2>9
<1>4. ASSUME running' = Pushed, UNCHANGED <<files, open>>
      PROVE  Goal
  <2>1. /\ Len(running') = n + 1 /\ running'[n + 1] = NoHandles
        /\ \A k \in 1 .. n : running'[k] = running[k]
    BY <1>b, <1>4, StackSteps, TableEmpty DEF n
  <2>2. \A k \in 1 .. n : \A x : HoldsN(k, x) <=> Holds(k, x)
    BY <2>1
  <2>3. \A x : ~HoldsN(n + 1, x)
    BY <2>1, TableEmpty
  <2> HIDE DEF Holds, HoldsN
  <2>4. \A k : k \in 1 .. n + 1 <=> k \in 1 .. n \/ k = n + 1
    BY <1>b
  <2> QED  BY <1>a, <1>4, <2>1, <2>2, <2>3, <2>4
<1>5. CASE UNCHANGED <<running, files, open>>
  BY <1>5, <1>a DEF n
<1>6. ASSUME NEW p \in Pid, Execute(p) \/ ExecuteBusy(p)
      PROVE  Goal
  BY <1>4, <1>6 DEF Execute, ExecuteBusy, Taken
<1>7. ASSUME NEW p \in Pid, ExecuteMissing(p)
      PROVE  Goal
  BY <1>5, <1>7 DEF ExecuteMissing, Taken
<1> HIDE DEF Goal
<1> QED  BY <1>1, <1>2, <1>3, <1>5, <1>6, <1>7 DEF Next, vars, Rm, Spawn

-----------------------------------------------------------------------------
\* The theorems.

\* Every variable of the process table has its type, and no file is removed
\* while a process has it open.
THEOREM TypeCorrect == Spec => []TypeOK
<1> DEFINE I == TypeOK /\ Heights
<1>1. Init => I
  BY InitTypeOK, InitHeights
<1>2. I /\ [Next]_vars => I'
  BY StepTypeOK, StepHeights DEF Heights
<1>3. I => TypeOK
  OBVIOUS
<1> QED  BY <1>1, <1>2, <1>3, PTL DEF Spec

\* The system process is never taken off the stack.
THEOREM SystemStaysAlways == Spec => []SystemStays
<1> DEFINE I == TypeOK /\ Heights
<1>1. Init => I
  BY InitTypeOK, InitHeights
<1>2. I /\ [Next]_vars => I'
  BY StepTypeOK, StepHeights DEF Heights
<1>3. I => SystemStays
  BY DEF Heights
<1> QED  BY <1>1, <1>2, <1>3, PTL DEF Spec

\* However many processes are spawned before they run, the stack never has
\* more than 255 of them and one for every pid.
THEOREM StackBoundedAlways == Spec => []StackBounded
<1>1. Init => StackBounded
  BY InitStackBounded
<1>2. TypeOK /\ TypeOK' /\ StackBounded /\ [Next]_vars => StackBounded'
  BY StepStackBounded
<1> QED  BY <1>1, <1>2, TypeCorrect, PTL DEF Spec

LEMMA OwnershipAlways == Spec => []Ownership
<1>1. Init => Ownership
  BY InitOwnership
<1>2. TypeOK /\ Ownership /\ [Next]_vars => Ownership'
  BY StepOwnership
<1> QED  BY <1>1, <1>2, TypeCorrect, PTL DEF Spec

\* Every open file has exactly one owner on the stack.
THEOREM HandlesOwnedAlways == Spec => []HandlesOwned
<1>1. Ownership => HandlesOwned
  BY DEF Ownership
<1> QED  BY <1>1, OwnershipAlways, PTL

\* Reads and writes go by the mode the file was opened in this time.
THEOREM ModeIsAskedAlways == Spec => []ModeIsAsked
<1>1. Ownership => ModeIsAsked
  BY DEF Ownership
<1> QED  BY <1>1, OwnershipAlways, PTL

\* The end of the last program leaves nothing open, unless a process was left
\* on the stack.
THEOREM AllClosedAtEndAlways == Spec => []AllClosedAtEnd
<1> DEFINE I == TypeOK /\ Heights
<1>1. Init => I
  BY InitTypeOK, InitHeights
<1>2. I /\ [Next]_vars => I'
  BY StepTypeOK, StepHeights DEF Heights
<1>3. I /\ Ownership => AllClosedAtEnd
  <2> SUFFICES ASSUME I, Ownership, depth = 0, ~stranded
               PROVE  open = {}
    BY DEF AllClosedAtEnd
  <2>1. Len(running) = 1 /\ DOMAIN running[1] = {}
    BY DEF Heights, Nested, SystemHoldsNothing
  <2> QED  BY <2>1 DEF Ownership, HandlesOwned
<1> QED  BY <1>1, <1>2, <1>3, OwnershipAlways, PTL DEF Spec

-----------------------------------------------------------------------------
(***************************************************************************)
(* The users those programs let in and change: Accounts, for any names,    *)
(* passwords and highest id.                                               *)
(***************************************************************************)

UsersUnique  == \A r, s \in passwd : r.uid = s.uid \/ r.name = s.name => r = s
GroupsUnique == \A g, h \in group : g.gid = h.gid \/ g.name = h.name => g = h

TypeOfTable == [data : UNION { [D -> User] : D \in SUBSET Id },
                names : UNION { [D -> Id] : D \in SUBSET Name }]

\* What login has to know of the users u: the invariant at the prompt.
Knows(t, u) ==
  \A r \in u :
    /\ r.uid \in DOMAIN t.data /\ t.data[r.uid] = r
    /\ r.name \in DOMAIN t.names /\ t.names[r.name] = r.uid

-----------------------------------------------------------------------------
\* Type correctness.

\* A table stays one when it loads users.
LEMMA LoadType ==
  ASSUME NEW t \in TypeOfTable, NEW users \in SUBSET User
  PROVE  Load(t, users) \in TypeOfTable
<1> PICK D \in SUBSET Id : t.data \in [D -> User]
  BY DEF TypeOfTable
<1> PICK N \in SUBSET Name : t.names \in [N -> Id]
  BY DEF TypeOfTable
<1> DEFINE data  == [u \in DOMAIN t.data \cup Uids(users) |->
                       IF u \in Uids(users) THEN Of(users, u) ELSE t.data[u]]
           names == [n \in DOMAIN t.names \cup Names(users) |->
                       IF n \in Names(users) THEN Named(users, n).uid ELSE t.names[n]]
<1>1. \A u \in Uids(users) : Of(users, u) \in User
  BY DEF Uids, Of
<1>2. \A n \in Names(users) : Named(users, n) \in User
  BY DEF Names, Named
<1>3. Uids(users) \in SUBSET Id /\ Names(users) \in SUBSET Name
  BY DEF Uids, Names, User
<1>4. data \in [D \cup Uids(users) -> User]
  BY <1>1
<1>5. names \in [N \cup Names(users) -> Id]
  <2>1. \A n \in Names(users) : Named(users, n).uid \in Id
    BY <1>2 DEF User
  <2> QED  BY <2>1
<1>6. D \cup Uids(users) \in SUBSET Id /\ N \cup Names(users) \in SUBSET Name
  BY <1>3
<1>7. Load(t, users) = [data |-> data, names |-> names]
  BY DEF Load
<1> HIDE DEF data, names
<1>8. data \in UNION { [E -> User] : E \in SUBSET Id }
  BY <1>4, <1>6
<1>9. names \in UNION { [E -> Id] : E \in SUBSET Name }
  BY <1>5, <1>6
<1> QED  BY <1>7, <1>8, <1>9 DEF TypeOfTable

\* The empty table is one.
LEMMA NewTableType == NewTable \in TypeOfTable
<1>1. NewTable.data \in [{} -> User] /\ NewTable.names \in [{} -> Id]
  BY DEF NewTable
<1>2. NewTable = [data |-> NewTable.data, names |-> NewTable.names]
  BY DEF NewTable
<1> QED  BY <1>1, <1>2 DEF TypeOfTable

\* A group that was just made, with nobody or with its user.
LEMMA NewGroupType ==
  ASSUME NEW gid \in Id, NEW name \in Name, NEW uid \in Id
  PROVE  NewGroup(gid, name, {}) \in Group /\ NewGroup(gid, name, {uid}) \in Group
<1>1. Cardinality({}) = 0 /\ Cardinality({uid}) = 1
  BY FS_EmptySet, FS_Singleton
<1> QED  BY <1>1 DEF NewGroup, Group

\* What install.lua leaves is of the right kinds.
LEMMA InitType == AccountsInit => AccountsTypeOK
<1> SUFFICES ASSUME AccountsInit PROVE AccountsTypeOK
  OBVIOUS
<1>1. 0 \in Id
  BY AccountsAssumption DEF Id
<1>2. RootUser \in User
  BY <1>1, AccountsAssumption DEF RootUser, User, RootUid, Home
<1>3. RootGroup \in Group
  BY <1>1, AccountsAssumption DEF RootGroup, Group, RootUid
<1>4. passwd \in SUBSET User /\ group \in SUBSET Group
  BY <1>2, <1>3 DEF AccountsInit
<1>5. table \in TypeOfTable
  BY <1>4, LoadType, NewTableType DEF AccountsInit
<1> QED  BY <1>4, <1>5 DEF AccountsTypeOK, TypeOfTable, AccountsInit, NoOne

\* One case for each action.
LEMMA NextType == AccountsTypeOK /\ [AccountsNext]_accountsVars => AccountsTypeOK'
<1> SUFFICES ASSUME AccountsTypeOK, [AccountsNext]_accountsVars PROVE AccountsTypeOK'
  OBVIOUS
<1> USE DEF AccountsTypeOK
<1>t. table \in TypeOfTable
  BY DEF TypeOfTable
<1>1. ASSUME NEW n \in Name, NEW p \in Password, Login(n, p) PROVE AccountsTypeOK'
  <2>1. table.names[n] \in Id
    BY <1>1, <1>t DEF Login, TypeOfTable
  <2> QED  BY <1>1, <2>1 DEF Login
<1>b. Readable \in BOOLEAN
  BY DEF Readable
<1>2. CASE Logout
  <2>1. table' \in TypeOfTable
    BY <1>2, <1>t, LoadType DEF Logout, Reloaded
  <2>2. up' \in BOOLEAN
    BY <1>2, <1>b DEF Logout
  <2> QED  BY <1>2, <2>1, <2>2 DEF Logout, TypeOfTable, NoOne
<1>3. CASE Boot
  <2>1. table' \in TypeOfTable
    BY <1>3, NewTableType, LoadType DEF Boot
  <2>2. up' \in BOOLEAN
    BY <1>3, <1>b DEF Boot
  <2> QED  BY <1>3, <2>1, <2>2 DEF Boot, TypeOfTable, NoOne
<1>4. ASSUME NEW n \in Name, NEW i \in Id \cup {Default}, Groupadd(n, i) PROVE AccountsTypeOK'
  <2>1. Given(i, group) \in Id
    BY <1>4 DEF Groupadd, Free
  <2>2. NewGroup(Given(i, group), n, {}) \in Group
    BY <2>1, NewGroupType
  <2> QED  BY <1>4, <2>2 DEF Groupadd
<1>5. ASSUME NEW n \in Name, NEW i \in Id \cup {Default}, NEW p \in Password,
             NEW h \in Home, Useradd(n, i, p, h)
      PROVE AccountsTypeOK'
  <2>1. Given(Default, group) \in Id /\ Given(i, passwd) \in Id
    BY <1>5 DEF Useradd, Free
  <2>2. NewGroup(Given(Default, group), n, {Given(i, passwd)}) \in Group
    BY <2>1, NewGroupType
  <2>3. [uid |-> Given(i, passwd), name |-> n, password |-> p, home |-> h] \in User
    BY <2>1 DEF User
  <2> QED  BY <1>5, <2>2, <2>3 DEF Useradd
<1>6. ASSUME NEW n \in Name, NEW i \in Id \cup {Default}, UseraddThrows(n, i) PROVE AccountsTypeOK'
  <2>1. Given(Default, group) \in Id
    BY <1>6 DEF UseraddThrows, Free
  <2>2. NewGroup(Given(Default, group), n, {}) \in Group
    BY <2>1, NewGroupType
  <2> QED  BY <1>6, <2>2 DEF UseraddThrows
<1>7. ASSUME NEW i \in Uids(passwd), Userdel(i) PROVE AccountsTypeOK'
  BY <1>7 DEF Userdel
<1>8. ASSUME NEW i \in Gids(group), Groupdel(i) PROVE AccountsTypeOK'
  BY <1>8 DEF Groupdel
<1>9. ASSUME NEW g \in group, NEW i \in Id, Adduser(g, i) PROVE AccountsTypeOK'
  <2>0. g \in Group /\ g.usize + 1 \in Nat /\ g.users \cup {i} \in SUBSET Id
    BY DEF Group
  <2>1. [g EXCEPT !.usize = g.usize + 1, !.users = g.users \cup {i}] \in Group
    BY <2>0 DEF Group
  <2> QED  BY <1>9, <2>1 DEF Adduser
<1>10. ASSUME NEW g \in group, NEW i \in Id, Deluser(g, i) PROVE AccountsTypeOK'
  BY <1>10 DEF Deluser, accountsVars
<1>11. ASSUME NEW i \in Uids(passwd), NEW p \in Password, Passwd(i, p) PROVE AccountsTypeOK'
  <2>1. \A r \in User : [r EXCEPT !.password = p] \in User
    BY DEF User
  <2> QED  BY <1>11, <2>1 DEF Passwd
<1>12. CASE UNCHANGED accountsVars
  BY <1>12 DEF accountsVars
<1> QED
  BY <1>1, <1>2, <1>3, <1>4, <1>5, <1>6, <1>7, <1>8, <1>9, <1>10, <1>11, <1>12 DEF AccountsNext

\* The files, login's table and the session are of the kinds they should be.
THEOREM AlwaysTypeOK == AccountsSpec => []AccountsTypeOK
  BY InitType, NextType, PTL DEF AccountsSpec
-----------------------------------------------------------------------------
\* Uniqueness.

\* There is one user and one group to begin with.
LEMMA InitUnique == AccountsInit => RecordsUnique
  BY DEF AccountsInit, RecordsUnique

\* One case for each command that changes a file.
LEMMA NextUnique == AccountsTypeOK /\ RecordsUnique /\ [AccountsNext]_accountsVars => RecordsUnique'
<1> SUFFICES ASSUME AccountsTypeOK, RecordsUnique, [AccountsNext]_accountsVars PROVE RecordsUnique'
  OBVIOUS
<1>u. UsersUnique /\ GroupsUnique
  BY DEF RecordsUnique, UsersUnique, GroupsUnique
<1>q. UsersUnique' /\ GroupsUnique' => RecordsUnique'
  BY DEF RecordsUnique, UsersUnique, GroupsUnique
<1>s. UNCHANGED passwd => UsersUnique'
  BY <1>u DEF UsersUnique
<1>g. UNCHANGED group => GroupsUnique'
  BY <1>u DEF GroupsUnique
<1>n. ASSUME NEW n, NEW gid, NEW members,
             n \notin Names(group), gid \notin Gids(group),
             group' = group \cup {NewGroup(gid, n, members)}
      PROVE  GroupsUnique'
  BY <1>n, <1>u DEF GroupsUnique, NewGroup, Names, Gids
<1>1. ASSUME NEW n \in Name, NEW p \in Password, Login(n, p) PROVE RecordsUnique'
  BY <1>1, <1>q, <1>s, <1>g DEF Login
<1>2. CASE Logout
  BY <1>2, <1>q, <1>s, <1>g DEF Logout
<1>3. CASE Boot
  BY <1>3, <1>q, <1>s, <1>g DEF Boot
<1>4. ASSUME NEW n \in Name, NEW i \in Id \cup {Default}, Groupadd(n, i) PROVE RecordsUnique'
  <2>1. GroupsUnique'
    BY <1>4, <1>n DEF Groupadd, Free
  <2> QED  BY <1>4, <2>1, <1>s, <1>q DEF Groupadd
<1>5. ASSUME NEW n \in Name, NEW i \in Id \cup {Default}, NEW p \in Password,
             NEW h \in Home, Useradd(n, i, p, h)
      PROVE RecordsUnique'
  <2> DEFINE new == [uid |-> Given(i, passwd), name |-> n, password |-> p, home |-> h]
  <2>1. GroupsUnique'
    BY <1>5, <1>n DEF Useradd, Free
  <2>2. n \notin Names(passwd) /\ Given(i, passwd) \notin Uids(passwd) /\ passwd' = passwd \cup {new}
    BY <1>5 DEF Useradd, Free
  <2>3. new.uid = Given(i, passwd) /\ new.name = n
    OBVIOUS
  <2> HIDE DEF new
  <2>4. UsersUnique'
    BY <2>2, <2>3, <1>u DEF UsersUnique, Names, Uids
  <2> QED  BY <2>1, <2>4, <1>q
<1>6. ASSUME NEW n \in Name, NEW i \in Id \cup {Default}, UseraddThrows(n, i) PROVE RecordsUnique'
  <2>1. GroupsUnique'
    BY <1>6, <1>n DEF UseraddThrows, Free
  <2> QED  BY <1>6, <2>1, <1>s, <1>q DEF UseraddThrows
<1>7. ASSUME NEW i \in Uids(passwd), Userdel(i) PROVE RecordsUnique'
  <2>1. UsersUnique'
    BY <1>7, <1>u DEF Userdel, UsersUnique
  <2> QED  BY <1>7, <2>1, <1>g, <1>q DEF Userdel
<1>8. ASSUME NEW i \in Gids(group), Groupdel(i) PROVE RecordsUnique'
  <2>1. GroupsUnique'
    BY <1>8, <1>u DEF Groupdel, GroupsUnique
  <2> QED  BY <1>8, <2>1, <1>s, <1>q DEF Groupdel
<1>9. ASSUME NEW g \in group, NEW i \in Id, Adduser(g, i) PROVE RecordsUnique'
  <2> DEFINE new == [g EXCEPT !.usize = g.usize + 1, !.users = g.users \cup {i}]
  <2>1. group' = (group \ {g}) \cup {new}
    BY <1>9 DEF Adduser
  <2>2. new.gid = g.gid /\ new.name = g.name
    BY DEF AccountsTypeOK, Group
  <2> HIDE DEF new
  <2>3. GroupsUnique'
    BY <2>1, <2>2, <1>u DEF GroupsUnique
  <2> QED  BY <1>9, <2>3, <1>s, <1>q DEF Adduser
<1>10. ASSUME NEW g \in group, NEW i \in Id, Deluser(g, i) PROVE RecordsUnique'
  BY <1>10, <1>q, <1>s, <1>g DEF Deluser, accountsVars
<1>11. ASSUME NEW i \in Uids(passwd), NEW p \in Password, Passwd(i, p) PROVE RecordsUnique'
  <2> DEFINE Now(r) == IF r.uid = i THEN [r EXCEPT !.password = p] ELSE r
  <2>1. passwd' = { Now(r) : r \in passwd }
    BY <1>11 DEF Passwd
  <2>2. \A r \in passwd : Now(r).uid = r.uid /\ Now(r).name = r.name
    BY DEF AccountsTypeOK, User
  <2> HIDE DEF Now
  <2>3. UsersUnique'
    BY <2>1, <2>2, <1>u DEF UsersUnique
  <2> QED  BY <1>11, <2>3, <1>g, <1>q DEF Passwd
<1>12. CASE UNCHANGED accountsVars
  BY <1>12, <1>q, <1>s, <1>g DEF accountsVars
<1> QED
  BY <1>1, <1>2, <1>3, <1>4, <1>5, <1>6, <1>7, <1>8, <1>9, <1>10, <1>11, <1>12 DEF AccountsNext

\* The records of /etc/passwd and of /etc/group keep their ids and names to
\* themselves, whatever sequence of commands made the files.
THEOREM AlwaysUnique == AccountsSpec => []RecordsUnique
<1>1. AccountsInit => AccountsTypeOK /\ RecordsUnique
  BY InitType, InitUnique
<1>2. AccountsTypeOK /\ RecordsUnique /\ [AccountsNext]_accountsVars => (AccountsTypeOK /\ RecordsUnique)'
  BY NextType, NextUnique
<1> QED  BY <1>1, <1>2, PTL DEF AccountsSpec

-----------------------------------------------------------------------------
\* What login knows.

\* Whatever a table holds, after a load of users without repetition it knows each.
LEMMA LoadKnows ==
  ASSUME UsersUnique, NEW t
  PROVE  Knows(Load(t, passwd), passwd)
<1> SUFFICES ASSUME NEW r \in passwd
             PROVE /\ r.uid \in DOMAIN Load(t, passwd).data
                   /\ Load(t, passwd).data[r.uid] = r
                   /\ r.name \in DOMAIN Load(t, passwd).names
                   /\ Load(t, passwd).names[r.name] = r.uid
  BY DEF Knows
<1>1. r.uid \in Uids(passwd) /\ r.name \in Names(passwd)
  BY DEF Uids, Names
<1>2. Of(passwd, r.uid) = r
  BY DEF Of, UsersUnique
<1>3. Named(passwd, r.name) = r
  BY DEF Named, UsersUnique
<1> QED  BY <1>1, <1>2, <1>3 DEF Load

\* The two halves of what login keeps: whom it knows, and why it is not there.
PromptKnows == Prompt => Readable /\ Knows(table, passwd)
DownForAReason == ~up /\ Readable => \E u \in DOMAIN table.data : u \notin Uids(passwd)

LEMMA LogsInHalves ==
  /\ EveryUserLogsIn <=> PromptKnows /\ DownForAReason
  /\ EveryUserLogsIn' <=> PromptKnows' /\ DownForAReason'
BY DEF EveryUserLogsIn, PromptKnows, DownForAReason, Knows

\* login has loaded the users when it first asks for a name.
LEMMA InitKnows == AccountsInit => EveryUserLogsIn
<1> SUFFICES ASSUME AccountsInit PROVE PromptKnows /\ DownForAReason
  BY LogsInHalves
<1>1. UsersUnique
  BY InitUnique DEF RecordsUnique, UsersUnique
<1>2. Knows(table, passwd)
  BY <1>1, LoadKnows DEF AccountsInit
<1>3. Readable /\ up
  BY DEF AccountsInit, Readable, RootUser
<1> QED  BY <1>2, <1>3 DEF PromptKnows, DownForAReason

\* login goes to the prompt with a load behind it; at the prompt nothing but a
\* login or a new start of TOS happens.
LEMMA NextKnows ==
  AccountsTypeOK /\ RecordsUnique /\ EveryUserLogsIn /\ [AccountsNext]_accountsVars => PromptKnows'
<1> SUFFICES ASSUME AccountsTypeOK, RecordsUnique, EveryUserLogsIn, [AccountsNext]_accountsVars, Prompt'
             PROVE  Readable' /\ Knows(table', passwd')
  BY DEF PromptKnows
<1>u. UsersUnique
  BY DEF RecordsUnique, UsersUnique
<1>k. Prompt => Readable /\ Knows(table, passwd)
  BY LogsInHalves DEF PromptKnows
<1>l. ASSUME NEW t PROVE Knows(Load(t, passwd), passwd)
  BY <1>u, LoadKnows
<1>p. UNCHANGED passwd => (Readable' <=> Readable)
  BY DEF Readable
<1>r. ~(Root /\ session' = session)
  BY DEF Root, Prompt, NoOne, RootUid
<1>1. ASSUME NEW n \in Name, NEW p \in Password, Login(n, p) PROVE Readable' /\ Knows(table', passwd')
  BY <1>1, <1>k, <1>p DEF Login
<1>2. CASE Logout
  <2>1. Readable
    BY <1>2 DEF Logout, Prompt
  <2> QED  BY <1>2, <1>l, <1>p, <2>1 DEF Logout, Reloaded
<1>3. CASE Boot
  <2>1. Readable
    BY <1>3 DEF Boot, Prompt
  <2> QED  BY <1>3, <1>l, <1>p, <2>1 DEF Boot
<1>4. ASSUME NEW n \in Name, NEW i \in Id \cup {Default}, Groupadd(n, i) PROVE FALSE
  BY <1>4, <1>r DEF Groupadd
<1>5. ASSUME NEW n \in Name, NEW i \in Id \cup {Default}, NEW p \in Password,
             NEW h \in Home, Useradd(n, i, p, h)
      PROVE FALSE
  BY <1>5, <1>r DEF Useradd, RootWithUsers
<1>6. ASSUME NEW n \in Name, NEW i \in Id \cup {Default}, UseraddThrows(n, i) PROVE FALSE
  BY <1>6, <1>r DEF UseraddThrows, RootWithUsers
<1>7. ASSUME NEW i \in Uids(passwd), Userdel(i) PROVE FALSE
  BY <1>7, <1>r DEF Userdel, RootWithUsers
<1>8. ASSUME NEW i \in Gids(group), Groupdel(i) PROVE FALSE
  BY <1>8, <1>r DEF Groupdel
<1>9. ASSUME NEW g \in group, NEW i \in Id, Adduser(g, i) PROVE FALSE
  BY <1>9, <1>r DEF Adduser, RootWithUsers
<1>10. ASSUME NEW g \in group, NEW i \in Id, Deluser(g, i) PROVE FALSE
  BY <1>10, <1>r DEF Deluser, RootWithUsers, accountsVars
<1>11. ASSUME NEW i \in Uids(passwd), NEW p \in Password, Passwd(i, p) PROVE FALSE
  BY <1>11, <1>r DEF Passwd, RootWithUsers
<1>12. CASE UNCHANGED accountsVars
  BY <1>12, <1>k, <1>p DEF accountsVars, Prompt
<1> QED
  BY <1>1, <1>2, <1>3, <1>4, <1>5, <1>6, <1>7, <1>8, <1>9, <1>10, <1>11, <1>12 DEF AccountsNext

\* login ends over users it cannot load, or over a shell for somebody removed;
\* without it no command changes the users.
LEMMA NextDown ==
  AccountsTypeOK /\ EveryUserLogsIn /\ [AccountsNext]_accountsVars => DownForAReason'
<1> SUFFICES ASSUME AccountsTypeOK, EveryUserLogsIn, [AccountsNext]_accountsVars, ~up', Readable'
             PROVE  \E u \in DOMAIN table'.data : u \notin Uids(passwd')
  BY DEF DownForAReason
<1>d. DownForAReason
  BY LogsInHalves
<1>p. UNCHANGED passwd => Readable
  BY DEF Readable
<1>s. UNCHANGED <<passwd, table, up>> => \E u \in DOMAIN table'.data : u \notin Uids(passwd')
  BY <1>d, <1>p DEF DownForAReason
<1>1. ASSUME NEW n \in Name, NEW p \in Password, Login(n, p)
      PROVE  \E u \in DOMAIN table'.data : u \notin Uids(passwd')
  <2>1. up /\ UNCHANGED <<passwd, table>>
    BY <1>1 DEF Login, Prompt
  <2>2. table.names[n] \in DOMAIN table.data /\ ~ShellOpens(table.names[n])
    BY <1>1, <2>1 DEF Login
  <2> QED  BY <2>1, <2>2, <1>p DEF ShellOpens
<1>2. ~Logout
  BY <1>p DEF Logout
<1>3. ~Boot
  BY <1>p DEF Boot
<1>4. CASE ~Root
  BY <1>1, <1>2, <1>3, <1>s, <1>4
     DEF AccountsNext, Groupadd, Useradd, UseraddThrows, Userdel, Groupdel, Adduser, Deluser,
         Passwd, RootWithUsers, accountsVars
<1>5. CASE Root
  <2>1. up
    BY <1>5 DEF Root
  <2> QED
    BY <1>1, <1>2, <1>3, <2>1
       DEF AccountsNext, Groupadd, Useradd, UseraddThrows, Userdel, Groupdel, Adduser, Deluser,
           Passwd, accountsVars
<1> QED  BY <1>4, <1>5

\* At the prompt, whoever is in /etc/passwd can log in with what is there; there
\* is none only after a home that was too long, or after a removed user's login.
THEOREM AlwaysLogsIn == AccountsSpec => []EveryUserLogsIn
<1> DEFINE IInv == AccountsTypeOK /\ RecordsUnique /\ EveryUserLogsIn
<1>1. AccountsInit => IInv
  BY InitType, InitUnique, InitKnows
<1>2. IInv /\ [AccountsNext]_accountsVars => IInv'
  BY NextType, NextUnique, NextKnows, NextDown, LogsInHalves
<1>3. IInv => EveryUserLogsIn
  OBVIOUS
<1> HIDE DEF IInv
<1> QED  BY <1>1, <1>2, <1>3, PTL DEF AccountsSpec

\* A step that opens a shell does so for a record of the file.
LEMMA StepForUser ==
  AccountsTypeOK /\ EveryUserLogsIn /\ [AccountsNext]_accountsVars =>
    [session = NoOne /\ session' # NoOne => table.data[session'] \in passwd]_accountsVars
<1> SUFFICES ASSUME AccountsTypeOK, EveryUserLogsIn, AccountsNext, session = NoOne, session' # NoOne
             PROVE  table.data[session'] \in passwd
  BY DEF accountsVars
<1>1. PICK n \in Name, p \in Password : Login(n, p)
  BY DEF AccountsNext, Logout, Boot, Groupadd, Useradd, UseraddThrows, Userdel, Groupdel,
         Adduser, Deluser, Passwd, RootWithUsers, Root, RootUid, NoOne
<1>2. Prompt /\ session' \in Uids(passwd)
  BY <1>1 DEF Login, ShellOpens
<1>3. PICK r \in passwd : r.uid = session'
  BY <1>2 DEF Uids
<1> QED  BY <1>2, <1>3, LogsInHalves DEF PromptKnows, Knows

\* Nobody gets a shell but as a user of /etc/passwd.
THEOREM AlwaysForUsersOnly == AccountsSpec => ShellForUsersOnly
<1>1. AccountsSpec => []AccountsTypeOK
  BY AlwaysTypeOK
<1>2. AccountsSpec => []EveryUserLogsIn
  BY AlwaysLogsIn
<1> QED  BY <1>1, <1>2, StepForUser, PTL DEF AccountsSpec, ShellForUsersOnly

-----------------------------------------------------------------------------
\* The number of members.

\* Only adduser changes the members of a group that is there, and it counts.
LEMMA NextCounted == AccountsTypeOK /\ MembersCounted /\ [AccountsNext]_accountsVars => MembersCounted'
<1> SUFFICES ASSUME AccountsTypeOK, MembersCounted, [AccountsNext]_accountsVars PROVE MembersCounted'
  OBVIOUS
<1>s. UNCHANGED group => MembersCounted'
  BY DEF MembersCounted
<1>n. ASSUME NEW gid, NEW n, NEW members, group' = group \cup {NewGroup(gid, n, members)}
      PROVE  MembersCounted'
  BY <1>n DEF MembersCounted, NewGroup
<1>1. ASSUME NEW n \in Name, NEW i \in Id \cup {Default}, Groupadd(n, i) PROVE MembersCounted'
  BY <1>1, <1>n DEF Groupadd
<1>2. ASSUME NEW n \in Name, NEW i \in Id \cup {Default}, NEW p \in Password,
             NEW h \in Home, Useradd(n, i, p, h)
      PROVE MembersCounted'
  BY <1>2, <1>n DEF Useradd
<1>3. ASSUME NEW n \in Name, NEW i \in Id \cup {Default}, UseraddThrows(n, i) PROVE MembersCounted'
  BY <1>3, <1>n DEF UseraddThrows
<1>4. ASSUME NEW i \in Gids(group), Groupdel(i) PROVE MembersCounted'
  BY <1>4 DEF Groupdel, MembersCounted
<1>5. ASSUME NEW g \in group, NEW i \in Id, Adduser(g, i) PROVE MembersCounted'
  <2> DEFINE new == [g EXCEPT !.usize = g.usize + 1, !.users = g.users \cup {i}]
  <2>1. g \in Group /\ g.users \in SUBSET Id
    BY DEF AccountsTypeOK, Group
  <2>2. IsFiniteSet(Id)
    BY AccountsAssumption, FS_Interval DEF Id
  <2>3. IsFiniteSet(g.users)
    BY <2>1, <2>2, FS_Subset
  <2>4. i \notin g.users
    BY <1>5 DEF Adduser, NewMember
  <2>5. Cardinality(g.users \cup {i}) = Cardinality(g.users) + 1
    BY <2>3, <2>4, FS_AddElement
  <2>6. new.usize = g.usize + 1 /\ new.users = g.users \cup {i}
    BY <2>1 DEF Group
  <2>7. new.usize = Cardinality(new.users)
    BY <2>5, <2>6 DEF MembersCounted
  <2>8. group' = (group \ {g}) \cup {new}
    BY <1>5 DEF Adduser
  <2> HIDE DEF new
  <2> QED  BY <2>7, <2>8 DEF MembersCounted
<1> QED
  BY <1>1, <1>2, <1>3, <1>4, <1>5, <1>s DEF AccountsNext, Login, Logout, Boot, Userdel, Deluser, Passwd, accountsVars

\* Every group is written with the number of its members.
THEOREM AlwaysCounted == AccountsSpec => []MembersCounted
<1>1. AccountsInit => AccountsTypeOK /\ MembersCounted
  <2>1. Cardinality({RootUid}) = 1
    BY FS_Singleton
  <2> QED  BY <2>1, InitType DEF AccountsInit, MembersCounted, RootGroup
<1>2. AccountsTypeOK /\ MembersCounted /\ [AccountsNext]_accountsVars => (AccountsTypeOK /\ MembersCounted)'
  BY NextType, NextCounted
<1> QED  BY <1>1, <1>2, PTL DEF AccountsSpec

=============================================================================
