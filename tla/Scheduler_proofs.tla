-------------------------- MODULE Scheduler_proofs --------------------------
(***************************************************************************)
(* The scheduler's safety, for every size of the table and every number of *)
(* processes, descriptors and files, on whatever memory the table gets, up *)
(* to the first step that leaves the table; and on memory that reads as    *)
(* zero, what has to come before such a step.                              *)
(***************************************************************************)
EXTENDS Scheduler, WellFoundedInduction, TLAPS

(* The least-number principle for a set of naturals, from the fact that <  *)
(* is well founded: the inductions of the proofs rest on it.               *)
LEMMA LeastNatural ==
  ASSUME NEW S, S \subseteq Nat, S # {}
  PROVE  \E n \in S : \A k \in S : n <= k
<1> DEFINE R == OpToRel(<, Nat)
<1>1. IsWellFoundedOn(R, Nat)
  BY NatLessThanWellFounded, Zenon
<1>2. \A j, k \in Nat : <<j, k>> \in R <=> j < k
  BY DEF OpToRel
<1> HIDE DEF R
<1>3. PICK n \in S : \A k \in S : ~(<<k, n>> \in R)
  BY <1>1, WFMin, Zenon
<1>4. ASSUME NEW k \in S PROVE n <= k
  <2>1. k \in Nat /\ n \in Nat
    BY <1>3
  <2>2. ~(<<k, n>> \in R)
    BY <1>3
  <2>3. ~(k < n)
    BY <1>2, <2>1, <2>2, Zenon
  <2> QED BY <2>1, <2>3
<1> QED BY <1>3, <1>4

LEMMA MinFacts ==
  ASSUME NEW S, S \subseteq Nat, S # {}
  PROVE  Min(S) \in S /\ \A k \in S : Min(S) <= k
BY LeastNatural DEF Min

(* The flags an index reads are the table's, below its size.               *)
LEMMA ReadFacts ==
  ASSUME NEW past
  PROVE  \A i \in Slot : i < size => Read(past)[i] = exists[i]
BY Zenon DEF Read

(* The search for a vacant descriptor (scheduler_new_entry) ends on one    *)
(* nobody uses, at the count at the latest.                                *)
LEMMA VacantFacts ==
  ASSUME NEW flag, SInv, born < MaxCreated,
         \A i \in Slot : i < size => flag[i] = exists[i]
  PROVE  /\ Vacant(flag) \in Slot /\ Vacant(flag) \in Nat
         /\ Vacant(flag) <= count
         /\ \A p \in Alive : home[p] # Vacant(flag)
         /\ count = 0 => Vacant(flag) = 0
         /\ Vacant(flag) = count
              \/ (Vacant(flag) < count /\ (Vacant(flag) < size => ~exists[Vacant(flag)]))
         /\ \A i \in Slot : i < count /\ i < size /\ ~exists[i] => Vacant(flag) <= i
<1> DEFINE S == {i \in Slot : i < count /\ ~flag[i]} \cup {count}
           v == Vacant(flag)
<1>1. /\ count \in Nat /\ count <= 2 * born /\ born \in Nat /\ size \in Nat
      /\ 2 * born <= 2 * MaxCreated
  BY SizesAssumption DEF SInv, TypeOK, CountIsPast
<1>2. count \in Slot
  BY <1>1, SizesAssumption DEF Slot
<1>3. S \subseteq Nat /\ S # {} /\ count \in S
  BY <1>1 DEF Slot
<1>4. v \in S /\ v <= count /\ \A i \in S : v <= i
  BY <1>3, MinFacts DEF Vacant
<1>5. v \in Slot /\ v \in Nat
  BY <1>2, <1>4 DEF Slot
<1>6. v = count \/ (v < count /\ (v < size => ~exists[v]))
  BY <1>4, <1>5
<1>7. ASSUME NEW p \in Alive PROVE home[p] # v
  <2>1. home[p] < count /\ home[p] < size /\ exists[home[p]]
    BY DEF SInv, CountIsPast, InUse
  <2> QED BY <1>1, <1>6, <2>1
<1>8. count = 0 => v = 0
  BY <1>4, <1>5 DEF Slot
<1>9. \A i \in Slot : i < count /\ i < size /\ ~exists[i] => v <= i
  BY <1>4
<1> QED BY <1>4, <1>5, <1>6, <1>7, <1>8, <1>9

(* The search of scheduler_context_switch ends on a process's descriptor   *)
(* or on one with no stack in it, the wrap included; on clean memory the   *)
(* latter lies past the table.                                             *)
LEMMA NextSlotFacts ==
  ASSUME NEW flag, SInv, count # 0,
         \A i \in Slot : i < size => flag[i] = exists[i]
  PROVE  /\ NextSlot(flag) \in Slot
         /\ Used(NextSlot(flag)) \/ stack[NextSlot(flag)] = NULL
         /\ clean /\ ~Used(NextSlot(flag)) => size < count
<1> DEFINE S == {i \in Slot : running < i /\ i < count /\ flag[i]} \cup {count}
           n == NextSlot(flag)
<1>1. count \in Nat /\ S \subseteq Nat /\ S # {} /\ size \in Nat
  BY DEF SInv, TypeOK, Slot
<1>2. Min(S) \in S
  BY <1>1, MinFacts
<1>3. 0 \in Slot /\ Used(0)
  BY SizesAssumption DEF SInv, InUse, Slot
<1>4. n = 0 \/ (n \in Slot /\ n < count /\ flag[n])
  BY <1>2 DEF NextSlot
<1> HIDE DEF n
<1>5. n = 0 => n \in Slot /\ Used(n)
  BY <1>3
<1>6. ASSUME n \in Slot, n < count, flag[n]
      PROVE  Used(n) \/ (stack[n] = NULL /\ (clean => size <= n))
  <2>1. exists[n] \/ size <= n
    BY <1>1, <1>6 DEF Slot
  <2>2. Used(n) \/ stack[n] = NULL
    BY <1>6, <2>1 DEF SInv, InUse
  <2>3. clean /\ ~Used(n) => size <= n
    BY <1>6, <2>1 DEF SInv, Steady
  <2> QED BY <2>2, <2>3
<1>7. n \in Slot /\ (Used(n) \/ stack[n] = NULL)
  BY <1>4, <1>5, <1>6
<1>8. ASSUME clean, ~Used(n) PROVE size < count
  <2>1. n \in Nat /\ n < count /\ size <= n
    BY <1>4, <1>5, <1>6, <1>8 DEF Slot
  <2> QED BY <1>1, <2>1
<1> QED BY <1>7, <1>8 DEF n

-----------------------------------------------------------------------------
LEMMA InitInv == Init => SInv
<1> SUFFICES ASSUME Init PROVE SInv
  OBVIOUS
<1>1. Alive = {}
  BY DEF Init, Alive
<1>2. /\ exists \in [Slot -> BOOLEAN]
      /\ low \in [Fd -> BOOLEAN] /\ clean \in BOOLEAN /\ astray \in BOOLEAN
  BY DEF Init
<1>3. /\ count \in 0..(2 * MaxCreated) /\ size \in Nat /\ running \in Slot \cup {-1}
      /\ born \in 0..MaxCreated /\ opened \in 0..MaxOpened
      /\ cpu \in Process \cup {Start}
  BY SizesAssumption DEF Init
<1>4. /\ stack \in [Slot -> Process \cup {Start, NULL}]
      /\ home \in [Process -> Slot \cup {NULL}]
      /\ fileExists \in [Slot -> [Fd -> BOOLEAN] \cup {NULL}]
      /\ files \in [Slot -> [Fd -> File \cup {NULL}]]
      /\ held \in [Process -> [Fd -> File \cup {NULL}]]
  BY DEF Init
<1>5. TypeOK
  BY <1>2, <1>3, <1>4 DEF TypeOK
<1>6. CountIsPast /\ InUse /\ Steady
  BY <1>1 DEF Init, CountIsPast, InUse, Steady
<1> QED BY <1>1, <1>5, <1>6, SizesAssumption
      DEF Init, SInv, Unborn, NothingRuns, ContextsKept, CallerIsRunning, FilesKept

(* A step that leaves the table changes nothing that is spoken of.         *)
LEMMA StrayInv ==
  ASSUME SInv, Stray, clean => born >= InitialSize
  PROVE  SInv'
<1>1. UNCHANGED <<procs, descs>> /\ astray' = TRUE
  BY DEF Stray
<1>2. TypeOK' /\ CountIsPast' /\ InUse'
  BY <1>1 DEF procs, descs, SInv, TypeOK, CountIsPast, InUse, Used, Alive
<1>3. Steady'
  BY <1>1 DEF procs, descs, SInv, Steady, Used, Alive
<1>4. Unborn' /\ NothingRuns' /\ ContextsKept' /\ CallerIsRunning' /\ FilesKept'
  BY <1>1 DEF procs, descs, SInv, Unborn, NothingRuns, ContextsKept,
              CallerIsRunning, FilesKept, Alive
<1> QED BY <1>2, <1>3, <1>4 DEF SInv

LEMMA CreateProcessInv == SInv /\ CreateProcess => SInv'
<1> SUFFICES ASSUME SInv, CreateProcess PROVE SInv'
  OBVIOUS
<1>1. PICK past \in SUBSET {i \in Slot : size <= i} : NewEntry(Read(past))
  BY DEF CreateProcess
<1> DEFINE flag == Read(past)
           v == Vacant(flag)
           grown == IF v = count /\ size = count THEN 2 * size ELSE size
           p == born + 1
<1>2. \A i \in Slot : i < size => flag[i] = exists[i]
  BY ReadFacts
<1>3. /\ ~astray /\ born < MaxCreated
      /\ \/ v >= grown /\ Stray
         \/ /\ v < grown
            /\ size' = grown
            /\ count' = IF v = count THEN count + 2 ELSE count + 1
            /\ exists' = [j \in Slot |-> j = v \/ (j < grown /\ flag[j])]
            /\ stack' = [stack EXCEPT ![v] = p]
            /\ fileExists' = [fileExists EXCEPT ![v] = [f \in Fd |-> FALSE]]
            /\ born' = p /\ home' = [home EXCEPT ![p] = v]
            /\ UNCHANGED <<running, cpu, clean, files, low, opened, held, astray>>
  BY <1>1 DEF NewEntry, NoFiles
<1>4. /\ born \in Nat /\ count \in Nat /\ size \in Nat
      /\ count <= 2 * born
  BY DEF SInv, TypeOK, CountIsPast
<1>5. /\ v \in Slot /\ v \in Nat /\ v <= count
      /\ \A q \in Alive : home[q] # v
      /\ count = 0 => v = 0
      /\ v = count \/ (v < count /\ (v < size => ~exists[v]))
      /\ \A i \in Slot : i < count /\ i < size /\ ~exists[i] => v <= i
  BY <1>2, <1>3, VacantFacts
<1> HIDE DEF flag, v
<1>6. CASE v >= grown /\ Stray
  <2>1. ASSUME clean PROVE born >= InitialSize
    <3>1. /\ size = InitialSize /\ InitialSize \in Nat \ {0}
          /\ count = IF born = 0 THEN 0 ELSE born + 1
          /\ count # 0 /\ count <= size => \E i \in Slot : i < count /\ ~exists[i]
      BY <2>1, SizesAssumption DEF SInv, Steady
    <3>2. v >= size
      BY <1>4, <1>6
    <3>3. count # 0
      BY <1>4, <1>5, <3>1, <3>2
    <3>4. ~(count <= size)
      <4> SUFFICES ASSUME count <= size PROVE FALSE
        OBVIOUS
      <4>1. PICK i \in Slot : i < count /\ ~exists[i]
        BY <3>1, <3>3
      <4>2. i \in Nat
        BY DEF Slot
      <4> QED BY <1>4, <1>5, <3>2, <4>1, <4>2
    <3> QED BY <1>4, <3>1, <3>3, <3>4
  <2> QED BY <1>6, <2>1, StrayInv
<1>7. CASE ~(v >= grown /\ Stray)
  <2>1. /\ v < grown
        /\ size' = grown
        /\ count' = IF v = count THEN count + 2 ELSE count + 1
        /\ exists' = [j \in Slot |-> j = v \/ (j < grown /\ flag[j])]
        /\ stack' = [stack EXCEPT ![v] = p]
        /\ fileExists' = [fileExists EXCEPT ![v] = [f \in Fd |-> FALSE]]
        /\ born' = p /\ home' = [home EXCEPT ![p] = v]
        /\ UNCHANGED <<running, cpu, clean, files, low, opened, held, astray>>
    BY <1>3, <1>7
  <2>2. grown \in Nat /\ size <= grown /\ (v # count => grown = size)
    BY <1>4
  <2> HIDE DEF grown
  <2>3. p \in Process /\ p \notin Alive /\ p # Start
    BY <1>3, <1>4, SizesAssumption DEF SInv, CountIsPast, Process, Start
  <2>4. count' \in Nat /\ v < count' /\ count <= count' /\ count' <= 2 * born'
    BY <1>4, <1>5, <2>1
  <2>5. TypeOK'
    <3>1. /\ exists' \in [Slot -> BOOLEAN]
          /\ stack' \in [Slot -> Process \cup {Start, NULL}]
          /\ home' \in [Process -> Slot \cup {NULL}]
          /\ fileExists' \in [Slot -> [Fd -> BOOLEAN] \cup {NULL}]
      BY <1>2, <1>5, <2>1, <2>3 DEF SInv, TypeOK
    <3>2. count' \in 0..(2 * MaxCreated) /\ born' \in 0..MaxCreated /\ size' \in Nat
      BY <1>3, <1>4, <2>1, <2>2, <2>4, SizesAssumption
    <3> QED BY <2>1, <3>1, <3>2 DEF SInv, TypeOK
  <2>6. /\ Alive' = Alive \cup {p}
        /\ home'[p] = v /\ \A q \in Alive : home'[q] = home[q] /\ q # p
    BY <1>5, <2>1, <2>3, NullAssumption DEF SInv, TypeOK, Alive
  <2>7. \A q \in Alive : q \in Process /\ home[q] \in Slot /\ home[q] \in Nat
                         /\ q <= born /\ home[q] < count /\ home[q] < size
                         /\ exists[home[q]]
    BY DEF SInv, TypeOK, CountIsPast, InUse, Alive, Slot
  <2>8. CountIsPast'
    <3>1. \A q \in Alive' : q <= born' /\ home'[q] < count' /\ home'[q] < size'
      BY <1>4, <1>5, <2>1, <2>2, <2>4, <2>6, <2>7 DEF Process
    <3>2. \A i \in Slot : exists'[i] => i < size'
      BY <2>1
    <3> QED BY <2>4, <3>1, <3>2 DEF CountIsPast
  <2>9. \A i \in Slot : Used(i)' <=> (Used(i) \/ i = v)
    BY <2>6 DEF Used
  <2>10. InUse'
    <3>1. \A q, r \in Alive' : q # r => home'[q] # home'[r]
      BY <1>5, <2>6 DEF SInv, InUse
    <3>2. \A q \in Alive' : exists'[home'[q]]
      <4> SUFFICES ASSUME NEW q \in Alive PROVE exists'[home[q]]
        BY <1>5, <2>1, <2>6
      <4>1. flag[home[q]] = exists[home[q]]
        BY <1>2, <2>7
      <4>2. home[q] < grown
        BY <1>4, <2>2, <2>7
      <4> QED BY <2>1, <2>7, <4>1, <4>2
    <3>3. ASSUME NEW i \in Slot, exists'[i] \/ size' <= i, ~Used(i)'
          PROVE  stack'[i] = NULL
      <4>1. i # v /\ ~Used(i) /\ i \in Nat
        BY <2>9, <3>3 DEF Slot
      <4>2. exists[i] \/ size <= i
        <5>1. CASE size' <= i
          BY <1>4, <2>1, <2>2, <4>1, <5>1
        <5>2. CASE exists'[i]
          <6>1. flag[i]
            BY <2>1, <4>1, <5>2
          <6>2. i < size => exists[i]
            BY <1>2, <6>1
          <6> QED BY <1>4, <4>1, <6>2
        <5> QED BY <3>3, <5>1, <5>2
      <4>3. stack[i] = NULL
        BY <4>1, <4>2 DEF SInv, InUse
      <4> QED BY <2>1, <4>1, <4>3 DEF SInv, TypeOK
    <3>4. Used(0)'
      <4>1. 0 \in Slot
        BY SizesAssumption DEF Slot
      <4>2. v = 0 \/ Used(0)
        BY <1>5 DEF SInv, InUse
      <4> QED BY <2>9, <4>1, <4>2
    <3> QED BY <3>1, <3>2, <3>3, <3>4 DEF InUse
  <2>11. Steady'
    <3> SUFFICES ASSUME clean PROVE
          /\ \A i \in Slot : exists'[i] => Used(i)'
          /\ size' = InitialSize
          /\ count' = IF born' = 0 THEN 0 ELSE born' + 1
          /\ count' # 0 /\ count' <= size' => \E i \in Slot : i < count' /\ ~exists'[i]
          /\ ~astray'
      BY <2>1 DEF Steady
    <3>1. /\ size = InitialSize /\ InitialSize \in Nat \ {0}
          /\ count = IF born = 0 THEN 0 ELSE born + 1
          /\ count # 0 /\ count <= size => \E i \in Slot : i < count /\ ~exists[i]
          /\ \A i \in Slot : exists[i] => Used(i)
      BY SizesAssumption DEF SInv, Steady
    <3>2. count # 0 /\ count <= size => v < count
      <4> SUFFICES ASSUME count # 0, count <= size PROVE v < count
        OBVIOUS
      <4>1. PICK i \in Slot : i < count /\ ~exists[i]
        BY <3>1
      <4>2. i \in Nat
        BY DEF Slot
      <4> QED BY <1>4, <1>5, <4>1, <4>2
    <3>3. grown = size
      BY <1>4, <1>5, <2>2, <3>1, <3>2 DEF grown
    <3>4. count # 0 => v # count
      BY <1>4, <1>5, <2>1, <3>2, <3>3
    <3>5. count' = IF born' = 0 THEN 0 ELSE born' + 1
      BY <1>4, <1>5, <2>1, <3>1, <3>4
    <3>6. \A i \in Slot : exists'[i] => exists[i] \/ i = v
      BY <1>2, <2>1, <3>3
    <3>7. \A i \in Slot : exists'[i] => Used(i)'
      BY <2>9, <3>1, <3>6
    <3>8. ASSUME count' <= size' PROVE \E i \in Slot : i < count' /\ ~exists'[i]
      <4> DEFINE h == IF v = count THEN count + 1 ELSE count
      <4>1. count' \in Slot /\ count' = h + 1
        BY <1>4, <2>1, <2>5, SizesAssumption DEF TypeOK, Slot
      <4>2. h \in Nat /\ h < count' /\ h # v /\ count <= h
        BY <1>4, <2>1
      <4> HIDE DEF h
      <4>3. h \in Slot
        BY <4>1, <4>2, SizesAssumption DEF Slot
      <4>4. ~exists[h]
        <5>1. \A q \in Alive : home[q] # h
          BY <1>4, <2>7, <4>2
        <5> QED BY <3>1, <4>3, <5>1 DEF Used
      <4> QED BY <3>6, <4>2, <4>3, <4>4
    <3> QED BY <1>3, <2>1, <3>1, <3>3, <3>5, <3>7, <3>8
  <2>12. Unborn' /\ NothingRuns'
    BY <1>4, <2>1 DEF SInv, Unborn, NothingRuns, Process
  <2>13. ContextsKept'
    BY <1>5, <2>1, <2>3, <2>6 DEF SInv, ContextsKept, TypeOK, Alive
  <2>14. CallerIsRunning'
    BY <2>1, <2>6 DEF SInv, CallerIsRunning
  <2>15. FilesKept'
    <3>1. held'[p] = [f \in Fd |-> NULL]
      BY <1>4, <2>1, <2>3 DEF SInv, Unborn
    <3>2. fileExists'[v] = [f \in Fd |-> FALSE]
      BY <1>5, <2>1 DEF SInv, TypeOK
    <3>3. ASSUME NEW q \in Alive
          PROVE  fileExists'[home'[q]] = fileExists[home[q]]
      BY <1>5, <2>1, <2>6 DEF SInv, TypeOK, Alive
    <3> QED BY <2>1, <2>6, <3>1, <3>2, <3>3 DEF SInv, FilesKept
  <2> QED BY <2>5, <2>8, <2>10, <2>11, <2>12, <2>13, <2>14, <2>15 DEF SInv
<1> QED BY <1>6, <1>7

LEMMA KillProcessInv ==
  ASSUME NEW p \in Process, SInv, KillProcess(p)
  PROVE  SInv'
<1>1. /\ p \in Alive /\ p # cpu /\ home[p] # 0 /\ home[p] \in Slot
      /\ exists' = [exists EXCEPT ![home[p]] = FALSE]
      /\ home' = [home EXCEPT ![p] = NULL]
      /\ UNCHANGED <<stack, count, size, running, cpu, born, clean, descs, astray>>
  BY DEF KillProcess, SInv, TypeOK, Alive
<1>2. /\ Alive' = Alive \ {p} /\ \A q \in Alive' : home'[q] = home[q]
  BY <1>1 DEF SInv, TypeOK, Alive
<1>3. TypeOK'
  BY <1>1 DEF SInv, TypeOK, descs
<1>4. \A i \in Slot : exists'[i] <=> (exists[i] /\ i # home[p])
  BY <1>1 DEF SInv, TypeOK
<1>5. CountIsPast'
  BY <1>1, <1>2, <1>4 DEF SInv, CountIsPast
<1>6. \A i \in Slot : Used(i)' <=> (Used(i) /\ i # home[p])
  BY <1>1, <1>2 DEF Used, SInv, InUse
<1>7. InUse'
  <2>1. \A q, r \in Alive' : q # r => home'[q] # home'[r]
    BY <1>2 DEF SInv, InUse
  <2>2. ASSUME NEW q \in Alive' PROVE exists'[home'[q]]
    <3>1. q \in Alive /\ q # p /\ home'[q] = home[q] /\ home[q] \in Slot
      BY <1>2 DEF Alive, SInv, TypeOK
    <3> QED BY <1>1, <1>4, <3>1 DEF SInv, InUse
  <2>3. ASSUME NEW i \in Slot, exists'[i] \/ size' <= i, ~Used(i)'
        PROVE  stack'[i] = NULL
    <3>1. home[p] < size /\ home[p] \in Nat /\ size \in Nat
      BY <1>1 DEF SInv, CountIsPast, TypeOK, Slot
    <3>2. (exists[i] \/ size <= i) /\ i # home[p]
      BY <1>1, <1>4, <2>3, <3>1
    <3>3. ~Used(i)
      BY <1>6, <2>3, <3>2
    <3> QED BY <1>1, <3>2, <3>3 DEF SInv, InUse
  <2>4. count' # 0 => Used(0)'
    <3>1. 0 \in Slot
      BY SizesAssumption DEF Slot
    <3> QED BY <1>1, <1>6, <3>1 DEF SInv, InUse
  <2> QED BY <2>1, <2>2, <2>3, <2>4 DEF InUse
<1>8. Steady'
  BY <1>1, <1>4, <1>6 DEF SInv, Steady
<1>9. Unborn' /\ NothingRuns' /\ ContextsKept' /\ CallerIsRunning' /\ FilesKept'
  BY <1>1, <1>2 DEF SInv, Unborn, NothingRuns, ContextsKept, CallerIsRunning,
                    FilesKept, descs
<1> QED BY <1>3, <1>5, <1>7, <1>8, <1>9 DEF SInv

LEMMA ContextSwitchInv == SInv /\ ContextSwitch => SInv'
<1> SUFFICES ASSUME SInv, ContextSwitch PROVE SInv'
  OBVIOUS
<1>1. PICK past \in SUBSET (size..count) : SwitchTo(NextSlot(Read(past)))
  BY DEF ContextSwitch
<1> DEFINE n == NextSlot(Read(past))
           saved == [i \in Slot |-> IF i = running THEN cpu ELSE stack[i]]
<1>2. /\ count # 0
      /\ \/ saved[n] = NULL /\ Stray
         \/ /\ saved[n] # NULL
            /\ stack' = saved /\ running' = n /\ cpu' = saved[n]
            /\ UNCHANGED <<exists, count, size, born, home, clean, descs, astray>>
  BY <1>1 DEF SwitchTo
<1>3. n \in Slot /\ (Used(n) \/ stack[n] = NULL)
      /\ (clean /\ ~Used(n) => size < count)
  BY <1>2, ReadFacts, NextSlotFacts
<1> HIDE DEF n
<1>4. \A p \in Alive : p \in Process /\ home[p] \in Slot /\ p # Start
  BY SizesAssumption DEF Alive, SInv, TypeOK, Process, Start
<1>5. cpu # Start => cpu \in Alive /\ running = home[cpu]
  BY DEF SInv, CallerIsRunning
<1>6. cpu = Start => running \notin Slot
  BY DEF SInv, NothingRuns, Slot
<1>7. \A p \in Alive : saved[home[p]] = p
  <2> SUFFICES ASSUME NEW p \in Alive PROVE saved[home[p]] = p
    OBVIOUS
  <2>1. saved[home[p]] = IF home[p] = running THEN cpu ELSE stack[home[p]]
    BY <1>4
  <2>2. p = cpu => home[p] = running
    BY <1>4, <1>5
  <2>3. home[p] = running => p = cpu
    <3>1. \A r \in Alive : home[p] = home[r] => p = r
      BY DEF SInv, InUse
    <3> QED BY <1>4, <1>5, <1>6, <3>1
  <2> QED BY <2>1, <2>2, <2>3 DEF SInv, ContextsKept
<1>8. saved[n] = NULL => ~Used(n)
  <2>1. \A p \in Alive : p # NULL
    BY <1>4, NullAssumption DEF Process
  <2> QED BY <1>7, <2>1 DEF Used
<1>9. CASE saved[n] = NULL /\ Stray
  <2>1. ASSUME clean PROVE born >= InitialSize
    <3>1. size < count /\ size = InitialSize /\ InitialSize \in Nat
          /\ count = (IF born = 0 THEN 0 ELSE born + 1) /\ born \in Nat
      BY <1>3, <1>8, <1>9, <2>1, SizesAssumption DEF SInv, Steady, TypeOK
    <3> QED BY <1>2, <3>1
  <2> QED BY <1>9, <2>1, StrayInv
<1>10. CASE ~(saved[n] = NULL /\ Stray)
  <2>1. /\ saved[n] # NULL
        /\ stack' = saved /\ running' = n /\ cpu' = saved[n]
        /\ UNCHANGED <<exists, count, size, born, home, clean, descs, astray>>
    BY <1>2, <1>10
  <2>2. Used(n)
    <3>1. saved[n] = IF n = running THEN cpu ELSE stack[n]
      BY <1>3
    <3>2. n = running => Used(n)
      BY <1>3, <1>5, <1>6 DEF Used
    <3> QED BY <1>3, <2>1, <3>1, <3>2
  <2>3. PICK q \in Alive : home[q] = n
    BY <2>2 DEF Used
  <2>4. cpu' = q /\ q \in Process
    BY <1>4, <1>7, <2>1, <2>3
  <2>5. Alive' = Alive
    BY <2>1 DEF Alive
  <2>6. saved \in [Slot -> Process \cup {Start, NULL}]
    BY DEF SInv, TypeOK
  <2> HIDE DEF saved
  <2>7. TypeOK'
    BY <1>3, <2>1, <2>4, <2>6 DEF SInv, TypeOK, descs
  <2>8. InUse'
    <3>1. \A i \in Slot : Used(i)' <=> Used(i)
      BY <2>1, <2>5 DEF Used
    <3>2. \A i \in Slot : ~Used(i) => stack'[i] = stack[i]
      BY <1>5, <1>6, <2>1 DEF Used, saved
    <3>3. /\ \A p, r \in Alive' : p # r => home'[p] # home'[r]
          /\ \A p \in Alive' : exists'[home'[p]]
      BY <2>1, <2>5 DEF SInv, InUse
    <3>4. \A i \in Slot : (exists'[i] \/ size' <= i) /\ ~Used(i)' => stack'[i] = NULL
      BY <2>1, <3>1, <3>2 DEF SInv, InUse
    <3>5. count' # 0 => Used(0)'
      BY <2>1, <2>5 DEF SInv, InUse, Used
    <3> QED BY <3>3, <3>4, <3>5 DEF InUse
  <2>9. Steady'
    BY <2>1, <2>5 DEF SInv, Steady, Used
  <2>10. CountIsPast' /\ Unborn' /\ FilesKept'
    BY <2>1, <2>5 DEF SInv, CountIsPast, Unborn, FilesKept, descs
  <2>11. NothingRuns' /\ ContextsKept' /\ CallerIsRunning'
    BY <1>4, <1>7, <2>1, <2>3, <2>4, <2>5
       DEF NothingRuns, ContextsKept, CallerIsRunning
  <2> QED BY <2>7, <2>8, <2>9, <2>10, <2>11 DEF SInv
<1> QED BY <1>9, <1>10

-----------------------------------------------------------------------------
(* Opening and closing touch the descriptor of the process that executes   *)
(* only: it is the one at process_running.                                 *)
LEMMA CallerFacts ==
  ASSUME SInv, cpu \in Process
  PROVE  /\ cpu \in Alive /\ running = home[cpu] /\ running \in Slot
         /\ \A p \in Alive : p # cpu => home[p] # running
BY DEF SInv, CallerIsRunning, InUse, TypeOK, Alive, Process, Start

LEMMA OpenInv == SInv /\ Open => SInv'
<1> SUFFICES ASSUME SInv, Open PROVE SInv'
  OBVIOUS
<1> DEFINE free == {f \in Fd : ~Flags(running)[f]}
           fd == Min(free)
           file == opened + 1
<1>1. /\ cpu \in Process /\ opened < MaxOpened /\ free # {}
      /\ files' = [files EXCEPT ![running][fd] = file]
      /\ IF fileExists[running] = NULL
           THEN low' = [low EXCEPT ![fd] = TRUE] /\ UNCHANGED fileExists
           ELSE fileExists' = [fileExists EXCEPT ![running][fd] = TRUE] /\ UNCHANGED low
      /\ opened' = file /\ held' = [held EXCEPT ![cpu][fd] = file]
      /\ UNCHANGED <<procs, astray>>
  BY DEF Open
<1>2. fd \in free
  <2>1. free \subseteq Nat
    BY SizesAssumption DEF Fd
  <2> HIDE DEF free
  <2> QED BY <1>1, <2>1, MinFacts
<1>3. fd \in Fd /\ ~Flags(running)[fd]
  BY <1>2
<1>4. file \in File /\ file # NULL /\ file \in 0..MaxOpened
  BY <1>1, SizesAssumption, NullAssumption DEF SInv, TypeOK, File
<1> HIDE DEF fd, file, free
<1>5. /\ cpu \in Alive /\ running = home[cpu] /\ running \in Slot
      /\ \A p \in Alive : p # cpu => home[p] # running
  BY <1>1, CallerFacts
<1>6. /\ fileExists' \in [Slot -> [Fd -> BOOLEAN] \cup {NULL}] /\ low' \in [Fd -> BOOLEAN]
      /\ \A i \in Slot : i # running => fileExists'[i] = fileExists[i]
      /\ fileExists[running] = NULL => fileExists'[running] = NULL
      /\ fileExists[running] # NULL
           => fileExists'[running] = [fileExists[running] EXCEPT ![fd] = TRUE]
  <2>1. /\ fileExists \in [Slot -> [Fd -> BOOLEAN] \cup {NULL}]
        /\ low \in [Fd -> BOOLEAN]
    BY DEF SInv, TypeOK
  <2>2. CASE fileExists[running] = NULL
    BY <1>1, <1>3, <2>1, <2>2
  <2>3. CASE fileExists[running] # NULL
    <3>1. fileExists[running] \in [Fd -> BOOLEAN]
      BY <1>5, <2>1, <2>3
    <3>2. [fileExists[running] EXCEPT ![fd] = TRUE] \in [Fd -> BOOLEAN]
      BY <3>1
    <3>3. /\ fileExists' = [fileExists EXCEPT ![running]
                               = [fileExists[running] EXCEPT ![fd] = TRUE]]
          /\ low' = low
      BY <1>1, <2>3
    <3> QED BY <1>5, <2>1, <2>3, <3>2, <3>3
  <2> QED BY <2>2, <2>3
<1>7. TypeOK'
  BY <1>1, <1>3, <1>4, <1>5, <1>6 DEF SInv, TypeOK, procs
<1>8. Alive' = Alive /\ \A p \in Alive : home[p] \in Slot
  BY <1>1 DEF Alive, procs, SInv, TypeOK
<1>9. CountIsPast' /\ InUse' /\ Steady' /\ NothingRuns' /\ ContextsKept' /\ CallerIsRunning'
  BY <1>1, <1>8 DEF SInv, CountIsPast, InUse, Steady, Used, NothingRuns, ContextsKept,
                    CallerIsRunning, procs
<1>10. Unborn'
  BY <1>1, <1>5 DEF SInv, Unborn, CountIsPast, TypeOK, procs, Process
<1>11. FilesKept'
  <2> SUFFICES ASSUME NEW p \in Alive, fileExists'[home[p]] # NULL, NEW f \in Fd
               PROVE  /\ fileExists'[home[p]][f] <=> held'[p][f] # NULL
                      /\ held'[p][f] # NULL => files'[home[p]][f] = held'[p][f]
    BY <1>1, <1>8 DEF FilesKept, procs
  <2>1. CASE p # cpu
    BY <1>1, <1>5, <1>6, <1>8, <2>1 DEF SInv, FilesKept, TypeOK, Alive
  <2>2. CASE p = cpu
    <3>1. fileExists[running] # NULL
      BY <1>5, <1>6, <2>2
    <3>2. fileExists[running] \in [Fd -> BOOLEAN]
      BY <1>5, <3>1 DEF SInv, TypeOK
    <3>3. /\ held'[p] = [held[p] EXCEPT ![fd] = file]
          /\ files'[running] = [files[running] EXCEPT ![fd] = file]
          /\ held[p] \in [Fd -> File \cup {NULL}]
          /\ files[running] \in [Fd -> File \cup {NULL}]
      BY <1>1, <1>5, <2>2 DEF SInv, TypeOK
    <3>4. /\ fileExists[running][f] <=> held[p][f] # NULL
          /\ held[p][f] # NULL => files[running][f] = held[p][f]
      BY <1>5, <2>2, <3>1 DEF SInv, FilesKept
    <3> QED BY <1>3, <1>4, <1>5, <1>6, <2>2, <3>1, <3>2, <3>3, <3>4
  <2> QED BY <2>1, <2>2
<1> QED BY <1>7, <1>9, <1>10, <1>11 DEF SInv

LEMMA CloseInv ==
  ASSUME NEW fd \in Fd, SInv, Close(fd)
  PROVE  SInv'
<1>1. /\ cpu \in Process
      /\ fileExists' = [fileExists EXCEPT ![running] = NULL]
      /\ held' = [held EXCEPT ![cpu][fd] = NULL]
      /\ UNCHANGED <<procs, files, low, opened, astray>>
  BY DEF Close
<1>2. /\ cpu \in Alive /\ running = home[cpu] /\ running \in Slot
      /\ \A p \in Alive : p # cpu => home[p] # running
  BY <1>1, CallerFacts
<1>3. TypeOK'
  BY <1>1, <1>2 DEF SInv, TypeOK, procs
<1>4. Alive' = Alive /\ \A p \in Alive : home[p] \in Slot
  BY <1>1 DEF Alive, procs, SInv, TypeOK
<1>5. CountIsPast' /\ InUse' /\ Steady' /\ NothingRuns' /\ ContextsKept' /\ CallerIsRunning'
  BY <1>1, <1>4 DEF SInv, CountIsPast, InUse, Steady, Used, NothingRuns, ContextsKept,
                    CallerIsRunning, procs
<1>6. Unborn'
  BY <1>1, <1>2 DEF SInv, Unborn, CountIsPast, TypeOK, procs, Process
<1>7. FilesKept'
  <2> SUFFICES ASSUME NEW p \in Alive, fileExists'[home[p]] # NULL
               PROVE  \A f \in Fd : /\ fileExists'[home[p]][f] <=> held'[p][f] # NULL
                                    /\ held'[p][f] # NULL
                                         => files'[home[p]][f] = held'[p][f]
    BY <1>1, <1>4 DEF FilesKept, procs
  <2>1. p # cpu
    BY <1>1, <1>2 DEF SInv, TypeOK
  <2>2. /\ fileExists'[home[p]] = fileExists[home[p]] /\ held'[p] = held[p]
        /\ files' = files
    BY <1>1, <1>2, <1>4, <2>1 DEF SInv, TypeOK, Alive
  <2> QED BY <2>2 DEF SInv, FilesKept
<1> QED BY <1>3, <1>5, <1>6, <1>7 DEF SInv

-----------------------------------------------------------------------------
(* The inductive invariant, through every call and every tick of the timer.*)
THEOREM SchedulerInductive == Spec => []SInv
<1>1. SInv /\ [Next]_vars => SInv'
  <2> SUFFICES ASSUME SInv, [Next]_vars PROVE SInv'
    OBVIOUS
  <2>1. CASE UNCHANGED vars
    BY <2>1 DEF vars, procs, descs, SInv, TypeOK, CountIsPast, InUse, Steady, Used,
                Unborn, NothingRuns, ContextsKept, CallerIsRunning, FilesKept, Alive
  <2>2. ASSUME NEW p \in Process, KillProcess(p) PROVE SInv'
    BY <2>2, KillProcessInv
  <2>3. ASSUME NEW fd \in Fd, Close(fd) PROVE SInv'
    BY <2>3, CloseInv
  <2>4. CASE Lost
    BY <2>1, <2>4 DEF Lost
  <2> QED BY <2>1, <2>2, <2>3, <2>4, CreateProcessInv, ContextSwitchInv, OpenInv
          DEF Next
<1> QED BY <1>1, InitInv, PTL DEF Spec

(* A new process takes no descriptor in use; on clean memory process_list  *)
(* lists the processes only, and the table is left by no step before as    *)
(* many creations as it has descriptors.                                   *)
THEOREM DescriptorsDisjoint == Spec => []OneDescriptorEach
<1>1. SInv => OneDescriptorEach
  <2> SUFFICES ASSUME SInv PROVE OneDescriptorEach
    OBVIOUS
  <2>1. \A p \in Alive : home[p] \in Slot /\ home[p] < size /\ exists[home[p]]
                         /\ home[p] <= count
    BY DEF SInv, InUse, CountIsPast, TypeOK, Slot, Alive
  <2>2. \A p, q \in Alive : p # q => home[p] # home[q]
    BY DEF SInv, InUse
  <2>3. clean => {i \in Slot : i <= count /\ exists[i]} = {home[p] : p \in Alive}
    BY <2>1 DEF SInv, Steady, Used
  <2>4. clean /\ born < InitialSize => ~astray
    BY SizesAssumption DEF SInv, Steady, TypeOK
  <2> QED BY <2>1, <2>2, <2>3, <2>4 DEF OneDescriptorEach
<1> QED BY <1>1, SchedulerInductive, PTL

(* Every process goes on where it was stopped (scheduler_context_switch).  *)
THEOREM ContextsSafe == Spec => []ContextsKept
<1>1. SInv => ContextsKept
  BY DEF SInv
<1> QED BY <1>1, SchedulerInductive, PTL

(* A call works on the caller's own descriptor.                            *)
THEOREM CallerCorrect == Spec => []CallerIsRunning
<1>1. SInv => CallerIsRunning
  BY DEF SInv
<1> QED BY <1>1, SchedulerInductive, PTL

(* Until it closes one, a process finds its files behind its descriptors   *)
(* (scheduler_fput, scheduler_fget).                                       *)
THEOREM FilesSafe == Spec => []FilesKept
<1>1. SInv => FilesKept
  BY DEF SInv
<1> QED BY <1>1, SchedulerInductive, PTL

=============================================================================
