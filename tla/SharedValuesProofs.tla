------------------------- MODULE SharedValuesProofs -------------------------
(***************************************************************************)
(* Proofs about SharedValues, for any number of samples, aborts and waits  *)
(* that end unserved.  What holds while the sender is served is proved of  *)
(* its steps but SendTakeTimesOut first.                                   *)
(***************************************************************************)
EXTENDS SharedValues, FiniteSetTheorems, TLAPS
-----------------------------------------------------------------------------
(* The tables of the two sides.                                            *)

\* A group is one of the three, which each have 1 to 4 words.
LEMMA StoresType ==
  ASSUME NEW g \in Groups
  PROVE  /\ Len(Stores[g]) \in 1 .. 4
         /\ DOMAIN Stores[g] = 1 .. Len(Stores[g])
         /\ \A i \in DOMAIN Stores[g] : Stores[g][i] \in Words
<1>1. /\ Stores["dust"] = <<"pm100", "pm25">>
      /\ Stores["co2"] = <<"ppm">>
      /\ Stores["bmp"] = <<"temp_hi", "temp_lo", "pres_hi", "pres_lo">>
  BY DEF Stores, Groups
<1>2. Len(Stores[g]) \in 1 .. 4 /\ DOMAIN Stores[g] = 1 .. Len(Stores[g])
  <2>1. CASE g = "dust"
    <3>1. Len(Stores["dust"]) = 2 /\ DOMAIN Stores["dust"] = 1 .. 2
      BY <1>1
    <3> QED BY <2>1, <3>1
  <2>2. CASE g = "co2"
    <3>1. Len(Stores["co2"]) = 1 /\ DOMAIN Stores["co2"] = 1 .. 1
      BY <1>1
    <3> QED BY <2>2, <3>1
  <2>3. CASE g = "bmp"
    <3>1. Len(Stores["bmp"]) = 4 /\ DOMAIN Stores["bmp"] = 1 .. 4
      BY <1>1
    <3> QED BY <2>3, <3>1
  <2> QED BY <2>1, <2>2, <2>3 DEF Groups
<1>3. \A i \in DOMAIN Stores[g] : Stores[g][i] \in Words
  BY DEF Words
<1> QED BY <1>2, <1>3

\* There are five topics; each locks a group and loads words of that group.
LEMMA TopicsType ==
  /\ DOMAIN Topics = 1 .. 5 /\ Len(Topics) = 5
  /\ \A t \in 1 .. 5 :
       /\ Topics[t].group \in Groups
       /\ \A w \in Topics[t].loads :
            \E i \in DOMAIN Stores[Topics[t].group] :
              w = Stores[Topics[t].group][i]
<1>1. /\ Stores["dust"] = <<"pm100", "pm25">>
      /\ Stores["co2"] = <<"ppm">>
      /\ Stores["bmp"] = <<"temp_hi", "temp_lo", "pres_hi", "pres_lo">>
  BY DEF Stores, Groups
<1>2. /\ Topics[1].group = "dust" /\ Topics[1].loads = {"pm25"}
      /\ Topics[2].group = "dust" /\ Topics[2].loads = {"pm100"}
      /\ Topics[3].group = "co2"  /\ Topics[3].loads = {"ppm"}
      /\ Topics[4].group = "bmp"  /\ Topics[4].loads = {"pres_hi", "pres_lo"}
      /\ Topics[5].group = "bmp"  /\ Topics[5].loads = {"temp_hi", "temp_lo"}
  BY DEF Topics
<1>3. DOMAIN Topics = 1 .. 5 /\ Len(Topics) = 5
  BY DEF Topics
<1>4. \A t \in 1 .. 5 : Topics[t].group \in Groups
  BY <1>2 DEF Groups
<1>5. ASSUME NEW t \in 1 .. 5, NEW w \in Topics[t].loads
      PROVE  \E i \in DOMAIN Stores[Topics[t].group] :
               w = Stores[Topics[t].group][i]
  <2>1. CASE t = 1
    BY <2>1, <1>1, <1>2
  <2>2. CASE t = 2
    BY <2>2, <1>1, <1>2
  <2>3. CASE t = 3
    BY <2>3, <1>1, <1>2
  <2>4. CASE t = 4
    BY <2>4, <1>1, <1>2
  <2>5. CASE t = 5
    BY <2>5, <1>1, <1>2
  <2> QED BY <2>1, <2>2, <2>3, <2>4, <2>5
<1> QED BY <1>3, <1>4, <1>5

\* No word belongs to two groups or is stored twice.
LEMMA WordsDistinct ==
  ASSUME NEW g \in Groups, NEW h \in Groups,
         NEW i \in DOMAIN Stores[g], NEW j \in DOMAIN Stores[h],
         Stores[g][i] = Stores[h][j]
  PROVE  g = h /\ i = j
<1>1. /\ Stores["dust"] = <<"pm100", "pm25">>
      /\ Stores["co2"] = <<"ppm">>
      /\ Stores["bmp"] = <<"temp_hi", "temp_lo", "pres_hi", "pres_lo">>
  BY DEF Stores, Groups
<1> QED BY <1>1 DEF Groups
-----------------------------------------------------------------------------
(* Types.                                                                  *)

LEMMA InitType == Init => TypeOK
BY TopicsType, FailsAssumption, BoundsAssumption
   DEF Init, app_main, TypeOK, TaskSteps, SendSteps, Versions

LEMMA SensorType ==
  ASSUME TypeOK, NEW g \in Groups, sensor_task(g)
  PROVE  TypeOK'
<1> USE FailsAssumption, BoundsAssumption
        DEF TypeOK, TaskSteps, SendSteps, Versions, sendVars
<1>1. CASE TakeSample(g)
  BY <1>1 DEF TakeSample
<1>2. CASE TakeLock(g)
  BY <1>2 DEF TakeLock, xSemaphoreTake
<1>3. CASE RetryLock(g)
  BY <1>3 DEF RetryLock, TimeOut
<1>4. CASE GiveUpLock(g)
  <2>1. Restart /\ TimeOut(g)
    BY <1>4 DEF GiveUpLock
  <2> QED BY <2>1, TopicsType DEF Restart, TimeOut
<1>5. CASE StoreWord(g)
  <2>1. stored[g] + 1 < Len(Stores[g]) => stored[g] + 1 \in 0 .. 3
    <3>1. Len(Stores[g]) \in 1 .. 4
      BY StoresType
    <3>2. stored[g] \in 0 .. 3
      OBVIOUS
    <3>3. \A n \in 1 .. 4, k \in 0 .. 3 : k + 1 < n => k + 1 \in 0 .. 3
      OBVIOUS
    <3> QED BY <3>1, <3>2, <3>3
  <2> QED BY <1>5, <2>1 DEF StoreWord
<1>6. CASE GiveLock(g)
  BY <1>6 DEF GiveLock, xSemaphoreGive
<1> QED BY <1>1, <1>2, <1>3, <1>4, <1>5, <1>6 DEF sensor_task

LEMMA SendType ==
  ASSUME TypeOK, sendMQTTupdate
  PROVE  TypeOK'
<1> USE FailsAssumption, BoundsAssumption, TopicsType
        DEF TypeOK, TaskSteps, SendSteps, Versions, taskVars
<1>1. Topics[topic].loads \subseteq Words /\ Group \in Groups
  <2>1. topic \in 1 .. 5
    OBVIOUS
  <2>2. Group \in Groups
    BY <2>1 DEF Group
  <2>3. ASSUME NEW w \in Topics[topic].loads
        PROVE  w \in Words
    <3>1. PICK i \in DOMAIN Stores[Group] : w = Stores[Group][i]
      BY <2>1 DEF Group
    <3> QED BY <2>2, <3>1, StoresType
  <2> QED BY <2>2, <2>3
<1>2. CASE BeginUpdate
  BY <1>2 DEF BeginUpdate
<1>3. CASE SendTake
  BY <1>1, <1>3 DEF SendTake, StartLoading, xSemaphoreTake
<1>4. CASE SendTakeTimesOut
  <2>1. StartLoading /\ TimeOut(Group) /\ served' = FALSE /\ lock' = lock
    BY <1>4 DEF SendTakeTimesOut
  <2>2. timeouts' \in 0 .. MaxTimeouts
    BY <2>1 DEF TimeOut
  <2>3. served' \in BOOLEAN
    BY <2>1
  <2> QED BY <1>1, <2>1, <2>2, <2>3 DEF StartLoading
<1>5. CASE LoadWord
  <2>1. PICK w \in unread : /\ value' = value \cup {mem[w]}
                            /\ unread' = unread \ {w}
                            /\ send_pc' \in {"give", "load"}
    BY <1>5 DEF LoadWord
  <2>2. mem[w] \in Versions
    OBVIOUS
  <2> QED BY <1>5, <2>1, <2>2 DEF LoadWord
<1>6. CASE SendGive
  BY <1>1, <1>6 DEF SendGive, xSemaphoreGive
<1>7. CASE Publish
  BY <1>7 DEF Publish
<1> QED BY <1>2, <1>3, <1>4, <1>5, <1>6, <1>7 DEF sendMQTTupdate

LEMMA NextType == TypeOK /\ [Next]_vars => TypeOK'
<1> SUFFICES ASSUME TypeOK, [Next]_vars PROVE TypeOK'
  OBVIOUS
<1>1. CASE \E g \in Groups : sensor_task(g)
  BY <1>1, SensorType
<1>2. CASE sendMQTTupdate
  BY <1>2, SendType
<1>3. CASE Abort
  BY <1>3, TopicsType, FailsAssumption, BoundsAssumption
     DEF Abort, Restart, TypeOK, TaskSteps, SendSteps, Versions
<1>4. CASE UNCHANGED vars
  BY <1>4 DEF vars, taskVars, sendVars, TypeOK
<1> QED BY <1>1, <1>2, <1>3, <1>4 DEF Next

\* TypeOK: every counter stays within its bound, fails_count within MAX_FAILS.
THEOREM TypeCorrect == Spec => []TypeOK
BY InitType, NextType, PTL DEF Spec
-----------------------------------------------------------------------------
(* The semaphores.                                                         *)

LEMMA InitSemaphores == Init => SemaphoreNotLost /\ Exclusive
BY TopicsType
   DEF Init, app_main, SemaphoreNotLost, Exclusive, Storing, Loading

\* A reboot leaves all semaphores available and nobody at the words.
LEMMA RestartSemaphores ==
  ASSUME Restart
  PROVE  SemaphoreNotLost' /\ Exclusive'
BY DEF Restart, SemaphoreNotLost, Exclusive, Storing, Loading

LEMMA NextNotLost ==
  ASSUME TypeOK, SemaphoreNotLost, [Next]_vars
  PROVE  SemaphoreNotLost'
<1> USE DEF SemaphoreNotLost, Storing, Loading, TypeOK
<1>1. ASSUME NEW g \in Groups, sensor_task(g)
      PROVE  SemaphoreNotLost'
  <2> USE DEF sendVars, Group
  <2>1. CASE TakeSample(g)
    BY <2>1 DEF TakeSample
  <2>2. CASE TakeLock(g)
    BY <2>2 DEF TakeLock, xSemaphoreTake
  <2>3. CASE RetryLock(g)
    BY <2>3 DEF RetryLock
  <2>4. CASE GiveUpLock(g)
    BY <2>4, RestartSemaphores DEF GiveUpLock
  <2>5. CASE StoreWord(g)
    BY <2>5 DEF StoreWord
  <2>6. CASE GiveLock(g)
    BY <2>6 DEF GiveLock, xSemaphoreGive
  <2> QED BY <1>1, <2>1, <2>2, <2>3, <2>4, <2>5, <2>6 DEF sensor_task
<1>2. CASE sendMQTTupdate
  <2> USE DEF taskVars, Group
  <2>1. CASE BeginUpdate
    BY <2>1 DEF BeginUpdate
  <2>2. CASE SendTake
    BY <2>2 DEF SendTake, StartLoading, xSemaphoreTake
  <2>3. CASE SendTakeTimesOut
    BY <2>3 DEF SendTakeTimesOut, StartLoading
  <2>4. CASE LoadWord
    BY <2>4 DEF LoadWord
  <2>5. CASE SendGive
    BY <2>5 DEF SendGive, xSemaphoreGive
  <2>6. CASE Publish
    BY <2>6 DEF Publish
  <2> QED BY <1>2, <2>1, <2>2, <2>3, <2>4, <2>5, <2>6 DEF sendMQTTupdate
<1>3. CASE Abort
  BY <1>3, RestartSemaphores DEF Abort
<1>4. CASE UNCHANGED vars
  BY <1>4 DEF vars, taskVars, sendVars, Group
<1> QED BY <1>1, <1>2, <1>3, <1>4 DEF Next

\* SemaphoreNotLost: whatever takes time out, and although sendMQTTupdate gives
\* what it may not have taken, no group's semaphore stays unavailable.
THEOREM SemaphoreSafe == Spec => []SemaphoreNotLost
<1>1. Init => TypeOK /\ SemaphoreNotLost
  BY InitType, InitSemaphores
<1>2. TypeOK /\ SemaphoreNotLost /\ [Next]_vars => (TypeOK /\ SemaphoreNotLost)'
  BY NextType, NextNotLost
<1> QED BY <1>1, <1>2, PTL DEF Spec

\* While the sender is served none of its waits times out; it is served again
\* after a restart only.
LEMMA ServedStep ==
  ASSUME TypeOK, [Next]_vars, served'
  PROVE  Restart \/ (served /\ [Next /\ ~SendTakeTimesOut]_vars)
<1>1. ~SendTakeTimesOut
  BY DEF SendTakeTimesOut
<1>2. CASE \E g \in Groups : sensor_task(g)
  <2>1. PICK g \in Groups : sensor_task(g)
    BY <1>2
  <2>2. Restart \/ served' = served
    BY <2>1 DEF sensor_task, TakeSample, TakeLock, RetryLock, GiveUpLock, StoreWord,
                GiveLock
  <2> QED BY <1>1, <1>2, <2>2 DEF Next
<1>3. CASE sendMQTTupdate
  <2>1. served' = served
    BY <1>1, <1>3 DEF sendMQTTupdate, BeginUpdate, SendTake, LoadWord, SendGive,
                      Publish
  <2> QED BY <1>1, <1>3, <2>1 DEF Next
<1>4. CASE Abort
  BY <1>4 DEF Abort
<1>5. CASE UNCHANGED vars
  BY <1>5 DEF vars
<1> QED BY <1>2, <1>3, <1>4, <1>5 DEF Next

LEMMA NextExclusion ==
  ASSUME TypeOK, Exclusive, [Next /\ ~SendTakeTimesOut]_vars
  PROVE  Exclusive'
<1> USE DEF Exclusive, Storing, Loading, TypeOK
<1>1. ASSUME NEW g \in Groups, sensor_task(g)
      PROVE  Exclusive'
  <2> USE DEF sendVars, Group
  <2>1. CASE TakeSample(g)
    BY <2>1 DEF TakeSample
  <2>2. CASE TakeLock(g)
    BY <2>2 DEF TakeLock, xSemaphoreTake
  <2>3. CASE RetryLock(g)
    BY <2>3 DEF RetryLock
  <2>4. CASE GiveUpLock(g)
    BY <2>4, RestartSemaphores DEF GiveUpLock
  <2>5. CASE StoreWord(g)
    BY <2>5 DEF StoreWord
  <2>6. CASE GiveLock(g)
    BY <2>6 DEF GiveLock, xSemaphoreGive
  <2> QED BY <1>1, <2>1, <2>2, <2>3, <2>4, <2>5, <2>6 DEF sensor_task
<1>2. CASE sendMQTTupdate /\ ~SendTakeTimesOut
  <2> USE DEF taskVars, Group
  <2>0. Topics[topic].group \in Groups
    BY TopicsType
  <2>1. CASE BeginUpdate
    BY <2>1 DEF BeginUpdate
  <2>2. CASE SendTake
    BY <2>0, <2>2 DEF SendTake, StartLoading, xSemaphoreTake
  <2>4. CASE LoadWord
    BY <2>4 DEF LoadWord
  <2>5. CASE SendGive
    BY <2>0, <2>5 DEF SendGive, xSemaphoreGive
  <2>6. CASE Publish
    BY <2>6 DEF Publish
  <2> QED BY <1>2, <2>1, <2>2, <2>4, <2>5, <2>6 DEF sendMQTTupdate
<1>3. CASE Abort
  BY <1>3, RestartSemaphores DEF Abort
<1>4. CASE UNCHANGED vars
  BY <1>4 DEF vars, taskVars, sendVars, Group
<1> QED BY <1>1, <1>2, <1>3, <1>4 DEF Next

\* MutualExclusion: while the sender's waits are served, and however often a
\* sensor task's are not, a sensor task and sendMQTTupdate are never at a
\* group's words together.
THEOREM ExclusionHolds == Spec => []MutualExclusion
<1>1. Init => TypeOK /\ MutualExclusion
  BY InitType, InitSemaphores DEF MutualExclusion
<1>2. TypeOK /\ MutualExclusion /\ [Next]_vars => (TypeOK /\ MutualExclusion)'
  BY NextType, ServedStep, RestartSemaphores, NextExclusion DEF MutualExclusion
<1> QED BY <1>1, <1>2, PTL DEF Spec
-----------------------------------------------------------------------------
(* Whole samples.  The words of a group are those of its last whole sample *)
(* except for the part of the next one its task has stored, and the sender *)
(* only loads while there is no such part.                                 *)

\* What a word of g holds: the new sample once it has been stored.
InMemory(g, i) ==
  IF task_pc[g] = "give" \/ (task_pc[g] = "store" /\ i <= stored[g])
    THEN sample[g] ELSE Latest(g)

MemoryInv ==
  \A g \in Groups :
    /\ task_pc[g] # "sample" => sample[g] > 0
    /\ task_pc[g] = "store" => stored[g] < Len(Stores[g])
    /\ \A i \in DOMAIN Stores[g] : mem[Stores[g][i]] = InMemory(g, i)

Whole(S) == \E n \in Versions : S \subseteq {n}

SenderInv ==
  /\ send_pc = "load" => /\ value \subseteq {Latest(Group)}
                         /\ unread \subseteq Topics[topic].loads
  /\ send_pc \in {"give", "publish"} => value # {}
  /\ Whole(value)
  /\ \A t \in DOMAIN Topics : Whole(published[t])

WholeInv == TypeOK /\ Exclusive /\ MemoryInv /\ SenderInv

LEMMA InitWhole == Init => WholeInv
<1> SUFFICES ASSUME Init PROVE WholeInv
  OBVIOUS
<1>1. TypeOK /\ Exclusive
  BY InitType, InitSemaphores
<1>2. MemoryInv
  <2>1. ASSUME NEW g \in Groups, NEW i \in DOMAIN Stores[g]
        PROVE  mem[Stores[g][i]] = InMemory(g, i)
    <3>1. Stores[g][i] \in Words
      BY StoresType
    <3> QED BY <3>1 DEF Init, app_main, InMemory, Latest
  <2> QED BY <2>1 DEF Init, app_main, MemoryInv
<1>3. SenderInv
  BY BoundsAssumption DEF Init, app_main, SenderInv, Whole, Versions
<1> QED BY <1>1, <1>2, <1>3 DEF WholeInv

\* A sensor task keeps its group's words as MemoryInv says.
LEMMA SensorMemory ==
  ASSUME WholeInv, NEW g \in Groups, sensor_task(g), ~GiveUpLock(g)
  PROVE  MemoryInv'
<1> SUFFICES ASSUME NEW h \in Groups
             PROVE  /\ (task_pc[h] # "sample" => sample[h] > 0)'
                    /\ (task_pc[h] = "store" => stored[h] < Len(Stores[h]))'
                    /\ \A i \in DOMAIN Stores[h] :
                         (mem[Stores[h][i]] = InMemory(h, i))'
  BY DEF MemoryInv
<1> USE DEF WholeInv, TypeOK
<1>0. /\ task_pc[h] # "sample" => sample[h] > 0
      /\ task_pc[h] = "store" => stored[h] < Len(Stores[h])
      /\ \A i \in DOMAIN Stores[h] : mem[Stores[h][i]] = InMemory(h, i)
      /\ sample[h] \in Nat /\ stored[h] \in Nat /\ Len(Stores[h]) \in 1 .. 4
      /\ DOMAIN Stores[h] = 1 .. Len(Stores[h])
      /\ task_pc[h] \in TaskSteps
  <2>1. sample[h] \in Nat /\ stored[h] \in Nat /\ task_pc[h] \in TaskSteps
    BY BoundsAssumption DEF Versions
  <2>2. Len(Stores[h]) \in 1 .. 4 /\ DOMAIN Stores[h] = 1 .. Len(Stores[h])
    BY StoresType
  <2>3. /\ task_pc[h] # "sample" => sample[h] > 0
        /\ task_pc[h] = "store" => stored[h] < Len(Stores[h])
        /\ \A i \in DOMAIN Stores[h] : mem[Stores[h][i]] = InMemory(h, i)
    BY DEF MemoryInv
  <2> QED BY <2>1, <2>2, <2>3
<1> USE DEF InMemory, Latest, TaskSteps
<1>1. CASE TakeSample(g)
  BY <1>0, <1>1 DEF TakeSample
<1>2. CASE TakeLock(g)
  <2>1. /\ task_pc[g] = "take" /\ mem' = mem /\ sample' = sample
        /\ task_pc' = [task_pc EXCEPT ![g] = "store"]
        /\ stored' = [stored EXCEPT ![g] = 0]
    BY <1>2 DEF TakeLock
  <2>2. CASE h # g
    <3>1. task_pc'[h] = task_pc[h] /\ stored'[h] = stored[h]
      BY <2>1, <2>2
    <3> QED BY <1>0, <2>1, <3>1
  <2>3. CASE h = g
    <3>1. task_pc'[h] = "store" /\ stored'[h] = 0 /\ task_pc[h] = "take"
      BY <2>1, <2>3
    <3>2. \A i \in DOMAIN Stores[h] : i \in Nat /\ ~(i <= 0)
      <4> DEFINE L == Len(Stores[h])
      <4>1. L \in Nat /\ DOMAIN Stores[h] = 1 .. L
        BY <1>0
      <4>2. \A i \in 1 .. L : i \in Nat /\ ~(i <= 0)
        <5> HIDE DEF L
        <5> QED BY <4>1
      <4> QED BY <4>1, <4>2
    <3>3. 0 < Len(Stores[h]) /\ sample[h] > 0
      <4>1. Len(Stores[h]) \in 1 .. 4
        BY <1>0
      <4>2. \A n \in 1 .. 4 : 0 < n
        OBVIOUS
      <4>3. sample[h] > 0
        BY <1>0, <3>1
      <4> QED BY <4>1, <4>2, <4>3
    <3>4. ASSUME NEW i \in DOMAIN Stores[h]
          PROVE  mem'[Stores[h][i]] = InMemory(h, i)'
      <4>1. mem[Stores[h][i]] = sample[h] - 1
        <5>1. mem[Stores[h][i]] = InMemory(h, i)
          BY <1>0
        <5> QED BY <3>1, <5>1
      <4>2. InMemory(h, i)' = sample[h] - 1
        BY <2>1, <3>1, <3>2
      <4> QED BY <2>1, <4>1, <4>2
    <3> QED BY <2>1, <3>1, <3>3, <3>4
  <2> QED BY <2>2, <2>3
<1>3. CASE RetryLock(g)
  BY <1>0, <1>3 DEF RetryLock
<1>4. CASE StoreWord(g)
  <2>1. /\ task_pc[g] = "store" /\ sample' = sample
        /\ mem' = [mem EXCEPT ![Stores[g][stored[g] + 1]] = sample[g]]
    BY <1>4 DEF StoreWord
  <2>2. CASE h # g
    <3>1. stored[g] + 1 \in DOMAIN Stores[g]
      <4>1. stored[g] \in Nat /\ stored[g] < Len(Stores[g])
        <5>1. stored[g] \in 0 .. 3
          OBVIOUS
        <5>2. stored[g] < Len(Stores[g])
          BY <2>1 DEF MemoryInv
        <5> QED BY <5>1, <5>2
      <4>2. Len(Stores[g]) \in 1 .. 4 /\ DOMAIN Stores[g] = 1 .. Len(Stores[g])
        BY StoresType
      <4> QED BY <4>1, <4>2
    <3>2. \A i \in DOMAIN Stores[h] : Stores[h][i] # Stores[g][stored[g] + 1]
      BY <2>2, <3>1, WordsDistinct
    <3>3. \A i \in DOMAIN Stores[h] : Stores[h][i] \in Words
      BY StoresType
    <3>4. \A i \in DOMAIN Stores[h] : mem'[Stores[h][i]] = mem[Stores[h][i]]
      BY <2>1, <3>2, <3>3
    <3>5. task_pc'[h] = task_pc[h] /\ stored'[h] = stored[h]
      BY <1>4, <2>2 DEF StoreWord
    <3> QED BY <1>0, <2>1, <3>4, <3>5
  <2>3. CASE h = g
    <3>1. stored[h] + 1 \in DOMAIN Stores[h]
      BY <1>0, <2>1, <2>3
    <3>2. \A i \in DOMAIN Stores[h] :
            /\ Stores[h][i] \in Words
            /\ i # stored[h] + 1 => Stores[h][i] # Stores[h][stored[h] + 1]
      BY <3>1, StoresType, WordsDistinct
    <3>3. \A i \in DOMAIN Stores[h] :
            mem'[Stores[h][i]] = IF i = stored[h] + 1 THEN sample[h]
                                                      ELSE mem[Stores[h][i]]
      BY <2>1, <2>3, <3>2
    <3>4. CASE stored[h] + 1 < Len(Stores[h])
      <4>1. stored'[h] = stored[h] + 1 /\ task_pc'[h] = "store"
        BY <1>4, <2>1, <2>3, <3>4 DEF StoreWord
      <4> QED BY <1>0, <2>1, <2>3, <3>3, <3>4, <4>1
    <3>5. CASE ~(stored[h] + 1 < Len(Stores[h]))
      <4>1. task_pc'[h] = "give"
        BY <1>4, <2>3, <3>5 DEF StoreWord
      <4> QED BY <1>0, <2>1, <2>3, <3>3, <3>5, <4>1
    <3> QED BY <3>4, <3>5
  <2> QED BY <2>2, <2>3
<1>5. CASE GiveLock(g)
  BY <1>0, <1>5 DEF GiveLock
<1> QED BY <1>1, <1>2, <1>3, <1>4, <1>5 DEF sensor_task

\* What app_main leaves satisfies the invariant after a restart as well.
LEMMA RestartWhole == Restart => (MemoryInv /\ SenderInv)'
<1> SUFFICES ASSUME Restart PROVE (MemoryInv /\ SenderInv)'
  OBVIOUS
<1>1. ASSUME NEW g \in Groups, NEW i \in DOMAIN Stores[g]
      PROVE  (mem[Stores[g][i]] = InMemory(g, i))'
  <2>1. Stores[g][i] \in Words
    BY StoresType
  <2> QED BY <2>1 DEF Restart, InMemory, Latest
<1>2. MemoryInv'
  BY <1>1 DEF Restart, MemoryInv
<1>3. SenderInv'
  BY BoundsAssumption DEF Restart, SenderInv, Whole, Versions
<1> QED BY <1>2, <1>3

\* Only a give moves the last whole sample of a group, by one.
LEMMA LatestMoves ==
  ASSUME TypeOK, NEW g \in Groups, sensor_task(g), ~GiveUpLock(g), NEW h \in Groups
  PROVE  /\ (h # g \/ ~GiveLock(g)) => Latest(h)' = Latest(h)
         /\ (h = g /\ GiveLock(g)) => Latest(h)' = Latest(h) + 1
<1> USE DEF TypeOK, Latest, TaskSteps
<1>0. sample[h] \in Nat /\ task_pc[h] \in TaskSteps
  BY BoundsAssumption DEF Versions
<1>1. CASE TakeSample(g)
  BY <1>0, <1>1 DEF TakeSample, GiveLock
<1>2. CASE TakeLock(g)
  BY <1>0, <1>2 DEF TakeLock, GiveLock
<1>3. CASE RetryLock(g)
  BY <1>0, <1>3 DEF RetryLock, GiveLock
<1>4. CASE StoreWord(g)
  BY <1>0, <1>4 DEF StoreWord, GiveLock
<1>5. CASE GiveLock(g)
  BY <1>0, <1>5 DEF GiveLock
<1> QED BY <1>1, <1>2, <1>3, <1>4, <1>5 DEF sensor_task

\* A sensor task does not touch what the sender has loaded, nor the group the
\* sender is loading.
LEMMA SensorSender ==
  ASSUME WholeInv, NEW g \in Groups, sensor_task(g), ~GiveUpLock(g)
  PROVE  /\ SenderInv'
         /\ UNCHANGED sendVars
         /\ send_pc = "load" => Latest(Group)' = Latest(Group)
<1> USE DEF WholeInv
<1>1. UNCHANGED sendVars
  BY DEF sensor_task, TakeSample, TakeLock, RetryLock, StoreWord, GiveLock
<1>2. Group \in Groups /\ Group' = Group
  BY <1>1, TopicsType DEF TypeOK, Group, sendVars
<1>3. send_pc = "load" => Latest(Group)' = Latest(Group)
  <2> SUFFICES ASSUME send_pc = "load" PROVE Latest(Group)' = Latest(Group)
    OBVIOUS
  <2> DEFINE h == Group
  <2>1. h \in Groups /\ h' = h
    BY <1>2
  <2>2. ~(h = g /\ GiveLock(g))
    BY <2>1 DEF Exclusive, Storing, Loading, GiveLock
  <2>3. \A k \in Groups : (k # g \/ ~GiveLock(g)) => Latest(k)' = Latest(k)
    BY LatestMoves
  <2> QED BY <2>1, <2>2, <2>3 DEF Latest
<1>4. SenderInv'
  BY <1>1, <1>3 DEF SenderInv, sendVars
<1> QED BY <1>1, <1>3, <1>4

\* What the sender loads is the last whole sample of the group it has locked.
LEMMA LoadedWord ==
  ASSUME WholeInv, send_pc = "load", NEW w \in unread
  PROVE  mem[w] = Latest(Group) /\ mem[w] \in Versions
<1> USE DEF WholeInv
<1>1. topic \in 1 .. 5
  BY TopicsType DEF TypeOK
<1> DEFINE g == Topics[topic].group
<1>2. g \in Groups /\ Group = g
  BY <1>1, TopicsType DEF Group
<1>3. w \in Topics[topic].loads
  BY DEF SenderInv
<1>4. PICK i \in DOMAIN Stores[g] : w = Stores[g][i]
  BY <1>1, <1>3, TopicsType
<1>5. ~Storing(g)
  BY <1>2 DEF Exclusive, Loading
<1>6. w \in Words
  BY <1>2, <1>4, StoresType
<1>7. mem[w] = InMemory(g, i)
  <2> HIDE DEF g
  <2> QED BY <1>2, <1>4 DEF MemoryInv
<1>8. InMemory(g, i) = Latest(g)
  BY <1>5 DEF InMemory, Storing
<1>9. Latest(Group) = Latest(g)
  BY <1>2
<1> QED BY <1>6, <1>7, <1>8, <1>9 DEF TypeOK

\* The sender's own steps keep what it has loaded and published whole.
LEMMA SendSender ==
  ASSUME WholeInv, sendMQTTupdate, ~SendTakeTimesOut
  PROVE  SenderInv' /\ UNCHANGED <<mem, taskVars>>
<1> USE DEF WholeInv
<1>1. UNCHANGED <<mem, taskVars>>
  BY DEF sendMQTTupdate, BeginUpdate, SendTake, StartLoading, LoadWord, SendGive,
         Publish
<1> SUFFICES SenderInv'
  BY <1>1
<1>2. CASE BeginUpdate
  BY <1>2 DEF BeginUpdate, SenderInv
<1>3. CASE SendTake
  <2>1. /\ value' = {} /\ published' = published /\ topic' = topic
        /\ unread' = Topics[topic].loads
    BY <1>3 DEF SendTake, StartLoading
  <2>2. Whole(value)'
    BY <2>1, BoundsAssumption DEF Whole, Versions
  <2>3. (\A t \in DOMAIN Topics : Whole(published[t]))'
    BY <2>1 DEF SenderInv, Whole
  <2>4. (value \subseteq {Latest(Group)} /\ unread \subseteq Topics[topic].loads)'
    BY <2>1
  <2>5. send_pc' = "load"
    BY <1>3 DEF SendTake, StartLoading
  <2> QED BY <2>2, <2>3, <2>4, <2>5 DEF SenderInv
<1>5. CASE LoadWord
  <2>1. PICK w \in unread :
          /\ send_pc = "load"
          /\ value' = value \cup {mem[w]}
          /\ unread' = unread \ {w}
          /\ topic' = topic /\ published' = published
    BY <1>5 DEF LoadWord
  <2>2. mem[w] = Latest(Group) /\ mem[w] \in Versions
    BY <2>1, LoadedWord
  <2>3. value \subseteq {Latest(Group)} /\ unread \subseteq Topics[topic].loads
    BY <2>1 DEF SenderInv
  <2>4. value' \subseteq {mem[w]}
    BY <2>1, <2>2, <2>3
  <2>5. Whole(value)'
    BY <2>2, <2>4 DEF Whole
  <2>6. Latest(Group)' = Latest(Group)
    BY <1>1, <2>1 DEF Latest, Group, taskVars
  <2>7. (\A t \in DOMAIN Topics : Whole(published[t]))'
    BY <2>1 DEF SenderInv, Whole
  <2>8. (value \subseteq {Latest(Group)} /\ unread \subseteq Topics[topic].loads)'
    BY <2>1, <2>2, <2>3, <2>4, <2>6
  <2>9. value' # {}
    BY <2>1
  <2> QED BY <2>5, <2>7, <2>8, <2>9 DEF SenderInv
<1>6. CASE SendGive
  BY <1>6 DEF SendGive, SenderInv, Whole
<1>7. CASE Publish
  <2>1. /\ send_pc' \in {"take", "idle"} /\ value' = value
        /\ published' = [published EXCEPT ![topic] = value]
    BY <1>7 DEF Publish
  <2>2. (\A t \in DOMAIN Topics : Whole(published[t]))'
    BY <2>1 DEF SenderInv, TypeOK, Whole
  <2>3. Whole(value)'
    BY <2>1 DEF SenderInv, Whole
  <2> QED BY <2>1, <2>2, <2>3 DEF SenderInv
<1> QED BY <1>1, <1>2, <1>3, <1>5, <1>6, <1>7 DEF sendMQTTupdate

LEMMA NextWhole ==
  ASSUME WholeInv, [Next /\ ~SendTakeTimesOut]_vars
  PROVE  WholeInv'
<1>1. (TypeOK /\ Exclusive)'
  BY NextType, NextExclusion DEF WholeInv
<1>2. ASSUME NEW g \in Groups, sensor_task(g) PROVE WholeInv'
  <2>1. CASE GiveUpLock(g)
    BY <1>1, <2>1, RestartWhole DEF GiveUpLock, WholeInv
  <2>2. CASE ~GiveUpLock(g)
    BY <1>1, <1>2, <2>2, SensorMemory, SensorSender DEF WholeInv
  <2> QED BY <2>1, <2>2
<1>3. CASE sendMQTTupdate /\ ~SendTakeTimesOut
  <2>1. SenderInv' /\ UNCHANGED <<mem, taskVars>>
    BY <1>3, SendSender DEF WholeInv
  <2>2. MemoryInv'
    BY <2>1 DEF WholeInv, MemoryInv, InMemory, Latest, taskVars
  <2> QED BY <1>1, <2>1, <2>2 DEF WholeInv
<1>4. CASE Abort
  BY <1>1, <1>4, RestartWhole DEF Abort, WholeInv
<1>5. CASE UNCHANGED vars
  <2>1. MemoryInv'
    BY <1>5 DEF WholeInv, MemoryInv, InMemory, Latest, vars, taskVars
  <2>2. SenderInv'
    BY <1>5 DEF WholeInv, SenderInv, Whole, Latest, Group, vars, taskVars, sendVars
  <2> QED BY <1>1, <2>1, <2>2 DEF WholeInv
<1> QED BY <1>2, <1>3, <1>4, <1>5 DEF Next

ServedInv == TypeOK /\ (served => WholeInv)

LEMMA NextServed ==
  ASSUME ServedInv, [Next]_vars
  PROVE  ServedInv'
<1>1. TypeOK'
  BY NextType DEF ServedInv
<1>2. ASSUME served' PROVE WholeInv'
  <2>1. CASE Restart
    BY <1>1, <2>1, RestartSemaphores, RestartWhole DEF WholeInv
  <2>2. CASE served /\ [Next /\ ~SendTakeTimesOut]_vars
    BY <2>2, NextWhole DEF ServedInv
  <2> QED BY <1>2, <2>1, <2>2, ServedStep DEF ServedInv
<1> QED BY <1>1, <1>2 DEF ServedInv

\* PublishedWhole: while the sender's waits are served, a published number is
\* printed from words of one sample, it is never a torn double.
THEOREM PublishedSafe == Spec => []PublishedWhole
<1>1. Init => ServedInv
  BY InitWhole DEF ServedInv, WholeInv
<1>2. ServedInv /\ [Next]_vars => ServedInv'
  BY NextServed
<1>3. ServedInv => PublishedWhole
  <2> SUFFICES ASSUME WholeInv, NEW t \in DOMAIN Topics
               PROVE  Cardinality(published[t]) <= 1
    BY DEF PublishedWhole, ServedInv
  <2>1. PICK n \in Versions : published[t] \subseteq {n}
    BY DEF WholeInv, SenderInv, Whole
  <2>2. IsFiniteSet({n}) /\ Cardinality({n}) = 1
    BY FS_Singleton
  <2>3. Cardinality(published[t]) \in Nat /\ Cardinality(published[t]) <= 1
    BY <2>1, <2>2, FS_Subset, FS_CardinalityType
  <2> QED BY <2>3
<1> QED BY <1>1, <1>2, <1>3, PTL DEF Spec
-----------------------------------------------------------------------------
(* The refinement: a give is the register's update, the sender's take is   *)
(* its look at the register, and every other step of a sensor task or of   *)
(* the loading leaves the abstract state alone.                            *)

Register == [g \in Groups |-> Latest(g)]
Source   == [t \in DOMAIN Topics |-> Topics[t].group]

\* The abstract state while the sender is served.
Held == INSTANCE PublishedRegisters WITH
  Sensors   <- Groups,
  TopicIds  <- DOMAIN Topics,
  Source    <- Source,
  register  <- Register,
  looked    <- LookedAt,
  announced <- published

AbstractStep == [Held!Next]_(Held!registerVars)

LEMMA InitRefines == Init => Held!Init
<1> SUFFICES ASSUME Init PROVE Held!Init
  OBVIOUS
<1>1. Register = [g \in Groups |-> 0]
  BY DEF Register, Init, app_main, Latest
<1>2. LookedAt = {} /\ published = [t \in DOMAIN Topics |-> {}]
  BY DEF LookedAt, Init, app_main
<1> QED BY <1>1, <1>2 DEF Held!Init, Register

LEMMA RestartRefines == Restart => Held!Restart
<1> SUFFICES ASSUME Restart PROVE Held!Restart
  OBVIOUS
<1>1. Register' = [g \in Groups |-> 0]
  BY DEF Register, Restart, Latest
<1>2. LookedAt' = {} /\ published' = [t \in DOMAIN Topics |-> {}]
  BY DEF LookedAt, Restart
<1> QED
  BY <1>1, <1>2 DEF Held!Restart, Held!Init, Register

\* A give updates the group's register; a sensor task's other steps stutter.
LEMMA SensorRefines ==
  ASSUME WholeInv, NEW g \in Groups, sensor_task(g), ~GiveUpLock(g)
  PROVE  AbstractStep
<1>1. /\ UNCHANGED sendVars
      /\ send_pc = "load" => Latest(Group)' = Latest(Group)
  BY SensorSender
<1>2. LookedAt' = LookedAt /\ published' = published
  BY <1>1 DEF LookedAt, sendVars
<1>3. \A h \in Groups :
        /\ (h # g \/ ~GiveLock(g)) => Latest(h)' = Latest(h)
        /\ (h = g /\ GiveLock(g)) => Latest(h)' = Latest(h) + 1
  BY LatestMoves DEF WholeInv
<1>4. CASE GiveLock(g)
  <2>1. Register' = [Register EXCEPT ![g] = @ + 1]
    BY <1>3, <1>4 DEF Register
  <2>2. Held!Update(g)
    BY <1>2, <2>1 DEF Held!Update, Register
  <2> QED BY <2>2 DEF AbstractStep, Held!Next
<1>5. CASE ~GiveLock(g)
  <2>1. Register' = Register
    BY <1>3, <1>5 DEF Register
  <2> QED
    BY <1>2, <2>1 DEF AbstractStep, Held!registerVars, Register
<1> QED BY <1>4, <1>5

\* The sender's take looks at the register of the topic's group, its publish
\* announces what it has looked at, and its other steps stutter.
LEMMA SendRefines ==
  ASSUME WholeInv, sendMQTTupdate, ~SendTakeTimesOut
  PROVE  AbstractStep
<1>1. UNCHANGED taskVars
  BY SendSender
<1>2. Register' = Register
  BY <1>1 DEF Register, Latest, taskVars
<1>3. topic \in DOMAIN Topics /\ Group \in Groups
  BY TopicsType DEF WholeInv, TypeOK, Group
<1>4. ASSUME LookedAt' = LookedAt, published' = published
      PROVE  AbstractStep
  BY <1>2, <1>4 DEF AbstractStep, Held!registerVars, Register
<1>5. CASE BeginUpdate
  <2>1. LookedAt = {} /\ LookedAt' = {} /\ published' = published
    BY <1>5 DEF BeginUpdate, LookedAt
  <2> QED BY <1>4, <2>1
<1>6. CASE SendTake
  <2>1. /\ send_pc = "take" /\ send_pc' = "load"
        /\ published' = published /\ topic' = topic
    BY <1>6 DEF SendTake, StartLoading
  <2>2. Latest(Group)' = Register[Group] /\ Source[topic] = Group
    BY <1>1, <1>3, <2>1 DEF Latest, Group, taskVars, Register, Source
  <2>3. LookedAt = {}
    BY <2>1 DEF LookedAt
  <2>4. LookedAt' = {[topic |-> topic, sample |-> Register[Source[topic]]]}
    BY <2>1, <2>2 DEF LookedAt
  <2>5. Held!Look(topic)
    BY <1>2, <2>1, <2>3, <2>4 DEF Held!Look, Register, Source
  <2> QED BY <1>3, <2>5 DEF AbstractStep, Held!Next
<1>8. CASE LoadWord
  <2>1. PICK w \in unread :
          /\ send_pc = "load"
          /\ value' = value \cup {mem[w]}
          /\ send_pc' = IF unread = {w} THEN "give" ELSE "load"
          /\ topic' = topic /\ published' = published
    BY <1>8 DEF LoadWord
  <2>2. mem[w] = Latest(Group)
    BY <2>1, LoadedWord
  <2>3. value \subseteq {Latest(Group)}
    BY <2>1 DEF WholeInv, SenderInv
  <2>4. value' = {Latest(Group)}
    BY <2>1, <2>2, <2>3
  <2>5. Latest(Group)' = Latest(Group)
    BY <1>1, <2>1 DEF Latest, Group, taskVars
  <2>6. LookedAt = {[topic |-> topic, sample |-> Latest(Group)]}
    BY <2>1 DEF LookedAt
  <2>7. CASE unread = {w}
    <3>1. LookedAt' = {[topic |-> topic, sample |-> n] : n \in {Latest(Group)}}
      BY <2>1, <2>4, <2>7 DEF LookedAt
    <3> QED BY <1>4, <2>1, <2>6, <3>1
  <2>8. CASE unread # {w}
    <3>1. LookedAt' = {[topic |-> topic, sample |-> Latest(Group)]}
      BY <2>1, <2>5, <2>8 DEF LookedAt
    <3> QED BY <1>4, <2>1, <2>6, <3>1
  <2> QED BY <2>7, <2>8
<1>9. CASE SendGive
  <2>1. /\ send_pc = "give" /\ send_pc' = "publish"
        /\ topic' = topic /\ value' = value /\ published' = published
    BY <1>9 DEF SendGive
  <2>2. LookedAt' = LookedAt
    BY <2>1 DEF LookedAt
  <2> QED BY <1>4, <2>1, <2>2
<1>10. CASE Publish
  <2>1. /\ send_pc = "publish" /\ send_pc' \in {"take", "idle"}
        /\ published' = [published EXCEPT ![topic] = value]
    BY <1>10 DEF Publish
  <2>2. PICK n \in Versions : value = {n}
    BY <2>1 DEF WholeInv, SenderInv, Whole
  <2> DEFINE reading == [topic |-> topic, sample |-> n]
  <2>3. LookedAt = {reading}
    BY <2>1, <2>2 DEF LookedAt
  <2>4. LookedAt' = {}
    BY <2>1 DEF LookedAt
  <2>5. published' = [published EXCEPT ![reading.topic] = {reading.sample}]
    BY <2>1, <2>2
  <2>6. Held!Announce(reading)
    <3> HIDE DEF reading
    <3> QED BY <1>2, <2>3, <2>4, <2>5 DEF Held!Announce, Register
  <2> QED BY <2>3, <2>6 DEF AbstractStep, Held!Next
<1> QED BY <1>5, <1>6, <1>8, <1>9, <1>10 DEF sendMQTTupdate

LEMMA NextRefines ==
  ASSUME WholeInv, [Next /\ ~SendTakeTimesOut]_vars
  PROVE  AbstractStep
<1>1. ASSUME NEW g \in Groups, sensor_task(g) PROVE AbstractStep
  <2>1. CASE GiveUpLock(g)
    BY <2>1, RestartRefines DEF GiveUpLock, AbstractStep, Held!Next
  <2>2. CASE ~GiveUpLock(g)
    BY <1>1, <2>2, SensorRefines
  <2> QED BY <2>1, <2>2
<1>2. CASE sendMQTTupdate /\ ~SendTakeTimesOut
  BY <1>2, SendRefines
<1>3. CASE Abort
  BY <1>3, RestartRefines DEF Abort, AbstractStep, Held!Next
<1>4. CASE UNCHANGED vars
  <2>1. Register' = Register
    BY <1>4 DEF Register, Latest, vars, taskVars
  <2>2. LookedAt' = LookedAt /\ published' = published
    BY <1>4 DEF LookedAt, Latest, Group, vars, taskVars, sendVars
  <2> QED
    BY <2>1, <2>2 DEF AbstractStep, Held!registerVars, Register
<1> QED BY <1>1, <1>2, <1>3, <1>4 DEF Next

\* A restart is one of the registers, and a step of a sender that is served is
\* a step of what they hold.  A sender that is not stands for initial registers:
\* its first wait in vain restarts them, and nothing else happens to them.
LEMMA NextImplements ==
  ASSUME ServedInv, [Next]_vars
  PROVE  [Registers!Next]_(Registers!registerVars)
<1> DEFINE register  == [g \in Groups |-> IF served THEN Latest(g) ELSE 0]
           looked    == IF served THEN LookedAt ELSE {}
           announced == IF served THEN published ELSE [t \in DOMAIN Topics |-> {}]
<1>1. CASE ~served'
  BY <1>1 DEF Registers!Next, Registers!Restart, Registers!Init
<1>2. CASE Restart
  <2>1. Held!Restart
    BY <1>2, RestartRefines
  <2>2. register' = Register' /\ looked' = LookedAt' /\ announced' = published'
    BY <1>2 DEF Restart, Register
  <2> QED
    BY <2>1, <2>2
       DEF Held!Restart, Held!Init, Registers!Next, Registers!Restart, Registers!Init
<1>3. CASE served /\ served' /\ [Next /\ ~SendTakeTimesOut]_vars
  <2>1. AbstractStep
    BY <1>3, NextRefines DEF ServedInv
  <2>2. /\ register = Register /\ looked = LookedAt /\ announced = published
        /\ register' = Register' /\ looked' = LookedAt' /\ announced' = published'
    BY <1>3 DEF Register
  <2> QED
    BY <2>1, <2>2
       DEF AbstractStep, Held!Next, Held!Update, Held!Look, Held!Announce,
           Held!Restart, Held!Init, Held!registerVars,
           Registers!Next, Registers!Update, Registers!Look, Registers!Announce,
           Registers!Restart, Registers!Init, Registers!registerVars, Source
<1> QED BY <1>1, <1>2, <1>3, ServedStep DEF ServedInv

\* ImplementsRegisters: while the sender's waits are served, each sensor behaves
\* as a register that takes a whole sample at a time and that the sender reads
\* at one moment of each publication.
THEOREM RegistersRefined == Spec => ImplementsRegisters
<1>1. Init => ServedInv /\ Registers!Init
  <2> SUFFICES ASSUME Init PROVE ServedInv /\ Registers!Init
    OBVIOUS
  <2>1. ServedInv
    BY InitWhole DEF ServedInv, WholeInv
  <2>2. Held!Init
    BY InitRefines
  <2>3. [g \in Groups |-> IF served THEN Latest(g) ELSE 0] = Register
    BY DEF Init, Register
  <2>4. served
    BY DEF Init
  <2> QED BY <2>1, <2>2, <2>3, <2>4 DEF Held!Init, Registers!Init
<1>2. ServedInv /\ [Next]_vars =>
        ServedInv' /\ [Registers!Next]_(Registers!registerVars)
  BY NextServed, NextImplements
<1> QED
  BY <1>1, <1>2, PTL DEF Spec, ImplementsRegisters, Registers!Spec
-----------------------------------------------------------------------------
(* Order.  Seen from the registers it follows from what the sender looks   *)
(* at: nothing announced of a sensor is newer than what is looked at after *)
(* it, and nothing looked at or announced is newer than the register.      *)

OrderInv ==
  /\ \A t \in DOMAIN Topics : \A n \in published[t] :
       n \in Nat /\ n <= Register[Source[t]]
  /\ \A r \in LookedAt :
       /\ r.topic \in DOMAIN Topics
       /\ r.sample \in Nat /\ r.sample <= Register[Source[r.topic]]
       /\ \A u \in DOMAIN Topics : Source[u] = Source[r.topic] =>
            \A old \in published[u] : old <= r.sample

NoNewsIsOlder ==
  \A t, u \in DOMAIN Topics :
    published'[t] # published[t] /\ SameGroup(t, u) =>
      \A old \in published[u], new \in published'[t] : old <= new

LEMMA RegisterType ==
  TypeOK /\ MemoryInv => Register \in [Groups -> Nat]
<1> SUFFICES ASSUME TypeOK, MemoryInv, NEW g \in Groups PROVE Latest(g) \in Nat
  BY DEF Register
<1>1. sample[g] \in Nat /\ (task_pc[g] # "sample" => sample[g] > 0)
  BY BoundsAssumption DEF TypeOK, MemoryInv, Versions
<1> QED BY <1>1 DEF Latest

LEMMA NextRegisterType ==
  WholeInv' => Register' \in [Groups -> Nat]
<1> SUFFICES ASSUME WholeInv', NEW g \in Groups PROVE Latest(g)' \in Nat
  BY DEF Register
<1>1. sample'[g] \in Nat /\ (task_pc'[g] # "sample" => sample'[g] > 0)
  BY BoundsAssumption DEF WholeInv, TypeOK, MemoryInv, Versions
<1> QED BY <1>1 DEF Latest

LEMMA InitOrder == Init => OrderInv
<1> SUFFICES ASSUME Init PROVE OrderInv
  OBVIOUS
<1>1. LookedAt = {} /\ \A t \in DOMAIN Topics : published[t] = {}
  BY DEF LookedAt, Init, app_main
<1> QED BY <1>1 DEF OrderInv

\* A step of the registers keeps the order, and what it announces is no older
\* than what had been announced of the same sensor.
LEMMA StepOrder ==
  ASSUME WholeInv, OrderInv, AbstractStep,
         Register \in [Groups -> Nat], Register' \in [Groups -> Nat]
  PROVE  OrderInv' /\ NoNewsIsOlder
<1>0. /\ Source \in [DOMAIN Topics -> Groups]
      /\ \A t, u \in DOMAIN Topics : SameGroup(t, u) <=> Source[t] = Source[u]
      /\ published \in [DOMAIN Topics -> SUBSET Versions]
  BY TopicsType DEF Source, SameGroup, WholeInv, TypeOK
<1> HIDE DEF Source
<1>1. ASSUME NEW s \in Groups, Held!Update(s)
      PROVE  OrderInv' /\ NoNewsIsOlder
  <2>1. /\ Register' = [Register EXCEPT ![s] = @ + 1]
        /\ LookedAt' = LookedAt /\ published' = published
    BY <1>1 DEF Held!Update, Register
  <2>2. \A g \in Groups : Register[g] <= Register'[g]
    BY <2>1
  <2>3. OrderInv'
    <3>1. ASSUME NEW t \in DOMAIN Topics, NEW n \in published[t]
          PROVE  n \in Nat /\ n <= Register'[Source[t]]
      <4>1. n \in Nat /\ n <= Register[Source[t]] /\ Source[t] \in Groups
        BY <1>0 DEF OrderInv
      <4> QED BY <2>2, <4>1
    <3>2. ASSUME NEW r \in LookedAt
          PROVE  r.sample <= Register'[Source[r.topic]]
      <4>1. /\ r.sample \in Nat /\ r.sample <= Register[Source[r.topic]]
            /\ Source[r.topic] \in Groups
        BY <1>0 DEF OrderInv
      <4> QED BY <2>2, <4>1
    <3> QED BY <2>1, <3>1, <3>2 DEF OrderInv, Source
  <2> QED BY <2>1, <2>3 DEF NoNewsIsOlder
<1>2. ASSUME NEW t \in DOMAIN Topics, Held!Look(t)
      PROVE  OrderInv' /\ NoNewsIsOlder
  <2> DEFINE r == [topic |-> t, sample |-> Register[Source[t]]]
  <2>1. LookedAt' = {r} /\ published' = published /\ Register' = Register
    BY <1>2 DEF Held!Look, Register, Source
  <2>2. r.topic = t /\ r.sample = Register[Source[t]] /\ r.sample \in Nat
    BY <1>0
  <2> HIDE DEF r
  <2>3. \A u \in DOMAIN Topics : Source[u] = Source[t] =>
          \A old \in published[u] : old <= r.sample
    BY <2>2 DEF OrderInv
  <2>4. OrderInv'
    <3>1. \A u \in DOMAIN Topics : \A n \in published[u] :
            n \in Nat /\ n <= Register[Source[u]]
      BY DEF OrderInv
    <3>2. \A q \in {r} :
            /\ q.topic \in DOMAIN Topics
            /\ q.sample \in Nat /\ q.sample <= Register[Source[q.topic]]
            /\ \A u \in DOMAIN Topics : Source[u] = Source[q.topic] =>
                 \A old \in published[u] : old <= q.sample
      BY <2>2, <2>3
    <3> QED BY <2>1, <3>1, <3>2 DEF OrderInv, Source
  <2> QED BY <2>1, <2>4 DEF NoNewsIsOlder
<1>3. ASSUME NEW r \in LookedAt, Held!Announce(r)
      PROVE  OrderInv' /\ NoNewsIsOlder
  <2>1. /\ LookedAt' = {} /\ Register' = Register
        /\ published' = [published EXCEPT ![r.topic] = {r.sample}]
    BY <1>3 DEF Held!Announce, Register
  <2>2. /\ r.topic \in DOMAIN Topics
        /\ r.sample \in Nat /\ r.sample <= Register[Source[r.topic]]
        /\ \A u \in DOMAIN Topics : Source[u] = Source[r.topic] =>
             \A old \in published[u] : old <= r.sample
    BY DEF OrderInv
  <2>3. \A t \in DOMAIN Topics :
          published'[t] = IF t = r.topic THEN {r.sample} ELSE published[t]
    BY <1>0, <2>1
  <2>4. \A t \in DOMAIN Topics : \A n \in published'[t] :
          n \in Nat /\ n <= Register[Source[t]]
    BY <2>2, <2>3 DEF OrderInv
  <2>5. OrderInv'
    BY <2>1, <2>4 DEF OrderInv, Source
  <2>6. NoNewsIsOlder
    BY <1>0, <2>2, <2>3 DEF NoNewsIsOlder
  <2> QED BY <2>5, <2>6
<1>4. CASE Held!Restart
  <2>1. LookedAt' = {} /\ published' = [t \in DOMAIN Topics |-> {}]
    BY <1>4 DEF Held!Restart, Held!Init
  <2> QED BY <2>1 DEF OrderInv, NoNewsIsOlder
<1>5. CASE UNCHANGED Held!registerVars
  <2>1. LookedAt' = LookedAt /\ published' = published /\ Register' = Register
    BY <1>5 DEF Held!registerVars, Register
  <2> QED BY <2>1 DEF OrderInv, NoNewsIsOlder, Source
<1> QED BY <1>1, <1>2, <1>3, <1>4, <1>5 DEF AbstractStep, Held!Next

\* PublicationsNeverGoBack: while the sender's waits are served, and for every
\* number of samples and restarts, no publication of a sensor's topic is of an
\* older sample than one published before it.
THEOREM OrderKept == Spec => PublicationsNeverGoBack
<1> DEFINE Inv == ServedInv /\ (served => OrderInv)
<1>1. Init => Inv
  BY InitWhole, InitOrder DEF ServedInv, WholeInv
<1>2. Inv /\ [Next]_vars => Inv' /\ (served' => NoNewsIsOlder)
  <2> SUFFICES ASSUME Inv, [Next]_vars, served'
               PROVE  OrderInv' /\ NoNewsIsOlder
    BY NextServed
  <2>1. CASE Restart
    <3>1. LookedAt' = {} /\ published' = [t \in DOMAIN Topics |-> {}]
      BY <2>1 DEF LookedAt, Restart
    <3> QED BY <3>1 DEF OrderInv, NoNewsIsOlder
  <2>2. CASE served /\ [Next /\ ~SendTakeTimesOut]_vars
    <3>1. WholeInv /\ OrderInv
      BY <2>2 DEF ServedInv
    <3>2. WholeInv' /\ AbstractStep
      BY <2>2, <3>1, NextWhole, NextRefines
    <3>3. Register \in [Groups -> Nat]
      BY <3>1, RegisterType DEF WholeInv
    <3>4. Register' \in [Groups -> Nat]
      BY <3>2, NextRegisterType
    <3> QED BY <3>1, <3>2, <3>3, <3>4, StepOrder
  <2> QED BY <2>1, <2>2, ServedStep DEF ServedInv
<1>3. (served' => NoNewsIsOlder) => [served' => NoNewsIsOlder]_vars
  OBVIOUS
<1> QED
  BY <1>1, <1>2, <1>3, PTL DEF Spec, PublicationsNeverGoBack, NoNewsIsOlder
=============================================================================
