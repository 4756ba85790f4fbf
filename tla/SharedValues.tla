---------------------------- MODULE SharedValues ----------------------------
(***************************************************************************)
(* The values the three sensor tasks (dust.c, co2.c, press.c) leave in     *)
(* global memory for sendMQTTupdate (mqtt.c), each group under a FreeRTOS  *)
(* binary semaphore of its own.  A value is the number of the sample it    *)
(* comes from.  Memory changes one machine word at a time, so that what a  *)
(* task does without the lock shows: a double is two words on this chip.   *)
(***************************************************************************)
EXTENDS Naturals, Sequences, FiniteSets

CONSTANTS
  MAX_FAILS,     \* 20: DUST_MAX_FAILS, CO2_MAX_FAILS, BMP_MAX_FAILS
  Sampled,       \* bound: the groups whose sensor is sampled
  MaxSamples,    \* bound: samples of one sensor between two reboots
  MaxTimeouts,   \* bound: semaphores not obtained in time
  MaxAborts      \* bound: reboots

ASSUME FailsAssumption == MAX_FAILS \in Nat
ASSUME BoundsAssumption ==
  MaxSamples \in Nat /\ MaxTimeouts \in Nat /\ MaxAborts \in Nat

Groups == {"dust", "co2", "bmp"}

ASSUME SampledAssumption == Sampled \subseteq Groups

\* The words of each group, in the order its task assigns them.
Stores == [dust |-> <<"pm100", "pm25">>,
           co2  |-> <<"ppm">>,
           bmp  |-> <<"temp_hi", "temp_lo", "pres_hi", "pres_lo">>]

Words == UNION {{Stores[g][i] : i \in DOMAIN Stores[g]} : g \in Groups}

\* The topics of an update in the order they are published, with the group
\* that is locked for each and the words its value is printed from.
Topics == << [group |-> "dust", loads |-> {"pm25"}],
             [group |-> "dust", loads |-> {"pm100"}],
             [group |-> "co2",  loads |-> {"ppm"}],
             [group |-> "bmp",  loads |-> {"pres_hi", "pres_lo"}],
             [group |-> "bmp",  loads |-> {"temp_hi", "temp_lo"}] >>

VARIABLES
  lock,        \* the count of each binary semaphore
  mem,         \* the words of dust_values, co2_values and bmp_values
  task_pc,     \* what each sensor task does next
  sample,      \* the sample each task has in its local variables
  stored,      \* how many words of it the task has assigned
  fails_count,
  send_pc,     \* what sendMQTTupdate does next
  topic,       \* the topic it is at
  unread,      \* the words it has still to load for that topic
  value,       \* the samples the loaded words come from
  published,   \* the same for the last publication of each topic
  timeouts, aborts,
  served       \* history: the sender has not waited in vain since the start

taskVars == <<task_pc, sample, stored, fails_count>>
sendVars == <<send_pc, topic, unread, value, published>>
vars == <<lock, mem, taskVars, sendVars, timeouts, aborts, served>>

TaskSteps == {"sample", "take", "store", "give"}
SendSteps == {"idle", "take", "load", "give", "publish"}
Versions  == 0 .. MaxSamples

TypeOK ==
  /\ lock \in [Groups -> {0, 1}]
  /\ mem \in [Words -> Versions]
  /\ task_pc \in [Groups -> TaskSteps]
  /\ sample \in [Groups -> Versions]
  /\ stored \in [Groups -> 0 .. 3]
  /\ fails_count \in [Groups -> 0 .. MAX_FAILS]
  /\ send_pc \in SendSteps
  /\ topic \in DOMAIN Topics
  /\ unread \subseteq Words
  /\ value \subseteq Versions
  /\ published \in [DOMAIN Topics -> SUBSET Versions]
  /\ timeouts \in 0 .. MaxTimeouts
  /\ aborts \in 0 .. MaxAborts
  /\ served \in BOOLEAN

\* app_main: static memory is zero, the semaphores are given once each, then
\* the tasks start.
app_main ==
  /\ lock = [g \in Groups |-> 1]
  /\ mem = [w \in Words |-> 0]
  /\ task_pc = [g \in Groups |-> "sample"]
  /\ sample = [g \in Groups |-> 0]
  /\ stored = [g \in Groups |-> 0]
  /\ fails_count = [g \in Groups |-> 0]
  /\ send_pc = "idle"
  /\ topic = 1
  /\ unread = {}
  /\ value = {}
  /\ published = [t \in DOMAIN Topics |-> {}]

Init == app_main /\ timeouts = 0 /\ aborts = 0 /\ served = TRUE
-----------------------------------------------------------------------------
(* The semaphores.  A give on a semaphore that is available is lost.       *)

xSemaphoreTake(g) == lock[g] = 1 /\ lock' = [lock EXCEPT ![g] = 0]
xSemaphoreGive(g) == lock' = [lock EXCEPT ![g] = 1]

\* A wait ends unserved only if the semaphore was taken all the time.
TimeOut(g) ==
  /\ lock[g] = 0
  /\ timeouts < MaxTimeouts
  /\ timeouts' = timeouts + 1
-----------------------------------------------------------------------------
(* dust_sensor_task, co2_sensor_task and bmp_task: the same loop.          *)

TakeSample(g) ==
  /\ task_pc[g] = "sample"
  /\ g \in Sampled /\ sample[g] < MaxSamples
  /\ sample' = [sample EXCEPT ![g] = @ + 1]
  /\ fails_count' = [fails_count EXCEPT ![g] = 0]
  /\ task_pc' = [task_pc EXCEPT ![g] = "take"]
  /\ UNCHANGED <<lock, mem, stored, sendVars, timeouts,
                 aborts, served>>

\* Mutant: waits until the semaphore is available but does not take it.
TakeLock_Peek(g) ==
  /\ task_pc[g] = "take"
  /\ lock[g] = 1
  /\ stored' = [stored EXCEPT ![g] = 0]
  /\ task_pc' = [task_pc EXCEPT ![g] = "store"]
  /\ UNCHANGED <<lock, mem, sample, fails_count, sendVars, timeouts,
                 aborts, served>>

TakeLock(g) ==
  /\ task_pc[g] = "take"
  /\ xSemaphoreTake(g)
  /\ stored' = [stored EXCEPT ![g] = 0]
  /\ task_pc' = [task_pc EXCEPT ![g] = "store"]
  /\ UNCHANGED <<mem, sample, fails_count, sendVars, timeouts,
                 aborts, served>>

\* Mutant: the time-outs are compared one too late.
RetryLock_OneMore(g) ==
  /\ task_pc[g] = "take"
  /\ fails_count[g] <= MAX_FAILS
  /\ TimeOut(g)
  /\ fails_count' = [fails_count EXCEPT ![g] = @ + 1]
  /\ UNCHANGED <<lock, mem, task_pc, sample, stored, sendVars, aborts, served>>

RetryLock(g) ==
  /\ task_pc[g] = "take"
  /\ fails_count[g] < MAX_FAILS
  /\ TimeOut(g)
  /\ fails_count' = [fails_count EXCEPT ![g] = @ + 1]
  /\ UNCHANGED <<lock, mem, task_pc, sample, stored, sendVars, aborts, served>>

\* The chip restarts: app_main runs again on fresh memory.
Restart ==
  /\ aborts < MaxAborts
  /\ aborts' = aborts + 1
  /\ lock' = [g \in Groups |-> 1]
  /\ mem' = [w \in Words |-> 0]
  /\ task_pc' = [g \in Groups |-> "sample"]
  /\ sample' = [g \in Groups |-> 0]
  /\ stored' = [g \in Groups |-> 0]
  /\ fails_count' = [g \in Groups |-> 0]
  /\ send_pc' = "idle"
  /\ topic' = 1
  /\ unread' = {}
  /\ value' = {}
  /\ published' = [t \in DOMAIN Topics |-> {}]
  /\ served' = TRUE

\* One time-out too many: the task function returns, which FreeRTOS answers
\* with an abort.
GiveUpLock(g) ==
  /\ task_pc[g] = "take"
  /\ fails_count[g] = MAX_FAILS
  /\ TimeOut(g)
  /\ Restart

StoreWord(g) ==
  /\ task_pc[g] = "store"
  /\ mem' = [mem EXCEPT ![Stores[g][stored[g] + 1]] = sample[g]]
  /\ IF stored[g] + 1 < Len(Stores[g])
       THEN /\ stored' = [stored EXCEPT ![g] = @ + 1]
            /\ UNCHANGED task_pc
       ELSE /\ task_pc' = [task_pc EXCEPT ![g] = "give"]
            /\ UNCHANGED stored
  /\ UNCHANGED <<lock, sample, fails_count, sendVars, timeouts,
                 aborts, served>>

\* Mutant: the semaphore is not given back.
GiveLock_Forgotten(g) ==
  /\ task_pc[g] = "give"
  /\ task_pc' = [task_pc EXCEPT ![g] = "sample"]
  /\ UNCHANGED <<lock, mem, sample, stored, fails_count, sendVars, timeouts,
                 aborts, served>>

GiveLock(g) ==
  /\ task_pc[g] = "give"
  /\ xSemaphoreGive(g)
  /\ task_pc' = [task_pc EXCEPT ![g] = "sample"]
  /\ UNCHANGED <<mem, sample, stored, fails_count, sendVars, timeouts,
                 aborts, served>>

sensor_task(g) ==
  \/ TakeSample(g) \/ TakeLock(g) \/ RetryLock(g) \/ GiveUpLock(g)
  \/ StoreWord(g) \/ GiveLock(g)
-----------------------------------------------------------------------------
(* sendMQTTupdate, called by mqtt_task again and again.                    *)

Group == Topics[topic].group

BeginUpdate ==
  /\ send_pc = "idle"
  /\ send_pc' = "take"
  /\ topic' = 1
  /\ UNCHANGED <<lock, mem, taskVars, unread, value, published, timeouts,
                 aborts, served>>

StartLoading ==
  /\ send_pc = "take"
  /\ send_pc' = "load"
  /\ unread' = Topics[topic].loads
  /\ value' = {}
  /\ UNCHANGED <<mem, taskVars, topic, published, aborts>>

\* Mutant: the words are loaded without the semaphore.
SendTake_Unlocked == StartLoading /\ UNCHANGED <<lock, timeouts, served>>

SendTake ==
  StartLoading /\ xSemaphoreTake(Group) /\ UNCHANGED <<timeouts, served>>

\* The result of the take is not looked at.
SendTakeTimesOut ==
  StartLoading /\ TimeOut(Group) /\ served' = FALSE /\ UNCHANGED lock

LoadWord ==
  /\ send_pc = "load"
  /\ \E w \in unread :
       /\ value' = value \cup {mem[w]}
       /\ unread' = unread \ {w}
       /\ send_pc' = IF unread = {w} THEN "give" ELSE "load"
  /\ UNCHANGED <<lock, mem, taskVars, topic, published, timeouts,
                 aborts, served>>

\* Mutant: the semaphore is not given back.
SendGive_Forgotten ==
  /\ send_pc = "give"
  /\ send_pc' = "publish"
  /\ UNCHANGED <<lock, mem, taskVars, topic, unread, value, published,
                 timeouts, aborts, served>>

SendGive ==
  /\ send_pc = "give"
  /\ xSemaphoreGive(Group)
  /\ send_pc' = "publish"
  /\ UNCHANGED <<mem, taskVars, topic, unread, value, published, timeouts,
                 aborts, served>>

Publish ==
  /\ send_pc = "publish"
  /\ published' = [published EXCEPT ![topic] = value]
  /\ IF topic < Len(Topics)
       THEN topic' = topic + 1 /\ send_pc' = "take"
       ELSE send_pc' = "idle" /\ UNCHANGED topic
  /\ UNCHANGED <<lock, mem, taskVars, unread, value, timeouts, aborts, served>>

sendMQTTupdate ==
  \/ BeginUpdate \/ SendTake \/ SendTakeTimesOut \/ LoadWord
  \/ SendGive \/ Publish
-----------------------------------------------------------------------------
\* Any ESP_ERROR_CHECK that fails restarts the chip.
Abort == Restart /\ UNCHANGED timeouts

Next == (\E g \in Groups : sensor_task(g)) \/ sendMQTTupdate \/ Abort

Spec == Init /\ [][Next]_vars

(* Fairness.  The five tasks have one priority and share the processor     *)
(* time, so that each goes on while it can.  A task blocked on a semaphore *)
(* is woken by every give, and the giver does not take again before it has *)
(* waited for its sensor or called the MQTT client: a task that finds the  *)
(* semaphore available again and again obtains it.                         *)
Fairness ==
  /\ \A g \in Groups :
       /\ WF_vars(TakeSample(g) \/ StoreWord(g) \/ GiveLock(g))
       /\ SF_vars(TakeLock(g))
  /\ SF_vars(SendTake)
  /\ WF_vars(BeginUpdate \/ LoadWord \/ SendGive \/ Publish)

FairSpec == Spec /\ Fairness
-----------------------------------------------------------------------------
(* Properties that hold while the sender, which does not look, has         *)
(* obtained every semaphore it waited for since the program started.       *)
(* Sensor tasks may wait in vain, and give up.                             *)

Storing(g) == task_pc[g] \in {"store", "give"}
Loading(g) == send_pc \in {"load", "give"} /\ Group = g

Exclusive ==
  \A g \in Groups :
    /\ ~(Storing(g) /\ Loading(g))
    /\ lock[g] = 1 <=> ~Storing(g) /\ ~Loading(g)

\* While the sender is served, a sensor task and sendMQTTupdate are never at
\* the same group's words together, and the semaphore is available exactly when
\* neither is.
MutualExclusion == served => Exclusive

\* A published number comes from one sample: no double is torn.
PublishedWhole ==
  served => \A t \in DOMAIN Topics : Cardinality(published[t]) <= 1

\* The publications of a sensor never go back in time, although the fields of
\* one update are read under separate takes and may be of different samples:
\* pm100 is at least as fresh as the pm25 before it, temperature as pressure.
SameGroup(t, u) == Topics[t].group = Topics[u].group

PublicationsNeverGoBack ==
  [][served' => \A t, u \in DOMAIN Topics :
       published'[t] # published[t] /\ SameGroup(t, u) =>
         \A old \in published[u], new \in published'[t] : old <= new]_vars

\* The last sample of g that its task has stored and released.
Latest(g) == IF task_pc[g] = "sample" THEN sample[g] ELSE sample[g] - 1

\* What the sender has read and not published yet.
LookedAt ==
  CASE send_pc = "load" -> {[topic |-> topic, sample |-> Latest(Group)]}
    [] send_pc \in {"give", "publish"} ->
         {[topic |-> topic, sample |-> n] : n \in value}
    [] OTHER -> {}

\* A sender that has waited in vain counts as restarted until the chip is.
Registers == INSTANCE PublishedRegisters WITH
  Sensors   <- Groups,
  TopicIds  <- DOMAIN Topics,
  Source    <- [t \in DOMAIN Topics |-> Topics[t].group],
  register  <- [g \in Groups |-> IF served THEN Latest(g) ELSE 0],
  looked    <- IF served THEN LookedAt ELSE {},
  announced <- IF served THEN published ELSE [t \in DOMAIN Topics |-> {}]

\* All of that at once: the tasks implement registers that take whole samples.
ImplementsRegisters == Registers!Spec
-----------------------------------------------------------------------------
(* Properties that hold although time-outs are possible.                   *)

\* No semaphore is ever lost: unmatched takes and gives, and gives by a task
\* that does not hold it, leave it available once nobody is at the words.
SemaphoreNotLost ==
  \A g \in Groups : ~Storing(g) /\ ~Loading(g) => lock[g] = 1

\* An update ends, whatever happens to the semaphores it waits for.
UpdateEnds == send_pc = "take" ~> send_pc = "idle"

\* A sample that was taken reaches the memory, or the chip restarts.
SampleIsStored ==
  \A g \in Groups : task_pc[g] = "take" ~> task_pc[g] = "sample"
=============================================================================
