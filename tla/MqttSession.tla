---------------------------- MODULE MqttSession ----------------------------
(***************************************************************************)
(* What mqtt_task promises, without Wi-Fi, status bits or the client's own *)
(* states: the client runs or does not, updates run through all topics in  *)
(* order on a running client, and a client that runs is stopped only for a *)
(* disturbance that came after the supervisor last decided to start it.    *)
(***************************************************************************)
EXTENDS Naturals

CONSTANT NumTopics

VARIABLES
  running,    \* the client has a task
  update,     \* the topic the current update publishes next, 0 without one
  excused     \* something happened since the last decision to start

sessionVars == <<running, update, excused>>

Init == running = FALSE /\ update = 0 /\ excused = TRUE

Disturb == excused' = TRUE /\ UNCHANGED <<running, update>>

\* The supervisor decides to start, whatever happened before.
Settle == update = 0 /\ excused' = FALSE /\ UNCHANGED <<running, update>>

Start ==
  /\ ~running /\ update = 0
  /\ running' = TRUE
  /\ UNCHANGED <<update, excused>>

Stop ==
  /\ running /\ update = 0 /\ excused
  /\ running' = FALSE
  /\ UNCHANGED <<update, excused>>

BeginUpdate ==
  /\ running /\ update = 0
  /\ update' = 1
  /\ UNCHANGED <<running, excused>>

PublishNext ==
  /\ running /\ update \in 1 .. NumTopics
  /\ update' = IF update < NumTopics THEN update + 1 ELSE 0
  /\ UNCHANGED <<running, excused>>

\* Only a restart of the chip cuts an update short.
Restart == running' = FALSE /\ update' = 0 /\ excused' = TRUE

Next ==
  \/ Disturb \/ Settle \/ Start \/ Stop \/ BeginUpdate \/ PublishNext
  \/ Restart

Spec == Init /\ [][Next]_sessionVars
=============================================================================
