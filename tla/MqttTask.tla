------------------------------ MODULE MqttTask ------------------------------
(***************************************************************************)
(* The ESP32's MQTT publisher, firmware-esp32/src/mqtt.rs: debounced       *)
(* publishing, pings and the watchdog around one select, fed by the VALUES *)
(* channel of the decode pipeline.                                         *)
(*                                                                         *)
(* Time is counted in ticks, and every timer is what is left of it.  A     *)
(* tick passes only when no branch of the select is ready, or while a      *)
(* ping or a publish waits for the network.                                *)
(*                                                                         *)
(* The empty string is two things at once in the code: a reading, of a row *)
(* whose rightmost slot is blank, and the mark of nothing published yet    *)
(* and of nothing pending.                                                 *)
(***************************************************************************)
EXTENDS Integers, Sequences

CONSTANTS
  SENSORS,      \* the rows, numbered
  Good, Bad,    \* readings, well formed and malformed, the empty one aside
  DEBOUNCE, PING_INTERVAL, WATCHDOG,   \* in ticks
  CHAN_CAP,     \* messages VALUES holds
  Burst         \* environment: messages the pipeline sends in a tick

Empty == "empty"   \* the empty string

ASSUME MqttConstants ==
  /\ SENSORS \subseteq Nat
  /\ Good \cap Bad = {} /\ Empty \notin Good \cup Bad
  /\ DEBOUNCE \in Nat \ {0} /\ PING_INTERVAL \in Nat \ {0}
  /\ WATCHDOG \in Nat \ {0}
  /\ CHAN_CAP \in Nat \ {0} /\ Burst \in Nat

VARIABLES
  panel,     \* what the panel shows, as the pipeline last decoded it
  held,      \* history: ticks the panel has shown it, up to DEBOUNCE; Off before
             \*   the first repaint and once lagged
  settled,   \* history: readings that stood for DEBOUNCE since the last publish,
             \*   kept until lagged
  sent,      \* messages sent since the last tick
  chan,      \* VALUES
  lagged,    \* history: VALUES dropped a message
  pc,        \* "down", "select", or in the await of a "ping" or a "publish"
  ping,      \* next_ping
  resp,      \* a PINGRESP is on its way
  last, pending, deadline,   \* per sensor, as in the code
  due,       \* sensors of the publishing pass not yet published
  bad_for,   \* elapsed time of bad_since, capped at WATCHDOG
  reboots    \* history: the last step was the watchdog's reboot

pipeline == <<panel, held, settled, sent, chan, lagged>>
connection == <<pc, ping, resp>>
debounce == <<last, pending, deadline, due>>
vars == <<pipeline, connection, debounce, bad_for, reboots>>

Off == -1
Values == Good \cup Bad \cup {Empty}
Cap(n, max) == IF n < max THEN n ELSE max
Least(S) == CHOOSE m \in S : \A k \in S : m <= k
PerSensor(x) == [i \in SENSORS |-> x]

Init ==
  /\ panel = PerSensor(Empty) /\ held = PerSensor(Off) /\ settled = PerSensor({})
  /\ sent = 0 /\ chan = <<>> /\ lagged = FALSE
  /\ pc = "down" /\ ping = 0 /\ resp = FALSE
  /\ last = PerSensor(Empty) /\ pending = PerSensor(Empty)
  /\ deadline = PerSensor(Off) /\ due = {}
  /\ bad_for = Off
  /\ reboots = FALSE

-----------------------------------------------------------------------------
(* The environment: the panel repaints, time passes. *)

\* A repaint that is flushed to VALUES: a full channel drops its oldest message.
Repaint(i, v) ==
  /\ sent < Burst /\ sent' = sent + 1
  /\ panel' = [panel EXCEPT ![i] = v]
  /\ LET all == Append(chan, [name |-> i, value |-> v])
     IN  IF Len(all) <= CHAN_CAP THEN chan' = all /\ UNCHANGED lagged
         ELSE chan' = Tail(all) /\ lagged' = TRUE
  /\ held' = IF lagged' THEN PerSensor(Off)
             ELSE [held EXCEPT ![i] = IF @ # Off /\ panel[i] = v THEN @ ELSE 0]
  /\ settled' = IF lagged' THEN PerSensor({}) ELSE settled
  /\ reboots' = FALSE
  /\ UNCHANGED <<connection, debounce, bad_for>>

\* Some branch of the select can be taken.
Expired == {i \in SENSORS : deadline[i] = 0}
Ready == chan # <<>> \/ ping = 0 \/ Expired # {}

Tick ==
  /\ pc = "select" => ~Ready
  /\ sent' = 0
  /\ held' = [i \in SENSORS |-> IF held[i] = Off THEN Off ELSE Cap(held[i] + 1, DEBOUNCE)]
  /\ settled' = [i \in SENSORS |->
       settled[i] \cup {v \in {panel[i]} : held'[i] = DEBOUNCE}]
  /\ ping' = IF ping > 0 THEN ping - 1 ELSE 0
  /\ deadline' = [i \in SENSORS |->
       IF deadline[i] \in {Off, 0} THEN deadline[i] ELSE deadline[i] - 1]
  /\ bad_for' = IF bad_for = Off THEN Off ELSE Cap(bad_for + 1, WATCHDOG)
  /\ reboots' = FALSE
  /\ UNCHANGED <<panel, chan, lagged, pc, resp, last, pending, due>>

-----------------------------------------------------------------------------
(* The connection. *)

\* The variables of a connection end with it.
End ==
  /\ pc' = "down" /\ ping' = 0 /\ resp' = FALSE
  /\ last' = PerSensor(Empty) /\ pending' = PerSensor(Empty)
  /\ deadline' = PerSensor(Off)
  /\ due' = {} /\ bad_for' = Off

\* Each turn of the loop makes a new ping timer.
Select == pc' = "select" /\ ping' = PING_INTERVAL

\* Name lookup, TCP, MQTT and discovery succeeded.
Connect ==
  /\ pc = "down"
  /\ Select
  /\ reboots' = FALSE
  /\ UNCHANGED <<pipeline, resp, debounce, bad_for>>

\* A ping, a poll or a publish failed.
Disconnect ==
  /\ pc # "down"
  /\ End
  /\ reboots' = FALSE
  /\ UNCHANGED pipeline

-----------------------------------------------------------------------------
(* The select, first ready branch first. *)

\* Mutant: a changed reading does not restart the timer of the one before.
StageKeepsDeadline(i, v) ==
  /\ pending' = [pending EXCEPT ![i] = IF last[i] = v THEN Empty ELSE v]
  /\ deadline' = [deadline EXCEPT ![i] = IF last[i] = v THEN Off
                                         ELSE IF @ = Off THEN DEBOUNCE ELSE @]

\* Mutant: any message of a changed value restarts the timer.
StageRestarts(i, v) ==
  /\ pending' = [pending EXCEPT ![i] = IF last[i] = v THEN Empty ELSE v]
  /\ deadline' = [deadline EXCEPT ![i] = IF last[i] = v THEN Off ELSE DEBOUNCE]

\* Hold a changed reading back; drop the change if the old one is back.  With
\* nothing pending an empty reading looks pending already, and is not staged.
Stage(i, v) ==
  IF last[i] = v
  THEN pending' = [pending EXCEPT ![i] = Empty] /\ deadline' = [deadline EXCEPT ![i] = Off]
  ELSE IF pending[i] # v
  THEN pending' = [pending EXCEPT ![i] = v] /\ deadline' = [deadline EXCEPT ![i] = DEBOUNCE]
  ELSE UNCHANGED <<pending, deadline>>

Receive ==
  /\ pc = "select" /\ chan # <<>>
  /\ Stage(Head(chan).name, Head(chan).value)
  /\ chan' = Tail(chan)
  /\ Select
  /\ reboots' = FALSE
  /\ UNCHANGED <<panel, held, settled, sent, lagged, resp, last, due, bad_for>>

Malformed == \E i \in SENSORS : last[i] \in Bad

\* The watchdog scans what was published, then the broker is pinged.
Ping ==
  /\ pc = "select" /\ chan = <<>> /\ ping = 0
  /\ \/ ~Malformed /\ bad_for' = Off
     \/ Malformed /\ bad_for = Off /\ bad_for' = 0
     \/ Malformed /\ bad_for \in 0..(WATCHDOG - 1) /\ UNCHANGED bad_for
  /\ pc' = "ping"
  /\ reboots' = FALSE
  /\ UNCHANGED <<pipeline, ping, resp, debounce>>

Pinged ==
  /\ pc = "ping"
  /\ Select /\ resp' = TRUE
  /\ reboots' = FALSE
  /\ UNCHANGED <<pipeline, debounce, bad_for>>

Reboot ==
  /\ pc = "select" /\ chan = <<>> /\ ping = 0
  /\ Malformed /\ bad_for = WATCHDOG
  /\ End
  /\ chan' = <<>> /\ panel' = PerSensor(Empty) /\ held' = PerSensor(Off)
  /\ reboots' = TRUE
  /\ UNCHANGED <<settled, sent, lagged>>

\* The answer to a ping is drained.
Poll ==
  /\ pc = "select" /\ chan = <<>> /\ ping # 0 /\ resp
  /\ resp' = FALSE
  /\ Select
  /\ reboots' = FALSE
  /\ UNCHANGED <<pipeline, debounce, bad_for>>

DebounceOver ==
  /\ pc = "select" /\ chan = <<>> /\ ping # 0 /\ Expired # {}
  /\ pc' = "publish" /\ due' = Expired
  /\ reboots' = FALSE
  /\ UNCHANGED <<pipeline, ping, resp, last, pending, deadline, bad_for>>

\* Mutant: what was published stays pending.
SettleKeepsPending(i) ==
  /\ last' = [last EXCEPT ![i] = pending[i]]
  /\ UNCHANGED pending
  /\ deadline' = [deadline EXCEPT ![i] = Off]

\* What the acknowledged publish of a row leaves.
Settle(i) ==
  /\ last' = [last EXCEPT ![i] = pending[i]]
  /\ pending' = [pending EXCEPT ![i] = Empty]
  /\ deadline' = [deadline EXCEPT ![i] = Off]

Publish ==
  /\ pc = "publish" /\ due # {}
  /\ Settle(Least(due)) /\ due' = due \ {Least(due)}
  /\ settled' = [settled EXCEPT ![Least(due)] =
       {v \in {panel[Least(due)]} : held[Least(due)] = DEBOUNCE}]
  /\ IF due' = {} THEN Select ELSE UNCHANGED <<pc, ping>>
  /\ reboots' = FALSE
  /\ UNCHANGED <<panel, held, sent, chan, lagged, resp, bad_for>>

-----------------------------------------------------------------------------
Task == Connect \/ Receive \/ Ping \/ Pinged \/ Reboot \/ Poll \/ DebounceOver \/ Publish
Next ==
  \/ \E i \in SENSORS, v \in Values : Repaint(i, v)
  \/ Tick
  \/ Task \/ Disconnect

Spec == Init /\ [][Next]_vars

\* The panel repaints every row again and again, and not only while the task waits
\* for the network (pings are 30 s apart); time passes, and the executor and the
\* network answer.
FairSpec ==
  /\ Spec
  /\ \A i \in SENSORS : SF_vars(pc = "select" /\ \E v \in Values : Repaint(i, v))
  /\ WF_vars(Tick)
  /\ WF_vars(Task)

-----------------------------------------------------------------------------
(* Properties. *)

TypeOK ==
  /\ panel \in [SENSORS -> Values] /\ held \in [SENSORS -> (0..DEBOUNCE) \cup {Off}]
  /\ settled \in [SENSORS -> SUBSET Values]
  /\ chan \in Seq([name : SENSORS, value : Values]) /\ Len(chan) <= CHAN_CAP
  /\ sent \in 0..Burst /\ lagged \in BOOLEAN /\ resp \in BOOLEAN /\ reboots \in BOOLEAN
  /\ pc \in {"down", "select", "ping", "publish"}
  /\ ping \in 0..PING_INTERVAL
  /\ last \in [SENSORS -> Values] /\ pending \in [SENSORS -> Values]
  /\ deadline \in [SENSORS -> (0..DEBOUNCE) \cup {Off}]
  /\ \A i \in SENSORS : IF deadline[i] = Off THEN pending[i] = Empty
                                           ELSE pending[i] # last[i]
  /\ due \subseteq SENSORS
  /\ bad_for \in (0..WATCHDOG) \cup {Off}

\* A transient reading of a panel that updates digit by digit is never
\* published, the empty reading of a row being erased included: what a publish
\* leaves in `last` has stood for the debounce time since the row's publish
\* before, unless the channel lost a message (mqtt.rs 56-60, 250-266, 320-331).
NoTransients ==
  [][\A i \in SENSORS : last'[i] # last[i] /\ pc' # "down" =>
        last'[i] \in settled[i] \/ lagged]_vars

\* Readings that stand are published in the end, through repaints of them,
\* lost messages and reconnects, if the connection stands in the end too
\* (mqtt.rs 202-208, 250-266, 301-338).  An empty one need not be: it is only
\* published when it takes the place of a pending change (258-264).
Converges ==
  <>[][FALSE]_panel /\ <>[](pc # "down") =>
    <>[](\A i \in SENSORS : panel[i] # Empty => last[i] = panel[i])

\* A malformed value that stands reboots the board: `once a bad value has stood
\* for 5 minutes, reboot to reset the decoder` (mqtt.rs 269-270).
WatchdogFires ==
  Malformed /\ pc = "select" ~> ~Malformed \/ pc = "down" \/ reboots
=============================================================================
