---------------------------- MODULE MqttTaskProof ----------------------------
(***************************************************************************)
(* A transient reading is never published, for any rows, readings, debounce  *)
(* time, channel capacity and rate of messages.                             *)
(*                                                                         *)
(* The argument relates a row's timer to how long the panel has             *)
(* shown the pending reading.  While no message of another reading waits in  *)
(* VALUES, the panel shows it, and has for what the timer has run: so it has *)
(* settled when the timer is over.  While one waits, the timer is void, for  *)
(* the message is received before the timers are looked at.                  *)
(***************************************************************************)
EXTENDS MqttTask, TLAPS, WellFoundedInduction

Message == [name : SENSORS, value : Values]

\* The messages of row i in VALUES, the last of which the panel shows.
Of(i) == {k \in 1..Len(chan) : chan[k].name = i}
ChanOK(i) ==
  \A k \in Of(i) : (\A j \in Of(i) : j <= k) => chan[k].value = panel[i] /\ held[i] # Off

\* The pending reading may be the empty one: it is the timer that tells.
PendingOK(i) ==
  deadline[i] # Off /\ (\A k \in Of(i) : chan[k].value = pending[i]) =>
    panel[i] = pending[i] /\ held[i] # Off /\ held[i] + deadline[i] >= DEBOUNCE

HeldOK(i) == held[i] = DEBOUNCE => panel[i] \in settled[i]

Settling == \A i \in SENSORS : HeldOK(i) /\ (~lagged => ChanOK(i) /\ PendingOK(i))

\* What is about to be published.
DueOK ==
  /\ pc # "publish" => due = {}
  /\ \A i \in due : lagged \/ pending[i] \in settled[i]

IInv == TypeOK /\ Settling /\ DueOK

-----------------------------------------------------------------------------
(* Operators. *)

LEMMA EmptyIsAValue == Empty \in Values
BY DEF Values

LEMMA LeastIn == ASSUME NEW S \in SUBSET Nat, S # {} PROVE Least(S) \in S /\ \A k \in S : Least(S) <= k
<1>1. PICK m \in S : \A k \in S : ~(<<k, m>> \in OpToRel(<, Nat))
  BY NatLessThanWellFounded, WFMin
<1>2. ASSUME NEW k \in S PROVE m <= k
  <2>1. m \in Nat /\ k \in Nat
    OBVIOUS
  <2>2. ~(k < m)
    <3>1. k < m => <<k, m>> \in OpToRel(<, Nat)
      BY <2>1, Zenon DEF OpToRel
    <3>. QED BY <1>1, <3>1
  <2>. QED BY <2>1, <2>2
<1>. QED BY <1>2 DEF Least

LEMMA LargestIn ==
  ASSUME NEW n \in Nat, NEW S \in SUBSET (1..n), S # {}
  PROVE  \E m \in S : \A k \in S : k <= m
<1> DEFINE T == {n - k : k \in S}
<1>1. T \in SUBSET Nat /\ T # {}
  <2>1. \A k \in S : k \in 1..n /\ n - k \in Nat
    OBVIOUS
  <2>2. PICK k \in S : TRUE
    OBVIOUS
  <2>. QED BY <2>1, <2>2
<1>2. PICK m \in S : Least(T) = n - m
  BY <1>1, LeastIn
<1>3. \A k \in S : n - m <= n - k
  BY <1>1, <1>2, LeastIn
<1>. QED BY <1>3

LEMMA CapRange == ASSUME NEW n \in Nat, NEW max \in Nat
                  PROVE  /\ Cap(n, max) \in 0..max
                         /\ Cap(n, max) = max \/ Cap(n, max) = n
BY DEF Cap

-----------------------------------------------------------------------------
(* Types. *)

LEMMA InitTyped == Init => TypeOK
<1> SUFFICES ASSUME Init PROVE TypeOK
  OBVIOUS
<1>1. /\ chan = <<>> /\ Len(chan) <= CHAN_CAP /\ 0 \in 0..DEBOUNCE /\ 0 \in 0..Burst
      /\ 0 \in 0..PING_INTERVAL /\ Empty \in Values
  BY MqttConstants, EmptyIsAValue DEF Init
<1>2. /\ panel = [i \in SENSORS |-> Empty] /\ held = [i \in SENSORS |-> Off]
      /\ settled = [i \in SENSORS |-> {}] /\ last = [i \in SENSORS |-> Empty]
      /\ pending = [i \in SENSORS |-> Empty] /\ deadline = [i \in SENSORS |-> Off]
  BY DEF Init, PerSensor
<1>3. /\ panel \in [SENSORS -> Values] /\ held \in [SENSORS -> (0..DEBOUNCE) \cup {Off}]
      /\ settled \in [SENSORS -> SUBSET Values]
      /\ last \in [SENSORS -> Values] /\ pending \in [SENSORS -> Values]
      /\ deadline \in [SENSORS -> (0..DEBOUNCE) \cup {Off}]
      /\ \A i \in SENSORS : deadline[i] = Off /\ pending[i] = Empty
  BY <1>1, <1>2
<1>4. /\ sent = 0 /\ ~lagged /\ lagged \in BOOLEAN /\ resp \in BOOLEAN /\ reboots \in BOOLEAN
      /\ pc = "down" /\ ping = 0 /\ due = {} /\ bad_for = Off
  BY DEF Init
<1>. QED BY <1>1, <1>3, <1>4 DEF TypeOK

LEMMA RepaintTyped ==
  ASSUME TypeOK, NEW i \in SENSORS, NEW v \in Values, Repaint(i, v)
  PROVE  TypeOK'
<1> DEFINE all == Append(chan, [name |-> i, value |-> v])
<1>1. all \in Seq(Message) /\ Len(all) = Len(chan) + 1 /\ Len(chan) \in Nat
  BY DEF TypeOK, Message
<1>2. all # <<>> /\ Tail(all) \in Seq(Message) /\ Len(Tail(all)) = Len(chan)
  BY <1>1
<1>3. chan' \in Seq(Message) /\ Len(chan') <= CHAN_CAP /\ lagged' \in BOOLEAN
  <2>1. CASE Len(all) <= CHAN_CAP
    BY <1>1, <2>1 DEF Repaint, TypeOK
  <2>2. CASE ~(Len(all) <= CHAN_CAP)
    BY <1>2, <2>2 DEF Repaint, TypeOK
  <2>. QED BY <2>1, <2>2
<1>4. /\ panel' \in [SENSORS -> Values] /\ held' \in [SENSORS -> (0..DEBOUNCE) \cup {Off}]
      /\ settled' \in [SENSORS -> SUBSET Values] /\ sent' \in 0..Burst
  BY MqttConstants DEF Repaint, TypeOK, PerSensor
<1>. QED BY <1>3, <1>4 DEF Repaint, TypeOK, Message, connection, debounce

LEMMA TickTyped == TypeOK /\ Tick => TypeOK'
<1> SUFFICES ASSUME TypeOK, Tick PROVE TypeOK'
  OBVIOUS
<1>1. held' \in [SENSORS -> (0..DEBOUNCE) \cup {Off}]
  <2>1. DEBOUNCE \in Nat /\ held \in [SENSORS -> (0..DEBOUNCE) \cup {Off}]
    BY MqttConstants DEF TypeOK
  <2>2. \A i \in SENSORS : held[i] # Off => held[i] + 1 \in Nat
    BY <2>1
  <2>3. \A i \in SENSORS : held[i] # Off => Cap(held[i] + 1, DEBOUNCE) \in 0..DEBOUNCE
    BY <2>1, <2>2, CapRange
  <2>. QED BY <2>3 DEF Tick
<1>2. settled' \in [SENSORS -> SUBSET Values]
  BY DEF Tick, TypeOK
<1>4. sent' \in 0..Burst /\ ping' \in 0..PING_INTERVAL
  BY MqttConstants DEF Tick, TypeOK
<1>5. bad_for' \in (0..WATCHDOG) \cup {Off}
  <2>1. CASE bad_for = Off
    BY <2>1 DEF Tick
  <2>2. CASE bad_for # Off
    <3>1. bad_for + 1 \in Nat /\ WATCHDOG \in Nat /\ bad_for' = Cap(bad_for + 1, WATCHDOG)
      BY <2>2, MqttConstants DEF Tick, TypeOK
    <3>. QED BY <3>1, CapRange
  <2>. QED BY <2>1, <2>2
<1>6. /\ deadline' \in [SENSORS -> (0..DEBOUNCE) \cup {Off}]
      /\ \A i \in SENSORS : IF deadline'[i] = Off THEN pending'[i] = Empty
                                  ELSE pending'[i] # last'[i]
  BY MqttConstants DEF Tick, TypeOK, Off
<1>. QED BY <1>1, <1>2, <1>4, <1>5, <1>6 DEF Tick, TypeOK

LEMMA EndTyped ==
  ASSUME End
  PROVE  /\ pc' \in {"down", "select", "ping", "publish"} /\ ping' \in 0..PING_INTERVAL
         /\ resp' \in BOOLEAN
         /\ last' \in [SENSORS -> Values] /\ pending' \in [SENSORS -> Values]
         /\ deadline' \in [SENSORS -> (0..DEBOUNCE) \cup {Off}]
         /\ \A i \in SENSORS : IF deadline'[i] = Off THEN pending'[i] = Empty
                                  ELSE pending'[i] # last'[i]
         /\ due' \subseteq SENSORS
         /\ bad_for' \in (0..WATCHDOG) \cup {Off}
<1>1. 0 \in 0..PING_INTERVAL /\ Empty \in Values
  BY MqttConstants, EmptyIsAValue
<1>2. /\ last' = [i \in SENSORS |-> Empty] /\ pending' = [i \in SENSORS |-> Empty]
      /\ deadline' = [i \in SENSORS |-> Off]
  BY DEF End, PerSensor
<1>. QED BY <1>1, <1>2 DEF End

LEMMA DropsTyped == TypeOK /\ (Disconnect \/ Reboot) => TypeOK'
<1>1. ASSUME TypeOK, Disconnect PROVE TypeOK'
  BY <1>1, EndTyped DEF Disconnect, TypeOK, pipeline
<1>2. ASSUME TypeOK, Reboot PROVE TypeOK'
  <2>1. panel' \in [SENSORS -> Values] /\ held' \in [SENSORS -> (0..DEBOUNCE) \cup {Off}]
    BY <1>2, EmptyIsAValue DEF Reboot, PerSensor
  <2>2. chan' \in Seq(Message) /\ Len(chan') <= CHAN_CAP
    BY <1>2, MqttConstants DEF Reboot
  <2>. QED BY <1>2, <2>1, <2>2, EndTyped DEF Reboot, TypeOK, Message
<1>. QED BY <1>1, <1>2

LEMMA ReceiveTyped == TypeOK /\ Receive => TypeOK'
<1> SUFFICES ASSUME TypeOK, Receive PROVE TypeOK'
  OBVIOUS
<1>1. Head(chan) \in Message /\ Tail(chan) \in Seq(Message) /\ Len(Tail(chan)) = Len(chan) - 1
      /\ Len(chan) \in Nat
  <2>1. chan \in Seq(Message) /\ chan # <<>>
    BY DEF Receive, TypeOK, Message
  <2>. QED BY <2>1
<1> DEFINE i == Head(chan).name
           v == Head(chan).value
<1>2. i \in SENSORS /\ v \in Values
  BY <1>1 DEF Message
<1>3. Stage(i, v)
  BY DEF Receive
<1>4. /\ pending' \in [SENSORS -> Values]
      /\ deadline' \in [SENSORS -> (0..DEBOUNCE) \cup {Off}]
      /\ \A s \in SENSORS : IF deadline'[s] = Off THEN pending'[s] = Empty
                                  ELSE pending'[s] # last'[s]
  <2> HIDE DEF i, v
  <2>1. Empty \in Values /\ DEBOUNCE \in 0..DEBOUNCE /\ DEBOUNCE # Off /\ last' = last
    BY MqttConstants, EmptyIsAValue DEF Off, Receive
  <2>2. /\ pending \in [SENSORS -> Values] /\ deadline \in [SENSORS -> (0..DEBOUNCE) \cup {Off}]
        /\ \A s \in SENSORS : IF deadline[s] = Off THEN pending[s] = Empty
                                  ELSE pending[s] # last[s]
    BY DEF TypeOK
  <2>3. CASE last[i] = v
    BY <1>2, <1>3, <2>1, <2>2, <2>3 DEF Stage
  <2>4. CASE last[i] # v /\ pending[i] # v
    BY <1>2, <1>3, <2>1, <2>2, <2>4 DEF Stage
  <2>5. CASE last[i] # v /\ pending[i] = v
    BY <1>2, <1>3, <2>1, <2>2, <2>5 DEF Stage
  <2>. QED BY <2>3, <2>4, <2>5
<1>5. pc' = "select" /\ ping' \in 0..PING_INTERVAL
  BY MqttConstants DEF Receive, Select
<1>6. chan' = Tail(chan)
  BY DEF Receive
<1>7. chan' \in Seq(Message) /\ Len(chan') <= CHAN_CAP
  BY <1>1, <1>6, MqttConstants DEF TypeOK
<1>. QED BY <1>4, <1>5, <1>7 DEF Receive, TypeOK, Message

LEMMA PublishTyped == TypeOK /\ Publish => TypeOK'
<1> SUFFICES ASSUME TypeOK, Publish PROVE TypeOK'
  OBVIOUS
<1> DEFINE i == Least(due)
<1>1. i \in SENSORS
  BY LeastIn, MqttConstants DEF Publish, TypeOK
<1>2. pc' \in {"select", "publish"} /\ ping' \in 0..PING_INTERVAL
  BY MqttConstants DEF Publish, Select, TypeOK
<1>3. Settle(i) /\ due' \subseteq SENSORS
  BY DEF Publish, TypeOK
<1>4. /\ last' \in [SENSORS -> Values] /\ pending' \in [SENSORS -> Values]
      /\ deadline' \in [SENSORS -> (0..DEBOUNCE) \cup {Off}]
      /\ \A s \in SENSORS : IF deadline'[s] = Off THEN pending'[s] = Empty
                                  ELSE pending'[s] # last'[s]
  <2> HIDE DEF i
  <2>. QED BY <1>1, <1>3, EmptyIsAValue DEF Settle, TypeOK
<1>5. settled' \in [SENSORS -> SUBSET Values]
  <2>1. settled' = [settled EXCEPT ![i] = {v \in {panel[i]} : held[i] = DEBOUNCE}]
    BY DEF Publish
  <2>2. panel[i] \in Values
    BY <1>1 DEF TypeOK
  <2> HIDE DEF i
  <2>. QED BY <1>1, <2>1, <2>2 DEF TypeOK
<1>. QED BY <1>2, <1>3, <1>4, <1>5 DEF Publish, TypeOK

LEMMA QuietTyped == TypeOK /\ (Connect \/ Ping \/ Pinged \/ Poll \/ DebounceOver) => TypeOK'
<1>1. PING_INTERVAL \in 0..PING_INTERVAL
  BY MqttConstants
<1>2. TypeOK /\ Connect => TypeOK'
  BY <1>1 DEF Connect, Select, TypeOK, pipeline, debounce
<1>3. TypeOK /\ (Ping \/ Pinged) => TypeOK'
  <2>1. TypeOK /\ Ping => bad_for' \in (0..WATCHDOG) \cup {Off}
    BY MqttConstants DEF Ping, TypeOK
  <2>2. TypeOK /\ Pinged => TypeOK'
    BY <1>1 DEF Pinged, Select, TypeOK, pipeline, debounce
  <2>. QED BY <1>1, <2>1, <2>2 DEF Ping, TypeOK, pipeline, debounce
<1>4. TypeOK /\ Poll => TypeOK'
  BY <1>1 DEF Poll, Select, TypeOK, pipeline, debounce
<1>5. TypeOK /\ DebounceOver => TypeOK'
  BY DEF DebounceOver, Expired, TypeOK, pipeline
<1>. QED BY <1>2, <1>3, <1>4, <1>5

-----------------------------------------------------------------------------
(* Readings settle. *)

LEMMA InitSettling == Init => Settling /\ DueOK
<1> SUFFICES ASSUME Init PROVE Settling /\ DueOK
  OBVIOUS
<1>1. chan = <<>>
  BY DEF Init
<1>2. \A i \in SENSORS : held[i] = Off /\ deadline[i] = Off /\ Of(i) = {}
  <2>1. \A i : Of(i) = {}
    BY <1>1 DEF Of
  <2>2. \A i \in SENSORS : held[i] = Off /\ deadline[i] = Off
    BY DEF Init, PerSensor
  <2>. QED BY <2>1, <2>2
<1>3. DEBOUNCE # Off
  BY MqttConstants DEF Off
<1>. QED BY <1>2, <1>3 DEF Init, Settling, HeldOK, ChanOK, PendingOK, DueOK

LEMMA RepaintSettles ==
  ASSUME IInv, NEW i \in SENSORS, NEW v \in Values, Repaint(i, v)
  PROVE  Settling'
<1> DEFINE all == Append(chan, [name |-> i, value |-> v])
<1>1. /\ chan \in Seq(Message) /\ Len(chan) \in Nat
      /\ Len(all) = Len(chan) + 1
      /\ \A k \in 1..Len(chan) : all[k] = chan[k]
      /\ all[Len(chan) + 1] = [name |-> i, value |-> v]
  BY DEF IInv, TypeOK, Message
<1>2. /\ panel' = [panel EXCEPT ![i] = v]
      /\ UNCHANGED <<pending, deadline>>
      /\ held' = IF lagged' THEN PerSensor(Off)
                 ELSE [held EXCEPT ![i] = IF @ # Off /\ panel[i] = v THEN @ ELSE 0]
      /\ settled' = IF lagged' THEN PerSensor({}) ELSE settled
  BY DEF Repaint, debounce
<1>3. ASSUME NEW s \in SENSORS PROVE HeldOK(s)'
  <2>1. DEBOUNCE # Off /\ DEBOUNCE # 0
    BY MqttConstants DEF Off
  <2>2. CASE lagged'
    BY <1>2, <2>1, <2>2 DEF HeldOK, PerSensor
  <2>3. CASE ~lagged'
    BY <1>2, <2>1, <2>3 DEF IInv, TypeOK, Settling, HeldOK
  <2>. QED BY <2>2, <2>3
<1>4. ASSUME ~lagged', NEW s \in SENSORS PROVE ChanOK(s)' /\ PendingOK(s)'
  <2>1. chan' = all /\ ~lagged
    BY <1>4 DEF Repaint
  <2>2. Of(s)' = IF s = i THEN Of(s) \cup {Len(chan) + 1} ELSE Of(s)
    <3>1. Of(s)' = {k \in 1..Len(all) : all[k].name = s}
      BY <2>1 DEF Of
    <3> HIDE DEF all
    <3>2. \A k \in 1..Len(all) : k \in 1..Len(chan) \/ k = Len(chan) + 1
      BY <1>1
    <3>. QED BY <1>1, <3>1, <3>2 DEF Of
  <2>3. \A k \in Of(s) : chan'[k] = chan[k] /\ k <= Len(chan) /\ k \in Nat
    BY <1>1, <2>1 DEF Of
  <2>4. chan'[Len(chan) + 1].value = v
    BY <1>1, <2>1
  <2>5. ChanOK(s) /\ PendingOK(s)
    BY <2>1 DEF IInv, Settling
  <2>6. panel \in [SENSORS -> Values] /\ held \in [SENSORS -> (0..DEBOUNCE) \cup {Off}]
    BY DEF IInv, TypeOK
  <2>7. CASE s # i
    BY <1>2, <1>4, <2>2, <2>3, <2>5, <2>6, <2>7 DEF ChanOK, PendingOK
  <2>8. CASE s = i
    <3>1. panel'[i] = v /\ held'[i] # Off /\ Len(chan) + 1 \in Of(i)'
      BY <1>2, <1>4, <2>2, <2>6, <2>8 DEF Off
    <3>2. ChanOK(i)'
      <4>1. ASSUME NEW k \in Of(i)', \A j \in Of(i)' : j <= k PROVE k = Len(chan) + 1
        BY <1>1, <2>2, <2>3, <2>8, <3>1, <4>1
      <4>. QED BY <2>4, <3>1, <4>1 DEF ChanOK
    <3>3. ASSUME deadline[i] # Off, \A k \in Of(i)' : chan'[k].value = pending[i]
          PROVE  v = pending[i] /\ panel[i] = v /\ held[i] # Off /\ held[i] + deadline[i] >= DEBOUNCE
      <4>1. v = pending[i]
        BY <2>4, <3>1, <3>3
      <4>2. \A k \in Of(i) : chan[k].value = pending[i]
        BY <2>2, <2>3, <2>8, <3>3
      <4>. QED BY <2>5, <2>8, <3>3, <4>1, <4>2 DEF PendingOK
    <3>4. PendingOK(i)'
      BY <1>2, <1>4, <2>6, <3>1, <3>3 DEF PendingOK
    <3>. QED BY <2>8, <3>2, <3>4
  <2>. QED BY <2>7, <2>8
<1>. QED BY <1>3, <1>4 DEF Settling

LEMMA TickSettles == IInv /\ Tick => Settling' /\ DueOK'
<1> SUFFICES ASSUME IInv, Tick PROVE Settling' /\ DueOK'
  OBVIOUS
<1>1. /\ held' = [i \in SENSORS |-> IF held[i] = Off THEN Off ELSE Cap(held[i] + 1, DEBOUNCE)]
      /\ settled' = [i \in SENSORS |->
           settled[i] \cup {v \in {panel[i]} : held'[i] = DEBOUNCE}]
      /\ deadline' = [i \in SENSORS |->
           IF deadline[i] \in {Off, 0} THEN deadline[i] ELSE deadline[i] - 1]
      /\ UNCHANGED <<panel, chan, lagged, pc, last, pending, due>>
  BY DEF Tick
<1>2. ASSUME NEW i \in SENSORS
      PROVE  /\ settled[i] \subseteq settled'[i]
             /\ held'[i] = DEBOUNCE => panel[i] \in settled'[i]
  BY <1>1
<1>3. ASSUME NEW i \in SENSORS, held[i] # Off
      PROVE  /\ held'[i] # Off
             /\ held'[i] = DEBOUNCE \/ held'[i] = held[i] + 1
             /\ held[i] \in 0..DEBOUNCE /\ DEBOUNCE \in Nat
  <2>1. held[i] \in 0..DEBOUNCE /\ held[i] + 1 \in Nat /\ DEBOUNCE \in Nat
    BY <1>3, MqttConstants DEF IInv, TypeOK
  <2>2. held'[i] = Cap(held[i] + 1, DEBOUNCE)
    BY <1>1, <1>3
  <2>3. Cap(held[i] + 1, DEBOUNCE) \in 0..DEBOUNCE
    BY <2>1, CapRange
  <2>4. Cap(held[i] + 1, DEBOUNCE) = DEBOUNCE \/ Cap(held[i] + 1, DEBOUNCE) = held[i] + 1
    BY <2>1, CapRange
  <2>. QED BY <2>1, <2>2, <2>3, <2>4 DEF Off
<1>4. ASSUME NEW i \in SENSORS, ChanOK(i), PendingOK(i) PROVE ChanOK(i)' /\ PendingOK(i)'
  <2>1. Of(i)' = Of(i)
    BY <1>1 DEF Of
  <2>2. ChanOK(i)'
    BY <1>1, <1>3, <1>4, <2>1 DEF ChanOK
  <2>3. ASSUME deadline[i] # Off, held[i] # Off, held[i] + deadline[i] >= DEBOUNCE
        PROVE  held'[i] + deadline'[i] >= DEBOUNCE
    <3>1. deadline[i] \in 0..DEBOUNCE
      BY <2>3 DEF IInv, TypeOK
    <3>2. deadline'[i] = IF deadline[i] = 0 THEN 0 ELSE deadline[i] - 1
      BY <1>1, <2>3, <3>1
    <3>. QED BY <1>3, <2>3, <3>1, <3>2
  <2>4. deadline'[i] # Off => deadline[i] # Off
    BY <1>1
  <2>5. PendingOK(i)'
    BY <1>1, <1>3, <1>4, <2>1, <2>3, <2>4 DEF PendingOK
  <2>. QED BY <2>2, <2>5
<1>5. Settling'
  BY <1>1, <1>2, <1>4 DEF IInv, Settling, HeldOK
<1>6. DueOK'
  BY <1>1, <1>2 DEF IInv, TypeOK, DueOK
<1>. QED BY <1>5, <1>6

\* The variables of the connection are gone, the panel and VALUES stay or are cleared.
LEMMA DropsSettle == IInv /\ (Disconnect \/ Reboot) => Settling' /\ DueOK'
<1> SUFFICES ASSUME IInv, Disconnect \/ Reboot PROVE Settling' /\ DueOK'
  OBVIOUS
<1>1. End
  BY DEF Disconnect, Reboot
<1>2. \A i \in SENSORS : deadline'[i] = Off
  BY <1>1 DEF End, PerSensor
<1>3. DueOK'
  BY <1>1 DEF End, DueOK
<1>4. \A i \in SENSORS : HeldOK(i)' /\ (~lagged' => ChanOK(i)')
  <2>1. CASE Disconnect
    BY <2>1 DEF Disconnect, pipeline, IInv, Settling, HeldOK, ChanOK, Of
  <2>2. CASE Reboot
    <3>1. DEBOUNCE # Off
      BY MqttConstants DEF Off
    <3>. QED BY <2>2, <3>1 DEF Reboot, PerSensor, HeldOK, ChanOK, Of
  <2>. QED BY <2>1, <2>2
<1>. QED BY <1>2, <1>3, <1>4 DEF Settling, PendingOK

LEMMA ReceiveSettles == IInv /\ Receive => Settling' /\ DueOK'
<1> SUFFICES ASSUME IInv, Receive PROVE Settling' /\ DueOK'
  OBVIOUS
<1>1. /\ chan \in Seq(Message) /\ chan # <<>> /\ Len(chan) \in Nat \ {0}
      /\ Head(chan) = chan[1] /\ chan[1] \in Message
      /\ Len(Tail(chan)) = Len(chan) - 1
      /\ \A k \in 1..(Len(chan) - 1) : Tail(chan)[k] = chan[k + 1]
  <2>1. chan \in Seq(Message) /\ chan # <<>>
    BY DEF Receive, IInv, TypeOK, Message
  <2>. QED BY <2>1
<1> DEFINE r == chan[1].name
           v == chan[1].value
<1>2. r \in SENSORS /\ v \in Values
  BY <1>1 DEF Message
<1>3. /\ Stage(r, v) /\ chan' = Tail(chan) /\ pc = "select" /\ pc' = "select"
      /\ UNCHANGED <<panel, held, settled, lagged, last, due>>
  BY <1>1 DEF Receive, Select
<1>4. DueOK'
  BY <1>3 DEF IInv, DueOK
<1>5. \A i \in SENSORS : HeldOK(i)'
  BY <1>3 DEF IInv, Settling, HeldOK
<1>6. ASSUME ~lagged, NEW i \in SENSORS PROVE ChanOK(i)' /\ PendingOK(i)'
  <2>1. \A k \in Of(i)' : k \in Nat /\ k + 1 \in Of(i) /\ chan'[k] = chan[k + 1]
    BY <1>1, <1>3 DEF Of
  <2>2. ASSUME NEW k \in Of(i)
        PROVE  \/ k = 1 /\ i = r
               \/ k \in Nat /\ k - 1 \in Of(i)' /\ chan'[k - 1] = chan[k]
    <3>1. k \in 1..Len(chan) /\ chan[k].name = i
      BY DEF Of
    <3>2. k # 1 => k - 1 \in 1..Len(chan') /\ chan'[k - 1] = chan[k]
      BY <1>1, <1>3, <3>1
    <3>3. CASE k = 1
      BY <3>1, <3>3
    <3>4. CASE k # 1
      <4>1. Of(i)' = {j \in 1..Len(chan') : chan'[j].name = i}
        BY DEF Of
      <4>. QED BY <3>1, <3>2, <3>4, <4>1
    <3>. QED BY <3>3, <3>4
  <2>3. ChanOK(i) /\ PendingOK(i)
    BY <1>6 DEF IInv, Settling
  <2>4. ChanOK(i)'
    <3> SUFFICES ASSUME NEW k \in Of(i)', \A j \in Of(i)' : j <= k
                 PROVE  chan'[k].value = panel'[i] /\ held'[i] # Off
      BY DEF ChanOK
    <3>1. \A j \in Of(i) : j <= k + 1
      BY <2>1, <2>2
    <3>. QED BY <1>3, <2>1, <2>3, <3>1 DEF ChanOK
  <2>5. CASE i # r
    <3>1. pending'[i] = pending[i] /\ deadline'[i] = deadline[i]
      BY <1>2, <1>3, <2>5 DEF Stage, IInv, TypeOK
    <3>2. (\A k \in Of(i)' : chan'[k].value = pending[i])
            => \A k \in Of(i) : chan[k].value = pending[i]
      BY <2>2, <2>5
    <3>. QED BY <1>3, <2>3, <2>4, <3>1, <3>2 DEF PendingOK
  <2>6. CASE i = r
    <3>1. 1 \in Of(i)
      BY <1>1, <2>6 DEF Of
    <3>2. ASSUME \A k \in Of(i)' : chan'[k].value = v PROVE panel[i] = v /\ held[i] # Off
      <4>1. \A k \in Of(i) : chan[k].value = v
        BY <2>2, <3>2
      <4>2. Of(i) \subseteq 1..Len(chan)
        BY DEF Of
      <4>3. PICK k \in Of(i) : \A j \in Of(i) : j <= k
        BY <1>1, <3>1, <4>2, LargestIn
      <4>. QED BY <2>3, <4>1, <4>3 DEF ChanOK
    <3>3. CASE last[i] = v
      <4>1. deadline'[i] = Off
        BY <1>2, <1>3, <2>6, <3>3 DEF Stage, IInv, TypeOK
      <4>. QED BY <2>4, <4>1 DEF PendingOK
    <3>4. CASE last[i] # v /\ pending[i] # v
      <4>1. pending'[i] = v /\ deadline'[i] = DEBOUNCE
        <5>1. /\ pending' = [pending EXCEPT ![i] = v]
              /\ deadline' = [deadline EXCEPT ![i] = DEBOUNCE]
          BY <1>3, <2>6, <3>4 DEF Stage
        <5>2. pending \in [SENSORS -> Values] /\ deadline \in [SENSORS -> (0..DEBOUNCE) \cup {Off}]
          BY DEF IInv, TypeOK
        <5>. QED BY <5>1, <5>2
      <4>2. held[i] # Off => held'[i] + deadline'[i] >= DEBOUNCE
        BY <1>3, <4>1, MqttConstants DEF IInv, TypeOK
      <4>. QED BY <1>3, <2>4, <3>2, <4>1, <4>2 DEF PendingOK
    <3>5. CASE last[i] # v /\ pending[i] = v
      <4>1. pending' = pending /\ deadline' = deadline
        BY <1>3, <2>6, <3>5 DEF Stage
      <4>2. (\A k \in Of(i)' : chan'[k].value = v) => \A k \in Of(i) : chan[k].value = v
        BY <2>2
      <4>. QED BY <1>3, <2>3, <2>4, <3>5, <4>1, <4>2 DEF PendingOK
    <3>. QED BY <3>3, <3>4, <3>5
  <2>. QED BY <2>5, <2>6
<1>. QED BY <1>3, <1>4, <1>5, <1>6 DEF Settling

LEMMA PublishSettles == IInv /\ Publish => Settling' /\ DueOK'
<1> SUFFICES ASSUME IInv, Publish PROVE Settling' /\ DueOK'
  OBVIOUS
<1> DEFINE r == Least(due)
<1>1. r \in due /\ r \in SENSORS
  BY LeastIn, MqttConstants DEF Publish, IInv, TypeOK
<1>2. /\ Settle(r) /\ due' = due \ {r}
      /\ due' = {} \/ pc' = pc
      /\ settled' = [settled EXCEPT ![r] = {v \in {panel[r]} : held[r] = DEBOUNCE}]
      /\ UNCHANGED <<panel, held, chan, lagged>>
  BY DEF Publish, Select
<1> HIDE DEF r
<1>3. /\ deadline'[r] = Off
      /\ held[r] = DEBOUNCE => panel[r] \in settled'[r]
      /\ \A i \in SENSORS \ {r} :
           pending'[i] = pending[i] /\ deadline'[i] = deadline[i] /\ settled'[i] = settled[i]
  BY <1>1, <1>2 DEF Settle, IInv, TypeOK
<1>4. Settling'
  <2> SUFFICES ASSUME NEW i \in SENSORS
               PROVE  HeldOK(i)' /\ (~lagged' => ChanOK(i)' /\ PendingOK(i)')
    BY DEF Settling
  <2>1. HeldOK(i) /\ (~lagged => ChanOK(i) /\ PendingOK(i)) /\ Of(i)' = Of(i)
    BY <1>2 DEF IInv, Settling, Of
  <2>2. HeldOK(i)' /\ (~lagged' => ChanOK(i)')
    BY <1>2, <1>3, <2>1 DEF HeldOK, ChanOK
  <2>3. ~lagged' => PendingOK(i)'
    BY <1>2, <1>3, <2>1 DEF PendingOK
  <2>. QED BY <2>2, <2>3
<1>5. DueOK'
  BY <1>1, <1>2, <1>3 DEF IInv, TypeOK, DueOK
<1>. QED BY <1>4, <1>5

\* With VALUES empty, a timer that is over is one of a reading that settled.
LEMMA DebounceOverSettles == IInv /\ DebounceOver => Settling' /\ DueOK'
<1> SUFFICES ASSUME IInv, DebounceOver PROVE Settling' /\ DueOK'
  OBVIOUS
<1>1. /\ due' = Expired /\ pc' = "publish" /\ chan = <<>>
      /\ UNCHANGED <<panel, held, settled, chan, lagged, last, pending, deadline>>
  BY DEF DebounceOver, pipeline
<1>2. ASSUME NEW i \in Expired PROVE lagged \/ pending[i] \in settled[i]
  <2>1. i \in SENSORS /\ deadline[i] = 0 /\ deadline[i] # Off
    BY DEF Expired, Off
  <2>2. Of(i) = {}
    BY <1>1 DEF Of
  <2>3. ~lagged => panel[i] = pending[i] /\ held[i] # Off /\ held[i] + deadline[i] >= DEBOUNCE
    BY <2>1, <2>2 DEF IInv, Settling, PendingOK
  <2>4. held[i] # Off => held[i] \in 0..DEBOUNCE
    BY <2>1 DEF IInv, TypeOK
  <2>5. ~lagged => held[i] = DEBOUNCE
    BY <2>1, <2>3, <2>4, MqttConstants
  <2>. QED BY <2>1, <2>3, <2>5 DEF IInv, Settling, HeldOK
<1>3. Settling'
  BY <1>1 DEF IInv, Settling, HeldOK, ChanOK, PendingOK, Of
<1>4. DueOK'
  BY <1>1, <1>2 DEF DueOK
<1>. QED BY <1>3, <1>4

\* Steps that leave the panel, VALUES and the debouncing alone.
LEMMA Untouched ==
  ASSUME IInv, UNCHANGED <<panel, held, settled, chan, lagged, last, pending, deadline, due>>,
         pc' = "publish" <=> pc = "publish"
  PROVE  Settling' /\ DueOK'
<1>1. Settling'
  BY DEF IInv, Settling, HeldOK, ChanOK, PendingOK, Of
<1>2. DueOK'
  BY DEF IInv, DueOK
<1>. QED BY <1>1, <1>2

-----------------------------------------------------------------------------
LEMMA Typed == TypeOK /\ [Next]_vars => TypeOK'
<1> SUFFICES ASSUME TypeOK, [Next]_vars PROVE TypeOK'
  OBVIOUS
<1>1. CASE \E i \in SENSORS, v \in Values : Repaint(i, v)
  BY <1>1, RepaintTyped
<1>2. CASE Tick
  BY <1>2, TickTyped
<1>3. CASE Task \/ Disconnect
  BY <1>3, ReceiveTyped, PublishTyped, DropsTyped, QuietTyped DEF Task
<1>4. CASE UNCHANGED vars
  BY <1>4 DEF vars, pipeline, connection, debounce, TypeOK
<1>. QED BY <1>1, <1>2, <1>3, <1>4 DEF Next

LEMMA Inductive == IInv /\ [Next]_vars => IInv'
<1> SUFFICES ASSUME IInv, [Next]_vars PROVE Settling' /\ DueOK'
  BY Typed DEF IInv
<1>1. ASSUME NEW i \in SENSORS, NEW v \in Values, Repaint(i, v)
      PROVE  Settling' /\ DueOK'
  <2>1. DueOK'
    BY <1>1 DEF Repaint, connection, debounce, IInv, DueOK
  <2>. QED BY <1>1, <2>1, RepaintSettles
<1>2. CASE Tick
  BY <1>2, TickSettles
<1>3. CASE Connect \/ Ping \/ Pinged \/ Poll
  BY <1>3, Untouched DEF Connect, Ping, Pinged, Poll, Select, pipeline, debounce
<1>4. CASE Receive \/ Reboot \/ Disconnect \/ DebounceOver \/ Publish
  BY <1>4, ReceiveSettles, DropsSettle, DebounceOverSettles, PublishSettles
<1>5. CASE UNCHANGED vars
  BY <1>5, Untouched DEF vars, pipeline, connection, debounce
<1>. QED BY <1>1, <1>2, <1>3, <1>4, <1>5 DEF Next, Task

LEMMA Invariant == Spec => []IInv
<1>1. Init => IInv
  BY InitTyped, InitSettling DEF IInv
<1>. QED BY <1>1, Inductive, PTL DEF Spec

\* VALUES keeps its capacity and timers their ranges; a row whose timer runs has a
\* reading pending that is not the published one, and one whose timer is off has
\* none (mqtt.rs 213-219, 250-266, 301-338).
THEOREM TypeCorrect == Spec => []TypeOK
<1>1. IInv => TypeOK
  BY DEF IInv
<1>. QED BY <1>1, Invariant, PTL

\* Only a publish changes what the task holds for published, but for the end of a
\* connection.
LEMMA PublishesSettled ==
  ASSUME IInv, [Next]_vars, NEW i \in SENSORS, last'[i] # last[i], pc' # "down"
  PROVE  last'[i] \in settled[i] \/ lagged
<1>1. CASE Publish
  <2>1. Least(due) \in due /\ Settle(Least(due))
    BY <1>1, LeastIn, MqttConstants DEF Publish, IInv, TypeOK
  <2>2. i = Least(due) /\ last'[i] = pending[i]
    BY <2>1 DEF Settle, IInv, TypeOK
  <2>. QED BY <2>1, <2>2 DEF IInv, DueOK
<1>2. CASE Disconnect \/ Reboot
  BY <1>2 DEF Disconnect, Reboot, End
<1>3. CASE \E s \in SENSORS, v \in Values : Repaint(s, v)
  BY <1>3 DEF Repaint, debounce
<1>4. CASE Tick \/ Connect \/ Receive \/ Ping \/ Pinged \/ Poll \/ DebounceOver \/ UNCHANGED vars
  BY <1>4 DEF Tick, Connect, Receive, Ping, Pinged, Poll, DebounceOver, vars, debounce
<1>. QED BY <1>1, <1>2, <1>3, <1>4 DEF Next, Task

\* What is published, an empty reading included, has stood on the panel for the
\* debounce time since the row's publish before, unless VALUES lost a message
\* (mqtt.rs 56-60, 250-266, 320-338).
THEOREM NoTransientsAlways == Spec => NoTransients
<1>1. IInv /\ [Next]_vars =>
        [\A i \in SENSORS : last'[i] # last[i] /\ pc' # "down" =>
           last'[i] \in settled[i] \/ lagged]_vars
  BY PublishesSettled
<1>. QED BY <1>1, Invariant, PTL DEF Spec, NoTransients
=============================================================================
