------------------------------- MODULE Radio -------------------------------
(***************************************************************************)
(* How likely a message between vehicles is lost and how long it waits for *)
(* the medium, over the eight protocols that are compared                  *)
(* (simulations/v2x/protocols.py, protocols_bridge.py).  Chances are in    *)
(* millionths and round down, times in microseconds; the packet error rate *)
(* that the curve of a radio gives is an input, in percent.  At the end:   *)
(* how the vehicles move and whether they see each other (agents.py,       *)
(* channel.py, and the scenes of simulation.py).                           *)
(***************************************************************************)
EXTENDS Integers, Sequences, Fec

Within(n, most) == IF n < most THEN n ELSE most
Urgencies == {"emergency", "vru", "normal"}    \* DENM, BSM of a VRU, BSM

PayloadSize(u) == IF u = "emergency" THEN 250 ELSE 400
Deadline(u) == IF u = "emergency" THEN 50000 ELSE 100000
MetDeadline(u, latency) == latency <= Deadline(u)

(* compute_cbr, in parts of 375: 400 bytes at 10 Hz of each neighbour.      *)
Cbr(neighbours) == Within(2 * neighbours, 375)
CbrSquared(neighbours, percent) ==
  (64 * percent * Cbr(neighbours) * Cbr(neighbours)) \div 900

(* What a radio does to a message for all that the channel lets through:    *)
(* others: the chance that other stations destroy it, by a collision, a     *)
(* slot that was taken twice or a queue that overflows; wait: the longest   *)
(* wait that is not drawn from a tail without end, which is the spacing and *)
(* the last slot of a backoff, or a whole period; air: the time on air.  A  *)
(* BSM of QDAP is sent as a delta of 25.6 percent.  The air time of DSRC    *)
(* and of 802.11bd is a thousandth of what their rates say.                 *)
LastSlot(window, neighbours) == (window * (375 + 2 * Cbr(neighbours))) \div 375 - 1
Share(chance, percent) == (chance * percent) \div 100
EffectiveBytes(u) ==
  IF u = "emergency" THEN PayloadSize(u) ELSE (PayloadSize(u) * 256) \div 1000

Broadcast(neighbours) == Within(CbrSquared(neighbours, 60), 550000)
Dsrc(u, neighbours) ==
  [others |-> Broadcast(neighbours),
   wait |-> 64 + 13 * LastSlot(15, neighbours),
   air |-> (8 * PayloadSize(u)) \div 6000]
NextGeneration(u, neighbours) ==
  [others |-> Within(CbrSquared(neighbours, 45), 450000),
   wait |-> 32 + 9 * LastSlot(15, neighbours),
   air |-> (8 * PayloadSize(u)) \div 19200]
Scheduled(u, neighbours) ==
  [others |-> Within(10000 + 1400 * neighbours, 300000),
   wait |-> 100000,
   air |-> 2 * PayloadSize(u)]
Udp(neighbours) ==
  LET overload == 2 * Cbr(neighbours) - 375
  IN  [others |-> IF overload > 0 THEN Within(4000 * overload, 900000) ELSE 0,
       wait |-> 0, air |-> 0]
Mqtt == [others |-> 0, wait |-> 5000, air |-> 0]
Qdap(u, neighbours) ==
  [others |-> Share(Broadcast(neighbours),
                    CASE u = "emergency" -> 25 [] u = "vru" -> 60 [] OTHER -> 100),
   wait |-> 0,
   air |-> (8 * EffectiveBytes(u)) \div 20]
QdapOverDsrc(u, neighbours) ==
  LET window == CASE u = "emergency" -> 3 [] u = "vru" -> 7 [] OTHER -> 15
  IN  [others |-> (Broadcast(neighbours) * window) \div 15,
       wait |-> 64 + 13 * LastSlot(window, neighbours),
       air |-> (8 * EffectiveBytes(u)) \div 6]
QdapOverCv2x(u, neighbours) ==
  LET oneShot == Within(CbrSquared(neighbours, 50), 400000)
  IN  [others |-> IF u = "normal" THEN Scheduled(u, neighbours).others
                  ELSE Share(oneShot, IF u = "emergency" THEN 25 ELSE 55),
       wait |-> IF u = "normal" THEN 100000 ELSE 0,
       air |-> 2 * EffectiveBytes(u)]

MediumOf(protocol, u, neighbours) ==
  CASE protocol = "dsrc" -> Dsrc(u, neighbours)
    [] protocol = "80211bd" -> NextGeneration(u, neighbours)
    [] protocol = "cv2x" -> Scheduled(u, neighbours)
    [] protocol = "udp" -> Udp(neighbours)
    [] protocol = "mqtt" -> Mqtt
    [] protocol = "qdap" -> Qdap(u, neighbours)
    [] protocol = "qdap_dsrc" -> QdapOverDsrc(u, neighbours)
    [] protocol = "qdap_cv2x" -> QdapOverCv2x(u, neighbours)

(* A packet is lost to the channel or to others.  An emergency over DSRC    *)
(* loses again as it waits behind the rest; over MQTT two must come through.*)
Arrives(protocol, u, per, neighbours) ==
  LET once == Share(Million - MediumOf(protocol, u, neighbours).others, 100 - per)
  IN  CASE protocol = "dsrc" /\ u = "emergency" -> Share(once, 85)
        [] protocol = "mqtt" -> Share(once, 100 - per)
        [] OTHER -> once
PacketLoss(protocol, u, per, neighbours) == Million - Arrives(protocol, u, per, neighbours)

(* _p_fail: the code of the profile for the loss that was observed, at      *)
(* least one percent of it.  Without the Rust core the loss is raised to a  *)
(* power, here in tenths.                                                   *)
ProfileFor(observed, urgent) ==
  SelectFecProfile(IF observed < 1 THEN 1 ELSE observed, urgent, IF urgent THEN 4 ELSE 2)
PFail(per, observed, urgent) ==
  LET code == ProfileFor(observed, urgent) IN EffectiveLoss(per, code[1], code[2])
Exponent(observed, urgent) ==
  CASE observed < 5 -> IF urgent THEN 15 ELSE 11
    [] observed \in 5..14 -> IF urgent THEN 20 ELSE 15
    [] observed \in 15..29 -> IF urgent THEN 30 ELSE 20
    [] OTHER -> IF urgent THEN 40 ELSE 25

-----------------------------------------------------------------------------
(* Agents, as far as they move: the most that a speed, in mm/s, is and that *)
(* it changes by in a step of 50 ms; a pedestrian has no radio.             *)
Car == [most |-> 36100, gain |-> 150, brake |-> 400, radio |-> TRUE, vru |-> FALSE]
Motorcycle == [most |-> 44400, gain |-> 200, brake |-> 450, radio |-> TRUE, vru |-> TRUE]
Pedestrian == [most |-> 2500, gain |-> 75, brake |-> 100, radio |-> FALSE, vru |-> TRUE]

(* update(), along the way an agent goes: places are in mm / 20, on a road  *)
(* whose end is its beginning.  One that brakes comes to rest below 0.1 m/s.*)
Slower(speed, brake) ==
  IF speed <= brake \/ speed - brake < 100 THEN 0 ELSE speed - brake
Update(agent, road) ==
  LET wanted == IF agent.braking THEN Slower(agent.speed, agent.kind.brake)
                ELSE IF agent.speed < agent.target
                THEN Within(agent.speed + agent.kind.gain, agent.target)
                ELSE agent.speed
      speed == Within(wanted, agent.kind.most)
  IN  [agent EXCEPT !.speed = speed, !.place = (@ + speed) % road]

(* The scenes.  Two fifths of an urban one are on each street and the rest  *)
(* is scattered, with four buildings at the corners; of a hundred draws ten *)
(* make a pedestrian and twenty a motorcycle.  In m, boxes as corner, size. *)
Buildings == {<<10, 10, 170, 170>>, <<220, 10, 170, 170>>,
              <<10, 220, 170, 170>>, <<220, 220, 170, 170>>}
OnStreet(street, x, y) ==
  CASE street = "horizontal" -> x \in 0..400 /\ y \in 180..220
    [] street = "vertical" -> x \in 180..220 /\ y \in 0..400
    [] OTHER -> x \in 0..400 /\ y \in 0..400
KindDrawn(draw) == IF draw < 10 THEN Pedestrian ELSE IF draw < 30 THEN Motorcycle ELSE Car
SetupUrbanIntersection(n, draws) ==
  LET along == (4 * n) \div 10
  IN  [i \in 1..n |-> [kind |-> KindDrawn(draws[i]),
                       street |-> CASE i <= along -> "horizontal"
                                    [] i \in along + 1..2 * along -> "vertical"
                                    [] OTHER -> "scattered"]]

(* A highway of 2 km, in m / 1000: pairs side by side at equal distances, of*)
(* at least 25 m.  A cascade has a pedestrian besides.                      *)
HighwayLength == 2000000
Most(a, b) == IF a > b THEN a ELSE b
Spacing(n) == Most(HighwayLength \div Most(n \div 2, 1), 25000)
SetupHighwayPlatoon(n, draws) ==
  [i \in 1..n |-> [kind |-> IF draws[i] < 15 THEN Motorcycle ELSE Car,
                   lane |-> (i - 1) % 2, x |-> ((i - 1) \div 2) * Spacing(n)]]
SetupEmergencyCascade(n, draws) ==
  Append(SetupHighwayPlatoon(n, draws), [kind |-> Pedestrian, lane |-> 0, x |-> 500000])

-----------------------------------------------------------------------------
(* _segment_intersects_box: the part of a segment from p to q, as two       *)
(* fractions of it, that is between the sides of a box, side by side.       *)
AtMost(f, g) == f[1] * g[2] <= g[1] * f[2]
Later(f, g) == IF AtMost(f, g) THEN g ELSE f
Earlier(f, g) == IF AtMost(f, g) THEN f ELSE g
Clipped(part, p, d, low, high) ==
  LET enter == IF d > 0 THEN <<low - p, d>> ELSE <<p - high, -d>>
      leave == IF d > 0 THEN <<high - p, d>> ELSE <<p - low, -d>>
  IN  CASE part = << >> -> << >>
        [] part # << >> /\ d = 0 -> IF p < low \/ p > high THEN << >> ELSE part
        [] OTHER -> LET from == Later(part[1], enter)
                        to == Earlier(part[2], leave)
                    IN  IF AtMost(from, to) THEN <<from, to>> ELSE << >>
SegmentIntersectsBox(p, q, box) ==
  LET whole == <<<<0, 1>>, <<1, 1>>>>
      across == Clipped(whole, p[1], q[1] - p[1], box[1], box[1] + box[3])
  IN  Clipped(across, p[2], q[2] - p[2], box[2], box[2] + box[4]) # << >>
IsLos(p, q, buildings) == \A box \in buildings : ~SegmentIntersectsBox(p, q, box)
=============================================================================
