-------------------------- MODULE VehicleMessages --------------------------
(***************************************************************************)
(* The messages that vehicles broadcast, on the wire                       *)
(* (simulations/v2x/v2x_messages.py): a BSM and a DENM, and what the       *)
(* validation takes for one.  As in QFrame a field is one number of the    *)
(* wire.  A position is in units of the wire; a speed, a heading, an       *)
(* acceleration and a height are in thirds of them, so that they are       *)
(* rounded.                                                                *)
(***************************************************************************)
EXTENDS QFrame

CONSTANT StationSpace   \* 2^32: the numbers of stations that fit a field

MSG_ID_BSM == 20
MSG_ID_DENM == 1
BRAKE_ALL == 240
Degree == 10000000

Nearest(thirds) == (thirds + 1) \div 3
Capped(n, most) == IF n > most THEN most ELSE n
Turn == 3 * 28800
SpeedRaw(speed) == Capped(Nearest(speed), 8191)
HeadingRaw(heading) == Nearest(heading % Turn)

(* struct.pack raises for a number that its field cannot hold.              *)
Fits(n, bits) == 0 <= n /\ n < 2 ^ bits
FitsSigned(n, bits) == Fits(n + 2 ^ (bits - 1), bits)

BsmFields == 17      \* header, core data and their padding: 40 bytes
BsmMake(station, lat, lon, speed, heading, braking) ==
  [count |-> 0, id |-> station % StationSpace, lat |-> lat, lon |-> lon, elev |-> 0,
   speed |-> speed, heading |-> heading, accel |-> 0,
   brakes |-> IF braking THEN BRAKE_ALL ELSE 0, braking |-> braking]

BsmEncode(b) ==
  IF ~FitsSigned(Nearest(b.elev), 16) \/ SpeedRaw(b.speed) < 0 \/ ~Fits(b.brakes, 8)
  THEN Raised
  ELSE [ok |-> TRUE, wire |->
         <<MSG_ID_BSM, 0, b.count % 128, b.id, 0, b.lat, b.lon, Nearest(b.elev), 0,
           SpeedRaw(b.speed), HeadingRaw(b.heading),
           Capped(-Capped(-Nearest(b.accel), 127), 127), b.brakes,
           IF b.braking THEN 1 ELSE 0, 200, 450, 0>>]

VruExtension == <<3, 1>>
BsmFrame(b, vru) ==
  LET core == BsmEncode(b)
  IN  IF core.ok /\ vru THEN [core EXCEPT !.wire = @ \o VruExtension] ELSE core

BsmDecode(data) ==
  [count |-> data[3], id |-> data[4], lat |-> data[6], lon |-> data[7], elev |-> 3 * data[8],
   speed |-> 3 * data[10], heading |-> 3 * data[11], accel |-> 3 * data[12],
   brakes |-> data[13], braking |-> data[14] % 2 = 1]

(* 8191 stands for a speed that is not known, and is refused.               *)
ValidateBsm(data) ==
  /\ Len(data) >= BsmFields
  /\ data[1] = MSG_ID_BSM
  /\ LET b == BsmDecode(data)
     IN  /\ -90 * Degree <= b.lat /\ b.lat <= 90 * Degree
         /\ -180 * Degree <= b.lon /\ b.lon <= 180 * Degree
         /\ b.speed <= 3 * 8190

-----------------------------------------------------------------------------
DenmFields == 16     \* header, both containers and their padding: 40 bytes
MakeEmergency(station, time, lat, lon, speed, heading, cause) ==
  [station |-> station, number |-> 0, time |-> time, validity |-> 60, lat |-> lat, lon |-> lon,
   cause |-> cause, quality |-> 5, speed |-> speed, heading |-> heading]

ManagementWire(d) ==
  <<d.station, d.number, d.time, d.validity, d.lat, d.lon, 0, d.cause, 0, 0>>
SituationWire(d) == <<d.quality % 8, SpeedRaw(d.speed), HeadingRaw(d.heading), 0>>

(* A station that does not fit raises here; in a BSM it is cut.             *)
DenmEncode(d) ==
  IF \/ d.station \notin 0..StationSpace - 1 \/ ~Fits(d.validity, 16)
     \/ SpeedRaw(d.speed) < 0
  THEN Raised
  ELSE [ok |-> TRUE, wire |-> <<MSG_ID_DENM, 2>> \o ManagementWire(d) \o SituationWire(d)]

DenmDecode(data) ==
  [station |-> data[3], number |-> data[4], time |-> data[5], validity |-> data[6],
   lat |-> data[7], lon |-> data[8], cause |-> data[10]]

ValidateDenm(data) ==
  /\ Len(data) >= DenmFields
  /\ data[1] = MSG_ID_DENM
  /\ DenmDecode(data).validity <= 86400
=============================================================================
