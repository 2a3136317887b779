------------------------------ MODULE Monitors ------------------------------
(***************************************************************************)
(* The sensors of the monitor list that interrupt: the accelerometer's     *)
(* orientation (devices/lis3dh.c) and the door's touch sensors             *)
(* (devices/door_sensors.c), over the pin change interrupts                *)
(* (drivers/pcint.c).  The interrupt of a port sets the flags of the pins  *)
(* that have changed; pcint_check, which the main loop and the scheduler   *)
(* call again and again, runs the callback of a flagged pin and clears its *)
(* flag, in two accesses to the byte of the whole port.  The radio's       *)
(* CONNECTED pin (motes/wifly.c) is on the port of the touch sensors;    *)
(* packets of the host come in its callback, or between two checks.  Once a*)
(* second the monitor list's tasks report what the callbacks have latched. *)
(***************************************************************************)
EXTENDS Integers

CONSTANTS Orientations,   \* the positions the accelerometer tells apart
          None,           \* no position, or none latched
          Settle          \* int_setup_time

ASSUME MonitorAssumption == None \notin Orientations /\ Settle \in Nat

Touch == {"indoor", "outdoor"}
Pin == Touch \cup {"accel", "radio"}
Port(p) == IF p = "accel" THEN "A" ELSE "B"

VARIABLES
    zone,                       \* the position the device is in: INT1_SOURCE, and ACCEL_INT2_PIN if any
    lat,                        \* the pin's bit of pcint_latA
    watching,                   \* the accelerometer's callback is registered
    int_orientation_latch,
    since,                      \* seconds since int_start_latch
    flags,                      \* pcint_cbflags: the pins whose bit is set
    at, cb, loaded,             \* where pcint_check is, in whose callback, the flags it has read
    door,                       \* DOOR_SENSOR_SWITCH_PIN
    door_sensor_state, last_open_state,
    missed,                     \* history: the position may have changed without the callback
                                \* knowing
    told,                       \* history: the last orientation reported
    owed                        \* history: the sensors touched and not reported since, but for
                                \* touches lost in the clearing of another pin's flag

accel == <<zone, lat, watching, int_orientation_latch, since, missed, told>>
check == <<at, cb, loaded>>
doors == <<door, door_sensor_state, last_open_state, owed>>
vars == <<accel, flags, check, doors>>

High(z) == z # None

-----------------------------------------------------------------------------
(* pcint_init, accel_init, door_sensors_init.                              *)
Init == /\ zone = None /\ lat = FALSE /\ watching = FALSE
        /\ int_orientation_latch = None /\ since = 0
        /\ flags = {} /\ at = "idle" /\ cb = "accel" /\ loaded = {}
        /\ door \in {"OPEN", "CLOSED"} /\ door_sensor_state = {} /\ last_open_state = "unknown"
        /\ missed = FALSE /\ told = None /\ owed = {}

(* The device is turned: positions do not touch.  The interrupt compares   *)
(* the pin with what it was at the last interrupt.                         *)
Turn(z) == /\ (zone = None) # (z = None)
           /\ zone' = z
           /\ lat' = IF watching THEN High(z) ELSE lat
           /\ flags' = IF watching /\ High(z) # lat THEN flags \cup {"accel"} ELSE flags
           /\ missed' = (missed \/ (at \in {"clear", "store"} /\ cb = "accel"))
           /\ UNCHANGED <<watching, int_orientation_latch, since, told, check, doors>>

(* A touch, or its end: either moves the pin.  If pcint_check has read the *)
(* port's flags to clear another's, it is about to write them back.        *)
Touched(s) == flags' = flags \cup {s}

Overwritten(s) == at = "store" /\ s # cb /\ Port(s) = Port(cb) /\ s \notin loaded

Touching(s) ==
    /\ Touched(s)
    /\ owed' = IF Overwritten(s) THEN owed ELSE owed \cup {s}
    /\ UNCHANGED <<accel, check, door, door_sensor_state, last_open_state>>

(* The radio opens or closes its connection.                               *)
RadioMoves == /\ flags' = flags \cup {"radio"}
              /\ UNCHANGED <<accel, check, doors>>

(* The door moves; nobody is interrupted.                                  *)
DoorMoves == /\ door' = IF door = "OPEN" THEN "CLOSED" ELSE "OPEN"
             /\ UNCHANGED <<accel, flags, check, door_sensor_state, last_open_state, owed>>

-----------------------------------------------------------------------------
(* pcint_check calls _door_sensors_indoor_interrupt or the outdoor one, ...*)
CallTouch(s) == /\ at = "idle" /\ s \in flags
                /\ door_sensor_state' = door_sensor_state \cup {s}
                /\ at' = "clear" /\ cb' = s
                /\ UNCHANGED <<accel, flags, loaded, door, last_open_state, owed>>

(* ... or _wifly_pcint_cb, which may start a session, ...                  *)
CallRadio == /\ at = "idle" /\ "radio" \in flags
             /\ at' = "session" /\ cb' = "radio"
             /\ UNCHANGED <<accel, flags, loaded, doors>>

RadioReturns == /\ at = "session" /\ at' = "clear"
                /\ UNCHANGED <<accel, flags, cb, loaded, doors>>

(* ... or _accel_int2_cb, which reads the position if the pin is still     *)
(* high.                                                                   *)
CallAccel == /\ at = "idle" /\ "accel" \in flags /\ watching
             /\ at' = IF High(zone) THEN "read" ELSE "clear"
             /\ cb' = "accel"
             /\ missed' = FALSE
             /\ UNCHANGED <<zone, lat, watching, int_orientation_latch, since, told, flags, loaded, doors>>

LatchFirst(z) ==             \* mutant: an orientation is latched only if none is
    /\ int_orientation_latch' = IF int_orientation_latch = None THEN z ELSE int_orientation_latch
    /\ since' = IF int_orientation_latch = None THEN 0 ELSE since

(* _accel_interrupt_orient_cb *)
Latch(z) == /\ int_orientation_latch' = z
            /\ since' = IF z # int_orientation_latch THEN 0 ELSE since

ReadPosition == /\ at = "read" /\ at' = "clear"
                /\ Latch(zone) /\ missed' = FALSE
                /\ UNCHANGED <<zone, lat, watching, told, flags, cb, loaded, doors>>

(* i2c_readreg returns an error.                                           *)
ReadFails == /\ at = "read" /\ at' = "clear"
             /\ missed' = TRUE
             /\ UNCHANGED <<zone, lat, watching, int_orientation_latch, since, told, flags, cb, loaded, doors>>

(* pcint_cbflags[c] &= ~_BV(d): read, ...                                  *)
Load == /\ at = "clear" /\ at' = "store"
        /\ loaded' = {p \in flags \ {cb} : Port(p) = Port(cb)}
        /\ UNCHANGED <<accel, flags, cb, doors>>

StoreZero == /\ at = "store" /\ at' = "idle"           \* mutant: the whole port is cleared
             /\ flags' = {p \in flags : Port(p) # Port(cb)}
             /\ loaded' = {}
             /\ UNCHANGED <<accel, cb, doors>>

(* ... and write.                                                          *)
Store == /\ at = "store" /\ at' = "idle"
         /\ flags' = loaded \cup {p \in flags : Port(p) # Port(cb)}
         /\ loaded' = {}
         /\ UNCHANGED <<accel, cb, doors>>

-----------------------------------------------------------------------------
(* datalink_tick hands a packet of the host to its handler.                *)
TakesPackets == at \in {"idle", "session"}

(* A second passes.                                                        *)
Tick == /\ int_orientation_latch # None /\ since <= Settle /\ since' = since + 1
        /\ UNCHANGED <<zone, lat, watching, int_orientation_latch, missed, told, flags, check, doors>>

(* cmd_timesync_cb sets the clock, int_start_latch stays.                  *)
SetClock == /\ TakesPackets /\ int_orientation_latch # None
            /\ since' \in 0 .. Settle + 1
            /\ UNCHANGED <<zone, lat, watching, int_orientation_latch, missed, told, flags, check, doors>>

(* _accel_interrupt_check, a task of the monitor list *)
ReportOrientation == /\ at = "idle" /\ watching
                     /\ int_orientation_latch # None /\ since > Settle
                     /\ told' = int_orientation_latch
                     /\ int_orientation_latch' = None /\ since' = 0
                     /\ UNCHANGED <<zone, lat, watching, missed, flags, check, doors>>

(* _door_sensors_setup_write_report, a task of the monitor list *)
ReportDoor == /\ at = "idle"
              /\ door_sensor_state # {} \/ last_open_state # door
              /\ last_open_state' = door
              /\ door_sensor_state' = {}
              /\ owed' = owed \ door_sensor_state
              /\ UNCHANGED <<accel, flags, check, door>>

(* cmd_configure_sensor_cb, with ORIENTATION_CHANGED: what was latched is  *)
(* forgotten, and pcint_latA is of the last interrupt, ...                 *)
Watch == /\ TakesPackets
         /\ watching' = TRUE
         /\ int_orientation_latch' = None /\ since' = 0 /\ missed' = TRUE
         /\ UNCHANGED <<zone, lat, told, flags, check, doors>>

UnwatchKeepsFlag ==                       \* mutant: pcint_unregister leaves a flag that is set
           /\ TakesPackets /\ watching
           /\ watching' = FALSE
           /\ UNCHANGED <<zone, lat, int_orientation_latch, since, flags, missed, told, check, doors>>

(* ... or without.                                                         *)
Unwatch == /\ TakesPackets /\ watching
           /\ watching' = FALSE /\ flags' = flags \ {"accel"}
           /\ UNCHANGED <<zone, lat, int_orientation_latch, since, missed, told, check, doors>>

Next == \/ \E z \in Orientations \cup {None} : Turn(z)
        \/ \E s \in Touch : Touching(s) \/ CallTouch(s)
        \/ RadioMoves \/ CallRadio \/ RadioReturns
        \/ DoorMoves \/ CallAccel \/ ReadPosition \/ ReadFails \/ Load \/ Store
        \/ Tick \/ SetClock \/ ReportOrientation \/ ReportDoor \/ Watch \/ Unwatch

Spec == Init /\ [][Next]_vars

-----------------------------------------------------------------------------
TypeOK == /\ zone \in Orientations \cup {None} /\ lat \in BOOLEAN /\ watching \in BOOLEAN
          /\ int_orientation_latch \in Orientations \cup {None} /\ since \in 0 .. Settle + 1
          /\ flags \subseteq Pin /\ loaded \subseteq Pin
          /\ (~watching => "accel" \notin flags)
          /\ at \in {"idle", "session", "read", "clear", "store"} /\ cb \in Pin
          /\ door \in {"OPEN", "CLOSED"} /\ last_open_state \in {"OPEN", "CLOSED", "unknown"}
          /\ door_sensor_state \subseteq Touch /\ owed \subseteq Touch
          /\ missed \in BOOLEAN /\ told \in Orientations \cup {None}

(* A touch is on its way to the host from the interrupt to the report,     *)
(* whatever other pin's callback and clearing is under way.  Only one that *)
(* falls between the two accesses that clear the flag of another pin of the*)
(* port is lost: of the other sensor's, or of the radio's.                 *)
TouchesKept == owed \subseteq flags \cup door_sensor_state

(* The position the device is in is flagged, latched or told, through every*)
(* order of turns, callbacks, reports and settings of the clock: but if    *)
(* its move came after the callback looked and before the flag was cleared,*)
(* if the bus failed, or before the first interrupt after a configuration, *)
(* which forgets what is latched and does not look at the pin.             *)
PositionKnown == watching /\ zone # None /\ ~missed =>
                     \/ "accel" \in flags \/ (at = "read" /\ cb = "accel")
                     \/ int_orientation_latch = zone
                     \/ int_orientation_latch = None /\ told = zone
=============================================================================
