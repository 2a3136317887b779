----------------------------- MODULE SoftSerial -----------------------------
(***************************************************************************)
(* The serial port in software (drivers/softserial.c) and the CO2 sensor   *)
(* asked over it (devices/k20.c), of the boards of hardware versions 1     *)
(* and 2.  One buffer serves the command on its way out and the answer     *)
(* coming in.  The timer's interrupt sends or samples one bit at a time;   *)
(* the start of an incoming byte is only noticed when pcint_check gets to  *)
(* call _softserial_rx_isr, which is not an interrupt; the reader takes    *)
(* bytes from the buffer while the interrupt may be adding one.  Time is   *)
(* counted in bits of the incoming line.                                   *)
(***************************************************************************)
EXTENDS Integers, Sequences

CONSTANTS Bits,          \* of a byte: 8
          BufSize,       \* SOFTSERIAL_BUFSIZE
          READCMD,
          Header,        \* the three bytes an answer begins with
          Values,        \* what the sensor may measure: two bytes
          CRC,           \* the bytes of an answer after them
          Stray,         \* the bytes a disturbed line may look like
          MaxAsks, MaxNoise       \* bounds of the model: commands and stray bytes

(* a byte is its bits, the least significant at 0                          *)
SoftByte == [0 .. Bits - 1 -> {0, 1}]
Zeros == [i \in 0 .. Bits - 1 |-> 0]
Ones == [i \in 0 .. Bits - 1 |-> 1]

Answer(v) == Header \o v \o CRC
Need == Len(Header) + 2 + Len(CRC)

ASSUME SoftSerialAssumption ==
    /\ Bits \in Nat \ {0} /\ MaxAsks \in Nat /\ MaxNoise \in Nat
    /\ READCMD \in Seq(SoftByte) /\ Header \in Seq(SoftByte) /\ CRC \in Seq(SoftByte)
    /\ Values \subseteq SoftByte \X SoftByte /\ Stray \subseteq SoftByte
    /\ BufSize \in Nat /\ Len(READCMD) \in 1 .. BufSize /\ Need < BufSize

VARIABLES
    buffer, bufstart, bufend, transmitting, receiving, bit_no, available,
    timer,          \* the timer's interrupt is enabled: TIMSK0
    out,            \* history: the bits put on SOFTSERIAL_TX since softserial_write
    line,           \* the bits on their way in, the one on SOFTSERIAL_RX_PIN first
    edge,           \* the pin's bit of pcint_cbflags
    at,             \* where the program is
    loaded,         \* what softserial_read has loaded of available
    got,            \* the bytes read of this answer
    commands,       \* commands the sensor has not answered
    answered,       \* history: what the sensor has answered since the last command
    clean,          \* history: every bit of every byte since the last command was sampled
                    \* and the buffer was never full
    raced,          \* history: available was counted up between load and store
    asks, noises    \* history: counts of softserial_write and of stray bytes

port == <<buffer, bufstart, bufend, transmitting, receiving, bit_no, available, timer, out>>
sensor == <<line, commands, answered, noises>>
reader == <<at, loaded, got>>
softvars == <<port, edge, sensor, reader, clean, raced, asks>>

(* a byte on the line, between its start and stop bits, and bytes in a row *)
FrameLen == Bits + 2
Frame(b) == [i \in 1 .. FrameLen |->
               IF i = 1 THEN 0 ELSE IF i = FrameLen THEN 1 ELSE b[i - 2]]
Frames(s) == [i \in 1 .. Len(s) * FrameLen |->
               Frame(s[((i - 1) \div FrameLen) + 1])[((i - 1) % FrameLen) + 1]]

Pin(l) == IF l = <<>> THEN 1 ELSE Head(l)         \* SOFTSERIAL_RX_PIN
InStartBit == line # <<>> /\ Len(line) % FrameLen = 0

-----------------------------------------------------------------------------
ResetKeepsCount ==                             \* mutant: available is not cleared
         /\ transmitting' = FALSE /\ receiving' = FALSE
         /\ bufstart' = 0 /\ bufend' = 0 /\ timer' = FALSE /\ out' = <<>>
         /\ UNCHANGED <<buffer, bit_no, available>>

(* softserial_init; out begins anew.                                       *)
Reset == /\ available' = 0 /\ transmitting' = FALSE /\ receiving' = FALSE
         /\ bufstart' = 0 /\ bufend' = 0 /\ timer' = FALSE /\ out' = <<>>
         /\ UNCHANGED <<buffer, bit_no>>

SoftInit == /\ buffer = [i \in 0 .. BufSize - 1 |-> Zeros] /\ bit_no = 0
            /\ available = 0 /\ transmitting = FALSE /\ receiving = FALSE
            /\ bufstart = 0 /\ bufend = 0 /\ timer = FALSE /\ out = <<>>
            /\ line = <<>> /\ edge = FALSE
            /\ at = "idle" /\ loaded = 0 /\ got = <<>>
            /\ commands = 0 /\ answered = {} /\ clean = FALSE /\ raced = FALSE
            /\ asks = 0 /\ noises = 0

(* k20_init, on a configuration with CO2: between the tasks, or when       *)
(* pcint_check in the loop of _k20_reporting_checkread has first called the*)
(* radio's callback, and a packet came.                                    *)
Configure == /\ at \in {"idle", "poll"}
             /\ Reset /\ clean' = FALSE
             /\ UNCHANGED <<edge, sensor, reader, raced, asks>>

RefusesNever == FALSE                          \* mutant: softserial_write does not look at receiving
Refuses == receiving                           \* "Cannot write while recieving"

(* softserial_write, from _k20_reporting_startread *)
Write == /\ at = "idle" /\ asks < MaxAsks /\ asks' = asks + 1
         /\ at' = "wait" /\ got' = <<>>
         /\ \/ /\ Refuses
               /\ UNCHANGED <<port, answered, clean, raced>>
            \/ /\ ~Refuses
               /\ transmitting' = TRUE
               /\ buffer' = [i \in 0 .. BufSize - 1 |->
                               IF i < Len(READCMD) THEN READCMD[i + 1] ELSE buffer[i]]
               /\ bufstart' = 0 /\ available' = 0 /\ bufend' = Len(READCMD)
               /\ bit_no' = 0 /\ timer' = TRUE /\ out' = <<0>>
               /\ answered' = {} /\ clean' = TRUE /\ raced' = FALSE
               /\ UNCHANGED receiving
         /\ UNCHANGED <<edge, line, commands, noises, loaded>>

-----------------------------------------------------------------------------
(* ISR(TIMER0_COMPA_vect): transmitting, ...                               *)
LastByteEarly == bufstart + 1 = bufend - 1      \* mutant: the command's last byte is not sent
LastByte == bufstart = bufend - 1

SendBit ==
    \/ /\ bit_no = Bits
       /\ out' = Append(out, 1) /\ bit_no' = bit_no + 1
       /\ UNCHANGED <<bufstart, bufend, transmitting, available, timer>>
    \/ /\ bit_no = Bits + 1 /\ LastByte
       /\ bit_no' = 0 /\ transmitting' = FALSE
       /\ bufstart' = 0 /\ bufend' = 0 /\ available' = 0 /\ timer' = FALSE
       /\ UNCHANGED out
    \/ /\ bit_no = Bits + 1 /\ ~LastByte
       /\ bit_no' = 0
       /\ out' = Append(out, 0) /\ bufstart' = bufstart + 1
       /\ UNCHANGED <<bufend, transmitting, available, timer>>
    \/ /\ bit_no < Bits
       /\ out' = Append(out, buffer[bufstart][bit_no]) /\ bit_no' = bit_no + 1
       /\ UNCHANGED <<bufstart, bufend, transmitting, available, timer>>

(* ... or receiving.                                                       *)
ByteDoneNoWrap == bufend' = bufend + 1 /\ available' = available + 1   \* mutant: bufend does not wrap
ByteDone == bufend' = (bufend + 1) % BufSize /\ available' = available + 1

SampleBit(pin) ==
    \/ /\ bit_no = Bits
       /\ timer' = FALSE /\ receiving' = FALSE
       /\ UNCHANGED <<buffer, bufend, bit_no, available>>
    \/ /\ bit_no < Bits
       /\ buffer' = [buffer EXCEPT ![bufend][bit_no] = IF pin = 1 THEN 1 ELSE @]
       /\ bit_no' = bit_no + 1
       /\ \/ bit_no' = Bits /\ ByteDone
          \/ bit_no' < Bits /\ UNCHANGED <<bufend, available>>
       /\ UNCHANGED <<timer, receiving>>

Timer(pin) ==
    \/ /\ timer /\ transmitting
       /\ SendBit
       /\ commands' = IF transmitting' THEN commands ELSE commands + 1
       /\ UNCHANGED <<buffer, receiving>>
    \/ /\ timer /\ ~transmitting /\ receiving
       /\ SampleBit(pin)
       /\ UNCHANGED <<bufstart, transmitting, out, commands>>
    \/ ~timer /\ UNCHANGED <<port, commands>>

(* The time of a bit passes: the next one is on the pin, and the timer's   *)
(* interrupt falls in it, unless the program sleeps, and the timer with it.*)
Missed == InStartBit /\ ~(receiving /\ bit_no = 0 /\ timer)

Advance == /\ line' = IF line = <<>> THEN <<>> ELSE Tail(line)
           /\ edge' = (edge \/ Pin(line') # Pin(line))
           /\ UNCHANGED <<answered, noises, reader, asks>>

Fills == receiving /\ bufend' # bufend /\ bufend' = bufstart

BitTime == /\ Advance
           /\ Timer(Pin(line'))
           /\ clean' = (clean /\ ~Missed /\ ~Fills)
           /\ raced' = (raced \/ (at = "store" /\ available' > available))

BitTimeAsleep == /\ at = "idle"
                 /\ Advance
                 /\ clean' = (clean /\ ~Missed /\ ~receiving)
                 /\ UNCHANGED <<port, commands, raced>>

(* The sensor begins to answer a command, sooner or later, ...             *)
Answers(v) == /\ line = <<>> /\ commands > 0
              /\ line' = Frames(Answer(v)) /\ edge' = TRUE
              /\ commands' = commands - 1
              /\ answered' = answered \cup {v}
              /\ UNCHANGED <<port, noises, reader, clean, raced, asks>>

(* ... or the line is disturbed.                                           *)
Noise(b) == /\ line = <<>> /\ noises < MaxNoise
            /\ line' = Frame(b) /\ edge' = TRUE
            /\ noises' = noises + 1
            /\ UNCHANGED <<port, commands, answered, reader, clean, raced, asks>>

-----------------------------------------------------------------------------
(* pcint_check, in the loop of _k20_reporting_checkread or elsewhere, calls*)
(* _softserial_rx_isr and clears the flag.                                 *)
Poll == /\ at \in {"idle", "poll"} /\ edge
        /\ at' = IF at = "idle" THEN "idle clear" ELSE "clear"
        /\ \/ /\ ~transmitting /\ ~receiving /\ Pin(line) = 0
              /\ receiving' = TRUE /\ timer' = TRUE /\ bit_no' = 0
              /\ buffer' = [buffer EXCEPT ![bufend] = Zeros]
           \/ /\ transmitting \/ receiving \/ Pin(line) = 1
              /\ UNCHANGED <<receiving, timer, bit_no, buffer>>
        /\ UNCHANGED <<bufstart, bufend, transmitting, available, out,
                       edge, sensor, loaded, got, clean, raced, asks>>

Clear == /\ at \in {"idle clear", "clear"}
         /\ edge' = FALSE
         /\ at' = IF at = "clear" THEN "wait" ELSE "idle"
         /\ UNCHANGED <<port, sensor, loaded, got, clean, raced, asks>>

PollNothing == /\ at = "poll" /\ ~edge /\ at' = "wait"
               /\ UNCHANGED <<port, edge, sensor, loaded, got, clean, raced, asks>>

(* _k20_reporting_checkread: are there bytes enough?  The passes of its    *)
(* loop are over long after the command has been sent.                     *)
Check == /\ at = "wait"
         /\ at' = IF ~transmitting /\ available >= Need THEN "read" ELSE "poll"
         /\ UNCHANGED <<port, edge, sensor, loaded, got, clean, raced, asks>>

GiveUp == /\ at = "wait" /\ ~transmitting /\ at' = "idle"
          /\ UNCHANGED <<port, edge, sensor, loaded, got, clean, raced, asks>>

TakeAnything(b) ==                             \* mutant: the header is not looked at
    /\ at' = IF Len(got) = Len(Header) + 1 THEN "idle" ELSE "read"
    /\ got' = Append(got, b)

(* What a byte is taken for; the first that is not the header's ends the   *)
(* attempt.                                                                *)
Take(b) == LET k == Len(got) + 1
           IN  \/ /\ k <= Len(Header) /\ b # Header[k]
                  /\ at' = "poll" /\ got' = <<>>
               \/ /\ k <= Len(Header) => b = Header[k]
                  /\ at' = IF k = Len(Header) + 2 THEN "idle" ELSE "read"
                  /\ got' = Append(got, b)

(* softserial_read: available-- loads ...                                  *)
Load == /\ at = "read"
        /\ \/ /\ bufstart = bufend
              /\ Take(Ones) /\ UNCHANGED loaded
           \/ /\ bufstart # bufend
              /\ at' = "store" /\ loaded' = available /\ UNCHANGED got
        /\ UNCHANGED <<port, edge, sensor, clean, raced, asks>>

(* ... and stores.                                                         *)
Store == /\ at = "store"
         /\ available' = loaded - 1
         /\ bufstart' = (bufstart + 1) % BufSize
         /\ Take(buffer[bufstart]) /\ loaded' = 0
         /\ UNCHANGED <<buffer, bufend, transmitting, receiving, bit_no, timer, out,
                        edge, sensor, clean, raced, asks>>

SoftNext ==
    \/ Configure \/ Write \/ BitTime \/ BitTimeAsleep \/ Poll \/ Clear \/ PollNothing
    \/ Check \/ GiveUp \/ Load \/ Store
    \/ \E v \in Values : Answers(v)
    \/ \E b \in Stray : Noise(b)

(* The node does not sleep for good: the clock wakes it once a second, and *)
(* a list's tasks are waited for awake.                                    *)
SoftSpec == SoftInit /\ [][SoftNext]_softvars /\ WF_softvars(BitTime)

-----------------------------------------------------------------------------
SoftTypeOK == /\ buffer \in [0 .. BufSize - 1 -> SoftByte]
              /\ bufstart \in 0 .. BufSize - 1 /\ bufend \in 0 .. BufSize
              /\ transmitting \in BOOLEAN /\ receiving \in BOOLEAN /\ timer \in BOOLEAN
              /\ ~(transmitting /\ receiving) /\ timer = (transmitting \/ receiving)
              /\ bit_no \in 0 .. Bits + 1 /\ available \in Nat /\ loaded \in Nat
              /\ out \in Seq({0, 1}) /\ line \in Seq({0, 1}) /\ edge \in BOOLEAN
              /\ at \in {"idle", "idle clear", "wait", "poll", "clear", "read", "store"}
              /\ got \in Seq(SoftByte) /\ Len(got) <= Len(Header) + 2
              /\ commands \in 0 .. MaxAsks /\ answered \subseteq Values
              /\ clean \in BOOLEAN /\ raced \in BOOLEAN
              /\ asks \in 0 .. MaxAsks /\ noises \in 0 .. MaxNoise

(* The sensor is sent the whole command, start and stop bits included,     *)
(* whatever comes in while it is sent: but if a configuration cuts it off. *)
CommandWhole == ~transmitting /\ out # <<>> => out = Frames(READCMD)

(* The count of bytes available goes with the buffer's ends, through bytes *)
(* added by the interrupt while the program takes others out: but for a    *)
(* byte added between available-- loading the count and storing it.        *)
CountRight == ~transmitting /\ ~raced => (available - (bufend - bufstart)) % BufSize = 0

(* A header is unmistakable: the sensor's answers and stray bytes, one     *)
(* after the other, look like one only where an answer begins.  A label    *)
(* says what a byte on the line is: byte k of the answer v, or <<b, 0>>,   *)
(* the stray byte b.                                                       *)
Labels(vs) == (Stray \X {0}) \cup (vs \X (1 .. Need))
ByteOf(t) == IF t[2] = 0 THEN t[1] ELSE Answer(t[1])[t[2]]
Ends(t) == t[2] \in {0, Need}
Follows(t, u) == IF Ends(t) THEN u[2] \in {0, 1} ELSE u = <<t[1], t[2] + 1>>

HeaderUnmistakable ==
    /\ Header # <<>>
    /\ \A l \in [1 .. Len(Header) -> Labels(Values)] :
          (/\ \A i \in 1 .. Len(Header) - 1 : Follows(l[i], l[i + 1])
           /\ \A i \in 1 .. Len(Header) : ByteOf(l[i]) = Header[i])
          => l[Len(Header)][2] = Len(Header)

(* The CO2 value reported is one the sensor has answered since the last    *)
(* command that was sent, and not made up of stray bytes, of an answer's   *)
(* middle or of an older answer: if no bit of any byte since that command  *)
(* went unsampled, for pcint_check was called late, the port was           *)
(* transmitting or the timer was asleep, and the buffer was never full.    *)
ValueTrue == at = "idle" /\ Len(got) = Len(Header) + 2 /\ clean
               => SubSeq(got, Len(Header) + 1, Len(Header) + 2) \in answered

(* The port does not stay occupied: a byte that comes in and a command that*)
(* goes out end, and the next command is not refused for ever.             *)
LineFree == (receiving ~> ~receiving) /\ (transmitting ~> ~transmitting)
=============================================================================
