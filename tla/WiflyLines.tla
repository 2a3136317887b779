------------------------------ MODULE WiflyLines ------------------------------
(***************************************************************************)
(* The lines between the host and the node (motes/wifly.c), and what the   *)
(* node makes of them (protocol/logic.c, protocol/sensor_packet.c).  A     *)
(* packet is sent as a line, byte by byte, with 0x7D before a newline or   *)
(* 0x7D in it; the radio prints lines of its own.  Any byte may be lost: a *)
(* byte the UART marks with an error is dropped by wifly_tick.  The node   *)
(* collects a line in mote_line_buffer and hands it to datalink_rx_callback*)
(* unless _wifly_readline waits for an answer of the radio; three packets  *)
(* in a row that are not valid make it reset the radio.                    *)
(***************************************************************************)
EXTENDS Integers, Sequences

CONSTANTS Packets,     \* what the host sends: sequences of bytes
          Texts,       \* lines the radio prints, without their newline
          MaxLen,      \* the longest of these
          BufSize,     \* of mote_line_buffer: 128
          Args,        \* bytes a handler takes from a packet
          Passes,      \* of _wifly_readline: 10
          CountMod,    \* 2^8: invalid_packets_recieved is modulo this
          MaxLines, MaxLost      \* bounds of the model: lines begun and bytes lost

Byte == 0 .. 255
NL == 10                       \* '\n'
ESC == 125                     \* 0x7D
BT_HOST == 0
Handled == {0, 2, 3}           \* MT_TIMESYNC, MT_CONFIGURE_SENSOR, MT_ACTUATE
CMD == 67                      \* stands for the word "CMD" in a line
MAC == 77                      \* stands for "Mac Addr=" and the address

ASSUME LineAssumption ==
    /\ MaxLen \in Nat /\ Args \in Nat /\ Passes \in Nat /\ CountMod \in Nat /\ CountMod > 0
    /\ MaxLines \in Nat /\ MaxLost \in Nat /\ BufSize \in Nat /\ Args + 2 <= MaxLen
    /\ Packets \subseteq {p \in Seq(Byte) : Len(p) \in Args + 2 .. MaxLen}
    /\ Texts \subseteq {t \in Seq(Byte \ {NL, ESC, BT_HOST}) : Len(t) \in 1 .. MaxLen}
ASSUME FitAssumption == BufSize > (MaxLost + 1) * MaxLen + 1

VARIABLES
    line, next, half,          \* the line on the wire, its next byte, and whether 0x7D was sent for it
    sending,
    mote_line_buffer, line_buffer_pos, escape_next_char,
    line_recieved_latch,
    tmout,                     \* passes _wifly_readline has left
    reading,                   \* who called _wifly_readline
    booting,                   \* in wifly_init
    mac_valid,
    invalid_packets_recieved,
    reset,                     \* the line made the node call wifly_reset
    heard,                     \* history: what became of the line
    harmed, stale,             \* history: this line, the line before it has lost a byte
    blame,                     \* history: lines since the last accepted packet that may be
                               \* refused: no packets for the node, harmed or stale
    lines, lost                \* history: lines begun, bytes lost

wire == <<line, next, half, sending>>
buffer == <<mote_line_buffer, line_buffer_pos, escape_next_char>>
reader == <<line_recieved_latch, tmout, reading, booting, mac_valid>>
logic == <<invalid_packets_recieved, reset, heard, blame>>
faults == <<harmed, stale, lines, lost>>
vars == <<wire, buffer, reader, logic, faults>>

Line == {[kind |-> "packet", bytes |-> p] : p \in Packets} \cup {[kind |-> "text", bytes |-> t] : t \in Texts}

Flip(b) == IF (b \div 32) % 2 = 1 THEN b - 32 ELSE b + 32      \* b ^ 0x20
Special(b) == b \in {NL, ESC}

(* What becomes of a line: the handler called and the bytes it is given, or one of these *)
Nothing == <<-1>>
Refused == <<-2>>
Swallowed == <<-3>>

Valid(bt, mt) == bt = BT_HOST /\ mt \in Handled
Wanted(l) == IF l.kind = "packet" /\ Valid(l.bytes[1], l.bytes[2])
               THEN SubSeq(l.bytes, 2, Args + 2) ELSE Refused

-----------------------------------------------------------------------------
(* wifly_init has asked for command mode.                                  *)
Init == /\ line \in Line /\ next = 1 /\ half = FALSE /\ sending = FALSE
        /\ mote_line_buffer = [i \in 0 .. BufSize - 1 |-> 0]
        /\ line_buffer_pos = 0 /\ escape_next_char = FALSE
        /\ line_recieved_latch = "PRIMED" /\ tmout = Passes
        /\ reading = "cmd" /\ booting = TRUE /\ mac_valid = FALSE
        /\ invalid_packets_recieved = 0 /\ reset = FALSE /\ heard = Nothing
        /\ harmed = FALSE /\ stale = FALSE /\ blame = 0 /\ lines = 0 /\ lost = 0

(* The host or the radio begins a line.                                    *)
Begin(l) == /\ ~sending /\ lines < MaxLines
            /\ line' = l /\ next' = 1 /\ half' = FALSE /\ sending' = TRUE
            /\ heard' = Nothing /\ reset' = FALSE
            /\ stale' = harmed /\ harmed' = FALSE
            /\ lines' = lines + 1
            /\ blame' = IF Wanted(l) = Refused THEN blame + 1 ELSE blame
            /\ UNCHANGED <<buffer, reader, invalid_packets_recieved, lost>>

AtEnd == next > Len(line.bytes)
Escapes == line.kind = "packet" /\ Special(line.bytes[next])

(* wifly_send_packet, the byte it puts next: the node's, which the host    *)
(* does likewise.  The radio's text has nothing to escape.                 *)
OnWire == IF AtEnd THEN NL
          ELSE IF half THEN Flip(line.bytes[next])
          ELSE IF Escapes THEN ESC
          ELSE line.bytes[next]

Advance == /\ sending' = ~AtEnd
           /\ half' = (~AtEnd /\ ~half /\ Escapes)
           /\ next' = IF AtEnd \/ half' THEN next ELSE next + 1
           /\ UNCHANGED line

(* A byte does not arrive, or wifly_tick drops it for an error.            *)
Lose == /\ sending /\ lost < MaxLost
        /\ Advance
        /\ lost' = lost + 1 /\ harmed' = TRUE /\ blame' = blame + 2
        /\ UNCHANGED <<buffer, reader, invalid_packets_recieved, reset, heard, stale, lines>>

-----------------------------------------------------------------------------
(* datalink_rx_callback and packet_recieved.  The length of the packet is  *)
(* not looked at: what a handler takes beyond the line's end is of a line  *)
(* before it.                                                              *)
DispatchKeepsCount(data) ==                      \* mutant: a valid packet does not clear the count
    \/ /\ Valid(data[0], data[1])
       /\ heard' = [i \in 1 .. Args + 1 |-> data[i]]
       /\ blame' = IF harmed THEN 1 ELSE 0
       /\ UNCHANGED <<invalid_packets_recieved, reset>>
    \/ /\ ~Valid(data[0], data[1])
       /\ heard' = Refused
       /\ invalid_packets_recieved' = (invalid_packets_recieved + 1) % CountMod
       /\ reset' = (invalid_packets_recieved' >= 3)
       /\ UNCHANGED blame

Dispatch(data) ==
    \/ /\ Valid(data[0], data[1])
       /\ heard' = [i \in 1 .. Args + 1 |-> data[i]]
       /\ invalid_packets_recieved' = 0
       /\ blame' = IF harmed THEN 1 ELSE 0
       /\ UNCHANGED reset
    \/ /\ ~Valid(data[0], data[1])
       /\ heard' = Refused
       /\ invalid_packets_recieved' = (invalid_packets_recieved + 1) % CountMod
       /\ reset' = (invalid_packets_recieved' >= 3)
       /\ UNCHANGED blame

Store(b) == /\ mote_line_buffer' = [mote_line_buffer EXCEPT ![line_buffer_pos] = b]
            /\ line_buffer_pos' = line_buffer_pos + 1

EndLineKeepsPos ==                               \* mutant: an answer leaves its bytes in the buffer
    /\ line_buffer_pos > 0
    /\ mote_line_buffer' = [mote_line_buffer EXCEPT ![line_buffer_pos] = 0]
    /\ line_buffer_pos' = IF line_recieved_latch = "OFF" THEN 0 ELSE line_buffer_pos
    /\ UNCHANGED escape_next_char
    /\ \/ /\ line_recieved_latch = "OFF"
          /\ Dispatch(mote_line_buffer')
          /\ UNCHANGED line_recieved_latch
       \/ /\ line_recieved_latch = "PRIMED" /\ line_recieved_latch' = "FIRED"
          /\ heard' = Swallowed
          /\ UNCHANGED <<invalid_packets_recieved, reset, blame>>

(* _wifly_process_byte: the line ends, ...                                 *)
EndLine ==
    /\ line_buffer_pos > 0
    /\ mote_line_buffer' = [mote_line_buffer EXCEPT ![line_buffer_pos] = 0]
    /\ line_buffer_pos' = 0
    /\ UNCHANGED escape_next_char
    /\ \/ /\ line_recieved_latch = "OFF"
          /\ Dispatch(mote_line_buffer')
          /\ UNCHANGED line_recieved_latch
       \/ /\ line_recieved_latch = "PRIMED" /\ line_recieved_latch' = "FIRED"
          /\ heard' = Swallowed
          /\ UNCHANGED <<invalid_packets_recieved, reset, blame>>

CollectNoEscape(c) == Store(c) /\ UNCHANGED escape_next_char    \* mutant: 0x7D is taken for data

(* ... or goes on.                                                         *)
Collect(c) ==
    \/ /\ escape_next_char /\ escape_next_char' = FALSE
       /\ Store(Flip(c))
    \/ /\ ~escape_next_char /\ c = ESC
       /\ escape_next_char' = TRUE
       /\ UNCHANGED <<mote_line_buffer, line_buffer_pos>>
    \/ /\ ~escape_next_char /\ c # ESC
       /\ Store(c)
       /\ UNCHANGED escape_next_char

(* wifly_tick takes a byte, unless an answer waits to be read.             *)
Take == /\ sending /\ line_recieved_latch # "FIRED"
        /\ Advance
        /\ \/ /\ OnWire # NL /\ Collect(OnWire)
              /\ UNCHANGED <<line_recieved_latch, logic>>
           \/ OnWire = NL /\ EndLine
           \/ /\ OnWire = NL /\ line_buffer_pos = 0
              /\ UNCHANGED <<buffer, line_recieved_latch, logic>>
        /\ UNCHANGED <<tmout, reading, booting, mac_valid, faults>>

-----------------------------------------------------------------------------
(* strstr(mote_line_buffer, ...)                                           *)
Found(w) == \E k \in 0 .. BufSize - 1 :
               mote_line_buffer[k] = w /\ \A j \in 0 .. k - 1 : mote_line_buffer[j] # 0

Readline(by) == /\ line_recieved_latch' = "PRIMED" /\ tmout' = Passes
                /\ reading' = by

(* A loop of _wifly_readlines is over: wifly_init takes what is left of    *)
(* the radio's lines, wifly_wake goes on.                                  *)
ReadNoMoreKeepsLatch ==                          \* mutant: the latch stays primed
    \/ /\ booting /\ reading # "drain"
       /\ Readline("drain") /\ UNCHANGED booting
    \/ /\ ~booting \/ reading = "drain"
       /\ UNCHANGED line_recieved_latch /\ reading' = "nobody" /\ booting' = FALSE
       /\ UNCHANGED tmout

ReadNoMore ==
    \/ /\ booting /\ reading # "drain"
       /\ Readline("drain") /\ UNCHANGED booting
    \/ /\ ~booting \/ reading = "drain"
       /\ line_recieved_latch' = "OFF" /\ reading' = "nobody" /\ booting' = FALSE
       /\ UNCHANGED tmout

(* wifly_wake asks for the MAC address if wifly_init did not get it.       *)
AskMac == /\ reading = "nobody" /\ ~mac_valid
          /\ Readline("mac")
          /\ UNCHANGED <<wire, buffer, logic, booting, mac_valid, faults>>

(* _wifly_readline returns a line to wifly_init or _wifly_get_MAC.         *)
Answer == /\ line_recieved_latch = "FIRED"
          /\ \/ /\ reading = "cmd" /\ Found(CMD)
                /\ Readline("mac") /\ UNCHANGED <<booting, mac_valid>>
             \/ /\ reading = "mac" /\ Found(MAC)
                /\ ReadNoMore /\ mac_valid' = TRUE
             \/ /\ ~(reading = "cmd" /\ Found(CMD)) /\ ~(reading = "mac" /\ Found(MAC))
                /\ Readline(reading) /\ UNCHANGED <<booting, mac_valid>>
          /\ UNCHANGED <<wire, buffer, logic, faults>>

PassForgets == /\ line_recieved_latch = "PRIMED"  \* mutant: passes are not counted
               /\ tmout = 0 /\ ReadNoMore
               /\ UNCHANGED <<mac_valid, wire, buffer, logic, faults>>

(* A pass of _wifly_readline without a line, and the return after the last.*)
Pass == /\ line_recieved_latch = "PRIMED"
        /\ \/ /\ tmout > 0 /\ tmout' = tmout - 1
              /\ UNCHANGED <<line_recieved_latch, reading, booting>>
           \/ tmout = 0 /\ ReadNoMore
        /\ UNCHANGED <<mac_valid, wire, buffer, logic, faults>>

Next == Lose \/ Take \/ AskMac \/ Answer \/ Pass \/ \E l \in Line : Begin(l)

Fairness == WF_vars(Answer) /\ WF_vars(Pass)

Spec == Init /\ [][Next]_vars /\ Fairness

-----------------------------------------------------------------------------
TypeOK == /\ line \in Line /\ next \in 1 .. MaxLen + 1
          /\ half \in BOOLEAN /\ sending \in BOOLEAN
          /\ mote_line_buffer \in [0 .. BufSize - 1 -> Byte]
          /\ line_buffer_pos \in 0 .. BufSize - 1 /\ escape_next_char \in BOOLEAN
          /\ line_recieved_latch \in {"OFF", "PRIMED", "FIRED"}
          /\ tmout \in 0 .. Passes
          /\ reading \in {"cmd", "mac", "drain", "nobody"}
          /\ (reading = "nobody") = (line_recieved_latch = "OFF")
          /\ booting \in BOOLEAN /\ mac_valid \in BOOLEAN
          /\ invalid_packets_recieved \in 0 .. CountMod - 1 /\ reset \in BOOLEAN
          /\ heard \in {Nothing, Refused, Swallowed} \cup [1 .. Args + 1 -> Byte]
          /\ harmed \in BOOLEAN /\ stale \in BOOLEAN
          /\ blame \in Nat /\ lines \in 0 .. MaxLines /\ lost \in 0 .. MaxLost

(* Lost bytes do harm to the line they are of and to the next one, whose   *)
(* first byte a 0x7D may still flip; every other line reaches the handler  *)
(* it is for with the host's bytes, or is refused, unless it came while    *)
(* _wifly_readline was waiting.                                            *)
OthersArrive == ~sending /\ lines > 0 /\ ~harmed /\ ~stale => heard \in {Wanted(line), Swallowed}

(* The radio is reset for three lines in a row and not for less: those     *)
(* that are no packets for the node, the lines that lost a byte and the    *)
(* lines after them.  A single lost byte never resets it.                  *)
ResetEarned == invalid_packets_recieved <= blame /\ (reset => blame >= 3)

(* The node does not stay deaf to the host: when the radio has fallen      *)
(* silent nobody reads its answers any more.                               *)
HearsAgain == line_recieved_latch # "OFF" ~> line_recieved_latch = "OFF"
=============================================================================
