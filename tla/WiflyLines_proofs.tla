-------------------------- MODULE WiflyLines_proofs --------------------------
(***************************************************************************)
(* What a lost byte can spoil, and what the radio is reset for: for any    *)
(* packets, texts and sizes.                                               *)
(***************************************************************************)
EXTENDS WiflyLines, TLAPS

(* Bytes and lines.                                                        *)
LEMMA FlipByte == \A b \in Byte : Flip(b) \in Byte
BY DEF Byte, Flip

LEMMA FlipBack == \A b \in Byte : Special(b) => Flip(Flip(b)) = b /\ ~Special(Flip(b))
BY DEF Byte, Flip, Special, NL, ESC

LEMMA LineFacts ==
    \A l \in Line : /\ l.kind \in {"packet", "text"}
                    /\ l.bytes \in Seq(Byte) /\ Len(l.bytes) \in 1 .. MaxLen
                    /\ \A i \in 1 .. Len(l.bytes) : l.bytes[i] \in Byte
                    /\ l.kind = "packet" => Len(l.bytes) >= Args + 2
                    /\ l.kind = "text" => /\ l.bytes[1] # BT_HOST
                                          /\ \A i \in 1 .. Len(l.bytes) : ~Special(l.bytes[i])
<1> SUFFICES ASSUME NEW l \in Line
             PROVE  /\ l.kind \in {"packet", "text"}
                    /\ l.bytes \in Seq(Byte) /\ Len(l.bytes) \in 1 .. MaxLen
                    /\ \A i \in 1 .. Len(l.bytes) : l.bytes[i] \in Byte
                    /\ l.kind = "packet" => Len(l.bytes) >= Args + 2
                    /\ l.kind = "text" => /\ l.bytes[1] # BT_HOST
                                          /\ \A i \in 1 .. Len(l.bytes) : ~Special(l.bytes[i])
    OBVIOUS
<1>1. CASE \E p \in Packets : l = [kind |-> "packet", bytes |-> p]
      <2>1. PICK p \in Packets : l = [kind |-> "packet", bytes |-> p]  BY <1>1
      <2>2. p \in Seq(Byte) /\ Len(p) \in Args + 2 .. MaxLen  BY LineAssumption
      <2> QED  BY <2>1, <2>2, LineAssumption
<1>2. CASE \E t \in Texts : l = [kind |-> "text", bytes |-> t]
      <2>1. PICK t \in Texts : l = [kind |-> "text", bytes |-> t]  BY <1>2
      <2>2. t \in Seq(Byte \ {NL, ESC, BT_HOST}) /\ Len(t) \in 1 .. MaxLen  BY LineAssumption
      <2>3. \A i \in 1 .. Len(t) : t[i] \in Byte \ {NL, ESC, BT_HOST}  BY <2>2
      <2> QED  BY <2>1, <2>2, <2>3 DEF Special
<1> QED  BY <1>1, <1>2 DEF Line

-----------------------------------------------------------------------------
(* The invariant.  A 0x7D has been sent for the byte that is next.         *)
OnLine == /\ next \in 1 .. Len(line.bytes) + 1
          /\ half => sending /\ ~AtEnd /\ Escapes

One(b) == IF b THEN 1 ELSE 0

(* Only what is lost makes the line in the buffer longer than the line     *)
(* sent; a 0x7D counts as a byte until its byte has come.                  *)
Room == line_buffer_pos + One(escape_next_char \/ half)
           <= lost * MaxLen + 1 + (IF sending THEN next - 1 + One(half) ELSE 0)

(* A line no byte is lost of brings escape_next_char in step again, and    *)
(* one that begins in step is copied.                                      *)
InStep == /\ ~sending /\ ~harmed => line_buffer_pos = 0 /\ ~escape_next_char
          /\ sending /\ ~harmed /\ (next > 1 \/ half) => (escape_next_char => half)
          /\ sending /\ ~harmed /\ ~stale =>
                /\ line_buffer_pos = next - 1 /\ (escape_next_char <=> half)
                /\ \A k \in 0 .. line_buffer_pos - 1 : mote_line_buffer[k] = line.bytes[k + 1]

(* Blame is there for the line that is sent, if it may be refused, and for *)
(* the one after it.                                                       *)
Doubted == sending /\ (Wanted(line) = Refused \/ harmed \/ stale)
Account == /\ invalid_packets_recieved + One(Doubted) + One(harmed) <= blame
           /\ reset => blame >= 3 /\ ~sending

IInv == TypeOK /\ OnLine /\ Room /\ InStep /\ Account /\ OthersArrive

Rest == <<wire, buffer, logic, faults>>

-----------------------------------------------------------------------------
(* The four ways the line goes on: its newline, a 0x7D, the byte after     *)
(* one, and a byte as it is.                                               *)
Ends   == /\ OnWire = NL /\ next = Len(line.bytes) + 1 /\ half = FALSE
          /\ half' = FALSE /\ sending' = FALSE /\ next' = next
Opens  == /\ OnWire = ESC /\ next <= Len(line.bytes) /\ half = FALSE
          /\ half' = TRUE /\ sending' = TRUE /\ next' = next
Closes == /\ OnWire = Flip(line.bytes[next]) /\ Flip(OnWire) = line.bytes[next]
          /\ next <= Len(line.bytes) /\ half = TRUE
          /\ half' = FALSE /\ sending' = TRUE /\ next' = next + 1
Plain  == /\ OnWire = line.bytes[next] /\ next <= Len(line.bytes) /\ half = FALSE
          /\ half' = FALSE /\ sending' = TRUE /\ next' = next + 1

LEMMA Moves ==
    ASSUME TypeOK, OnLine, sending, Advance
    PROVE  /\ line' = line /\ OnLine'
           /\ \/ Ends
              \/ Opens
              \/ Closes /\ OnWire \in Byte \ {NL, ESC}
              \/ Plain /\ OnWire \in Byte \ {NL, ESC}
<1>1. /\ line \in Line /\ next \in 1 .. Len(line.bytes) + 1 /\ Len(line.bytes) \in 1 .. MaxLen
      /\ line' = line
      BY LineFacts DEF TypeOK, OnLine, Advance
<1>2. CASE AtEnd
      <2>1. half = FALSE  BY <1>2, Zenon DEF OnLine, TypeOK
      <2>2. sending' = FALSE /\ half' = FALSE  BY <1>2, Zenon DEF Advance
      <2>3. next = Len(line.bytes) + 1 /\ next' = next  BY <1>1, <1>2 DEF AtEnd, Advance
      <2>4. Ends  BY <1>2, <2>1, <2>2, <2>3 DEF Ends, OnWire
      <2> QED  BY <1>1, <2>2, <2>3, <2>4 DEF OnLine
<1>3. CASE ~AtEnd /\ half
      <2>1. sending' = TRUE /\ half' = FALSE /\ half = TRUE  BY <1>3, Zenon DEF Advance, TypeOK
      <2>2. next <= Len(line.bytes) /\ next' = next + 1  BY <1>1, <1>3, <2>1 DEF AtEnd, Advance
      <2>3. line.bytes[next] \in Byte /\ Special(line.bytes[next])
            BY <1>1, <1>3, <2>2, LineFacts DEF OnLine, Escapes
      <2>4. OnWire = Flip(line.bytes[next])  BY <1>3 DEF OnWire
      <2>5. OnWire \in Byte \ {NL, ESC} /\ Flip(OnWire) = line.bytes[next]
            BY <2>3, <2>4, FlipByte, FlipBack DEF Special
      <2>6. Closes  BY <2>1, <2>2, <2>4, <2>5 DEF Closes
      <2> QED  BY <1>1, <2>1, <2>2, <2>5, <2>6 DEF OnLine
<1>4. CASE ~AtEnd /\ ~half /\ Escapes
      <2>1. sending' = TRUE /\ half' = TRUE /\ half = FALSE  BY <1>4, Zenon DEF Advance, TypeOK
      <2>2. next <= Len(line.bytes) /\ next' = next  BY <1>1, <1>4, <2>1 DEF AtEnd, Advance
      <2>3. Opens  BY <1>4, <2>1, <2>2 DEF Opens, OnWire
      <2>4. OnLine'  BY <1>1, <1>4, <2>1, <2>2 DEF OnLine, AtEnd, Escapes
      <2> QED  BY <1>1, <2>3, <2>4
<1>5. CASE ~AtEnd /\ ~half /\ ~Escapes
      <2>1. sending' = TRUE /\ half' = FALSE /\ half = FALSE  BY <1>5, Zenon DEF Advance, TypeOK
      <2>2. next <= Len(line.bytes) /\ next' = next + 1  BY <1>1, <1>5, <2>1 DEF AtEnd, Advance
      <2>3. line.bytes[next] \in Byte /\ ~Special(line.bytes[next])
            BY <1>1, <1>5, <2>2, LineFacts DEF Escapes
      <2>4. OnWire = line.bytes[next]  BY <1>5 DEF OnWire
      <2>5. Plain /\ OnWire \in Byte \ {NL, ESC}  BY <2>1, <2>2, <2>3, <2>4 DEF Plain, Special
      <2> QED  BY <1>1, <2>1, <2>2, <2>5 DEF OnLine
<1> QED  BY <1>2, <1>3, <1>4, <1>5

-----------------------------------------------------------------------------
LEMMA Product == \A n \in 0 .. MaxLost : /\ n * MaxLen \in Nat
                                         /\ (n + 1) * MaxLen = n * MaxLen + MaxLen
                                         /\ n * MaxLen <= MaxLost * MaxLen
<1> TAKE n \in 0 .. MaxLost
<1>1. MaxLen \in Nat /\ MaxLost \in Nat  BY LineAssumption
<1>2. n * MaxLen \in Nat /\ (MaxLost - n) * MaxLen \in Nat  BY <1>1
<1>3. MaxLost * MaxLen = n * MaxLen + (MaxLost - n) * MaxLen  BY <1>1
<1>4. (n + 1) * MaxLen = n * MaxLen + MaxLen  BY <1>1
<1> QED  BY <1>1, <1>2, <1>3, <1>4

LEMMA OneFacts == /\ One(TRUE) = 1 /\ One(FALSE) = 0
                  /\ \A b \in BOOLEAN : One(b) \in 0 .. 1
BY DEF One

(* What is in the buffer leaves room for a byte, and for the 0 at the end. *)
LEMMA RoomFits ==
    \A n \in 0 .. MaxLost, r \in 0 .. MaxLen, p \in Nat :
       p <= n * MaxLen + 1 + r => p \in 0 .. BufSize - 1
<1> TAKE n \in 0 .. MaxLost, r \in 0 .. MaxLen, p \in Nat
<1>1. MaxLen \in Nat /\ MaxLost \in Nat /\ BufSize \in Nat  BY LineAssumption
<1>2. n * MaxLen <= MaxLost * MaxLen /\ n * MaxLen \in Nat /\ MaxLost * MaxLen \in Nat
      BY <1>1, Product
<1>3. (MaxLost + 1) * MaxLen = MaxLost * MaxLen + MaxLen  BY <1>1, Product
<1> QED  BY <1>1, <1>2, <1>3, FitAssumption

-----------------------------------------------------------------------------
(* A byte of the line comes: it is stored, or a 0x7D is remembered.        *)
Stored == /\ mote_line_buffer' = [mote_line_buffer EXCEPT ![line_buffer_pos] =
                                     IF escape_next_char THEN Flip(OnWire) ELSE OnWire]
          /\ line_buffer_pos' = line_buffer_pos + 1
          /\ escape_next_char' = FALSE
Remembered == /\ OnWire = ESC /\ escape_next_char = FALSE /\ escape_next_char' = TRUE
              /\ UNCHANGED <<mote_line_buffer, line_buffer_pos>>

LEMMA Collects ==
    ASSUME TypeOK, Collect(OnWire)
    PROVE  (Stored /\ (escape_next_char \/ OnWire # ESC)) \/ Remembered
<1>0. escape_next_char \in BOOLEAN  BY DEF TypeOK
<1>1. CASE escape_next_char /\ escape_next_char' = FALSE /\ Store(Flip(OnWire))
      BY <1>1 DEF Store, Stored
<1>2. CASE ~escape_next_char /\ OnWire = ESC /\ escape_next_char' = TRUE
           /\ UNCHANGED <<mote_line_buffer, line_buffer_pos>>
      <2>1. escape_next_char = FALSE  BY <1>0, <1>2, Zenon
      <2> QED  BY <1>2, <2>1 DEF Remembered
<1>3. CASE ~escape_next_char /\ OnWire # ESC /\ Store(OnWire) /\ UNCHANGED escape_next_char
      <2>1. escape_next_char = FALSE  BY <1>0, <1>3, Zenon
      <2> QED  BY <1>3, <2>1 DEF Store, Stored
<1> QED  BY <1>1, <1>2, <1>3 DEF Collect

LEMMA TakeByte ==
    ASSUME IInv, sending, Advance, OnWire # NL, Collect(OnWire),
           UNCHANGED <<reader, logic, faults>>
    PROVE  IInv'
<1>1. TypeOK /\ OnLine /\ Room /\ InStep /\ Account  BY DEF IInv
<1>2. line' = line /\ OnLine'  BY <1>1, Moves
<1>3. \/ Opens
      \/ Closes /\ OnWire \in Byte \ {NL, ESC}
      \/ Plain /\ OnWire \in Byte \ {NL, ESC}
      BY <1>1, Moves DEF Ends
<1>4. (Stored /\ (escape_next_char \/ OnWire # ESC)) \/ Remembered  BY <1>1, Collects
<1>5. /\ line \in Line /\ next \in 1 .. MaxLen + 1 /\ half \in BOOLEAN /\ sending = TRUE
      /\ mote_line_buffer \in [0 .. BufSize - 1 -> Byte] /\ line_buffer_pos \in 0 .. BufSize - 1
      /\ escape_next_char \in BOOLEAN
      /\ lost \in 0 .. MaxLost /\ BufSize \in Nat /\ MaxLen \in Nat /\ MaxLost \in Nat
      /\ Len(line.bytes) \in 1 .. MaxLen /\ next \in 1 .. Len(line.bytes) + 1
      /\ lost * MaxLen \in Nat
      BY <1>1, LineAssumption, LineFacts, Product DEF TypeOK, OnLine
<1>6. /\ sending' = TRUE /\ half' \in BOOLEAN /\ next' \in 1 .. Len(line'.bytes) + 1
      /\ half' => next' <= Len(line'.bytes)
      BY <1>2, <1>3, <1>5 DEF Opens, Closes, Plain
<1>7. OnWire \in Byte /\ (IF escape_next_char THEN Flip(OnWire) ELSE OnWire) \in Byte
      <2>1. OnWire \in Byte  BY <1>3 DEF Opens, Byte, ESC
      <2> QED  BY <2>1, FlipByte
<1>8. escape_next_char' \in BOOLEAN /\ line_buffer_pos' \in Nat
      BY <1>4, <1>5 DEF Stored, Remembered
<1>9. Room'
      <2>1. UNCHANGED lost  BY DEF faults
      <2>2. CASE Stored /\ escape_next_char /\ Opens
            BY <1>1, <1>5, <2>1, <2>2 DEF Room, Stored, Opens, One
      <2>3. CASE Stored /\ Closes
            BY <1>1, <1>5, <2>1, <2>3 DEF Room, Stored, Closes, One
      <2>4. CASE Stored /\ Plain
            BY <1>1, <1>5, <2>1, <2>4 DEF Room, Stored, Plain, One
      <2>5. CASE Remembered /\ Opens
            BY <1>1, <1>5, <2>1, <2>5 DEF Room, Remembered, Opens, One
      <2> QED  BY <1>3, <1>4, <2>2, <2>3, <2>4, <2>5 DEF Remembered, Opens
<1>10. line_buffer_pos' \in 0 .. BufSize - 1
      <2>1. lost' = lost  BY DEF faults
      <2>2. line_buffer_pos' <= lost * MaxLen + 1 + (next' - 1 + One(half'))
            <3>1. One(escape_next_char' \/ half') \in 0 .. 1 /\ One(half') \in 0 .. 1  BY DEF One
            <3>2. line_buffer_pos' + One(escape_next_char' \/ half')
                    <= lost * MaxLen + 1 + (next' - 1 + One(half'))
                  BY <1>6, <1>9, <2>1 DEF Room
            <3> QED  BY <1>2, <1>5, <1>6, <1>8, <3>1, <3>2
      <2>3. next' - 1 + One(half') \in 0 .. MaxLen  BY <1>2, <1>5, <1>6 DEF One
      <2> QED  BY <1>5, <1>8, <2>2, <2>3, RoomFits
<1>11. mote_line_buffer' \in [0 .. BufSize - 1 -> Byte]
      BY <1>4, <1>5, <1>7 DEF Stored, Remembered
<1>12. TypeOK'
      <2>1. line' \in Line /\ next' \in 1 .. MaxLen + 1 /\ sending' \in BOOLEAN
            BY <1>2, <1>5, <1>6
      <2>2. /\ line_recieved_latch' \in {"OFF", "PRIMED", "FIRED"} /\ tmout' \in 0 .. Passes
            /\ reading' \in {"cmd", "mac", "drain", "nobody"}
            /\ (reading' = "nobody") = (line_recieved_latch' = "OFF")
            /\ booting' \in BOOLEAN /\ mac_valid' \in BOOLEAN
            BY <1>1 DEF TypeOK, reader
      <2>3. /\ invalid_packets_recieved' \in 0 .. CountMod - 1 /\ reset' \in BOOLEAN
            /\ heard' \in {Nothing, Refused, Swallowed} \cup [1 .. Args + 1 -> Byte]
            /\ blame' \in Nat
            BY <1>1 DEF TypeOK, logic
      <2>4. /\ harmed' \in BOOLEAN /\ stale' \in BOOLEAN
            /\ lines' \in 0 .. MaxLines /\ lost' \in 0 .. MaxLost
            BY <1>1 DEF TypeOK, faults
      <2> QED  BY <1>6, <1>8, <1>10, <1>11, <2>1, <2>2, <2>3, <2>4 DEF TypeOK
<1>13. InStep'
      <2>1. harmed' = harmed /\ stale' = stale  BY DEF faults
      <2>2. ~harmed /\ (next > 1 \/ half) => (escape_next_char => half)  BY <1>1, <1>5 DEF InStep
      <2>3. ~harmed /\ ~stale =>
              /\ line_buffer_pos = next - 1 /\ (escape_next_char <=> half)
              /\ \A k \in 0 .. line_buffer_pos - 1 : mote_line_buffer[k] = line.bytes[k + 1]
            BY <1>1, <1>5 DEF InStep
      <2>4. escape_next_char' => half'
            BY <1>3, <1>4 DEF Stored, Remembered, Opens, Closes, Plain
      <2>5. ASSUME ~harmed, ~stale
            PROVE  /\ line_buffer_pos' = next' - 1 /\ (escape_next_char' <=> half')
                   /\ \A k \in 0 .. line_buffer_pos' - 1 : mote_line_buffer'[k] = line.bytes[k + 1]
            <3>1. CASE Opens
                  <4>1. Remembered  BY <1>4, <1>5, <2>3, <2>5, <3>1 DEF Opens
                  <4> QED  BY <2>3, <2>5, <3>1, <4>1 DEF Opens, Remembered
            <3>2. CASE Closes /\ OnWire # ESC
                  <4>1. Stored /\ escape_next_char  BY <1>4, <2>3, <2>5, <3>2 DEF Closes, Remembered
                  <4>2. mote_line_buffer' = [mote_line_buffer EXCEPT ![line_buffer_pos] = line.bytes[next]]
                        BY <3>2, <4>1 DEF Stored, Closes
                  <4> QED  BY <1>5, <2>3, <2>5, <3>2, <4>1, <4>2 DEF Closes, Stored
            <3>3. CASE Plain /\ OnWire # ESC
                  <4>1. Stored /\ ~escape_next_char  BY <1>4, <2>3, <2>5, <3>3 DEF Plain, Remembered
                  <4>2. mote_line_buffer' = [mote_line_buffer EXCEPT ![line_buffer_pos] = line.bytes[next]]
                        BY <3>3, <4>1 DEF Stored, Plain
                  <4> QED  BY <1>5, <2>3, <2>5, <3>3, <4>1, <4>2 DEF Plain, Stored
            <3> QED  BY <1>3, <3>1, <3>2, <3>3
      <2> QED  BY <1>2, <1>6, <2>1, <2>4, <2>5 DEF InStep
<1>14. Account'
      <2>1. /\ UNCHANGED <<invalid_packets_recieved, blame, reset, harmed, stale>>
            /\ Wanted(line)' = Wanted(line)
            BY <1>2 DEF logic, faults, Wanted
      <2>2. Doubted' <=> Doubted  BY <1>5, <1>6, <2>1, Zenon DEF Doubted
      <2>3. One(Doubted') = One(Doubted) /\ One(harmed') = One(harmed)  BY <2>1, <2>2 DEF One
      <2>4. ~reset'  BY <1>1, <1>5, <2>1 DEF Account
      <2> QED  BY <1>1, <2>1, <2>3, <2>4 DEF Account
<1>15. OthersArrive'  BY <1>6 DEF OthersArrive
<1> QED  BY <1>2, <1>9, <1>12, <1>13, <1>14, <1>15 DEF IInv

-----------------------------------------------------------------------------
LEMMA Count == \A n \in 0 .. CountMod - 1 : /\ (n + 1) % CountMod \in 0 .. CountMod - 1
                                            /\ (n + 1) % CountMod <= n + 1
BY LineAssumption

(* The newline of a line whose bytes are all in the buffer: the handler is *)
(* given the host's, and a packet for the node is not refused.             *)
LEMMA Copied ==
    ASSUME NEW l \in Line, NEW data \in [0 .. BufSize - 1 -> Byte],
           \A k \in 0 .. Len(l.bytes) - 1 : data[k] = l.bytes[k + 1]
    PROVE  /\ Valid(data[0], data[1]) => Wanted(l) = [i \in 1 .. Args + 1 |-> data[i]]
           /\ ~Valid(data[0], data[1]) => Wanted(l) = Refused
<1>1. /\ l.kind \in {"packet", "text"} /\ l.bytes \in Seq(Byte) /\ Len(l.bytes) \in 1 .. MaxLen
      /\ Args \in Nat /\ data[0] = l.bytes[1]
      BY LineFacts, LineAssumption
<1>2. CASE l.kind = "text"
      <2>1. ~Valid(data[0], data[1])  BY <1>1, <1>2, LineFacts DEF Valid
      <2>2. Wanted(l) = Refused  BY <1>2 DEF Wanted
      <2> QED  BY <2>1, <2>2
<1>3. CASE l.kind = "packet"
      <2>1. Len(l.bytes) >= Args + 2  BY <1>3, LineFacts
      <2>2. data[1] = l.bytes[2]  BY <1>1, <2>1
      <2>3. SubSeq(l.bytes, 2, Args + 2) = [i \in 1 .. Args + 1 |-> data[i]]
            <3>1. SubSeq(l.bytes, 2, Args + 2) = [i \in 1 .. Args + 1 |-> l.bytes[i + 1]]
                  BY <1>1, <2>1
            <3>2. \A i \in 1 .. Args + 1 : data[i] = l.bytes[i + 1]  BY <1>1, <2>1
            <3> QED  BY <3>1, <3>2
      <2> QED  BY <1>1, <1>3, <2>2, <2>3 DEF Wanted
<1> QED  BY <1>1, <1>2, <1>3

LEMMA TakeEnd ==
    ASSUME IInv, sending, Advance, OnWire = NL,
           EndLine \/ (line_buffer_pos = 0 /\ UNCHANGED <<buffer, line_recieved_latch, logic>>),
           UNCHANGED <<tmout, reading, booting, mac_valid, faults>>
    PROVE  IInv'
<1>1. TypeOK /\ OnLine /\ Room /\ InStep /\ Account  BY DEF IInv
<1>2. line' = line /\ OnLine'  BY <1>1, Moves
<1>3. Ends  BY <1>1, Moves DEF Opens, NL, ESC
<1>4. /\ line \in Line /\ half = FALSE /\ half' = FALSE /\ sending = TRUE /\ sending' = FALSE
      /\ next = Len(line.bytes) + 1 /\ next' = next /\ next \in 1 .. MaxLen + 1
      /\ Len(line.bytes) \in 1 .. MaxLen
      /\ mote_line_buffer \in [0 .. BufSize - 1 -> Byte] /\ line_buffer_pos \in 0 .. BufSize - 1
      /\ escape_next_char \in BOOLEAN /\ lost \in 0 .. MaxLost /\ lost * MaxLen \in Nat
      /\ BufSize \in Nat /\ MaxLen \in Nat /\ Args \in Nat /\ Args + 2 <= BufSize
      <2>1. Args + 2 <= BufSize
            <3>1. 0 * MaxLen <= MaxLost * MaxLen /\ (MaxLost + 1) * MaxLen = MaxLost * MaxLen + MaxLen
                  BY LineAssumption, Product
            <3> QED  BY <3>1, LineAssumption, FitAssumption
      <2> QED  BY <1>1, <1>3, <2>1, LineAssumption, LineFacts, Product DEF TypeOK, Ends
<1>5. escape_next_char' = escape_next_char /\ line_buffer_pos' = 0
      BY DEF EndLine, buffer
<1>6. mote_line_buffer' \in [0 .. BufSize - 1 -> Byte]
      <2>1. \/ mote_line_buffer' = [mote_line_buffer EXCEPT ![line_buffer_pos] = 0]
            \/ mote_line_buffer' = mote_line_buffer
            BY DEF EndLine, buffer
      <2>2. 0 \in Byte  BY DEF Byte
      <2>3. CASE mote_line_buffer' = mote_line_buffer  BY <1>4, <2>3
      <2>4. CASE mote_line_buffer' = [mote_line_buffer EXCEPT ![line_buffer_pos] = 0]
            BY <1>4, <2>2, <2>4
      <2> QED  BY <2>1, <2>3, <2>4
<1>7. Room'
      <2>1. lost' = lost /\ One(escape_next_char' \/ half') \in 0 .. 1  BY DEF faults, One
      <2> QED  BY <1>4, <1>5, <2>1 DEF Room
<1>8. InStep'
      <2>1. harmed' = harmed  BY DEF faults
      <2>2. ~harmed => ~escape_next_char  BY <1>1, <1>4 DEF InStep
      <2> QED  BY <1>4, <1>5, <2>1, <2>2 DEF InStep
(* A line that is copied and ends.                                         *)
<1>9. ASSUME ~harmed, ~stale
      PROVE  /\ line_buffer_pos > 0
             /\ \A k \in 0 .. Len(line.bytes) - 1 : mote_line_buffer'[k] = line.bytes[k + 1]
      <2>1. /\ line_buffer_pos = Len(line.bytes)
            /\ \A k \in 0 .. line_buffer_pos - 1 : mote_line_buffer[k] = line.bytes[k + 1]
            BY <1>1, <1>4, <1>9 DEF InStep
      <2>2. mote_line_buffer' = [mote_line_buffer EXCEPT ![line_buffer_pos] = 0]
            BY <1>4, <2>1 DEF EndLine
      <2>3. ASSUME NEW k \in 0 .. Len(line.bytes) - 1
            PROVE  mote_line_buffer'[k] = line.bytes[k + 1]
            <3>1. k \in 0 .. BufSize - 1 /\ k # line_buffer_pos  BY <1>4, <2>1
            <3>2. mote_line_buffer'[k] = mote_line_buffer[k]  BY <1>4, <2>2, <3>1
            <3> QED  BY <2>1, <3>2
      <2> QED  BY <1>4, <2>1, <2>3
<1>10. /\ harmed' = harmed /\ stale' = stale /\ lines' = lines /\ lost' = lost
       /\ tmout' = tmout /\ reading' = reading /\ booting' = booting /\ mac_valid' = mac_valid
       BY DEF faults
<1>11. /\ invalid_packets_recieved \in 0 .. CountMod - 1 /\ CountMod \in Nat /\ blame \in Nat
       /\ harmed \in BOOLEAN /\ stale \in BOOLEAN /\ reset = FALSE
       /\ invalid_packets_recieved + One(Doubted) + One(harmed) <= blame
       BY <1>1, <1>4, LineAssumption, Zenon DEF TypeOK, Account
<1>12. \A i \in 1 .. Args + 1 : mote_line_buffer'[i] \in Byte  BY <1>4, <1>6
<1>13. Doubted' = FALSE  BY <1>4 DEF Doubted
<1>14. One(Doubted') = 0 /\ One(harmed') = One(harmed) /\ One(harmed) \in 0 .. 1
       BY <1>10, <1>13 DEF One
<1>15. /\ line_recieved_latch' \in {"OFF", "PRIMED", "FIRED"}
       /\ (reading' = "nobody") = (line_recieved_latch' = "OFF")
       <2>1. /\ line_recieved_latch \in {"OFF", "PRIMED", "FIRED"}
             /\ (reading = "nobody") = (line_recieved_latch = "OFF")
             BY <1>1 DEF TypeOK
       <2>2. \/ line_recieved_latch' = line_recieved_latch
             \/ line_recieved_latch = "PRIMED" /\ line_recieved_latch' = "FIRED"
             BY DEF EndLine
       <2> QED  BY <1>10, <2>1, <2>2
<1>16. /\ line' \in Line /\ next' \in 1 .. MaxLen + 1 /\ half' \in BOOLEAN /\ sending' \in BOOLEAN
       /\ mote_line_buffer' \in [0 .. BufSize - 1 -> Byte]
       /\ line_buffer_pos' \in 0 .. BufSize - 1 /\ escape_next_char' \in BOOLEAN
       <2>1. half' \in BOOLEAN /\ sending' \in BOOLEAN /\ escape_next_char' \in BOOLEAN
             BY <1>4, <1>5, Zenon
       <2>2. line_buffer_pos' \in 0 .. BufSize - 1  BY <1>4, <1>5
       <2> QED  BY <1>2, <1>4, <1>6, <2>1, <2>2
<1>17. /\ tmout' \in 0 .. Passes /\ reading' \in {"cmd", "mac", "drain", "nobody"}
       /\ booting' \in BOOLEAN /\ mac_valid' \in BOOLEAN
       /\ harmed' \in BOOLEAN /\ stale' \in BOOLEAN
       /\ lines' \in 0 .. MaxLines /\ lost' \in 0 .. MaxLost
       BY <1>1, <1>10 DEF TypeOK
<1> DEFINE Logic == /\ invalid_packets_recieved' \in 0 .. CountMod - 1 /\ reset' \in BOOLEAN
                    /\ heard' \in {Nothing, Refused, Swallowed} \cup [1 .. Args + 1 -> Byte]
                    /\ blame' \in Nat
           Arrived == ~harmed /\ ~stale => heard' \in {Wanted(line), Swallowed}
<1>18. ASSUME Logic, Arrived, Account'
       PROVE  IInv'
       <2>1. TypeOK'  BY <1>15, <1>16, <1>17, <1>18 DEF TypeOK
       <2>2. OthersArrive'
             <3>1. Wanted(line)' = Wanted(line)  BY <1>2 DEF Wanted
             <3> QED  BY <1>10, <1>18, <3>1 DEF OthersArrive
       <2> QED  BY <1>2, <1>7, <1>8, <1>18, <2>1, <2>2 DEF IInv
<1> HIDE DEF Logic, Arrived
<1>19. CASE UNCHANGED logic /\ line_buffer_pos = 0
       <2>1. Logic  BY <1>1, <1>19 DEF TypeOK, logic, Logic
       <2>2. Arrived  BY <1>9, <1>19 DEF Arrived
       <2>3. Account'
             <3>1. One(Doubted) \in 0 .. 1  BY DEF One
             <3> QED  BY <1>11, <1>14, <1>19, <3>1 DEF Account, logic
       <2> QED  BY <1>18, <2>1, <2>2, <2>3
<1>20. CASE heard' = Swallowed /\ UNCHANGED <<invalid_packets_recieved, reset, blame>>
       <2>1. Logic  BY <1>11, <1>20 DEF Logic
       <2>2. Arrived  BY <1>20 DEF Arrived
       <2>3. Account'
             <3>1. One(Doubted) \in 0 .. 1  BY DEF One
             <3> QED  BY <1>11, <1>14, <1>20, <3>1 DEF Account
       <2> QED  BY <1>18, <2>1, <2>2, <2>3
<1>21. CASE EndLine /\ Dispatch(mote_line_buffer') /\ Valid(mote_line_buffer'[0], mote_line_buffer'[1])
       <2>1. /\ heard' = [i \in 1 .. Args + 1 |-> mote_line_buffer'[i]]
             /\ invalid_packets_recieved' = 0 /\ reset' = reset
             /\ blame' = One(harmed)
             BY <1>21 DEF Dispatch, One
       <2>2. heard' \in [1 .. Args + 1 -> Byte]  BY <1>12, <2>1
       <2>3. Logic
             <3>1. reset' \in BOOLEAN  BY <1>11, <2>1, Zenon
             <3>2. invalid_packets_recieved' \in 0 .. CountMod - 1 /\ blame' \in Nat
                   BY <1>14, <2>1, LineAssumption
             <3> QED  BY <2>2, <3>1, <3>2 DEF Logic
       <2>4. Arrived  BY <1>4, <1>6, <1>9, <1>21, <2>1, Copied DEF Arrived
       <2>5. Account'  BY <1>11, <1>14, <2>1 DEF Account
       <2> QED  BY <1>18, <2>3, <2>4, <2>5
<1>22. CASE EndLine /\ Dispatch(mote_line_buffer') /\ ~Valid(mote_line_buffer'[0], mote_line_buffer'[1])
       <2>1. /\ heard' = Refused /\ blame' = blame
             /\ invalid_packets_recieved' = (invalid_packets_recieved + 1) % CountMod
             /\ reset' = (invalid_packets_recieved' >= 3)
             BY <1>22 DEF Dispatch
       <2>2. /\ invalid_packets_recieved' \in 0 .. CountMod - 1
             /\ invalid_packets_recieved' <= invalid_packets_recieved + 1
             BY <1>11, <2>1, Count
       <2>3. reset' \in BOOLEAN  BY <2>1
       <2>4. Logic  BY <1>11, <2>1, <2>2, <2>3 DEF Logic
       <2>5. ~harmed /\ ~stale => Wanted(line) = Refused  BY <1>4, <1>6, <1>9, <1>22, Copied
       <2>6. Arrived  BY <2>1, <2>5 DEF Arrived
       <2>7. One(Doubted) = 1
             <3>1. Doubted  BY <1>4, <2>5, Zenon DEF Doubted
             <3> QED  BY <3>1 DEF One
       <2>8. invalid_packets_recieved' + One(Doubted') + One(harmed') <= blame'
             BY <1>11, <1>14, <2>1, <2>2, <2>7
       <2>9. reset' => blame' >= 3 /\ ~sending'
             <3>1. HAVE reset'
             <3>2. invalid_packets_recieved' >= 3  BY <2>1, <3>1
             <3>3. blame' >= 3  BY <1>11, <1>14, <2>1, <2>2, <2>8, <3>2
             <3> QED  BY <1>4, <3>3
       <2>10. Account'  BY <2>8, <2>9 DEF Account
       <2> QED  BY <1>18, <2>4, <2>6, <2>10
<1> QED  BY <1>19, <1>20, <1>21, <1>22 DEF EndLine

-----------------------------------------------------------------------------
LEMMA InitInv == Init => IInv
<1> SUFFICES ASSUME Init PROVE IInv  OBVIOUS
<1>1. /\ line \in Line /\ next = 1 /\ half = FALSE /\ sending = FALSE /\ line_buffer_pos = 0
      /\ escape_next_char = FALSE /\ lines = 0 /\ lost = 0 /\ blame = 0
      /\ invalid_packets_recieved = 0 /\ reset = FALSE /\ harmed = FALSE /\ stale = FALSE
      /\ line_recieved_latch = "PRIMED" /\ reading = "cmd" /\ heard = Nothing
      /\ tmout = Passes /\ booting = TRUE /\ mac_valid = FALSE
      BY DEF Init
<1>2. /\ Len(line.bytes) \in 1 .. MaxLen /\ MaxLen \in Nat /\ BufSize \in Nat /\ BufSize > 0
      /\ MaxLost \in Nat /\ MaxLines \in Nat /\ CountMod \in Nat /\ CountMod > 0 /\ Passes \in Nat
      <2>1. 0 * MaxLen <= MaxLost * MaxLen /\ (MaxLost + 1) * MaxLen = MaxLost * MaxLen + MaxLen
            BY LineAssumption, Product
      <2> QED  BY <1>1, <2>1, LineAssumption, FitAssumption, LineFacts
<1>3. mote_line_buffer \in [0 .. BufSize - 1 -> Byte]  BY DEF Init, Byte
<1>4. TypeOK
      <2>1. /\ half \in BOOLEAN /\ sending \in BOOLEAN /\ escape_next_char \in BOOLEAN
            /\ booting \in BOOLEAN /\ mac_valid \in BOOLEAN /\ reset \in BOOLEAN
            /\ harmed \in BOOLEAN /\ stale \in BOOLEAN
            BY <1>1, Zenon
      <2>2. /\ next \in 1 .. MaxLen + 1 /\ line_buffer_pos \in 0 .. BufSize - 1
            /\ tmout \in 0 .. Passes /\ invalid_packets_recieved \in 0 .. CountMod - 1
            /\ blame \in Nat /\ lines \in 0 .. MaxLines /\ lost \in 0 .. MaxLost
            BY <1>1, <1>2
      <2>3. (reading = "nobody") = (line_recieved_latch = "OFF")  BY <1>1
      <2> QED  BY <1>1, <1>3, <2>1, <2>2, <2>3 DEF TypeOK
<1>5. OnLine  BY <1>1, <1>2 DEF OnLine
<1>6. Room  BY <1>1, <1>2 DEF Room, One
<1>7. InStep  BY <1>1 DEF InStep
<1>8. Account
      <2>1. Doubted = FALSE  BY <1>1 DEF Doubted
      <2> QED  BY <1>1, <2>1 DEF Account, One
<1>9. OthersArrive  BY <1>1 DEF OthersArrive
<1> QED  BY <1>4, <1>5, <1>6, <1>7, <1>8, <1>9 DEF IInv

LEMMA BeginInv == ASSUME IInv, NEW l \in Line, Begin(l) PROVE IInv'
<1>1. TypeOK /\ OnLine /\ Room /\ InStep /\ Account  BY DEF IInv
<1>2. /\ line' = l /\ next' = 1 /\ half' = FALSE /\ sending' = TRUE /\ heard' = Nothing
      /\ reset' = FALSE /\ stale' = harmed /\ harmed' = FALSE /\ lines' = lines + 1
      /\ lines < MaxLines
      /\ UNCHANGED <<buffer, reader, invalid_packets_recieved, lost>>
      BY DEF Begin
<1>3. sending = FALSE /\ half = FALSE  BY <1>1, Zenon DEF Begin, TypeOK, OnLine
<1>4. Len(l.bytes) \in 1 .. MaxLen /\ MaxLen \in Nat /\ lines \in 0 .. MaxLines /\ MaxLines \in Nat
      BY <1>1, LineFacts, LineAssumption DEF TypeOK
<1>5. /\ invalid_packets_recieved \in Nat /\ blame \in Nat /\ lost \in 0 .. MaxLost
      /\ line_buffer_pos \in Nat /\ escape_next_char \in BOOLEAN /\ harmed \in BOOLEAN
      BY <1>1, LineAssumption DEF TypeOK
<1>6. blame' = blame + One(Wanted(l) = Refused)  BY <1>5 DEF Begin, One
<1>7. TypeOK'
      <2>1. /\ line' \in Line /\ next' \in 1 .. MaxLen + 1 /\ lines' \in 0 .. MaxLines
            /\ heard' \in {Nothing, Refused, Swallowed} \cup [1 .. Args + 1 -> Byte]
            BY <1>2, <1>4
      <2>2. /\ half' \in BOOLEAN /\ sending' \in BOOLEAN /\ reset' \in BOOLEAN
            /\ stale' \in BOOLEAN /\ harmed' \in BOOLEAN
            BY <1>2, <1>5, Zenon
      <2>3. blame' \in Nat  BY <1>5, <1>6 DEF One
      <2>4. /\ mote_line_buffer' \in [0 .. BufSize - 1 -> Byte]
            /\ line_buffer_pos' \in 0 .. BufSize - 1 /\ escape_next_char' \in BOOLEAN
            /\ line_recieved_latch' \in {"OFF", "PRIMED", "FIRED"} /\ tmout' \in 0 .. Passes
            /\ reading' \in {"cmd", "mac", "drain", "nobody"}
            /\ (reading' = "nobody") = (line_recieved_latch' = "OFF")
            /\ booting' \in BOOLEAN /\ mac_valid' \in BOOLEAN
            /\ invalid_packets_recieved' \in 0 .. CountMod - 1 /\ lost' \in 0 .. MaxLost
            BY <1>1, <1>2 DEF TypeOK, buffer, reader
      <2> QED  BY <2>1, <2>2, <2>3, <2>4 DEF TypeOK
<1>8. OnLine'  BY <1>2, <1>4 DEF OnLine
<1>9. Room'
      <2>1. One(escape_next_char' \/ half') = One(escape_next_char \/ half) /\ One(half') = 0
            BY <1>2, <1>3 DEF buffer, One
      <2>2. line_buffer_pos' = line_buffer_pos /\ lost' = lost  BY <1>2 DEF buffer
      <2>3. lost * MaxLen \in Nat /\ One(escape_next_char \/ half) \in 0 .. 1
            BY <1>5, Product DEF One
      <2> QED  BY <1>1, <1>2, <1>3, <1>5, <2>1, <2>2, <2>3 DEF Room
<1>10. InStep'
      <2>1. ~harmed => line_buffer_pos = 0 /\ ~escape_next_char  BY <1>1, <1>3 DEF InStep
      <2>2. line_buffer_pos' = line_buffer_pos /\ escape_next_char' = escape_next_char
            BY <1>2 DEF buffer
      <2> QED  BY <1>2, <2>1, <2>2 DEF InStep
<1>11. Account'
      <2>1. Wanted(line)' = Wanted(l)  BY <1>2 DEF Wanted
      <2>2. Doubted' <=> Wanted(l) = Refused \/ harmed  BY <1>2, <2>1 DEF Doubted
      <2>3. One(Doubted') <= One(Wanted(l) = Refused) + One(harmed) /\ One(harmed') = 0
            BY <1>2, <1>5, <2>2 DEF One
      <2>4. /\ One(Doubted') \in 0 .. 1 /\ One(Doubted) \in 0 .. 1 /\ One(harmed) \in 0 .. 1
            /\ One(Wanted(l) = Refused) \in 0 .. 1
            BY DEF One
      <2>5. invalid_packets_recieved + One(harmed) <= blame  BY <1>1, <1>5, <2>4 DEF Account
      <2> QED  BY <1>2, <1>5, <1>6, <2>3, <2>4, <2>5 DEF Account
<1>12. OthersArrive'  BY <1>2 DEF OthersArrive
<1> QED  BY <1>7, <1>8, <1>9, <1>10, <1>11, <1>12 DEF IInv

LEMMA LoseInv == ASSUME IInv, Lose PROVE IInv'
<1>1. TypeOK /\ OnLine /\ Room /\ InStep /\ Account  BY DEF IInv
<1>2. /\ sending /\ lost < MaxLost /\ Advance
      /\ lost' = lost + 1 /\ harmed' = TRUE /\ blame' = blame + 2
      /\ UNCHANGED <<buffer, reader, invalid_packets_recieved, reset, heard, stale, lines>>
      BY DEF Lose
<1>3. line' = line /\ OnLine' /\ (Ends \/ Opens \/ Closes \/ Plain)  BY <1>1, <1>2, Moves
<1>4. /\ line \in Line /\ next \in 1 .. MaxLen + 1 /\ half \in BOOLEAN /\ sending = TRUE
      /\ Len(line.bytes) \in 1 .. MaxLen /\ next \in 1 .. Len(line.bytes) + 1
      /\ line_buffer_pos \in Nat /\ escape_next_char \in BOOLEAN
      /\ lost \in 0 .. MaxLost /\ MaxLen \in Nat /\ MaxLost \in Nat
      /\ lost * MaxLen \in Nat /\ (lost + 1) * MaxLen = lost * MaxLen + MaxLen
      /\ invalid_packets_recieved \in Nat /\ blame \in Nat /\ reset = FALSE
      BY <1>1, <1>2, LineFacts, LineAssumption, Product DEF TypeOK, OnLine, Account
<1>5. TypeOK'
      <2>1. /\ line' \in Line /\ next' \in 1 .. MaxLen + 1 /\ lost' \in 0 .. MaxLost
            /\ blame' \in Nat
            BY <1>2, <1>3, <1>4 DEF Ends, Opens, Closes, Plain
      <2>2. half' \in BOOLEAN /\ sending' \in BOOLEAN /\ harmed' \in BOOLEAN
            BY <1>2, <1>3, Zenon DEF Ends, Opens, Closes, Plain
      <2>3. /\ mote_line_buffer' \in [0 .. BufSize - 1 -> Byte]
            /\ line_buffer_pos' \in 0 .. BufSize - 1 /\ escape_next_char' \in BOOLEAN
            /\ line_recieved_latch' \in {"OFF", "PRIMED", "FIRED"} /\ tmout' \in 0 .. Passes
            /\ reading' \in {"cmd", "mac", "drain", "nobody"}
            /\ (reading' = "nobody") = (line_recieved_latch' = "OFF")
            /\ booting' \in BOOLEAN /\ mac_valid' \in BOOLEAN
            /\ invalid_packets_recieved' \in 0 .. CountMod - 1 /\ reset' \in BOOLEAN
            /\ heard' \in {Nothing, Refused, Swallowed} \cup [1 .. Args + 1 -> Byte]
            /\ stale' \in BOOLEAN /\ lines' \in 0 .. MaxLines
            BY <1>1, <1>2 DEF TypeOK, buffer, reader
      <2> QED  BY <2>1, <2>2, <2>3 DEF TypeOK
<1>6. Room'
      <2>1. line_buffer_pos' = line_buffer_pos /\ escape_next_char' = escape_next_char
            BY <1>2 DEF buffer
      <2>2. line_buffer_pos + One(escape_next_char \/ half) <= lost * MaxLen + 1 + (next - 1 + One(half))
            BY <1>1, <1>4 DEF Room
      <2>3. /\ One(escape_next_char \/ half) \in 0 .. 1
            /\ One(escape_next_char' \/ half') \in 0 .. 1
            /\ One(half) \in 0 .. 1 /\ One(half') \in 0 .. 1
            BY DEF One
      <2>4. CASE Ends
            <3>1. One(half) = 0 /\ One(escape_next_char' \/ half') = One(escape_next_char \/ half)
                  BY <2>1, <2>4 DEF Ends, One
            <3>2. sending' = FALSE /\ next - 1 <= MaxLen  BY <1>4, <2>4 DEF Ends
            <3>3. line_buffer_pos' + One(escape_next_char' \/ half') <= (lost + 1) * MaxLen + 1
                  BY <1>4, <2>1, <2>2, <2>3, <3>1, <3>2
            <3> QED  BY <1>2, <1>4, <3>2, <3>3 DEF Room
      <2>5. CASE Opens
            <3>1. One(half) = 0 /\ One(half') = 1  BY <2>5 DEF Opens, One
            <3> QED  BY <1>2, <1>4, <2>1, <2>2, <2>3, <2>5, <3>1 DEF Opens, Room
      <2>6. CASE Closes
            <3>1. One(half) = 1 /\ One(half') = 0 /\ One(escape_next_char \/ half) = 1
                  BY <2>6 DEF Closes, One
            <3> QED  BY <1>2, <1>4, <2>1, <2>2, <2>3, <2>6, <3>1 DEF Closes, Room
      <2>7. CASE Plain
            <3>1. /\ One(half) = 0 /\ One(half') = 0
                  /\ One(escape_next_char' \/ half') = One(escape_next_char \/ half)
                  BY <2>1, <2>7 DEF Plain, One
            <3> QED  BY <1>2, <1>4, <2>1, <2>2, <2>3, <2>7, <3>1 DEF Plain, Room
      <2> QED  BY <1>3, <2>4, <2>5, <2>6, <2>7
<1>7. InStep'  BY <1>2 DEF InStep
<1>8. Account'
      <2>1. /\ One(Doubted) \in 0 .. 1 /\ One(Doubted') \in 0 .. 1
            /\ One(harmed) \in 0 .. 1 /\ One(harmed') \in 0 .. 1
            BY DEF One
      <2>2. invalid_packets_recieved' + One(Doubted') + One(harmed') <= blame'
            <3>1. invalid_packets_recieved + One(Doubted) + One(harmed) <= blame
                  BY <1>1 DEF Account
            <3>2. invalid_packets_recieved' = invalid_packets_recieved /\ blame' = blame + 2
                  BY <1>2
            <3> QED  BY <1>4, <2>1, <3>1, <3>2
      <2> QED  BY <1>2, <1>4, <2>2 DEF Account
<1>9. OthersArrive'  BY <1>2 DEF OthersArrive
<1> QED  BY <1>3, <1>5, <1>6, <1>7, <1>8, <1>9 DEF IInv

(* What the readers do leaves the lines alone.                             *)
LEMMA ReadersInv == ASSUME IInv, AskMac \/ Answer \/ Pass PROVE IInv'
<1>1. TypeOK  BY DEF IInv
<1>2. UNCHANGED Rest  BY DEF AskMac, Answer, Pass, Rest
<1>3. /\ line_recieved_latch \in {"OFF", "PRIMED", "FIRED"} /\ tmout \in 0 .. Passes
      /\ reading \in {"cmd", "mac", "drain", "nobody"}
      /\ (reading = "nobody") = (line_recieved_latch = "OFF")
      /\ booting \in BOOLEAN /\ mac_valid \in BOOLEAN /\ Passes \in Nat
      BY <1>1, LineAssumption DEF TypeOK
<1> DEFINE Reader == /\ line_recieved_latch' \in {"OFF", "PRIMED", "FIRED"} /\ tmout' \in 0 .. Passes
                     /\ reading' \in {"cmd", "mac", "drain", "nobody"}
                     /\ (reading' = "nobody") = (line_recieved_latch' = "OFF")
                     /\ booting' \in BOOLEAN /\ mac_valid' \in BOOLEAN
<1>4. ASSUME NEW by \in {"cmd", "mac", "drain"}, Readline(by),
             booting' \in BOOLEAN, mac_valid' \in BOOLEAN
      PROVE  Reader
      BY <1>3, <1>4 DEF Readline
<1>5. ASSUME ReadNoMore, mac_valid' \in BOOLEAN
      PROVE  Reader
      <2>1. CASE Readline("drain") /\ UNCHANGED booting  BY <1>3, <1>4, <1>5, <2>1
      <2>2. CASE /\ line_recieved_latch' = "OFF" /\ reading' = "nobody" /\ booting' = FALSE
                 /\ UNCHANGED tmout
            BY <1>3, <1>5, <2>2
      <2> QED  BY <1>5, <2>1, <2>2 DEF ReadNoMore
<1>6. ASSUME AskMac PROVE Reader
      <2>1. Readline("mac") /\ booting' = booting /\ mac_valid' = mac_valid  BY <1>6 DEF AskMac
      <2> QED  BY <1>3, <1>4, <2>1
<1>7. ASSUME Answer PROVE Reader
      <2>1. reading # "nobody"  BY <1>3, <1>7 DEF Answer
      <2>2. CASE Readline("mac") /\ UNCHANGED <<booting, mac_valid>>  BY <1>3, <1>4, <2>2
      <2>3. CASE ReadNoMore /\ mac_valid' = TRUE  BY <1>5, <2>3
      <2>4. CASE Readline(reading) /\ UNCHANGED <<booting, mac_valid>>  BY <1>3, <1>4, <2>1, <2>4
      <2> QED  BY <1>7, <2>2, <2>3, <2>4 DEF Answer
<1>8. ASSUME Pass PROVE Reader
      <2>1. mac_valid' = mac_valid  BY <1>8 DEF Pass
      <2>2. CASE tmout > 0 /\ tmout' = tmout - 1 /\ UNCHANGED <<line_recieved_latch, reading, booting>>
            BY <1>3, <2>1, <2>2
      <2>3. CASE ReadNoMore  BY <1>3, <1>5, <2>1, <2>3
      <2> QED  BY <1>8, <2>2, <2>3 DEF Pass
<1>9. Reader  BY <1>6, <1>7, <1>8
<1> HIDE DEF Reader
<1> QED
      <2>1. TypeOK'
            <3>1. /\ line' = line /\ next' = next /\ half' = half /\ sending' = sending
                  /\ mote_line_buffer' = mote_line_buffer /\ line_buffer_pos' = line_buffer_pos
                  /\ escape_next_char' = escape_next_char
                  /\ invalid_packets_recieved' = invalid_packets_recieved /\ reset' = reset
                  /\ heard' = heard /\ blame' = blame
                  /\ harmed' = harmed /\ stale' = stale /\ lines' = lines /\ lost' = lost
                  BY <1>2 DEF Rest, wire, buffer, logic, faults
            <3>2. Reader  BY <1>9
            <3> QED  BY <1>1, <3>1, <3>2 DEF TypeOK, Reader
      <2>2. OnLine'  BY <1>2 DEF IInv, OnLine, AtEnd, Escapes, Rest, wire
      <2>3. Room'  BY <1>2 DEF IInv, Room, Rest, wire, buffer, faults
      <2>4. InStep'  BY <1>2 DEF IInv, InStep, Rest, wire, buffer, faults
      <2>5. Account'  BY <1>2 DEF IInv, Account, Doubted, Wanted, Rest, wire, logic, faults
      <2>6. OthersArrive'  BY <1>2 DEF IInv, OthersArrive, Wanted, Rest, wire, logic, faults
      <2> QED  BY <2>1, <2>2, <2>3, <2>4, <2>5, <2>6 DEF IInv

LEMMA NextInv == IInv /\ [Next]_vars => IInv'
<1> SUFFICES ASSUME IInv, [Next]_vars PROVE IInv'  OBVIOUS
<1>1. CASE Lose  BY <1>1, LoseInv
<1>2. CASE Take
      <2>1. sending /\ Advance /\ UNCHANGED <<tmout, reading, booting, mac_valid, faults>>
            BY <1>2 DEF Take
      <2>2. CASE OnWire # NL /\ Collect(OnWire) /\ UNCHANGED <<line_recieved_latch, logic>>
            <3>1. UNCHANGED <<reader, logic, faults>>  BY <2>1, <2>2 DEF reader
            <3> QED  BY <2>1, <2>2, <3>1, TakeByte
      <2>3. CASE OnWire = NL /\ EndLine
            <3>1. EndLine \/ (line_buffer_pos = 0 /\ UNCHANGED <<buffer, line_recieved_latch, logic>>)
                  BY <2>3
            <3> QED  BY <2>1, <2>3, <3>1, TakeEnd
      <2>4. CASE OnWire = NL /\ line_buffer_pos = 0 /\ UNCHANGED <<buffer, line_recieved_latch, logic>>
            BY <2>1, <2>4, TakeEnd
      <2> QED  BY <1>2, <2>2, <2>3, <2>4 DEF Take
<1>3. CASE AskMac \/ Answer \/ Pass  BY <1>3, ReadersInv
<1>4. CASE \E l \in Line : Begin(l)  BY <1>4, BeginInv
<1>5. CASE UNCHANGED vars
      <2>1. /\ UNCHANGED <<line, next, half, sending>>
            /\ UNCHANGED <<mote_line_buffer, line_buffer_pos, escape_next_char>>
            /\ UNCHANGED <<line_recieved_latch, tmout, reading, booting, mac_valid>>
            /\ UNCHANGED <<invalid_packets_recieved, reset, heard, blame>>
            /\ UNCHANGED <<harmed, stale, lines, lost>>
            BY <1>5 DEF vars, wire, buffer, reader, logic, faults
      <2>2. TypeOK'  BY <2>1 DEF IInv, TypeOK
      <2>3. OnLine'  BY <2>1 DEF IInv, OnLine, AtEnd, Escapes
      <2>4. Room'  BY <2>1 DEF IInv, Room
      <2>5. InStep'  BY <2>1 DEF IInv, InStep
      <2>6. Account'  BY <2>1 DEF IInv, Account, Doubted, Wanted
      <2>7. OthersArrive'  BY <2>1 DEF IInv, OthersArrive, Wanted
      <2> QED  BY <2>2, <2>3, <2>4, <2>5, <2>6, <2>7 DEF IInv
<1> QED  BY <1>1, <1>2, <1>3, <1>4, <1>5 DEF Next

-----------------------------------------------------------------------------
(* The types; above all, the line in mote_line_buffer and the 0 at its end *)
(* fit, whatever MaxLost bytes are lost of the lines (wifly.c:329 does not *)
(* look).                                                                  *)
THEOREM Typing == Spec => []TypeOK
<1>1. IInv => TypeOK  BY DEF IInv
<1> QED  BY <1>1, InitInv, NextInv, PTL DEF Spec

(* A line no byte is lost of, of it or of the line before, is dispatched   *)
(* as the host meant it, refused if it is for no node, or taken for an     *)
(* answer of the radio (wifly.c:308).                                      *)
THEOREM OtherLinesArrive == Spec => []OthersArrive
<1>1. IInv => OthersArrive  BY DEF IInv
<1> QED  BY <1>1, InitInv, NextInv, PTL DEF Spec

(* The node resets the radio only when three lines since the last packet   *)
(* may have been refused (logic.c:75).                                     *)
THEOREM ResetsAreEarned == Spec => []ResetEarned
<1>1. IInv => ResetEarned
      <2> SUFFICES ASSUME IInv PROVE ResetEarned  OBVIOUS
      <2>1. /\ invalid_packets_recieved \in Nat /\ blame \in Nat
            /\ invalid_packets_recieved + One(Doubted) + One(harmed) <= blame
            /\ reset => blame >= 3
            BY LineAssumption DEF IInv, TypeOK, Account
      <2>2. One(Doubted) \in 0 .. 1 /\ One(harmed) \in 0 .. 1  BY DEF One
      <2> QED  BY <2>1, <2>2 DEF ResetEarned
<1> QED  BY <1>1, InitInv, NextInv, PTL DEF Spec
=============================================================================
