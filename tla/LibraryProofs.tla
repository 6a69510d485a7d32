---------------------------- MODULE LibraryProofs ----------------------------
(***************************************************************************)
(* Theorems about the loops that move bytes, the serial port's options,    *)
(* the test programs' check and the string library, for any number of      *)
(* bytes, whatever descriptions are given, and any reads and strings.      *)
(***************************************************************************)
EXTENDS BlockingIO, SerialPort, DataCheck, CString, LeastNumber, FiniteSetTheorems,
        SequenceTheorems, TLAPS

(* One call, one program that uses a port, one that checks a device, and   *)
(* one that works on a string.                                             *)
IoSpec     == IoInit(TRUE) /\ [][IoNext]_ioVars
SerialSpec == SerialInit(TRUE) /\ [][SerialNext]_serialVars
CheckSpec  == CheckInit(TRUE) /\ [][CheckNext]_checkVars
StringSpec == StringInit(TRUE) /\ [][StringNext]_stringVars

-----------------------------------------------------------------------------
(* readn, writen, read_data, write_data *)

(* What the loop knows: nleft is what the file has not moved of n. *)
IoInv == /\ routine \in Routines
         /\ n \in 1..MaxBytes /\ nleft \in 0..n
         /\ zeros \in Nat /\ moved = n - nleft
         /\ io_pc \in {"run", "done"} /\ ret \in -1..MaxBytes
         /\ io_pc = "run" => nleft > 0
         /\ io_pc = "done" => (ret = All) = (nleft = 0)
         /\ routine = "readn" /\ ret >= 0 /\ io_pc = "done" => ret = moved

(* At the start all of n is left and nothing moved.                        *)
LEMMA IoInvInit == IoInit(TRUE) => IoInv
BY IoAssumption DEF IoInit, IoInv, Routines

(* Every transfer, retry, failure and end of file keeps the count of what  *)
(* is left.                                                                *)
LEMMA IoInvNext == IoInv /\ [IoNext]_ioVars => IoInv'
<1> SUFFICES ASSUME IoInv, [IoNext]_ioVars PROVE IoInv'
  OBVIOUS
<1> USE IoAssumption DEF IoInv, Routines, Retrying, All, Return
<1>1. CASE IoMoves
  <2>1. PICK k \in 1..nleft :
          /\ moved' = moved + k /\ nleft' = nleft - k
          /\ IF k = nleft THEN Return(All) ELSE UNCHANGED <<io_pc, ret>>
    BY <1>1 DEF IoMoves
  <2>2. io_pc = "run" /\ zeros' = 0 /\ routine' = routine /\ n' = n
    BY <1>1 DEF IoMoves
  <2>3. CASE k = nleft
    BY <2>1, <2>2, <2>3
  <2>4. CASE k # nleft
    BY <2>1, <2>2, <2>4
  <2> QED BY <2>3, <2>4
<1>2. CASE IoInterrupted
  BY <1>2 DEF IoInterrupted
<1>3. CASE IoNoFile
  BY <1>3 DEF IoNoFile
<1>4. CASE IoFails
  BY <1>4 DEF IoFails
<1>5. CASE IoZero
  <2>1. /\ io_pc = "run" /\ zeros' \in Nat
        /\ routine' = routine /\ n' = n /\ nleft' = nleft /\ moved' = moved
    BY <1>5 DEF IoZero
  <2>2. \/ routine = "readn" /\ Return(n - nleft)
        \/ Return(-1)
        \/ UNCHANGED <<io_pc, ret>>
    BY <1>5 DEF IoZero
  <2> QED BY <2>1, <2>2
<1>6. CASE UNCHANGED ioVars
  BY <1>6 DEF ioVars
<1> QED BY <1>1, <1>2, <1>3, <1>4, <1>5, <1>6 DEF IoNext

(* What readn, writen, read_data and write_data return tells, for any      *)
(* number of bytes and after any partial transfers, whether all of them    *)
(* were moved.                                                             *)
THEOREM ResultTold == IoSpec => []ResultExact
<1>1. IoInv => ResultExact
  BY IoAssumption DEF IoInv, ResultExact, Routines, Retrying, All
<1> QED BY <1>1, IoInvInit, IoInvNext, PTL DEF IoSpec

-----------------------------------------------------------------------------
(* The serial port: each setter does to the frame what it is asked for.    *)

(* What setting a rate makes of a frame. *)
GiveRate(f, rate) == IF rate \in KnownRates THEN [f EXCEPT !.speed = Given(rate)] ELSE f

(* set_baud_rate sets the speed, and nothing else of the frame.            *)
LEMMA RateSet ==
  ASSUME NEW t \in Termios, NEW rate \in Int
  PROVE  LET s == set_baud_rate(t, rate)
         IN  s \in Termios /\ Frame(s) = GiveRate(Frame(t), rate)
<1>1. CASE rate \notin KnownRates
  <2>1. get_baud_rate_from_desc(rate) = -1
    BY <1>1 DEF get_baud_rate_from_desc, KnownRates
  <2> QED BY <1>1, <2>1 DEF set_baud_rate, GiveRate
<1>2. CASE rate \in KnownRates
  <2>1. PICK g : g = Given(rate)
    OBVIOUS
  <2>2. get_baud_rate_from_desc(rate) = g
    BY <1>2, <2>1, SMT DEF get_baud_rate_from_desc, Given
  <2>3. g \in KnownRates
    BY <1>2, <2>1, SMT DEF Given, KnownRates
  <2>4. ~(g < 0)
    BY <2>3 DEF KnownRates
  <2>5. PICK s : s = [t EXCEPT !.speed = g]
    OBVIOUS
  <2>6. set_baud_rate(t, rate) = s
    BY <2>2, <2>4, <2>5 DEF set_baud_rate, Termios
  <2>7. s \in Termios
    BY <2>3, <2>5 DEF Termios
  <2>8. s.speed = g /\ s.size = t.size /\ s.cflag = t.cflag /\ s.iflag = t.iflag
    BY <2>5 DEF Termios
  <2>9. Frame(s) = [Frame(t) EXCEPT !.speed = g]
    BY <2>8 DEF Frame
  <2> QED BY <1>2, <2>1, <2>6, <2>7, <2>9 DEF GiveRate
<1> QED BY <1>1, <1>2

(* set_data_bits sets the size, and nothing else.                          *)
LEMMA SizeSet ==
  ASSUME NEW t \in Termios, NEW bits \in Int
  PROVE  LET s == set_data_bits(t, bits)
         IN  s \in Termios /\ Frame(s) = AskSize(Frame(t), bits)
<1>1. CASE bits \notin 5..8
  BY <1>1 DEF set_data_bits, get_data_bits_from_desc, AskSize
<1>2. CASE bits \in 5..8
  <2>1. PICK s : s = [t EXCEPT !.size = bits]
    OBVIOUS
  <2>2. set_data_bits(t, bits) = s
    BY <1>2, <2>1 DEF set_data_bits, get_data_bits_from_desc
  <2>3. s \in Termios
    BY <1>2, <2>1, Zenon DEF Termios
  <2>4. s.speed = t.speed /\ s.size = bits /\ s.cflag = t.cflag /\ s.iflag = t.iflag
    BY <2>1 DEF Termios
  <2> QED BY <1>2, <2>2, <2>3, <2>4 DEF Frame, AskSize
<1> QED BY <1>1, <1>2

(* set_stop_bits sets the stop bits, and nothing else.                     *)
LEMMA StopsSet ==
  ASSUME NEW t \in Termios, NEW bits \in Int
  PROVE  LET s == set_stop_bits(t, bits)
         IN  s \in Termios /\ Frame(s) = AskStops(Frame(t), bits)
<1>1. CASE bits \notin 1..2
  BY <1>1 DEF set_stop_bits, get_stop_bits_from_desc, AskStops
<1>2. CASE bits \in 1..2
  <2>1. PICK c : c = IF bits = 1 THEN t.cflag \ {"CSTOPB"} ELSE t.cflag \cup {"CSTOPB"}
    OBVIOUS
  <2>2. c \in SUBSET {"CSTOPB", "PARENB", "PARODD", "CRTSCTS"}
    BY <2>1 DEF Termios
  <2>3. PICK s : s = [t EXCEPT !.cflag = c]
    OBVIOUS
  <2>4. set_stop_bits(t, bits) = s
    BY <1>2, <2>1, <2>3 DEF set_stop_bits, get_stop_bits_from_desc
  <2>5. s \in Termios /\ s.cflag = c
    BY <2>2, <2>3 DEF Termios
  <2>6. s.speed = t.speed /\ s.size = t.size /\ s.iflag = t.iflag
    BY <2>3 DEF Termios
  <2>7. Frame(s) = [Frame(t) EXCEPT !.stops = bits]
    BY <1>2, <2>1, <2>5, <2>6 DEF Frame
  <2> QED BY <1>2, <2>4, <2>5, <2>7 DEF AskStops
<1> QED BY <1>1, <1>2

(* set_parity_bits sets the parity and its check, and nothing else,        *)
(* whatever was set before.                                                *)
LEMMA ParitySet ==
  ASSUME NEW t \in Termios,
         NEW desc \in {"n", "N", "o", "O", "e", "E", "s", "S", "other"}
  PROVE  LET s == set_parity_bits(t, desc)
         IN  s \in Termios /\ Frame(s) = AskParity(Frame(t), desc)
<1>1. CASE desc = "other"
  BY <1>1 DEF set_parity_bits, get_parity_from_desc, AskParity
<1>2. CASE desc # "other"
  <2>1. PICK c : c = IF desc \in {"e", "E"} THEN (t.cflag \cup {"PARENB"}) \ {"PARODD"}
                     ELSE IF desc \in {"o", "O"} THEN t.cflag \cup {"PARENB", "PARODD"}
                     ELSE t.cflag \ {"PARENB"}
    OBVIOUS
  <2>2. PICK i : i = IF desc \in {"o", "O", "e", "E"} THEN t.iflag \cup {"INPCK", "PARMRK"}
                     ELSE t.iflag \ {"INPCK", "PARMRK"}
    OBVIOUS
  <2>3. /\ c \in SUBSET {"CSTOPB", "PARENB", "PARODD", "CRTSCTS"}
        /\ i \in SUBSET {"INPCK", "PARMRK", "ICRNL", "IXON"}
    BY <2>1, <2>2 DEF Termios
  <2>4. PICK s : s = [t EXCEPT !.cflag = c, !.iflag = i]
    OBVIOUS
  <2>5. set_parity_bits(t, desc) = s
    <3>1. PICK par : par = get_parity_from_desc(desc)
      OBVIOUS
    <3>2. /\ desc \in {"e", "E"} => par = "PARITY_EVEN"
          /\ desc \in {"o", "O"} => par = "PARITY_ODD"
          /\ desc \notin {"o", "O", "e", "E"} => par \in {"PARITY_NO", "PARITY_SPACE"}
      BY <1>2, <3>1 DEF get_parity_from_desc
    <3>3. CASE desc \in {"e", "E"}
      BY <2>1, <2>2, <2>4, <3>1, <3>2, <3>3 DEF set_parity_bits, Termios
    <3>4. CASE desc \in {"o", "O"}
      BY <2>1, <2>2, <2>4, <3>1, <3>2, <3>4 DEF set_parity_bits, Termios
    <3>5. CASE desc \notin {"o", "O", "e", "E"}
      <4>1. c = t.cflag \ {"PARENB"} /\ i = t.iflag \ {"INPCK", "PARMRK"}
        BY <2>1, <2>2, <3>5
      <4>2. set_parity_bits(t, desc) = [t EXCEPT !.cflag = @ \ {"PARENB"},
                                                 !.iflag = @ \ {"INPCK", "PARMRK"}]
        BY <3>1, <3>2, <3>5 DEF set_parity_bits, Termios
      <4> QED BY <2>4, <4>1, <4>2 DEF Termios
    <3> QED BY <3>3, <3>4, <3>5
  <2>6. /\ s \in Termios /\ s.cflag = c /\ s.iflag = i /\ s.speed = t.speed
        /\ s.size = t.size
    <3>1. s \in Termios
      BY <2>3, <2>4, Zenon DEF Termios
    <3>2. s.cflag = c /\ s.iflag = i /\ s.speed = t.speed /\ s.size = t.size
      BY <2>4 DEF Termios
    <3> QED BY <3>1, <3>2
  <2>7. /\ "CSTOPB" \in c <=> "CSTOPB" \in t.cflag
        /\ "CRTSCTS" \in c <=> "CRTSCTS" \in t.cflag
        /\ "IXON" \in i <=> "IXON" \in t.iflag
    BY <2>1, <2>2
  <2>8. /\ Frame(s).speed = t.speed /\ Frame(s).size = t.size
        /\ Frame(s).stops = Frame(t).stops
        /\ Frame(s).hard = Frame(t).hard /\ Frame(s).soft = Frame(t).soft
    BY <2>6, <2>7 DEF Frame
  <2>9. Frame(s).parity = IF desc \in {"o", "O"} THEN "odd"
                          ELSE IF desc \in {"e", "E"} THEN "even" ELSE "none"
    BY <2>1, <2>6 DEF Frame
  <2>10. Frame(s).checked = (desc \in {"o", "O", "e", "E"})
    BY <2>2, <2>6 DEF Frame
  <2>11. AskParity(Frame(t), desc) = Frame(s)
    BY <1>2, <2>8, <2>9, <2>10 DEF AskParity, Frame
  <2> QED BY <2>5, <2>6, <2>11
<1> QED BY <1>1, <1>2

(* set_hardware_flow_ctl switches CRTSCTS, and nothing else.               *)
LEMMA HardwareSet ==
  ASSUME NEW t \in Termios, NEW on \in BOOLEAN
  PROVE  LET s == set_hardware_flow_ctl(t, on)
         IN  s \in Termios /\ Frame(s) = [Frame(t) EXCEPT !.hard = on]
<1>1. PICK c : c = IF on THEN t.cflag \cup {"CRTSCTS"} ELSE t.cflag \ {"CRTSCTS"}
  OBVIOUS
<1>2. c \in SUBSET {"CSTOPB", "PARENB", "PARODD", "CRTSCTS"}
  BY <1>1 DEF Termios
<1>3. PICK s : s = [t EXCEPT !.cflag = c]
  OBVIOUS
<1>4. set_hardware_flow_ctl(t, on) = s
  BY <1>1, <1>3 DEF set_hardware_flow_ctl, Termios
<1>5. s \in Termios
  BY <1>2, <1>3, Zenon DEF Termios
<1>6. s.speed = t.speed /\ s.size = t.size /\ s.cflag = c /\ s.iflag = t.iflag
  BY <1>3 DEF Termios
<1>7. Frame(s) = [Frame(t) EXCEPT !.hard = on]
  BY <1>1, <1>6 DEF Frame
<1> QED BY <1>4, <1>5, <1>7

(* set_software_flow_ctl switches XON/XOFF, and nothing else.              *)
LEMMA SoftwareSet ==
  ASSUME NEW t \in Termios, NEW on \in BOOLEAN
  PROVE  LET s == set_software_flow_ctl(t, on)
         IN  s \in Termios /\ Frame(s) = [Frame(t) EXCEPT !.soft = on]
<1>1. PICK i : i = IF on THEN t.iflag \cup {"IXON"} ELSE t.iflag \ {"IXON"}
  OBVIOUS
<1>2. i \in SUBSET {"INPCK", "PARMRK", "ICRNL", "IXON"}
  BY <1>1 DEF Termios
<1>3. PICK s : s = [t EXCEPT !.iflag = i]
  OBVIOUS
<1>4. set_software_flow_ctl(t, on) = s
  BY <1>1, <1>3 DEF set_software_flow_ctl, Termios
<1>5. s \in Termios
  BY <1>2, <1>3, Zenon DEF Termios
<1>6. s.speed = t.speed /\ s.size = t.size /\ s.cflag = t.cflag /\ s.iflag = i
  BY <1>3 DEF Termios
<1>7. Frame(s) = [Frame(t) EXCEPT !.soft = on]
  BY <1>1, <1>6 DEF Frame
<1> QED BY <1>4, <1>5, <1>7

(* A frame by its fields, and what each request does to them. *)
Fields(speed, size, stops, parity, checked, hard, soft) ==
  [speed |-> speed, size |-> size, stops |-> stops, parity |-> parity,
   checked |-> checked, hard |-> hard, soft |-> soft]

(* What each request changes in a frame, field by field.                   *)
LEMMA AskFields ==
  ASSUME NEW sp, NEW sz, NEW st, NEW pa, NEW ch, NEW ha, NEW so, NEW x
  PROVE  /\ AskRate(Fields(sp, sz, st, pa, ch, ha, so), x)
              = Fields(IF x \in KnownRates THEN x ELSE sp, sz, st, pa, ch, ha, so)
         /\ GiveRate(Fields(sp, sz, st, pa, ch, ha, so), x)
              = Fields(IF x \in KnownRates THEN Given(x) ELSE sp, sz, st, pa, ch, ha, so)
         /\ AskSize(Fields(sp, sz, st, pa, ch, ha, so), x)
              = Fields(sp, IF x \in 5..8 THEN x ELSE sz, st, pa, ch, ha, so)
         /\ AskStops(Fields(sp, sz, st, pa, ch, ha, so), x)
              = Fields(sp, sz, IF x \in 1..2 THEN x ELSE st, pa, ch, ha, so)
         /\ AskParity(Fields(sp, sz, st, pa, ch, ha, so), x)
              = Fields(sp, sz, st,
                       IF x = "other" THEN pa
                       ELSE IF x \in {"o", "O"} THEN "odd"
                       ELSE IF x \in {"e", "E"} THEN "even" ELSE "none",
                       IF x = "other" THEN ch ELSE x \in {"o", "O", "e", "E"}, ha, so)
<1>0. GiveRate(Fields(sp, sz, st, pa, ch, ha, so), x)
        = Fields(IF x \in KnownRates THEN Given(x) ELSE sp, sz, st, pa, ch, ha, so)
  BY DEF GiveRate, Fields
<1>1. AskRate(Fields(sp, sz, st, pa, ch, ha, so), x)
        = Fields(IF x \in KnownRates THEN x ELSE sp, sz, st, pa, ch, ha, so)
  BY DEF AskRate, Fields
<1>2. AskSize(Fields(sp, sz, st, pa, ch, ha, so), x)
        = Fields(sp, IF x \in 5..8 THEN x ELSE sz, st, pa, ch, ha, so)
  BY DEF AskSize, Fields
<1>3. AskStops(Fields(sp, sz, st, pa, ch, ha, so), x)
        = Fields(sp, sz, IF x \in 1..2 THEN x ELSE st, pa, ch, ha, so)
  BY DEF AskStops, Fields
<1>4. AskParity(Fields(sp, sz, st, pa, ch, ha, so), x)
        = Fields(sp, sz, st,
                 IF x = "other" THEN pa
                 ELSE IF x \in {"o", "O"} THEN "odd"
                 ELSE IF x \in {"e", "E"} THEN "even" ELSE "none",
                 IF x = "other" THEN ch ELSE x \in {"o", "O", "e", "E"}, ha, so)
  BY DEF AskParity, Fields
<1> QED BY <1>0, <1>1, <1>2, <1>3, <1>4

(* Requests are about different fields: their order does not matter. *)
LEMMA AskedApart ==
  ASSUME NEW t, NEW rate, NEW size, NEW stops, NEW parity
  PROVE  AskStops(AskParity(AskSize(GiveRate(Frame(t), rate), size), parity), stops)
         = GiveRate(AskSize(AskStops(AskParity(Frame(t), parity), stops), size), rate)
<1>1. PICK sp, sz, st, pa, ch, ha, so : Frame(t) = Fields(sp, sz, st, pa, ch, ha, so)
  BY DEF Frame, Fields
<1>2. PICK r : r = IF rate \in KnownRates THEN Given(rate) ELSE sp
  OBVIOUS
<1>3. PICK z : z = IF size \in 5..8 THEN size ELSE sz
  OBVIOUS
<1>4. PICK b : b = IF stops \in 1..2 THEN stops ELSE st
  OBVIOUS
<1>5. PICK p : p = IF parity = "other" THEN pa
                   ELSE IF parity \in {"o", "O"} THEN "odd"
                   ELSE IF parity \in {"e", "E"} THEN "even" ELSE "none"
  OBVIOUS
<1>6. PICK c : c = IF parity = "other" THEN ch ELSE parity \in {"o", "O", "e", "E"}
  OBVIOUS
<1>7. AskStops(AskParity(AskSize(GiveRate(Frame(t), rate), size), parity), stops)
        = Fields(r, z, b, p, c, ha, so)
  BY <1>1, <1>2, <1>3, <1>4, <1>5, <1>6, AskFields
<1>8. GiveRate(AskSize(AskStops(AskParity(Frame(t), parity), stops), size), rate)
        = Fields(r, z, b, p, c, ha, so)
  BY <1>1, <1>2, <1>3, <1>4, <1>5, <1>6, AskFields
<1> QED BY <1>7, <1>8

(* set_serial_port_attr: the four setters and the raw mode. *)
LEMMA AttrSet ==
  ASSUME NEW t \in Termios, NEW spp \in Params
  PROVE  /\ NewAttr(t, spp) \in Termios
         /\ Frame(NewAttr(t, spp)) =
              [GiveRate(AskSize(AskStops(AskParity(Frame(t), spp.parity_bits),
                                        AsChar(spp.stop_bit)),
                               AsChar(spp.data_bit)),
                       spp.baud_rate) EXCEPT !.soft = FALSE]
<1>1. /\ spp.baud_rate \in Int
      /\ AsChar(spp.data_bit) \in Int /\ AsChar(spp.stop_bit) \in Int
      /\ spp.parity_bits \in {"n", "N", "o", "O", "e", "E", "s", "S", "other"}
  <2>1. /\ spp.baud_rate \in BaudRates /\ spp.data_bit \in Int /\ spp.stop_bit \in Int
        /\ spp.parity_bits \in Parities
    BY SerialAssumption DEF Params
  <2>2. \A int \in Int : AsChar(int) \in Int
    BY DEF AsChar
  <2> QED BY <2>1, <2>2, SerialAssumption
<1> DEFINE rate == spp.baud_rate
           size == AsChar(spp.data_bit)
           stops == AsChar(spp.stop_bit)
           parity == spp.parity_bits
<1>2. PICK a : a = set_baud_rate(t, rate)
  OBVIOUS
<1>3. a \in Termios /\ Frame(a) = GiveRate(Frame(t), rate)
  BY <1>1, <1>2, RateSet
<1>4. PICK b : b = set_data_bits(a, size)
  OBVIOUS
<1>5. b \in Termios /\ Frame(b) = AskSize(Frame(a), size)
  BY <1>1, <1>3, <1>4, SizeSet
<1>6. PICK c : c = set_parity_bits(b, parity)
  OBVIOUS
<1>7. c \in Termios /\ Frame(c) = AskParity(Frame(b), parity)
  BY <1>1, <1>5, <1>6, ParitySet
<1>8. PICK d : d = set_stop_bits(c, stops)
  OBVIOUS
<1>9. d \in Termios /\ Frame(d) = AskStops(Frame(c), stops)
  BY <1>1, <1>7, <1>8, StopsSet
<1>10. PICK i : i = d.iflag \ {"ICRNL", "IXON"}
  OBVIOUS
<1>11. PICK s : s = [d EXCEPT !.iflag = i, !.raw = TRUE]
  OBVIOUS
<1>12. NewAttr(t, spp) = s
  BY <1>2, <1>4, <1>6, <1>8, <1>9, <1>10, <1>11 DEF NewAttr, Termios
<1>13. i \in SUBSET {"INPCK", "PARMRK", "ICRNL", "IXON"} /\ TRUE \in BOOLEAN
  BY <1>9, <1>10 DEF Termios
<1>14. s \in Termios
  BY <1>9, <1>11, <1>13, Zenon DEF Termios
<1>15. s.speed = d.speed /\ s.size = d.size /\ s.cflag = d.cflag /\ s.iflag = i
  BY <1>9, <1>11 DEF Termios
<1>16. Frame(s) = [Frame(d) EXCEPT !.soft = FALSE]
  <2>1. PICK off \in BOOLEAN : off = FALSE
    OBVIOUS
  <2>2. ("INPCK" \in i) = ("INPCK" \in d.iflag)
    BY <1>10
  <2>3. ("IXON" \in i) = off
    BY <1>10, <2>1
  <2>4. Frame(s) = [Frame(d) EXCEPT !.soft = off]
    BY <1>15, <2>2, <2>3 DEF Frame
  <2> QED BY <2>1, <2>4
<1>17. AskStops(AskParity(AskSize(GiveRate(Frame(t), rate), size), parity), stops)
       = GiveRate(AskSize(AskStops(AskParity(Frame(t), parity), stops), size), rate)
  BY AskedApart
<1>18. Frame(d) = GiveRate(AskSize(AskStops(AskParity(Frame(t), parity), stops), size), rate)
  BY <1>3, <1>5, <1>7, <1>9, <1>17
<1> QED BY <1>12, <1>14, <1>16, <1>18

(* A frame is made of its fields.                                          *)
LEMMA FieldsOf ==
  ASSUME NEW f \in Frames
  PROVE  /\ f = Fields(f.speed, f.size, f.stops, f.parity, f.checked, f.hard, f.soft)
         /\ f.speed \in KnownRates /\ f.size \in 5..8 /\ f.stops \in 1..2
         /\ f.parity \in {"none", "odd", "even"}
         /\ f.checked \in BOOLEAN /\ f.hard \in BOOLEAN /\ f.soft \in BOOLEAN
BY Zenon DEF Frames, Fields

(* Fields of the right kinds make a frame.                                 *)
LEMMA FramesOf ==
  ASSUME NEW sp \in KnownRates, NEW sz \in 5..8, NEW st \in 1..2,
         NEW pa \in {"none", "odd", "even"},
         NEW ch \in BOOLEAN, NEW ha \in BOOLEAN, NEW so \in BOOLEAN
  PROVE  Fields(sp, sz, st, pa, ch, ha, so) \in Frames
BY Zenon DEF Frames, Fields

(* What a membership is, is a Boolean. *)
LEMMA Flag == ASSUME NEW x, NEW S PROVE (x \in S) \in BOOLEAN
OBVIOUS

(* Options have a frame.                                                   *)
LEMMA FrameOf == ASSUME NEW t \in Termios PROVE Frame(t) \in Frames
<1>1. t.speed \in KnownRates /\ t.size \in 5..8
  BY DEF Termios
<1>2. PICK st \in 1..2 : st = IF "CSTOPB" \in t.cflag THEN 2 ELSE 1
  OBVIOUS
<1>3. PICK pa \in {"none", "odd", "even"} :
        pa = IF "PARENB" \notin t.cflag THEN "none"
             ELSE IF "PARODD" \in t.cflag THEN "odd" ELSE "even"
  OBVIOUS
<1>4. PICK ch \in BOOLEAN : ch = ("INPCK" \in t.iflag)
  BY Flag, Zenon
<1>5. PICK ha \in BOOLEAN : ha = ("CRTSCTS" \in t.cflag)
  BY Flag, Zenon
<1>6. PICK so \in BOOLEAN : so = ("IXON" \in t.iflag)
  BY Flag, Zenon
<1>7. Frame(t) = Fields(t.speed, t.size, st, pa, ch, ha, so)
  BY <1>2, <1>3, <1>4, <1>5, <1>6, Zenon DEF Frame, Fields
<1> QED BY <1>1, <1>7, FramesOf

(* The frame f follows the calls that asked for a, m being misread. *)
Follows(f, a, m) ==
  /\ f \in Frames /\ a \in Frames /\ m \subseteq {"size", "stops"}
  /\ <<f.parity, f.checked, f.hard, f.soft>> = <<a.parity, a.checked, a.hard, a.soft>>
  /\ f.speed = Given(a.speed)
  /\ "size" \notin m => f.size = a.size
  /\ "stops" \notin m => f.stops = a.stops

(* The property, in these words.                                           *)
LEMMA FollowsFrame ==
  FrameFollows <=> termios \in Termios /\ Follows(Frame(termios), asked, misread)
BY FrameOf, Zenon DEF FrameFollows, Follows

(* The fields of two frames, of which the first follows the second.        *)
Pair(sp, sz, st, pa, ch, ha, so, z, b, m) ==
  /\ sp \in KnownRates /\ sz \in 5..8 /\ st \in 1..2 /\ pa \in {"none", "odd", "even"}
  /\ ch \in BOOLEAN /\ ha \in BOOLEAN /\ so \in BOOLEAN
  /\ z \in 5..8 /\ b \in 1..2 /\ m \in SUBSET {"size", "stops"}
  /\ "size" \notin m => z = sz
  /\ "stops" \notin m => b = st

(* Frames of such fields follow each other.                                *)
LEMMA PairFollows ==
  ASSUME NEW sp, NEW sz, NEW st, NEW pa, NEW ch, NEW ha, NEW so, NEW z, NEW b, NEW m,
         Pair(sp, sz, st, pa, ch, ha, so, z, b, m)
  PROVE  Follows(Fields(Given(sp), z, b, pa, ch, ha, so),
                 Fields(sp, sz, st, pa, ch, ha, so), m)
<1>1. Given(sp) \in KnownRates
  BY SMT DEF Pair, Given, KnownRates
<1>2. PICK g \in KnownRates : g = Given(sp)
  BY <1>1
<1>3. PICK f2 : f2 = Fields(g, z, b, pa, ch, ha, so)
  OBVIOUS
<1>4. PICK a2 : a2 = Fields(sp, sz, st, pa, ch, ha, so)
  OBVIOUS
<1>5. f2 \in Frames /\ a2 \in Frames
  BY <1>2, <1>3, <1>4, FramesOf, Zenon DEF Pair
<1>6. /\ f2.speed = g /\ f2.size = z /\ f2.stops = b /\ f2.parity = pa
      /\ f2.checked = ch /\ f2.hard = ha /\ f2.soft = so
  BY <1>3, Zenon DEF Fields
<1>7. /\ a2.speed = sp /\ a2.size = sz /\ a2.stops = st /\ a2.parity = pa
      /\ a2.checked = ch /\ a2.hard = ha /\ a2.soft = so
  BY <1>4, Zenon DEF Fields
<1>8. Follows(f2, a2, m)
  BY <1>2, <1>5, <1>6, <1>7, Zenon DEF Follows, Pair
<1> QED BY <1>2, <1>3, <1>4, <1>8

(* A frame that follows, with fields changed in the same way, follows.     *)
LEMMA FollowsFields ==
  ASSUME NEW f, NEW a, NEW m, Follows(f, a, m)
  PROVE  /\ \A x \in Int : Follows(GiveRate(f, x), AskRate(a, x), m)
         /\ \A x \in {"n", "N", "o", "O", "e", "E", "s", "S", "other"} :
              Follows(AskParity(f, x), AskParity(a, x), m)
         /\ \A on \in BOOLEAN : /\ Follows([f EXCEPT !.hard = on], [a EXCEPT !.hard = on], m)
                                /\ Follows([f EXCEPT !.soft = on], [a EXCEPT !.soft = on], m)
         /\ \A x \in Int : /\ Follows(AskSize(f, AsChar(x)), AskSize(a, x), SizeMisread(m, x))
                           /\ Follows(AskStops(f, AsChar(x)), AskStops(a, x),
                                      StopsMisread(m, x))
<1>1. PICK sp \in KnownRates, sz \in 5..8, st \in 1..2, pa \in {"none", "odd", "even"},
           ch \in BOOLEAN, ha \in BOOLEAN, so \in BOOLEAN :
        a = Fields(sp, sz, st, pa, ch, ha, so)
  <2>1. a \in Frames
    BY DEF Follows
  <2>2. PICK sp \in KnownRates, sz \in 5..8, st \in 1..2, pa \in {"none", "odd", "even"} :
          sp = a.speed /\ sz = a.size /\ st = a.stops /\ pa = a.parity
    BY <2>1, FieldsOf, Zenon
  <2>3. PICK ch \in BOOLEAN : ch = a.checked
    BY <2>1, FieldsOf, Zenon
  <2>4. PICK ha \in BOOLEAN : ha = a.hard
    BY <2>1, FieldsOf, Zenon
  <2>5. PICK so \in BOOLEAN : so = a.soft
    BY <2>1, FieldsOf, Zenon
  <2>6. a = Fields(sp, sz, st, pa, ch, ha, so)
    BY <2>1, <2>2, <2>3, <2>4, <2>5, FieldsOf, Zenon
  <2> QED BY <2>6, Zenon
<1>2. PICK z \in 5..8, b \in 1..2 : z = f.size /\ b = f.stops
  BY FieldsOf, Zenon DEF Follows
<1>3. /\ f = Fields(Given(sp), z, b, pa, ch, ha, so)
      /\ "size" \notin m => z = sz
      /\ "stops" \notin m => b = st
      /\ m \in SUBSET {"size", "stops"}
  <2>1. /\ a.speed = sp /\ a.size = sz /\ a.stops = st /\ a.parity = pa
        /\ a.checked = ch /\ a.hard = ha /\ a.soft = so
    BY <1>1, Zenon DEF Fields
  <2>2. /\ f.speed = Given(sp) /\ f.parity = pa /\ f.checked = ch /\ f.hard = ha /\ f.soft = so
        /\ "size" \notin m => f.size = sz
        /\ "stops" \notin m => f.stops = st
    BY <2>1, Zenon DEF Follows
  <2>3. f = Fields(f.speed, f.size, f.stops, f.parity, f.checked, f.hard, f.soft)
    BY FieldsOf DEF Follows
  <2>4. m \in SUBSET {"size", "stops"}
    BY DEF Follows
  <2> QED BY <1>2, <2>2, <2>3, <2>4, Zenon
<1>4. ASSUME NEW x \in Int PROVE Follows(GiveRate(f, x), AskRate(a, x), m)
  <2>1. PICK s2 : s2 = IF x \in KnownRates THEN x ELSE sp
    OBVIOUS
  <2>2. s2 \in KnownRates /\ Given(s2) = IF x \in KnownRates THEN Given(x) ELSE Given(sp)
    BY <2>1
  <2>3. /\ AskRate(a, x) = Fields(s2, sz, st, pa, ch, ha, so)
        /\ GiveRate(f, x) = Fields(Given(s2), z, b, pa, ch, ha, so)
    BY <1>1, <1>3, <2>1, <2>2, AskFields
  <2>4. Pair(s2, sz, st, pa, ch, ha, so, z, b, m)
    BY <1>3, <2>2, Zenon DEF Pair
  <2> QED BY <2>3, <2>4, PairFollows, Zenon
<1>5. ASSUME NEW x \in {"n", "N", "o", "O", "e", "E", "s", "S", "other"}
      PROVE  Follows(AskParity(f, x), AskParity(a, x), m)
  <2>1. PICK p2 : p2 = IF x = "other" THEN pa
                       ELSE IF x \in {"o", "O"} THEN "odd"
                       ELSE IF x \in {"e", "E"} THEN "even" ELSE "none"
    OBVIOUS
  <2>2. PICK c2 : c2 = IF x = "other" THEN ch ELSE x \in {"o", "O", "e", "E"}
    OBVIOUS
  <2>3. p2 \in {"none", "odd", "even"} /\ c2 \in BOOLEAN
    <3>1. p2 \in {"none", "odd", "even"}
      BY <2>1
    <3>2. c2 \in BOOLEAN
      <4>1. (x \in {"o", "O", "e", "E"}) \in BOOLEAN
        BY Flag
      <4> QED BY <2>2, <4>1, Zenon
    <3> QED BY <3>1, <3>2
  <2>4. /\ AskParity(a, x) = Fields(sp, sz, st, p2, c2, ha, so)
        /\ AskParity(f, x) = Fields(Given(sp), z, b, p2, c2, ha, so)
    BY <1>1, <1>3, <2>1, <2>2, AskFields
  <2>5. Pair(sp, sz, st, p2, c2, ha, so, z, b, m)
    BY <1>3, <2>3, Zenon DEF Pair
  <2> QED BY <2>4, <2>5, PairFollows, Zenon
<1>6. ASSUME NEW on \in BOOLEAN
      PROVE  /\ Follows([f EXCEPT !.hard = on], [a EXCEPT !.hard = on], m)
             /\ Follows([f EXCEPT !.soft = on], [a EXCEPT !.soft = on], m)
  <2>1. /\ [a EXCEPT !.hard = on] = Fields(sp, sz, st, pa, ch, on, so)
        /\ [f EXCEPT !.hard = on] = Fields(Given(sp), z, b, pa, ch, on, so)
        /\ [a EXCEPT !.soft = on] = Fields(sp, sz, st, pa, ch, ha, on)
        /\ [f EXCEPT !.soft = on] = Fields(Given(sp), z, b, pa, ch, ha, on)
    BY <1>1, <1>3 DEF Fields
  <2>2. /\ Pair(sp, sz, st, pa, ch, on, so, z, b, m)
        /\ Pair(sp, sz, st, pa, ch, ha, on, z, b, m)
    BY <1>3, Zenon DEF Pair
  <2>3. /\ Follows(Fields(Given(sp), z, b, pa, ch, on, so),
                   Fields(sp, sz, st, pa, ch, on, so), m)
        /\ Follows(Fields(Given(sp), z, b, pa, ch, ha, on),
                   Fields(sp, sz, st, pa, ch, ha, on), m)
    BY <2>2, PairFollows, Zenon
  <2> QED BY <2>1, <2>3
<1>7. ASSUME NEW x \in Int
      PROVE  Follows(AskSize(f, AsChar(x)), AskSize(a, x), SizeMisread(m, x))
  <2>1. PICK low \in Int : low = AsChar(x) /\ (x \in 5..8 => low = x)
    BY DEF AsChar
  <2>2. PICK s2 \in 5..8 : s2 = IF x \in 5..8 THEN x ELSE sz
    OBVIOUS
  <2>3. PICK z2 \in 5..8 : z2 = IF low \in 5..8 THEN low ELSE z
    OBVIOUS
  <2>4. PICK m2 : m2 = SizeMisread(m, x)
    OBVIOUS
  <2>5. /\ m2 \in SUBSET {"size", "stops"}
        /\ "size" \notin m2 => z2 = s2
        /\ "stops" \notin m2 => b = st
    BY <1>3, <2>1, <2>2, <2>3, <2>4 DEF SizeMisread, Misread
  <2>6. /\ AskSize(a, x) = Fields(sp, s2, st, pa, ch, ha, so)
        /\ AskSize(f, AsChar(x)) = Fields(Given(sp), z2, b, pa, ch, ha, so)
    BY <1>1, <1>3, <2>1, <2>2, <2>3, AskFields
  <2>7. Pair(sp, s2, st, pa, ch, ha, so, z2, b, m2)
    BY <2>5, Zenon DEF Pair
  <2> QED BY <2>4, <2>6, <2>7, PairFollows, Zenon
<1>8. ASSUME NEW x \in Int
      PROVE  Follows(AskStops(f, AsChar(x)), AskStops(a, x), StopsMisread(m, x))
  <2>1. PICK low \in Int : low = AsChar(x) /\ (x \in 1..2 => low = x)
    BY DEF AsChar
  <2>2. PICK s2 \in 1..2 : s2 = IF x \in 1..2 THEN x ELSE st
    OBVIOUS
  <2>3. PICK b2 \in 1..2 : b2 = IF low \in 1..2 THEN low ELSE b
    OBVIOUS
  <2>4. PICK m2 : m2 = StopsMisread(m, x)
    OBVIOUS
  <2>5. /\ m2 \in SUBSET {"size", "stops"}
        /\ "size" \notin m2 => z = sz
        /\ "stops" \notin m2 => b2 = s2
    BY <1>3, <2>1, <2>2, <2>3, <2>4 DEF StopsMisread, Misread
  <2>6. /\ AskStops(a, x) = Fields(sp, sz, s2, pa, ch, ha, so)
        /\ AskStops(f, AsChar(x)) = Fields(Given(sp), z, b2, pa, ch, ha, so)
    BY <1>1, <1>3, <2>1, <2>2, <2>3, AskFields
  <2>7. Pair(sp, sz, s2, pa, ch, ha, so, z, b2, m2)
    BY <2>5, Zenon DEF Pair
  <2> QED BY <2>4, <2>6, <2>7, PairFollows, Zenon
<1> QED BY <1>4, <1>5, <1>6, <1>7, <1>8

(* At the start the frame asked for is the one the port has.               *)
LEMMA FollowsInit == SerialInit(TRUE) => FrameFollows
<1> SUFFICES ASSUME SerialInit(TRUE) PROVE FrameFollows
  OBVIOUS
<1>1. 9600 \in KnownRates /\ Given(9600) = 9600 /\ 8 \in 5..8 /\ FALSE \in BOOLEAN
  BY SMT DEF KnownRates, Given
<1>2. PICK c \in SUBSET {"PARENB", "PARODD"}, i \in SUBSET {"INPCK", "IXON"} :
        termios = Opened(c, i)
  BY Zenon DEF SerialInit
<1>3. /\ c \in SUBSET {"CSTOPB", "PARENB", "PARODD", "CRTSCTS"}
      /\ i \in SUBSET {"INPCK", "PARMRK", "ICRNL", "IXON"}
  OBVIOUS
<1>4. termios \in Termios
  BY <1>1, <1>2, <1>3, SMT DEF Opened, Termios
<1>5. Frame(termios) \in Frames /\ Given(Frame(termios).speed) = Frame(termios).speed
  BY <1>1, <1>2, <1>4, FrameOf, SMT DEF Frame, Opened
<1>6. asked = Frame(termios) /\ misread = {}
  BY DEF SerialInit
<1>7. Follows(Frame(termios), asked, misread)
  BY <1>5, <1>6, Zenon DEF Follows
<1> QED BY <1>4, <1>7, FollowsFrame

(* Every setter, alone or within set_serial_port_attr, keeps the port's    *)
(* frame following what is asked for.                                      *)
LEMMA FollowsNext ==
  ASSUME FrameFollows, [SerialNext]_serialVars
  PROVE  FrameFollows'
<1>1. termios \in Termios /\ Follows(Frame(termios), asked, misread)
  BY FollowsFrame
<1>2. SUFFICES termios' \in Termios /\ Follows(Frame(termios'), asked', misread')
  BY FollowsFrame, Zenon DEF FrameFollows, Follows, Frame
<1>3. CASE SetPort
  <2>1. PICK spp \in Params :
          /\ termios' = NewAttr(termios, spp)
          /\ asked' = [AskRate(AskSize(AskStops(AskParity(asked, spp.parity_bits),
                                                spp.stop_bit),
                                       spp.data_bit),
                               spp.baud_rate) EXCEPT !.soft = FALSE]
          /\ misread' = SizeMisread(StopsMisread(misread, spp.stop_bit), spp.data_bit)
    BY <1>3 DEF SetPort
  <2>2. /\ spp.baud_rate \in Int /\ spp.data_bit \in Int /\ spp.stop_bit \in Int
        /\ spp.parity_bits \in {"n", "N", "o", "O", "e", "E", "s", "S", "other"}
        /\ FALSE \in BOOLEAN
    BY SerialAssumption DEF Params
  <2> DEFINE f1 == AskParity(Frame(termios), spp.parity_bits)
             f2 == AskStops(f1, AsChar(spp.stop_bit))
             f3 == AskSize(f2, AsChar(spp.data_bit))
             f4 == GiveRate(f3, spp.baud_rate)
             a1 == AskParity(asked, spp.parity_bits)
             a2 == AskStops(a1, spp.stop_bit)
             a3 == AskSize(a2, spp.data_bit)
             a4 == AskRate(a3, spp.baud_rate)
             m2 == StopsMisread(misread, spp.stop_bit)
             m3 == SizeMisread(m2, spp.data_bit)
  <2>3. Follows(f1, a1, misread)
    BY <1>1, <2>2, FollowsFields
  <2>4. Follows(f2, a2, m2)
    BY <2>2, <2>3, FollowsFields
  <2>5. Follows(f3, a3, m3)
    BY <2>2, <2>4, FollowsFields
  <2>6. Follows(f4, a4, m3)
    BY <2>2, <2>5, FollowsFields
  <2>7. Follows([f4 EXCEPT !.soft = FALSE], [a4 EXCEPT !.soft = FALSE], m3)
    BY <2>2, <2>6, FollowsFields
  <2> QED BY <1>1, <2>1, <2>7, AttrSet
<1>4. CASE SetOne
  <2>1. ASSUME NEW rate \in BaudRates, termios' = set_baud_rate(termios, rate),
               asked' = AskRate(asked, rate), misread' = misread
        PROVE  termios' \in Termios /\ Follows(Frame(termios'), asked', misread')
    <3>1. rate \in Int
      BY SerialAssumption
    <3>2. termios' \in Termios /\ Frame(termios') = GiveRate(Frame(termios), rate)
      BY <1>1, <2>1, <3>1, RateSet
    <3>3. Follows(GiveRate(Frame(termios), rate), asked', misread')
      BY <1>1, <2>1, <3>1, FollowsFields, Zenon
    <3> QED BY <3>2, <3>3, Zenon
  <2>2. ASSUME NEW bits \in DataBits, termios' = set_data_bits(termios, AsChar(bits)),
               asked' = AskSize(asked, bits), misread' = SizeMisread(misread, bits)
        PROVE  termios' \in Termios /\ Follows(Frame(termios'), asked', misread')
    <3>1. bits \in Int /\ AsChar(bits) \in Int
      BY SerialAssumption DEF AsChar
    <3>2. termios' \in Termios /\ Frame(termios') = AskSize(Frame(termios), AsChar(bits))
      BY <1>1, <2>2, <3>1, SizeSet
    <3>3. Follows(AskSize(Frame(termios), AsChar(bits)), asked', misread')
      BY <1>1, <2>2, <3>1, FollowsFields, Zenon
    <3> QED BY <3>2, <3>3, Zenon
  <2>3. ASSUME NEW bits \in StopBits, termios' = set_stop_bits(termios, AsChar(bits)),
               asked' = AskStops(asked, bits), misread' = StopsMisread(misread, bits)
        PROVE  termios' \in Termios /\ Follows(Frame(termios'), asked', misread')
    <3>1. bits \in Int /\ AsChar(bits) \in Int
      BY SerialAssumption DEF AsChar
    <3>2. termios' \in Termios /\ Frame(termios') = AskStops(Frame(termios), AsChar(bits))
      BY <1>1, <2>3, <3>1, StopsSet
    <3>3. Follows(AskStops(Frame(termios), AsChar(bits)), asked', misread')
      BY <1>1, <2>3, <3>1, FollowsFields, Zenon
    <3> QED BY <3>2, <3>3, Zenon
  <2>4. ASSUME NEW desc \in Parities, termios' = set_parity_bits(termios, desc),
               asked' = AskParity(asked, desc), misread' = misread
        PROVE  termios' \in Termios /\ Follows(Frame(termios'), asked', misread')
    <3>1. desc \in {"n", "N", "o", "O", "e", "E", "s", "S", "other"}
      BY SerialAssumption
    <3>2. termios' \in Termios /\ Frame(termios') = AskParity(Frame(termios), desc)
      BY <1>1, <2>4, <3>1, ParitySet
    <3>3. Follows(AskParity(Frame(termios), desc), asked', misread')
      BY <1>1, <2>4, <3>1, FollowsFields, Zenon
    <3> QED BY <3>2, <3>3, Zenon
  <2>5. ASSUME NEW on \in BOOLEAN, termios' = set_hardware_flow_ctl(termios, on),
               asked' = [asked EXCEPT !.hard = on], misread' = misread
        PROVE  termios' \in Termios /\ Follows(Frame(termios'), asked', misread')
    <3>1. termios' \in Termios /\ Frame(termios') = [Frame(termios) EXCEPT !.hard = on]
      BY <1>1, <2>5, HardwareSet
    <3>2. Follows([Frame(termios) EXCEPT !.hard = on], asked', misread')
      BY <1>1, <2>5, FollowsFields, Zenon
    <3> QED BY <3>1, <3>2, Zenon
  <2>6. ASSUME NEW on \in BOOLEAN, termios' = set_software_flow_ctl(termios, on),
               asked' = [asked EXCEPT !.soft = on], misread' = misread
        PROVE  termios' \in Termios /\ Follows(Frame(termios'), asked', misread')
    <3>1. termios' \in Termios /\ Frame(termios') = [Frame(termios) EXCEPT !.soft = on]
      BY <1>1, <2>6, SoftwareSet
    <3>2. Follows([Frame(termios) EXCEPT !.soft = on], asked', misread')
      BY <1>1, <2>6, FollowsFields, Zenon
    <3> QED BY <3>1, <3>2, Zenon
  <2> QED BY <1>4, <2>1, <2>2, <2>3, <2>4, <2>5, <2>6 DEF SetOne
<1>5. CASE SetPortFails \/ UNCHANGED serialVars
  <2>1. termios' = termios /\ asked' = asked /\ misread' = misread
    BY <1>5 DEF SetPortFails, serialVars
  <2> QED BY <1>1, <2>1
<1> QED BY <1>3, <1>4, <1>5 DEF SerialNext

(* The frame on the line follows the calls, whatever the descriptions, any *)
(* int included, and the order of the calls: no setter disturbs another's  *)
(* field, and where the frame is not the one asked for, it is 3500000's    *)
(* speed or a number cut to a char, and nothing else.                      *)
THEOREM FrameAlwaysFollows == SerialSpec => []FrameFollows
<1>1. FrameFollows /\ [SerialNext]_serialVars => FrameFollows'
  BY FollowsNext
<1> QED BY <1>1, FollowsInit, PTL DEF SerialSpec

-----------------------------------------------------------------------------
(* check_data_inc and the reads of the test programs.                      *)

(* A number below Base is its own remainder.                               *)
LEMMA ModSmall ==
  ASSUME NEW a \in 0..Base-1 PROVE a % Base = a
BY CheckAssumption

(* The byte before a byte is one, and its successor is that byte again,    *)
(* also around the end.                                                    *)
LEMMA SuccPred ==
  ASSUME NEW c \in Char
  PROVE  /\ Succ(c) \in Char /\ (c - 1) % Base \in Char
         /\ Succ((c - 1) % Base) = c
<1>1. (-1) % Base = Base - 1 /\ Base % Base = 0
  BY CheckAssumption
<1> QED BY <1>1, CheckAssumption, ModSmall DEF Char, Succ

(* The byte before the i-th among those at the positions S, or `from`.     *)
Before(data, from, S, i) == IF \E j \in S : j < i THEN data[Max({j \in S : j < i})] ELSE from

(* The positions of S whose byte is not one more than the one before.      *)
Broken(data, from, S) == {i \in S : data[i] # Succ(Before(data, from, S, i))}

(* What the loop has after the positions S. *)
Checked(data, from, S) == [start_val |-> IF S = {} THEN from ELSE data[Max(S)],
                           err_cnt |-> Cardinality(Broken(data, from, S))]

(* One position more, behind all others, is one round of the loop.         *)
LEMMA CheckedStep ==
  ASSUME NEW data, NEW from, NEW N \in Nat, NEW S \in SUBSET (1..N), S # {}
  PROVE  /\ Max(S) \in S
         /\ Checked(data, from, S) = CheckStep(Checked(data, from, S \ {Max(S)}), data[Max(S)])
<1>1. PICK m \in S : m = Max(S) /\ \A y \in S : y <= m
  BY MaxInSet
<1>2. PICK T \in SUBSET S : T = S \ {m}
  OBVIOUS
<1>3. /\ m \in Nat /\ m \notin T /\ S = T \cup {m}
      /\ \A j \in T : j \in Nat /\ j < m
      /\ \A j \in S : j < m <=> j \in T
  <2>1. ASSUME NEW j \in S PROVE j \in Nat /\ m \in Nat /\ (j < m <=> j # m)
    BY <1>1
  <2> QED BY <1>2, <2>1
<1>4. {j \in S : j < m} = T
  BY <1>2, <1>3
<1>5. Before(data, from, S, m) = Checked(data, from, T).start_val
  <2>1. (\E j \in S : j < m) <=> T # {}
    BY <1>3
  <2> QED BY <1>4, <2>1 DEF Before, Checked
<1>6. ASSUME NEW i \in T PROVE Before(data, from, S, i) = Before(data, from, T, i)
  <2>1. {j \in S : j < i} = {j \in T : j < i}
    BY <1>3
  <2>2. (\E j \in S : j < i) <=> (\E j \in T : j < i)
    BY <2>1
  <2> QED BY <2>1, <2>2 DEF Before
<1>7. PICK B : B = Broken(data, from, T)
  OBVIOUS
<1>8. IsFiniteSet(B) /\ m \notin B
  <2>1. B \subseteq 1..N
    BY <1>7 DEF Broken
  <2> QED BY <1>3, <1>7, <2>1, FS_Interval, FS_Subset DEF Broken
<1>9. PICK b : b = Before(data, from, S, m)
  OBVIOUS
<1>10. CASE data[m] = Succ(b)
  <2>1. Broken(data, from, S) = B
    BY <1>3, <1>6, <1>7, <1>9, <1>10 DEF Broken
  <2>2. Checked(data, from, S) = [start_val |-> data[m], err_cnt |-> Cardinality(B)]
    BY <1>1, <2>1 DEF Checked
  <2> QED BY <1>1, <1>2, <1>5, <1>7, <1>9, <1>10, <2>2 DEF Checked, CheckStep
<1>11. CASE data[m] # Succ(b)
  <2>1. Broken(data, from, S) = B \cup {m}
    BY <1>3, <1>6, <1>7, <1>9, <1>11 DEF Broken
  <2>2. Cardinality(B \cup {m}) = Cardinality(B) + 1
    BY <1>8, FS_AddElement
  <2>3. Checked(data, from, S) = [start_val |-> data[m], err_cnt |-> Cardinality(B) + 1]
    BY <1>1, <2>1, <2>2 DEF Checked
  <2> QED BY <1>1, <1>2, <1>5, <1>7, <1>9, <1>11, <2>3 DEF Checked, CheckStep
<1> QED BY <1>10, <1>11, <1>1

(* check_data_inc's loop over the whole buffer: its fold, position by      *)
(* position, is what `Checked` says.                                       *)
LEMMA CheckFold ==
  ASSUME NEW data \in Seq(Char), NEW from
  PROVE  FoldLeft(CheckStep, [start_val |-> from, err_cnt |-> 0], data)
           = Checked(data, from, DOMAIN data)
<1>1. PICK N \in Nat : DOMAIN data = 1..N
  BY LenProperties
<1> DEFINE base == [start_val |-> from, err_cnt |-> 0]
           Loop(f) == f = [S \in SUBSET (1..N) |->
                             IF S = {} THEN base
                             ELSE CheckStep(f[S \ {Max(S)}], data[Max(S)])]
<1>2. Checked(data, from, {}) = base
  <2>1. Broken(data, from, {}) = {} /\ Cardinality({}) = 0
    BY FS_EmptySet DEF Broken
  <2> QED BY <2>1 DEF Checked
<1>3. \E f : Loop(f)
  <2> DEFINE g == [S \in SUBSET (1..N) |-> Checked(data, from, S)]
  <2>1. ASSUME NEW S \in SUBSET (1..N)
        PROVE  g[S] = IF S = {} THEN base ELSE CheckStep(g[S \ {Max(S)}], data[Max(S)])
    <3>1. CASE S = {}
      BY <1>2, <3>1
    <3>2. CASE S # {}
      <4>1. g[S] = CheckStep(Checked(data, from, S \ {Max(S)}), data[Max(S)])
        BY <3>2, CheckedStep
      <4>2. S \ {Max(S)} \in SUBSET (1..N)
        OBVIOUS
      <4> HIDE DEF base
      <4> QED BY <3>2, <4>1, <4>2
    <3> QED BY <3>1, <3>2
  <2>2. g = [S \in SUBSET (1..N) |-> g[S]]
    OBVIOUS
  <2> HIDE DEF g, base
  <2>3. Loop(g)
    BY <2>1, <2>2
  <2> QED BY <2>3
<1>4. PICK it : it = CHOOSE f : Loop(f)
  OBVIOUS
<1>5. Loop(it)
  BY <1>3, <1>4
<1>6. FoldLeft(CheckStep, base, data) = it[1..N]
  BY <1>1, <1>4 DEF FoldLeft, MapThenFoldSet
<1> HIDE DEF base
<1>7. PICK P : P = {k \in Nat : k <= N => it[1..k] = Checked(data, from, 1..k)}
  OBVIOUS
<1>8. 0 \in P
  <2>1. 1..0 = {} /\ {} \in SUBSET (1..N)
    OBVIOUS
  <2>2. it[{}] = base
    BY <1>5, <2>1
  <2> QED BY <1>2, <1>7, <2>1, <2>2
<1>9. ASSUME NEW k \in Nat, k \in P PROVE k + 1 \in P
  <2> SUFFICES ASSUME k + 1 <= N PROVE it[1..k+1] = Checked(data, from, 1..k+1)
    BY <1>7
  <2>1. PICK S \in SUBSET (1..N) : S = 1..k+1
    OBVIOUS
  <2>2. S # {}
    BY <2>1
  <2>3. Max(S) \in S /\ \A y \in S : y <= Max(S)
    BY <2>2, MaxInSet
  <2>4. Max(S) = k + 1
    BY <2>1, <2>3
  <2>5. S \ {Max(S)} = 1..k
    BY <2>1, <2>4
  <2>6. it[1..k] = Checked(data, from, 1..k)
    BY <1>7, <1>9
  <2>7. it[S] = CheckStep(it[1..k], data[Max(S)])
    BY <1>5, <2>2, <2>5
  <2>8. Checked(data, from, S) = CheckStep(Checked(data, from, 1..k), data[Max(S)])
    BY <2>2, <2>5, CheckedStep
  <2> QED BY <2>1, <2>6, <2>7, <2>8
<1>10. N \in P
  BY <1>8, <1>9, SetInduction
<1>11. it[1..N] = Checked(data, from, 1..N)
  BY <1>7, <1>10
<1> QED BY <1>1, <1>6, <1>11 DEF base

(* What check_data_inc returns: the breaks in the buffer, and one more if  *)
(* the value before the first byte was given and does not fit.             *)
LEMMA CheckCounts ==
  ASSUME NEW data \in Seq(Char), NEW val, NEW vaild \in {0, 1}
  PROVE  CheckDataInc(val, vaild, data) =
           Breaks(data)
             + IF vaild = 0 /\ data # <<>> /\ data[1] # Succ(val) THEN 1 ELSE 0
<1>1. PICK N \in Nat : N = Len(data) /\ DOMAIN data = 1..N
  BY LenProperties
<1>2. PICK from : from = IF vaild = 1 /\ data # <<>> THEN (data[1] - 1) % Base ELSE val
  OBVIOUS
<1>3. CheckDataInc(val, vaild, data) = Cardinality(Broken(data, from, 1..N))
  <2>1. CheckDataInc(val, vaild, data)
          = FoldLeft(CheckStep, [start_val |-> from, err_cnt |-> 0], data).err_cnt
    BY <1>2 DEF CheckDataInc
  <2>2. CheckDataInc(val, vaild, data) = Checked(data, from, DOMAIN data).err_cnt
    BY <2>1, CheckFold
  <2> QED BY <1>1, <2>2 DEF Checked
<1>4. PICK B : B = {i \in 2..N : data[i] # Succ(data[i-1])}
  OBVIOUS
<1>5. Breaks(data) = Cardinality(B)
  BY <1>1, <1>4 DEF Breaks
<1>6. IsFiniteSet(B) /\ 1 \notin B /\ Cardinality(B) \in Nat
  <2>1. B \subseteq 2..N /\ IsFiniteSet(2..N)
    BY <1>4, FS_Interval
  <2> QED BY <1>4, <2>1, FS_Subset, FS_CardinalityType
<1>7. ASSUME NEW i \in 1..N
      PROVE  Before(data, from, 1..N, i) = IF i = 1 THEN from ELSE data[i-1]
  <2>1. CASE i = 1
    BY <2>1 DEF Before
  <2>2. CASE i # 1
    <3>1. PICK S \in SUBSET (1..N) : S = {j \in 1..N : j < i}
      OBVIOUS
    <3>2. i - 1 \in S /\ \A j \in S : j <= i - 1
      BY <2>2, <3>1
    <3>3. Max(S) \in S /\ i - 1 <= Max(S)
      BY <3>2, MaxInSet
    <3>4. Max(S) = i - 1
      BY <3>1, <3>2, <3>3
    <3>5. \E j \in 1..N : j < i
      BY <3>1, <3>2
    <3> QED BY <2>2, <3>1, <3>4, <3>5 DEF Before
  <2> QED BY <2>1, <2>2
<1>8. \A i \in 1..N : i \in Broken(data, from, 1..N)
                        <=> IF i = 1 THEN data[1] # Succ(from) ELSE i \in B
  <2> TAKE i \in 1..N
  <2>1. i # 1 => i \in 2..N
    OBVIOUS
  <2> QED BY <1>4, <1>7, <2>1 DEF Broken
<1>9. B \subseteq 1..N /\ Broken(data, from, 1..N) \subseteq 1..N
  BY <1>4 DEF Broken
<1>10. CASE data = <<>>
  <2>1. N = 0 /\ 1..N = {} /\ 2..N = {}
    BY <1>1, <1>10
  <2>2. B = {} /\ Broken(data, from, 1..N) = {}
    BY <1>4, <1>9, <2>1
  <2> QED BY <1>3, <1>5, <1>10, <2>2, FS_EmptySet
<1>11. CASE data # <<>>
  <2>1. 1 \in 1..N /\ data[1] \in Char
    BY <1>1, <1>11
  <2>2. vaild = 1 => data[1] = Succ(from)
    BY <1>2, <1>11, <2>1, SuccPred
  <2>3. vaild = 0 => from = val
    BY <1>2
  <2>4. CASE data[1] = Succ(from)
    <3>1. Broken(data, from, 1..N) = B
      BY <1>6, <1>8, <1>9, <2>4
    <3> QED BY <1>3, <1>5, <1>6, <2>3, <2>4, <3>1
  <2>5. CASE data[1] # Succ(from)
    <3>1. Broken(data, from, 1..N) = B \cup {1}
      BY <1>8, <1>9, <2>1, <2>5
    <3>2. Cardinality(B \cup {1}) = Cardinality(B) + 1
      BY <1>6, FS_AddElement
    <3> QED BY <1>3, <1>5, <1>11, <2>2, <2>3, <2>5, <3>1, <3>2
  <2> QED BY <2>4, <2>5
<1> QED BY <1>10, <1>11

(* start_val is a byte, and the 0 it begins with until a read is checked.  *)
CheckInv == /\ err_cnt_sum = breaks /\ breaks \in Nat
            /\ start_val \in Char /\ is_first_read \in BOOLEAN
            /\ is_first_read => start_val = 0

(* A read adds the same to the errors reported as to the breaks. *)
LEMMA CheckInvNext == CheckInv /\ [CheckNext]_checkVars => CheckInv'
<1> SUFFICES ASSUME CheckInv, [CheckNext]_checkVars PROVE CheckInv'
  OBVIOUS
<1>1. CASE CheckRead
  <2>1. PICK data \in BoundedSeq(Char, MaxRead) :
          /\ err_cnt_sum' = err_cnt_sum
               + CheckDataInc(start_val, IF is_first_read THEN 0 ELSE 1, data)
          /\ IF data = <<>> THEN start_val' \in Char ELSE start_val' = Last(data)
          /\ breaks' = breaks + Breaks(data)
               + (IF is_first_read /\ data # <<>> /\ data[1] # 1 THEN 1 ELSE 0)
    BY <1>1 DEF CheckRead
  <2>2. is_first_read' = FALSE
    BY <1>1 DEF CheckRead
  <2>3. data \in Seq(Char)
    <3>1. PICK m \in 0..MaxRead : data \in [1..m -> Char]
      BY <2>1 DEF BoundedSeq, SeqOf
    <3>2. m \in Nat
      BY CheckAssumption
    <3> QED BY <3>1, <3>2, IsASeq
  <2>4. start_val' \in Char
    <3>1. CASE data = <<>>
      BY <2>1, <3>1
    <3>2. CASE data # <<>>
      <4>1. Len(data) \in DOMAIN data /\ data[Len(data)] \in Char
        BY <2>3, <3>2
      <4> QED BY <2>1, <3>2, <4>1 DEF Last
    <3> QED BY <3>1, <3>2
  <2>5. Breaks(data) \in Nat
    <3>1. IsFiniteSet(2..Len(data))
      BY <2>3, FS_Interval
    <3>2. IsFiniteSet({i \in 2..Len(data) : data[i] # Succ(data[i-1])})
      BY <3>1, FS_Subset
    <3> QED BY <3>2, FS_CardinalityType DEF Breaks
  <2>6. CASE is_first_read
    <3>1. Succ(start_val) = 1
      BY <2>6, CheckAssumption, ModSmall DEF CheckInv, Succ
    <3>2. CheckDataInc(start_val, 0, data)
            = Breaks(data) + IF data # <<>> /\ data[1] # 1 THEN 1 ELSE 0
      BY <2>3, <3>1, CheckCounts
    <3>3. err_cnt_sum' = breaks' /\ breaks' \in Nat
      BY <2>1, <2>5, <2>6, <3>2 DEF CheckInv
    <3> QED BY <2>2, <2>4, <3>3 DEF CheckInv
  <2>7. CASE ~is_first_read
    <3>1. CheckDataInc(start_val, 1, data) = Breaks(data)
      BY <2>3, <2>5, CheckCounts
    <3>2. err_cnt_sum' = breaks' /\ breaks' \in Nat
      BY <2>1, <2>5, <2>7, <3>1 DEF CheckInv
    <3> QED BY <2>2, <2>4, <3>2 DEF CheckInv
  <2> QED BY <2>6, <2>7
<1>2. CASE CheckReadFails \/ UNCHANGED checkVars
  BY <1>2 DEF CheckReadFails, checkVars, CheckInv
<1> QED BY <1>1, <1>2 DEF CheckNext

(* Over any sequence of reads of any length, the count the test programs   *)
(* report is that of the breaks inside the reads: check_data_inc never     *)
(* counts one twice, nor a byte left over from the buffer before.          *)
THEOREM ErrorsCounted == CheckSpec => []ErrCountExact
<1>1. CheckInit(TRUE) => CheckInv
  BY CheckAssumption DEF CheckInit, CheckInv, Char
<1>2. CheckInv => ErrCountExact
  BY DEF CheckInv, ErrCountExact
<1> QED BY <1>1, <1>2, CheckInvNext, PTL DEF CheckSpec

-----------------------------------------------------------------------------
(* cstring_trim and c_splite *)

(* A walk up over positions of S stops at the first position from i on     *)
(* that is not in S.                                                       *)
LEMMA WalkUp ==
  ASSUME NEW N \in Nat, NEW S \in SUBSET (1..N)
  PROVE  /\ \E f : f = [j \in 1..N+1 |-> IF j \in S THEN f[j+1] ELSE j]
         /\ \A f : f = [j \in 1..N+1 |-> IF j \in S THEN f[j+1] ELSE j]
              => \A i \in 1..N+1 : /\ f[i] \in i..N+1 /\ f[i] \notin S
                                   /\ \A k \in i..f[i]-1 : k \in S
<1>1. \E f : f = [j \in 1..N+1 |-> IF j \in S THEN f[j+1] ELSE j]
  <2> DEFINE Out(j) == {k \in j..N+1 : k \notin S}
             g == [j \in 1..N+1 |-> Min(Out(j))]
  <2>1. ASSUME NEW j \in 1..N+1
        PROVE  g[j] = IF j \in S THEN g[j+1] ELSE j
    <3>1. N + 1 \in Out(j) /\ Out(j) \in SUBSET Nat
      OBVIOUS
    <3>2. CASE j \in S
      <4>1. Out(j) = Out(j+1) /\ j + 1 \in 1..N+1
        BY <3>2
      <4> QED BY <3>2, <4>1
    <3>3. CASE j \notin S
      <4>1. j \in Out(j) /\ \A k \in Out(j) : j <= k
        BY <3>3
      <4>2. Min(Out(j)) \in Out(j) /\ Min(Out(j)) <= j
        BY <3>1, <4>1, MinInSet
      <4> QED BY <3>1, <3>3, <4>1, <4>2
    <3> QED BY <3>2, <3>3
  <2>2. g = [j \in 1..N+1 |-> g[j]]
    OBVIOUS
  <2> HIDE DEF g
  <2> QED BY <2>1, <2>2
<1>2. ASSUME NEW f, f = [j \in 1..N+1 |-> IF j \in S THEN f[j+1] ELSE j]
      PROVE  \A i \in 1..N+1 : /\ f[i] \in i..N+1 /\ f[i] \notin S
                               /\ \A k \in i..f[i]-1 : k \in S
  <2>1. PICK Bad : Bad = {i \in 1..N+1 : ~ /\ f[i] \in i..N+1 /\ f[i] \notin S
                                           /\ \A k \in i..f[i]-1 : k \in S}
    OBVIOUS
  <2> SUFFICES ASSUME Bad # {} PROVE FALSE
    BY <2>1
  <2>2. PICK i \in Bad : \A y \in Bad : y <= i
    <3>1. Bad \in SUBSET (1..N+1) /\ N + 1 \in Nat
      BY <2>1
    <3>2. Max(Bad) \in Bad /\ \A y \in Bad : y <= Max(Bad)
      BY <3>1, MaxInSet
    <3> QED BY <3>2
  <2>3. i \in 1..N+1 /\ f[i] = IF i \in S THEN f[i+1] ELSE i
    BY <1>2, <2>1
  <2>4. CASE i \notin S
    BY <2>1, <2>3, <2>4
  <2>5. CASE i \in S
    <3>1. i + 1 \in 1..N+1 /\ i + 1 \notin Bad
      BY <2>2, <2>5
    <3>2. f[i+1] \in i+1..N+1 /\ f[i+1] \notin S /\ \A k \in i+1..f[i+1]-1 : k \in S
      BY <2>1, <3>1
    <3>3. f[i] = f[i+1] /\ f[i] \in Int
      BY <2>3, <2>5, <3>2
    <3>4. \A k \in i..f[i]-1 : k \in S
      BY <2>3, <2>5, <3>2, <3>3
    <3> QED BY <2>1, <2>3, <3>2, <3>3, <3>4
  <2> QED BY <2>4, <2>5
<1> QED BY <1>1, <1>2

(* A walk down over positions of S stops at the last one up to i that is   *)
(* not in S, or before `low`.                                              *)
LEMMA WalkDown ==
  ASSUME NEW N \in Nat, NEW low \in 1..N+1, NEW S \in SUBSET (low..N)
  PROVE  /\ \E f : f = [j \in low-1..N |-> IF j \in S THEN f[j-1] ELSE j]
         /\ \A f : f = [j \in low-1..N |-> IF j \in S THEN f[j-1] ELSE j]
              => \A i \in low-1..N : /\ f[i] \in low-1..i /\ f[i] \notin S
                                     /\ \A k \in f[i]+1..i : k \in S
<1>1. \E f : f = [j \in low-1..N |-> IF j \in S THEN f[j-1] ELSE j]
  <2> DEFINE Out(j) == {k \in 1..j+1 : low <= k /\ k - 1 \notin S}
             g == [j \in low-1..N |-> Max(Out(j)) - 1]
  <2>1. ASSUME NEW j \in low-1..N
        PROVE  g[j] = IF j \in S THEN g[j-1] ELSE j
    <3>1. low \in Out(j) /\ Out(j) \in SUBSET (1..j+1) /\ j + 1 \in Nat
      OBVIOUS
    <3>2. CASE j \in S
      <4>1. Out(j) = Out(j-1) /\ j - 1 \in low-1..N
        BY <3>2
      <4> QED BY <3>2, <4>1
    <3>3. CASE j \notin S
      <4>1. j + 1 \in Out(j)
        BY <3>3
      <4>2. Max(Out(j)) \in Out(j) /\ j + 1 <= Max(Out(j))
        BY <3>1, <4>1, MaxInSet
      <4>3. Max(Out(j)) = j + 1
        BY <3>1, <4>2
      <4> QED BY <3>3, <4>3
    <3> QED BY <3>2, <3>3
  <2>2. g = [j \in low-1..N |-> g[j]]
    OBVIOUS
  <2> HIDE DEF g
  <2> QED BY <2>1, <2>2
<1>2. ASSUME NEW f, f = [j \in low-1..N |-> IF j \in S THEN f[j-1] ELSE j]
      PROVE  \A i \in low-1..N : /\ f[i] \in low-1..i /\ f[i] \notin S
                                 /\ \A k \in f[i]+1..i : k \in S
  <2>1. PICK Bad : Bad = {i \in low-1..N : ~ /\ f[i] \in low-1..i /\ f[i] \notin S
                                             /\ \A k \in f[i]+1..i : k \in S}
    OBVIOUS
  <2> SUFFICES ASSUME Bad # {} PROVE FALSE
    BY <2>1
  <2>2. PICK i \in Bad : \A y \in Bad : i <= y
    BY <2>1, Least
  <2>3. i \in low-1..N /\ f[i] = IF i \in S THEN f[i-1] ELSE i
    BY <1>2, <2>1
  <2>4. CASE i \notin S
    BY <2>1, <2>3, <2>4
  <2>5. CASE i \in S
    <3>1. i - 1 \in low-1..N /\ i - 1 \notin Bad
      BY <2>2, <2>5
    <3>2. f[i-1] \in low-1..i-1 /\ f[i-1] \notin S /\ \A k \in f[i-1]+1..i-1 : k \in S
      BY <2>1, <3>1
    <3>3. f[i] = f[i-1] /\ f[i] \in Int
      BY <2>3, <2>5, <3>2
    <3>4. \A k \in f[i]+1..i : k \in S
      BY <2>3, <2>5, <3>2, <3>3
    <3> QED BY <2>1, <2>3, <3>2, <3>3, <3>4
  <2> QED BY <2>4, <2>5
<1> QED BY <1>1, <1>2

(* SkipBlanks stops behind the blanks, at a character or the end.          *)
LEMMA BlanksSkipped ==
  ASSUME NEW s \in Seq(Chars), NEW i \in 1..Len(s)+1
  PROVE  /\ SkipBlanks(s, i) \in i..Len(s)+1
         /\ SkipBlanks(s, i) <= Len(s) => s[SkipBlanks(s, i)] # Space
         /\ \A k \in i..SkipBlanks(s, i)-1 : s[k] = Space
<1>1. PICK N \in Nat : N = Len(s)
  BY LenProperties
<1>2. PICK S \in SUBSET (1..N) : S = {k \in 1..N : s[k] = Space}
  OBVIOUS
<1> DEFINE Walk(f) == f = [j \in 1..Len(s)+1 |->
                             IF j <= Len(s) /\ s[j] = Space THEN f[j+1] ELSE j]
<1>3. ASSUME NEW f PROVE Walk(f) <=> f = [j \in 1..N+1 |-> IF j \in S THEN f[j+1] ELSE j]
  <2>1. \A j \in 1..N+1 : (j <= N /\ s[j] = Space) <=> j \in S
    BY <1>2
  <2>2. [j \in 1..N+1 |-> IF j <= N /\ s[j] = Space THEN f[j+1] ELSE j]
          = [j \in 1..N+1 |-> IF j \in S THEN f[j+1] ELSE j]
    BY <2>1
  <2> QED BY <1>1, <2>2
<1>4. PICK sk : sk = CHOOSE f : Walk(f)
  OBVIOUS
<1>5. SkipBlanks(s, i) = sk[i]
  BY <1>4 DEF SkipBlanks
<1>6. \E f : Walk(f)
  <2>1. PICK f : f = [j \in 1..N+1 |-> IF j \in S THEN f[j+1] ELSE j]
    BY WalkUp
  <2>2. Walk(f)
    BY <1>3, <2>1
  <2> QED BY <2>2
<1>7. Walk(sk)
  BY <1>4, <1>6
<1>8. sk[i] \in i..N+1 /\ sk[i] \notin S /\ \A k \in i..sk[i]-1 : k \in S
  <2>1. sk = [j \in 1..N+1 |-> IF j \in S THEN sk[j+1] ELSE j]
    BY <1>3, <1>7
  <2>2. i \in 1..N+1
    BY <1>1
  <2> QED BY <2>1, <2>2, WalkUp
<1> QED BY <1>1, <1>2, <1>5, <1>8

(* SkipToken stops behind the token, at a blank or the end.                *)
LEMMA TokenSkipped ==
  ASSUME NEW s \in Seq(Chars), NEW i \in 1..Len(s)+1
  PROVE  /\ SkipToken(s, i) \in i..Len(s)+1
         /\ SkipToken(s, i) <= Len(s) => s[SkipToken(s, i)] = Space
         /\ \A k \in i..SkipToken(s, i)-1 : s[k] # Space
<1>1. PICK N \in Nat : N = Len(s)
  BY LenProperties
<1>2. PICK S \in SUBSET (1..N) : S = {k \in 1..N : s[k] # Space}
  OBVIOUS
<1> DEFINE Walk(f) == f = [j \in 1..Len(s)+1 |->
                             IF j <= Len(s) /\ s[j] # Space THEN f[j+1] ELSE j]
<1>3. ASSUME NEW f PROVE Walk(f) <=> f = [j \in 1..N+1 |-> IF j \in S THEN f[j+1] ELSE j]
  <2>1. \A j \in 1..N+1 : (j <= N /\ s[j] # Space) <=> j \in S
    BY <1>2
  <2>2. [j \in 1..N+1 |-> IF j <= N /\ s[j] # Space THEN f[j+1] ELSE j]
          = [j \in 1..N+1 |-> IF j \in S THEN f[j+1] ELSE j]
    BY <2>1
  <2> QED BY <1>1, <2>2
<1>4. PICK sk : sk = CHOOSE f : Walk(f)
  OBVIOUS
<1>5. SkipToken(s, i) = sk[i]
  BY <1>4 DEF SkipToken
<1>6. \E f : Walk(f)
  <2>1. PICK f : f = [j \in 1..N+1 |-> IF j \in S THEN f[j+1] ELSE j]
    BY WalkUp
  <2>2. Walk(f)
    BY <1>3, <2>1
  <2> QED BY <2>2
<1>7. Walk(sk)
  BY <1>4, <1>6
<1>8. sk[i] \in i..N+1 /\ sk[i] \notin S /\ \A k \in i..sk[i]-1 : k \in S
  <2>1. sk = [j \in 1..N+1 |-> IF j \in S THEN sk[j+1] ELSE j]
    BY <1>3, <1>7
  <2>2. i \in 1..N+1
    BY <1>1
  <2> QED BY <2>1, <2>2, WalkUp
<1> QED BY <1>1, <1>2, <1>5, <1>8

(* LastChar stops at the last character worth keeping, or before start.    *)
LEMMA EndSkipped ==
  ASSUME NEW s \in Seq(Chars), NEW start \in 1..Len(s)+1
  PROVE  /\ LastChar(s, start) \in start-1..Len(s)
         /\ LastChar(s, start) >= start => s[LastChar(s, start)] \notin {Space, Newline}
         /\ \A k \in LastChar(s, start)+1..Len(s) : s[k] \in {Space, Newline}
<1>1. PICK N \in Nat : N = Len(s)
  BY LenProperties
<1>2. PICK S \in SUBSET (start..N) : S = {k \in start..N : s[k] \in {Space, Newline}}
  OBVIOUS
<1> DEFINE Walk(f) == f = [j \in start-1..Len(s) |->
                             IF j >= start /\ s[j] \in {Space, Newline} THEN f[j-1] ELSE j]
<1>3. ASSUME NEW f PROVE Walk(f) <=> f = [j \in start-1..N |-> IF j \in S THEN f[j-1] ELSE j]
  <2>1. \A j \in start-1..N : (j >= start /\ s[j] \in {Space, Newline}) <=> j \in S
    BY <1>1, <1>2
  <2>2. [j \in start-1..N |-> IF j >= start /\ s[j] \in {Space, Newline} THEN f[j-1] ELSE j]
          = [j \in start-1..N |-> IF j \in S THEN f[j-1] ELSE j]
    BY <2>1
  <2> QED BY <1>1, <2>2
<1>4. PICK back : back = CHOOSE f : Walk(f)
  OBVIOUS
<1>5. LastChar(s, start) = back[Len(s)]
  BY <1>4 DEF LastChar
<1>6. \E f : Walk(f)
  <2>1. PICK f : f = [j \in start-1..N |-> IF j \in S THEN f[j-1] ELSE j]
    BY <1>1, WalkDown
  <2>2. Walk(f)
    BY <1>3, <2>1
  <2> QED BY <2>2
<1>7. Walk(back)
  BY <1>4, <1>6
<1>8. start \in 1..N+1 /\ N \in start-1..N
  BY <1>1
<1>9. back[N] \in start-1..N /\ back[N] \notin S /\ \A k \in back[N]+1..N : k \in S
  <2>1. back = [j \in start-1..N |-> IF j \in S THEN back[j-1] ELSE j]
    BY <1>3, <1>7
  <2> QED BY <1>8, <2>1, WalkDown
<1> QED BY <1>1, <1>2, <1>5, <1>9

(* A string of characters stays one, and no call makes it longer. *)
TextInv == text \in Seq(Chars) /\ Len(text) <= MaxStr

LEMMA CharsStay == StringSpec => []TextInv
<1>. USE DEF TextInv
<1>1. StringInit(TRUE) => TextInv
  <2> SUFFICES ASSUME StringInit(TRUE) PROVE TextInv
    OBVIOUS
  <2>1. PICK k \in 0..MaxStr : text \in [1..k -> Chars]
    BY DEF StringInit, Strings
  <2>2. k \in Nat /\ k <= MaxStr
    BY StringAssumption
  <2>3. text \in Seq(Chars) /\ Len(text) = k
    BY <2>1, <2>2, SeqDef, LenProperties
  <2> QED BY <2>2, <2>3
<1>2. TextInv /\ [StringNext]_stringVars => TextInv'
  <2> SUFFICES ASSUME TextInv, [StringNext]_stringVars PROVE TextInv'
    OBVIOUS
  <2>1. PICK N \in Nat : /\ N = Len(text) /\ DOMAIN text = 1..N
                         /\ \A i \in 1..N : text[i] \in Chars
    BY LenProperties, ElementOfSeq
  <2>2. CASE cstring_trim \/ UNCHANGED stringVars
    BY <2>2 DEF cstring_trim, stringVars
  <2>3. CASE c_splite
    <3>1. SkipBlanks(text, 1) \in 1..N+1
      BY <2>1, BlanksSkipped
    <3>2. PICK m \in 1..N+1 : m = SkipToken(text, SkipBlanks(text, 1))
      BY <2>1, <3>1, TokenSkipped
    <3>3. text' = SubSeq(text, 1, m - 1)
      BY <2>3, <3>2 DEF c_splite
    <3>4. 1 \in Int /\ m - 1 \in Int /\ \A i \in 1..m-1 : text[i] \in Chars
      BY <2>1
    <3>5. text' \in Seq(Chars) /\ Len(text') <= m - 1
      BY <2>1, <3>3, <3>4, SubSeqProperties
    <3> QED BY <2>1, <3>5, StringAssumption
  <2>4. CASE str2upper
    <3>1. ASSUME NEW i \in 1..N
          PROVE  (IF text[i] \in Letter THEN Upper[text[i]] ELSE text[i]) \in Chars
      BY <2>1 DEF Chars, Uppers
    <3>2. text' \in [1..N -> Chars]
      BY <2>1, <2>4, <3>1 DEF str2upper
    <3>3. text' \in Seq(Chars) /\ Len(text') = N
      BY <2>1, <3>2, SeqDef, LenProperties
    <3> QED BY <2>1, <3>3
  <2>5. CASE str2lower
    <3>1. ASSUME NEW i \in 1..N
          PROVE  (IF text[i] \in Uppers THEN CHOOSE c \in Letter : Upper[c] = text[i]
                  ELSE text[i]) \in Chars
      <4>1. text[i] \in Uppers => \E c \in Letter : Upper[c] = text[i]
        BY DEF Uppers
      <4> QED BY <2>1, <4>1 DEF Chars
    <3>2. text' \in [1..N -> Chars]
      BY <2>1, <2>5, <3>1 DEF str2lower
    <3>3. text' \in Seq(Chars) /\ Len(text') = N
      BY <2>1, <3>2, SeqDef, LenProperties
    <3> QED BY <2>1, <3>3
  <2> QED BY <2>2, <2>3, <2>4, <2>5 DEF StringNext
<1> QED BY <1>1, <1>2, PTL DEF StringSpec

(* What cstring_trim returns of one string. *)
LEMMA TrimOne ==
  ASSUME NEW s \in Seq(Chars)
  PROVE  IF \E t \in DOMAIN s :
              s[t] # Space /\ \E u \in t..Len(s) : s[u] \notin {Space, Newline}
         THEN \E i, j \in DOMAIN s :
                /\ Trim(s) = <<SubSeq(s, i, j)>>
                /\ i <= j /\ s[i] # Space /\ s[j] \notin {Space, Newline}
                /\ \A k \in 1..i-1 : s[k] = Space
                /\ \A k \in j+1..Len(s) : s[k] \in {Space, Newline}
         ELSE Trim(s) = <<>>
<1>1. PICK N \in Nat : N = Len(s) /\ DOMAIN s = 1..N
  BY LenProperties
<1>2. PICK start \in 1..N+1 :
        /\ start = SkipBlanks(s, 1)
        /\ start <= N => s[start] # Space
        /\ \A k \in 1..start-1 : s[k] = Space
  <2>1. 1 \in 1..Len(s)+1
    BY <1>1
  <2> QED BY <1>1, <2>1, BlanksSkipped
<1>3. PICK last \in start-1..N :
        /\ last = LastChar(s, start)
        /\ last >= start => s[last] \notin {Space, Newline}
        /\ \A k \in last+1..N : s[k] \in {Space, Newline}
  <2>1. start \in 1..Len(s)+1
    BY <1>1
  <2> QED BY <1>1, <2>1, EndSkipped
<1>4. Trim(s) = IF start > N \/ last < start THEN <<>> ELSE <<SubSeq(s, start, last)>>
  BY <1>1, <1>2, <1>3 DEF Trim
<1>5. CASE start > N \/ last < start
  <2>1. ASSUME NEW t \in 1..N, s[t] # Space, NEW u \in t..N
        PROVE  s[u] \in {Space, Newline}
    <3>1. start <= t
      BY <1>2, <2>1
    <3>2. u \in last+1..N
      BY <1>5, <3>1
    <3> QED BY <1>3, <3>2
  <2> QED BY <1>1, <1>4, <1>5, <2>1
<1>6. CASE start <= N /\ start <= last
  <2>1. start \in 1..N /\ last \in 1..N /\ last \in start..N
    BY <1>6
  <2>2. s[start] # Space /\ s[last] \notin {Space, Newline}
    BY <1>2, <1>3, <1>6
  <2>3. Trim(s) = <<SubSeq(s, start, last)>>
    BY <1>4, <1>6
  <2> QED BY <1>1, <1>2, <1>3, <1>6, <2>1, <2>2, <2>3
<1>7. (start > N \/ last < start) \/ (start <= N /\ start <= last)
  OBVIOUS
<1> QED BY <1>5, <1>6, <1>7

(* cstring_trim returns exactly what its two walks leave of any string, or *)
(* NULL when they leave nothing.                                           *)
THEOREM TrimIsExact == StringSpec => TrimExact
<1>1. (text \in Seq(Chars)) /\ cstring_trim =>
        IF \E t \in DOMAIN text :
             text[t] # Space /\ \E u \in t..Len(text) : text[u] \notin {Space, Newline}
        THEN \E i, j \in DOMAIN text :
               /\ result' = <<SubSeq(text, i, j)>>
               /\ i <= j /\ text[i] # Space /\ text[j] \notin {Space, Newline}
               /\ \A k \in 1..i-1 : text[k] = Space
               /\ \A k \in j+1..Len(text) : text[k] \in {Space, Newline}
        ELSE result' = <<>>
  <2> SUFFICES ASSUME text \in Seq(Chars), cstring_trim PROVE <1>1!2
    OBVIOUS
  <2>1. result' = Trim(text)
    BY DEF cstring_trim
  <2> QED BY <2>1, TrimOne
<1>2. TextInv => text \in Seq(Chars)
  BY DEF TextInv
<1> QED BY <1>1, <1>2, CharsStay, PTL DEF TrimExact

(* Where the tokens of s from position i on begin, how many they are, and  *)
(* the number of the one that begins at k.                                 *)
Starts(s, i) == {k \in i..Len(s) : s[k] # Space /\ (k = i \/ s[k-1] = Space)}
Count(s, i)  == Cardinality(Starts(s, i))
Row(s, i, k) == Cardinality({j \in Starts(s, i) : j <= k})

(* The first token from i on begins behind the blanks, the others behind   *)
(* it.                                                                     *)
LEMMA FirstToken ==
  ASSUME NEW s \in Seq(Chars), NEW i \in 1..Len(s)+1,
         NEW start, start = SkipBlanks(s, i), NEW end, end = SkipToken(s, start)
  PROVE  /\ start \in i..Len(s)+1
         /\ start > Len(s) => Starts(s, i) = {}
         /\ start <= Len(s) =>
              /\ end \in start+1..Len(s)+1
              /\ \A k \in start..end-1 : s[k] # Space
              /\ end <= Len(s) => s[end] = Space
              /\ Starts(s, i) = {start} \cup Starts(s, end)
<1>1. PICK N \in Nat : N = Len(s)
  BY LenProperties
<1>2. /\ i \in 1..N+1 /\ start \in i..N+1 /\ start \in Nat
      /\ start <= N => s[start] # Space
      /\ \A k \in i..start-1 : s[k] = Space
  <2>1. i \in 1..N+1
    BY <1>1
  <2> QED BY <1>1, <2>1, BlanksSkipped
<1>3. CASE start > N
  <2>1. \A k \in i..N : s[k] = Space
    BY <1>2, <1>3
  <2>2. Starts(s, i) = {}
    BY <1>1, <1>2, <2>1 DEF Starts
  <2> QED BY <1>1, <1>2, <1>3, <2>2
<1>4. CASE start <= N
  <2>1. start \in 1..N+1 /\ start \in i..N /\ start \in Nat /\ i \in Nat /\ s[start] # Space
    BY <1>2, <1>4
  <2>2. /\ end \in start..N+1
        /\ end <= N => s[end] = Space
        /\ \A k \in start..end-1 : s[k] # Space
    BY <1>1, <2>1, TokenSkipped
  <2>3. end \in start+1..N+1 /\ end \in Nat
    <3>1. end # start
      BY <2>1, <2>2
    <3> QED BY <2>1, <2>2, <3>1
  <2>4. ASSUME NEW k \in Starts(s, i) PROVE k \in {start} \cup Starts(s, end)
    <3>1. k \in i..N /\ k \in Nat /\ s[k] # Space /\ (k = i \/ s[k-1] = Space)
      BY <1>1, <2>1 DEF Starts
    <3>2. start <= k
      BY <1>2, <3>1
    <3>3. k = start \/ end <= k
      <4> SUFFICES ASSUME start < k, k < end PROVE FALSE
        BY <2>1, <2>3, <3>1, <3>2
      <4>1. k - 1 \in start..end-1 /\ k # i
        BY <2>1, <2>3, <3>1
      <4> QED BY <2>2, <3>1, <4>1
    <3>4. CASE end <= k
      <4>1. k \in end..N
        BY <2>3, <3>1, <3>4
      <4>2. k # i
        BY <2>1, <2>3, <4>1
      <4> QED BY <1>1, <3>1, <4>1, <4>2 DEF Starts
    <3> QED BY <3>3, <3>4
  <2>5. ASSUME NEW k \in Starts(s, end) PROVE k \in Starts(s, i)
    <3>1. k \in end..N /\ k \in Nat /\ s[k] # Space /\ (k = end \/ s[k-1] = Space)
      BY <1>1, <2>3 DEF Starts
    <3>2. k # end /\ k \in i..N
      BY <2>1, <2>2, <2>3, <3>1
    <3> QED BY <1>1, <3>1, <3>2 DEF Starts
  <2>6. start \in Starts(s, i)
    <3>1. start = i \/ s[start-1] = Space
      <4>1. start = i \/ start - 1 \in i..start-1
        BY <2>1
      <4> QED BY <1>2, <4>1
    <3> QED BY <1>1, <2>1, <3>1 DEF Starts
  <2>7. Starts(s, i) = {start} \cup Starts(s, end)
    BY <2>4, <2>5, <2>6
  <2> QED BY <1>1, <1>2, <1>4, <2>2, <2>3, <2>7
<1>5. start > N \/ start <= N
  BY <1>2
<1> QED BY <1>3, <1>4, <1>5

(* The tokens are numbered from 1 to their count. *)
LEMMA RowWithin ==
  ASSUME NEW s \in Seq(Chars), NEW i \in Nat, NEW k \in Starts(s, i)
  PROVE  Row(s, i, k) \in 1..Count(s, i)
<1>1. PICK T : T = Starts(s, i)
  OBVIOUS
<1>2. IsFiniteSet(T) /\ T \subseteq Nat
  <2>1. PICK N \in Nat : N = Len(s)
    BY LenProperties
  <2>2. T \subseteq i..N
    BY <1>1, <2>1 DEF Starts
  <2>3. IsFiniteSet(i..N)
    BY <2>1, FS_Interval
  <2>4. IsFiniteSet(T)
    BY <2>2, <2>3, FS_Subset
  <2> QED BY <2>2, <2>4
<1>3. PICK U : U = {j \in T : j <= k}
  OBVIOUS
<1>4. U \subseteq T /\ k \in U
  BY <1>1, <1>2, <1>3
<1>5. IsFiniteSet(U) /\ Cardinality(U) \in Nat /\ Cardinality(U) <= Cardinality(T)
  BY <1>2, <1>4, FS_Subset, FS_CardinalityType
<1>6. Cardinality(U) # 0
  BY <1>4, <1>5, FS_EmptySet
<1>7. Cardinality(T) \in Nat
  BY <1>2, FS_CardinalityType
<1> QED BY <1>1, <1>3, <1>5, <1>6, <1>7 DEF Row, Count

(* The tokens are numbered from 1; one more in front moves the others up.  *)
LEMMA RowNumbers ==
  ASSUME NEW s \in Seq(Chars), NEW i \in Nat, NEW start \in Nat, NEW end \in Nat,
         start < end, Starts(s, i) = {start} \cup Starts(s, end)
  PROVE  /\ Count(s, end) \in Nat
         /\ Count(s, i) = Count(s, end) + 1
         /\ Row(s, i, start) = 1
         /\ \A k \in Starts(s, end) : /\ Row(s, end, k) \in 1..Count(s, end)
                                       /\ Row(s, i, k) = Row(s, end, k) + 1
<1>1. PICK T : T = Starts(s, end)
  OBVIOUS
<1>2. IsFiniteSet(T) /\ start \notin T /\ T \subseteq Nat /\ \A k \in T : start < k
  <2>1. PICK N \in Nat : N = Len(s)
    BY LenProperties
  <2>2. T \subseteq end..N
    BY <1>1, <2>1 DEF Starts
  <2>3. IsFiniteSet(end..N)
    BY <2>1, FS_Interval
  <2>4. IsFiniteSet(T)
    BY <2>2, <2>3, FS_Subset
  <2>5. \A k \in T : k \in Nat /\ start < k
    BY <2>1, <2>2
  <2> QED BY <2>4, <2>5
<1>3. Starts(s, i) = T \cup {start}
  BY <1>1
<1>4. Cardinality(T) \in Nat /\ Cardinality(T \cup {start}) = Cardinality(T) + 1
  BY <1>2, FS_CardinalityType, FS_AddElement
<1>5. Row(s, i, start) = 1
  <2>1. \A j \in Starts(s, i) : j <= start <=> j = start
    <3>1. \A j \in T : ~(j <= start) /\ j # start
      BY <1>2
    <3> QED BY <1>3, <3>1
  <2>2. start \in Starts(s, i)
    BY <1>3
  <2>3. {j \in Starts(s, i) : j <= start} = {start}
    BY <2>1, <2>2
  <2> QED BY <2>3, FS_Singleton DEF Row
<1>6. ASSUME NEW k \in T
      PROVE  Row(s, end, k) \in 1..Cardinality(T) /\ Row(s, i, k) = Row(s, end, k) + 1
  <2>1. PICK U : U = {j \in T : j <= k}
    OBVIOUS
  <2>2. U \subseteq T /\ k \in U /\ start \notin U
    BY <1>2, <2>1
  <2>3. IsFiniteSet(U) /\ Cardinality(U) \in Nat /\ Cardinality(U) <= Cardinality(T)
    BY <1>2, <2>2, FS_Subset, FS_CardinalityType
  <2>4. Cardinality(U) # 0
    BY <2>2, <2>3, FS_EmptySet
  <2>5. {j \in Starts(s, i) : j <= k} = U \cup {start}
    BY <1>2, <1>3, <2>1
  <2>6. Cardinality(U \cup {start}) = Cardinality(U) + 1
    BY <2>2, <2>3, FS_AddElement
  <2>7. Row(s, end, k) = Cardinality(U) /\ Row(s, i, k) = Cardinality(U) + 1
    BY <1>1, <2>1, <2>5, <2>6 DEF Row
  <2> QED BY <1>4, <2>3, <2>4, <2>7
<1> QED BY <1>1, <1>3, <1>4, <1>5, <1>6 DEF Count

(* At each position from low on, f stops or takes an item and goes on.     *)
Chain(f, low, N, Stop, item, next) ==
  f = [i \in low..N+1 |-> IF i \in Stop THEN <<>> ELSE <<item[i]>> \o f[next[i]]]

(* There is such a function when it goes on further up: the recursion over *)
(* the tokens is well founded.                                             *)
LEMMA ChainExists ==
  ASSUME NEW N \in Nat, NEW Stop, NEW item, NEW next,
         \A i \in (1..N+1) \ Stop : next[i] \in i+1..N+1
  PROVE  \E f : Chain(f, 1, N, Stop, item, next)
<1> DEFINE From(low) == \E f : Chain(f, low, N, Stop, item, next)
<1>1. From(N + 1)
  <2>1. \A i \in N+1..N+1 : i \in Stop
    OBVIOUS
  <2>2. PICK f : f = [i \in N+1..N+1 |-> <<>>]
    OBVIOUS
  <2>3. Chain(f, N + 1, N, Stop, item, next)
    BY <2>1, <2>2 DEF Chain
  <2> QED BY <2>3
<1>2. ASSUME NEW low \in 1..N, From(low + 1) PROVE From(low)
  <2>1. PICK f : Chain(f, low + 1, N, Stop, item, next)
    BY <1>2
  <2>2. PICK g : g = [i \in low..N+1 |->
                       IF i = low THEN IF i \in Stop THEN <<>> ELSE <<item[i]>> \o f[next[i]]
                       ELSE f[i]]
    OBVIOUS
  <2>3. ASSUME NEW i \in low..N+1
        PROVE  g[i] = IF i \in Stop THEN <<>> ELSE <<item[i]>> \o g[next[i]]
    <3>1. ASSUME i \notin Stop PROVE g[next[i]] = f[next[i]]
      <4>1. i \in (1..N+1) \ Stop
        BY <3>1
      <4>2. next[i] \in i+1..N+1
        BY <4>1
      <4>3. next[i] \in low..N+1 /\ next[i] # low
        BY <4>2
      <4> QED BY <2>2, <4>3
    <3>2. g[i] = IF i \in Stop THEN <<>> ELSE <<item[i]>> \o f[next[i]]
      <4>1. CASE i = low
        BY <2>2, <4>1
      <4>2. CASE i # low
        <5>1. i \in low+1..N+1 /\ g[i] = f[i]
          BY <2>2, <4>2
        <5> QED BY <2>1, <5>1 DEF Chain
      <4> QED BY <4>1, <4>2
    <3> QED BY <3>1, <3>2
  <2>4. g = [i \in low..N+1 |-> g[i]]
    BY <2>2
  <2>5. Chain(g, low, N, Stop, item, next)
    BY <2>3, <2>4 DEF Chain
  <2> QED BY <2>5
<1> HIDE DEF From
<1>3. PICK P : P = {m \in Nat : m <= N => From(N + 1 - m)}
  OBVIOUS
<1>4. 0 \in P
  BY <1>1, <1>3
<1>5. ASSUME NEW m \in Nat, m \in P PROVE m + 1 \in P
  <2> SUFFICES ASSUME m + 1 <= N PROVE From(N + 1 - (m + 1))
    BY <1>3
  <2>1. PICK low \in 1..N : low = N + 1 - (m + 1) /\ low + 1 = N + 1 - m
    OBVIOUS
  <2>2. From(low + 1)
    BY <1>3, <1>5, <2>1
  <2> QED BY <1>2, <2>1, <2>2
<1>6. N \in P
  BY <1>4, <1>5, SetInduction
<1>7. From(1)
  <2>1. N + 1 - N = 1
    OBVIOUS
  <2> QED BY <1>3, <1>6, <2>1
<1> QED BY <1>7 DEF From

(* The token at positions k to e-1. *)
Token(s, k, e) == SubSeq(s, k, e - 1)

(* A token is made of the characters at its positions.                     *)
LEMMA TokenOf ==
  ASSUME NEW s \in Seq(Chars), NEW k \in 1..Len(s), NEW e \in k+1..Len(s)+1
  PROVE  /\ Token(s, k, e) \in Seq(Chars) /\ Len(Token(s, k, e)) = e - k
         /\ \A i \in 1..e-k : Token(s, k, e)[i] = s[k + i - 1]
<1>1. PICK N \in Nat : N = Len(s) /\ \A i \in 1..N : s[i] \in Chars
  BY LenProperties, ElementOfSeq
<1>2. k \in 1..N /\ e \in k+1..N+1 /\ k \in Int /\ e - 1 \in Int /\ k <= e - 1
  BY <1>1
<1>3. (e - 1) - k + 1 = e - k /\ \A i \in k..e-1 : s[i] \in Chars
  BY <1>1, <1>2
<1> QED BY <1>2, <1>3, SubSeqProperties DEF Token

(* c_splite's loop takes every token, from its first character on.         *)
LEMMA TokensTaken ==
  ASSUME NEW s \in Seq(Chars)
  PROVE  /\ Tokens(s) \in Seq(Seq(Chars)) /\ Len(Tokens(s)) = Count(s, 1)
         /\ \A k \in Starts(s, 1) : Tokens(s)[Row(s, 1, k)] = Token(s, k, SkipToken(s, k))
<1>1. PICK N \in Nat : N = Len(s)
  BY LenProperties
<1> DEFINE start(i) == SkipBlanks(s, i)
           end(i)   == SkipToken(s, start(i))
           Loop(f)  == f = [i \in 1..Len(s)+1 |->
                              IF start(i) > Len(s) THEN <<>>
                              ELSE <<Token(s, start(i), end(i))>> \o f[end(i)]]
<1>2. PICK from : from = CHOOSE f : Loop(f)
  OBVIOUS
<1>3. Tokens(s) = from[1]
  BY <1>2 DEF Tokens, Token
<1>4. ASSUME NEW i \in 1..N+1
      PROVE  /\ start(i) \in i..N+1
             /\ start(i) > N => Starts(s, i) = {}
             /\ start(i) <= N => /\ end(i) \in start(i)+1..N+1
                                 /\ Starts(s, i) = {start(i)} \cup Starts(s, end(i))
  BY <1>1, FirstToken
<1>5. \E f : Loop(f)
  <2>1. PICK Stop : Stop = {i \in 1..N+1 : start(i) > N}
    OBVIOUS
  <2>2. PICK next : next = [i \in 1..N+1 |-> end(i)]
    OBVIOUS
  <2>3. PICK item : item = [i \in 1..N+1 |-> Token(s, start(i), end(i))]
    OBVIOUS
  <2> HIDE DEF start, end
  <2>4. ASSUME NEW i \in (1..N+1) \ Stop PROVE next[i] \in i+1..N+1
    <3>1. start(i) \in i..N+1 /\ start(i) <= N
      BY <1>4, <2>1, <2>4
    <3>2. end(i) \in start(i)+1..N+1
      BY <1>4, <3>1
    <3> QED BY <2>2, <3>1, <3>2
  <2>5. PICK f : Chain(f, 1, N, Stop, item, next)
    BY <2>4, ChainExists
  <2>6. ASSUME NEW i \in 1..N+1
        PROVE  (IF i \in Stop THEN <<>> ELSE <<item[i]>> \o f[next[i]])
                 = IF start(i) > N THEN <<>> ELSE <<Token(s, start(i), end(i))>> \o f[end(i)]
    BY <2>1, <2>2, <2>3
  <2>7. f = [i \in 1..N+1 |-> IF start(i) > N THEN <<>>
                              ELSE <<Token(s, start(i), end(i))>> \o f[end(i)]]
    BY <2>5, <2>6 DEF Chain
  <2> QED BY <1>1, <2>7
<1>6. Loop(from)
  BY <1>2, <1>5
<1> HIDE DEF start, end
<1>7. ASSUME NEW i \in 1..N+1
      PROVE  from[i] = IF start(i) > N THEN <<>>
                       ELSE <<Token(s, start(i), end(i))>> \o from[end(i)]
  BY <1>1, <1>6
<1> HIDE DEF Loop
<1> DEFINE Good(i) ==
       /\ from[i] \in Seq(Seq(Chars)) /\ Len(from[i]) = Count(s, i)
       /\ \A k \in Starts(s, i) : from[i][Row(s, i, k)] = Token(s, k, SkipToken(s, k))
<1>8. ASSUME NEW i \in 1..N+1, \A j \in i+1..N+1 : Good(j) PROVE Good(i)
  <2>1. CASE start(i) > N
    <3>1. from[i] = <<>> /\ Starts(s, i) = {}
      BY <1>4, <1>7, <2>1
    <3> QED BY <3>1, EmptySeq, FS_EmptySet DEF Count
  <2>2. CASE start(i) <= N
    <3>1. PICK b \in i..N : b = start(i)
      BY <1>4, <2>2
    <3>2. PICK e \in b+1..N+1 : e = end(i) /\ Starts(s, i) = {b} \cup Starts(s, e)
      BY <1>4, <2>2, <3>1
    <3>3. e = SkipToken(s, b)
      BY <3>1, <3>2 DEF end, start
    <3>4. from[i] = <<Token(s, b, e)>> \o from[e]
      <4>1. ~(start(i) > N)
        BY <3>1
      <4>2. from[i] = <<Token(s, start(i), end(i))>> \o from[end(i)]
        BY <1>7, <4>1
      <4> QED BY <3>1, <3>2, <4>2
    <3>5. e \in i+1..N+1 /\ b \in Nat /\ e \in Nat /\ i \in Nat /\ b < e
      BY <3>1, <3>2
    <3>6. Good(e)
      BY <1>8, <3>5
    <3>7. Token(s, b, e) \in Seq(Chars)
      <4>1. b \in 1..Len(s) /\ e \in b+1..Len(s)+1
        BY <1>1, <3>1, <3>2
      <4> QED BY <4>1, TokenOf
    <3>8. PICK t : t = <<Token(s, b, e)>> /\ t \in Seq(Seq(Chars)) /\ Len(t) = 1
                   /\ t[1] = Token(s, b, e)
      <4>1. ASSUME NEW S, NEW x \in S PROVE <<x>> \in Seq(S) /\ Len(<<x>>) = 1 /\ <<x>>[1] = x
        OBVIOUS
      <4> QED BY <3>7, <4>1
    <3>9. PICK L \in Nat : L = Count(s, e)
      BY <3>2, <3>5, RowNumbers
    <3>10. /\ from[i] \in Seq(Seq(Chars)) /\ Len(from[i]) = 1 + L
           /\ \A j \in 1..1+L : from[i][j] = IF j <= 1 THEN t[j] ELSE from[e][j - 1]
      <4>1. Len(from[e]) = L /\ from[e] \in Seq(Seq(Chars))
        BY <3>6, <3>9
      <4> QED BY <3>4, <3>8, <4>1, ConcatProperties, SMTT(30)
    <3>11. /\ Count(s, i) = L + 1 /\ Row(s, i, b) = 1
           /\ \A k \in Starts(s, e) : Row(s, e, k) \in 1..L /\ Row(s, i, k) = Row(s, e, k) + 1
      <4>1. Starts(s, i) = {b} \cup Starts(s, e)
        BY <3>2
      <4>2. /\ Count(s, i) = Count(s, e) + 1 /\ Row(s, i, b) = 1
            /\ \A k \in Starts(s, e) : /\ Row(s, e, k) \in 1..Count(s, e)
                                        /\ Row(s, i, k) = Row(s, e, k) + 1
        <5>1. i \in Nat /\ b \in Nat /\ e \in Nat /\ b < e
          BY <3>5
        <5>2. Row(s, i, b) = 1
          BY <4>1, <5>1, RowNumbers
        <5>3. Count(s, i) = Count(s, e) + 1
          BY <4>1, <5>1, <5>2, RowNumbers
        <5>4. ASSUME NEW k \in Starts(s, e)
              PROVE  /\ Row(s, e, k) \in 1..Count(s, e)
                     /\ Row(s, i, k) = Row(s, e, k) + 1
          BY <4>1, <5>1, RowNumbers
        <5> QED BY <5>2, <5>3, <5>4
      <4> QED BY <3>9, <4>2
    <3>12. ASSUME NEW k \in Starts(s, i)
           PROVE  from[i][Row(s, i, k)] = Token(s, k, SkipToken(s, k))
      <4>1. CASE k = b
        <5>1. from[i][1] = t[1]
          BY <3>10
        <5> QED BY <3>3, <3>8, <3>11, <4>1, <5>1
      <4>2. CASE k \in Starts(s, e)
        <5>1. PICK r \in 1..L : r = Row(s, e, k) /\ Row(s, i, k) = r + 1
          BY <3>11, <4>2
        <5>2. from[i][r+1] = from[e][r]
          <6>1. r + 1 \in 1..1+L /\ ~(r + 1 <= 1) /\ (r + 1) - 1 = r
            BY <3>9
          <6> QED BY <3>10, <6>1
        <5> QED BY <3>6, <4>2, <5>1, <5>2
      <4> QED BY <3>2, <4>1, <4>2
    <3>13. Len(from[i]) = Count(s, i)
      BY <3>9, <3>10, <3>11
    <3> QED BY <3>10, <3>12, <3>13
  <2>3. start(i) > N \/ start(i) <= N
    BY <1>4
  <2> QED BY <2>1, <2>2, <2>3
<1>9. Good(1)
  <2> HIDE DEF Good
  <2>1. PICK Bad : Bad = {i \in 1..N+1 : ~Good(i)}
    OBVIOUS
  <2> SUFFICES ASSUME Bad # {} PROVE FALSE
    BY <2>1
  <2>2. Bad \in SUBSET (1..N+1) /\ N + 1 \in Nat
    BY <2>1
  <2>3. PICK i \in Bad : \A y \in Bad : y <= i
    <3>1. Max(Bad) \in Bad /\ \A y \in Bad : y <= Max(Bad)
      BY <2>2, MaxInSet
    <3> QED BY <3>1
  <2>4. i \in 1..N+1 /\ ~Good(i)
    BY <2>1
  <2>5. \A j \in i+1..N+1 : Good(j)
    <3> SUFFICES ASSUME NEW j \in i+1..N+1, ~Good(j) PROVE FALSE
      OBVIOUS
    <3>1. j \in 1..N+1 /\ ~(j <= i)
      BY <2>4
    <3>2. j \in Bad
      BY <2>1, <3>1
    <3> QED BY <2>3, <3>1, <3>2
  <2> QED BY <1>8, <2>4, <2>5
<1> QED BY <1>3, <1>9

(* The cell of a row at a place within the row.                            *)
LEMMA CellInRow ==
  ASSUME NEW k \in 0..MaxTok-1 PROVE k \div MaxTok = 0 /\ k % MaxTok = k
BY StringAssumption

(* A row whose first NUL is at its place l is read as the l characters     *)
(* before it.                                                              *)
LEMMA RowRead ==
  ASSUME NEW m, NEW r \in Rows, NEW l \in 0..MaxTok-1,
         m[r][l+1] = NUL, \A k \in 1..l : m[r][k] # NUL
  PROVE  ReadString(m, r) = [k \in 1..l |-> m[r][k]]
<1> DEFINE At(c) == m[r + (c \div MaxTok)][(c % MaxTok) + 1]
           cells == (MaxElem + MaxStr - r) * MaxTok
           End(c) == (c = cells \/ At(c) = NUL) /\ \A k \in 0..c-1 : At(k) # NUL
<1>1. ReadString(m, r) = LET len == CHOOSE c \in 0..cells : End(c)
                         IN  [k \in 1..len |-> At(k - 1)]
  BY DEF ReadString
<1>2. ASSUME NEW k \in 0..MaxTok-1 PROVE At(k) = m[r][k+1]
  <2>1. r + 0 = r
    BY StringAssumption DEF Rows
  <2> QED BY <2>1, CellInRow
<1>3. cells \in Nat /\ l \in 0..cells
  <2>1. PICK q \in Nat \ {0} : q = MaxElem + MaxStr - r
    BY StringAssumption DEF Rows
  <2>2. cells = q * MaxTok /\ q * MaxTok \in Nat /\ q * MaxTok >= MaxTok
    BY <2>1, StringAssumption, SMTT(30)
  <2> QED BY <2>2, StringAssumption
<1> HIDE DEF At, cells
<1>4. End(l)
  <2>1. At(l) = NUL
    BY <1>2
  <2>2. ASSUME NEW k \in 0..l-1 PROVE At(k) # NUL
    <3>1. k \in 0..MaxTok-1 /\ k + 1 \in 1..l
      BY StringAssumption
    <3> QED BY <1>2, <3>1
  <2> QED BY <2>1, <2>2
<1>5. ASSUME NEW c \in 0..cells, End(c) PROVE c = l
  <2>1. CASE c < l
    <3>1. c # cells
      BY <1>3, <2>1
    <3>2. At(c) = NUL /\ c \in 0..l-1
      BY <1>5, <2>1, <3>1
    <3> QED BY <1>4, <3>2
  <2>2. CASE c > l
    <3>1. l \in 0..c-1 /\ At(l) = NUL
      BY <1>2, <2>2
    <3> QED BY <1>5, <3>1
  <2> QED BY <1>3, <2>1, <2>2
<1> HIDE DEF End
<1>6. PICK len : len = CHOOSE c \in 0..cells : End(c)
  OBVIOUS
<1>7. len = l
  <2>1. len \in 0..cells /\ End(len)
    BY <1>3, <1>4, <1>6
  <2> QED BY <1>5, <2>1
<1>8. ReadString(m, r) = [k \in 1..l |-> At(k - 1)]
  BY <1>1, <1>6, <1>7
<1>9. ASSUME NEW k \in 1..l PROVE At(k - 1) = m[r][k]
  <2>1. k - 1 \in 0..MaxTok-1 /\ (k - 1) + 1 = k
    BY StringAssumption
  <2> QED BY <1>2, <2>1
<1> QED BY <1>8, <1>9

(* c_splite puts every token of any string, in order, into a row of its    *)
(* own, whole or as much of it as a row holds, and changes nothing else of *)
(* the memory but to clear the array, whatever its length; what is read of *)
(* a row with room for a NUL is its token.                                 *)
THEOREM SplitIsExact == StringSpec => SplitExact
<1> DEFINE Old(r, k) == IF text # <<>> /\ r < MaxElem THEN NUL ELSE memory[r][k]
           Split(starts) ==
             /\ Len(result') = Cardinality(starts)
             /\ \A i \in starts : \E e \in i+1..Len(text)+1 :
                  LET j == Cardinality({k \in starts : k <= i})
                  IN  /\ \A k \in i..e-1 : text[k] # Space
                      /\ e <= Len(text) => text[e] = Space
                      /\ \A k \in 1..MaxTok :
                           memory'[j-1][k] = IF i + k <= e THEN text[i+k-1] ELSE Old(j - 1, k)
                      /\ e - i < MaxTok /\ j <= MaxElem => result'[j] = SubSeq(text, i, e - 1)
             /\ \A r \in Rows, k \in 1..MaxTok :
                  r >= Cardinality(starts) => memory'[r][k] = Old(r, k)
<1>1. TextInv /\ c_splite =>
        Split({i \in DOMAIN text : text[i] # Space /\ (i = 1 \/ text[i-1] = Space)})
  <2> SUFFICES ASSUME TextInv, c_splite PROVE Split(Starts(text, 1))
    <3>1. TextInv => DOMAIN text = 1..Len(text)
      BY LenProperties DEF TextInv
    <3>2. TextInv => {i \in DOMAIN text : text[i] # Space /\ (i = 1 \/ text[i-1] = Space)}
                       = Starts(text, 1)
      BY <3>1 DEF Starts
    <3> HIDE DEF Split
    <3> QED BY <3>2
  <2>1. PICK N \in Nat : N = Len(text) /\ DOMAIN text = 1..N /\ N <= MaxStr
    BY LenProperties DEF TextInv
  <2>2. text \in Seq(Chars) /\ (text = <<>> <=> N = 0)
    BY <2>1, EmptySeq DEF TextInv
  <2>3. PICK tokens : tokens = Tokens(text)
    OBVIOUS
  <2>4. PICK C \in Nat : C = Count(text, 1) /\ C <= N
    <3>1. Starts(text, 1) \subseteq 1..N
      BY <2>1 DEF Starts
    <3>2. IsFiniteSet(1..N) /\ Cardinality(1..N) = N
      BY FS_Interval
    <3>3. IsFiniteSet(Starts(text, 1)) /\ Count(text, 1) <= N
      BY <3>1, <3>2, FS_Subset DEF Count
    <3> QED BY <3>3, FS_CardinalityType DEF Count
  <2>5. /\ Len(tokens) = C
        /\ \A i \in Starts(text, 1) :
             tokens[Row(text, 1, i)] = Token(text, i, SkipToken(text, i))
    BY <2>2, <2>3, <2>4, TokensTaken
  <2>6. result' = [j \in 1..C |-> ReadString(memory', j - 1)]
    BY <2>3, <2>5 DEF c_splite
  <2>7. ASSUME NEW r \in Rows, NEW k \in 1..MaxTok
        PROVE  memory'[r][k] = IF r < C /\ k <= Len(tokens[r+1]) THEN tokens[r+1][k]
                               ELSE Old(r, k)
    <3>1. CASE text = <<>>
      <4>1. C = 0 /\ memory' = memory
        BY <2>2, <2>4, <3>1 DEF c_splite
      <4>2. ~(r < C)
        BY <4>1, StringAssumption DEF Rows
      <4> QED BY <3>1, <4>1, <4>2
    <3>2. CASE text # <<>>
      <4>1. memory' = Filled(Cleared(memory), tokens)
        BY <2>3, <3>2 DEF c_splite
      <4>2. Cleared(memory)[r][k] = Old(r, k)
        BY <3>2 DEF Cleared
      <4> QED BY <2>5, <4>1, <4>2 DEF Filled
    <3> QED BY <3>1, <3>2
  <2> HIDE DEF Old
  <2>8. ASSUME NEW i \in Starts(text, 1)
        PROVE  \E e \in i+1..Len(text)+1 :
                 LET j == Cardinality({k \in Starts(text, 1) : k <= i})
                 IN  /\ \A k \in i..e-1 : text[k] # Space
                     /\ e <= Len(text) => text[e] = Space
                     /\ \A k \in 1..MaxTok :
                          memory'[j-1][k] = IF i + k <= e THEN text[i+k-1] ELSE Old(j - 1, k)
                     /\ e - i < MaxTok /\ j <= MaxElem => result'[j] = SubSeq(text, i, e - 1)
    <3>1. i \in 1..N /\ i \in 1..Len(text)+1 /\ text[i] # Space
      BY <2>1 DEF Starts
    <3>2. PICK e : e = SkipToken(text, i)
      OBVIOUS
    <3>3. /\ e \in i..N+1
          /\ e <= N => text[e] = Space
          /\ \A k \in i..e-1 : text[k] # Space
      BY <2>1, <2>2, <3>1, <3>2, TokenSkipped
    <3>4. e \in i+1..N+1
      <4>1. e # i
        BY <3>1, <3>3
      <4> QED BY <3>1, <3>3, <4>1
    <3>5. PICK j : j = Row(text, 1, i)
      OBVIOUS
    <3>6. j \in 1..C
      BY <2>2, <2>4, <3>5, RowWithin
    <3>7. PICK r \in Rows : r = j - 1 /\ r + 1 = j /\ r < C
      BY <2>1, <2>4, <3>6, StringAssumption DEF Rows
    <3>8. PICK tok : tok = Token(text, i, e)
      OBVIOUS
    <3>9. tokens[j] = tok
      BY <2>5, <3>2, <3>5, <3>8
    <3>10. /\ Len(tok) = e - i /\ tok \in Seq(Chars)
           /\ \A k \in 1..e-i : tok[k] = text[i + k - 1] /\ tok[k] \in Chars
      <4>1. i \in 1..Len(text) /\ e \in i+1..Len(text)+1
        BY <2>1, <3>1, <3>4
      <4>2. /\ tok \in Seq(Chars) /\ Len(tok) = e - i
            /\ \A k \in 1..e-i : tok[k] = text[i + k - 1]
        BY <2>2, <3>8, <4>1, TokenOf
      <4> QED BY <4>2, ElementOfSeq
    <3>11. ASSUME NEW k \in 1..MaxTok
           PROVE  memory'[r][k] = IF i + k <= e THEN text[i+k-1] ELSE Old(r, k)
      <4>1. memory'[r][k] = IF k <= e - i THEN tok[k] ELSE Old(r, k)
        BY <2>7, <3>7, <3>9, <3>10
      <4>2. k <= e - i <=> i + k <= e
        BY <3>1, <3>4, StringAssumption
      <4> QED BY <3>10, <4>1, <4>2
    <3>12. ASSUME e - i < MaxTok, j <= MaxElem PROVE result'[j] = SubSeq(text, i, e - 1)
      <4>1. PICK l \in 1..MaxTok-1 : l = e - i
        BY <3>1, <3>4, <3>12, StringAssumption
      <4>2. l + 1 \in 1..MaxTok /\ i + (l + 1) = e + 1 /\ ~(e + 1 <= e)
        BY <3>1, <3>4, <4>1, StringAssumption
      <4>3. memory'[r][l+1] = NUL
        <5>1. memory'[r][l+1] = Old(r, l + 1)
          BY <3>11, <4>2
        <5>2. r < MaxElem /\ text # <<>>
          BY <2>2, <3>1, <3>7, <3>12, StringAssumption DEF Rows
        <5> QED BY <5>1, <5>2 DEF Old
      <4>4. ASSUME NEW k \in 1..l PROVE memory'[r][k] = tok[k] /\ tok[k] # NUL
        <5>1. k \in 1..MaxTok /\ k \in 1..e-i /\ i + k <= e
          BY <3>1, <3>4, <4>1, StringAssumption
        <5>2. tok[k] \in Chars /\ tok[k] = text[i+k-1] /\ memory'[r][k] = text[i+k-1]
          BY <3>10, <3>11, <5>1
        <5> QED BY <5>2, StringAssumption
      <4>5. ReadString(memory', r) = [k \in 1..l |-> memory'[r][k]]
        <5>1. l \in 0..MaxTok-1
          BY <4>1
        <5>2. \A k \in 1..l : memory'[r][k] # NUL
          BY <4>4
        <5> QED BY <4>3, <5>1, <5>2, RowRead
      <4>6. result'[j] = [k \in 1..l |-> tok[k]]
        BY <2>6, <3>6, <3>7, <4>4, <4>5
      <4>7. tok = [k \in 1..l |-> tok[k]]
        BY <3>10, <4>1, LenProperties
      <4> QED BY <3>8, <4>6, <4>7 DEF Token
    <3>13. e \in i+1..Len(text)+1 /\ j = Cardinality({k \in Starts(text, 1) : k <= i})
      BY <2>1, <3>4, <3>5 DEF Row
    <3>14. /\ \A k \in i..e-1 : text[k] # Space
           /\ e <= Len(text) => text[e] = Space
           /\ \A k \in 1..MaxTok :
                memory'[j-1][k] = IF i + k <= e THEN text[i+k-1] ELSE Old(j - 1, k)
           /\ e - i < MaxTok /\ j <= MaxElem => result'[j] = SubSeq(text, i, e - 1)
      BY <2>1, <3>3, <3>7, <3>11, <3>12
    <3> QED BY <3>13, <3>14, Zenon
  <2>9. ASSUME NEW r \in Rows, NEW k \in 1..MaxTok, r >= C
        PROVE  memory'[r][k] = Old(r, k)
    <3>1. ~(r < C)
      BY <2>4, <2>9, StringAssumption DEF Rows
    <3> QED BY <2>7, <3>1
  <2>10. Len(result') = C
    <3>1. \A f : f = [j \in 1..C |-> ReadString(memory', j - 1)] => Len(f) = C
      OBVIOUS
    <3> QED BY <2>6, <3>1
  <2>11. C = Cardinality(Starts(text, 1))
    BY <2>4 DEF Count
  <2> QED BY <2>8, <2>9, <2>10, <2>11, Zenon
<1> QED BY <1>1, CharsStay, PTL DEF SplitExact
=============================================================================
