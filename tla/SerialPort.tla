----------------------------- MODULE SerialPort -----------------------------
(***************************************************************************)
(* The serial port library (private_libary/linux_serial_port): the setters *)
(* of a struct termios, which turn a description - 9600, 8, 'N', 1 - into  *)
(* option bits, and set_serial_port_attr, which applies four of them to    *)
(* whatever options the port has.  A program opens the port, sets it, or   *)
(* gets its options, uses single setters and applies the options itself.   *)
(***************************************************************************)
EXTENDS Integers

CONSTANTS BaudRates, DataBits, StopBits, Parities  \* descriptions callers give

(* The rates get_baud_rate_from_desc knows. *)
KnownRates == {0, 50, 75, 110, 134, 150, 200, 300, 600, 1200, 1800, 2400, 4800, 9600, 19200,
               38400, 57600, 115200, 230400, 460800, 500000, 576000, 921600, 1000000, 1152000,
               1500000, 2000000, 2500000, 3000000, 3500000, 4000000}

ASSUME SerialAssumption ==
  /\ BaudRates \subseteq Int /\ DataBits \subseteq Int /\ StopBits \subseteq Int
  /\ Parities \subseteq {"n", "N", "o", "O", "e", "E", "s", "S", "other"}

VARIABLES
  port,      \* "open", or "closed" by set_serial_port_attr
  termios,   \* the port's options
  asked,     \* the frame the calls so far asked for (history)
  misread    \* the fields whose last known description was none before it
             \* was cut to a char (history)

serialVars == <<port, termios, asked, misread>>

(* Bits of c_cflag and c_iflag; PARMRK stands for PARMRK and ISTRIP, ICRNL *)
(* for the four bits of translation and breaks, IXON for the three of      *)
(* software flow control; raw: c_oflag and c_lflag without processing.     *)
Termios == [speed : KnownRates, size : 5..8,
            cflag : SUBSET {"CSTOPB", "PARENB", "PARODD", "CRTSCTS"},
            iflag : SUBSET {"INPCK", "PARMRK", "ICRNL", "IXON"}, raw : BOOLEAN]

(* The functions *_from_desc; -1 for a description they do not know.  Bxxx *)
(* is represented by its rate.                                             *)
get_baud_rate_from_desc(rate) ==
  IF rate = 3500000 THEN 2500000 ELSE IF rate \in KnownRates THEN rate ELSE -1
get_data_bits_from_desc(bits) == IF bits \in 5..8 THEN bits ELSE -1
get_stop_bits_from_desc(bits) == IF bits \in 1..2 THEN bits ELSE -1
get_parity_from_desc(desc) == CASE desc \in {"n", "N"} -> "PARITY_NO"
                                [] desc \in {"o", "O"} -> "PARITY_ODD"
                                [] desc \in {"e", "E"} -> "PARITY_EVEN"
                                [] desc \in {"s", "S"} -> "PARITY_SPACE"
                                [] OTHER -> "-1"

(* The setters take these two as char. *)
AsChar(int) == LET low == int % 256 IN IF low < 128 THEN low ELSE low - 256

set_baud_rate(t, rate) ==
  IF get_baud_rate_from_desc(rate) < 0 THEN t
  ELSE [t EXCEPT !.speed = get_baud_rate_from_desc(rate)]

set_data_bits(t, bits) ==
  IF get_data_bits_from_desc(bits) < 0 THEN t
  ELSE [t EXCEPT !.size = get_data_bits_from_desc(bits)]

set_stop_bits(t, bits) ==
  CASE get_stop_bits_from_desc(bits) = 1 -> [t EXCEPT !.cflag = @ \ {"CSTOPB"}]
    [] get_stop_bits_from_desc(bits) = 2 -> [t EXCEPT !.cflag = @ \cup {"CSTOPB"}]
    [] OTHER -> t

\* (bug) the parity bit of an earlier odd parity is left set
set_parity_bits_keeps(t, desc) ==
  LET on(c) == [t EXCEPT !.cflag = c, !.iflag = @ \cup {"INPCK", "PARMRK"}]
  IN  CASE get_parity_from_desc(desc) = "PARITY_EVEN" -> on(t.cflag \cup {"PARENB"})
        [] get_parity_from_desc(desc) = "PARITY_ODD" -> on(t.cflag \cup {"PARENB", "PARODD"})
        [] get_parity_from_desc(desc) = "-1" -> t
        [] OTHER -> [t EXCEPT !.cflag = @ \ {"PARENB"}, !.iflag = @ \ {"INPCK", "PARMRK"}]

(* PARITY_NO falls through to PARITY_SPACE; both leave PARODD as it was.   *)
set_parity_bits(t, desc) ==
  LET on(c) == [t EXCEPT !.cflag = c, !.iflag = @ \cup {"INPCK", "PARMRK"}]
  IN  CASE get_parity_from_desc(desc) = "PARITY_EVEN" ->
             on((t.cflag \cup {"PARENB"}) \ {"PARODD"})
        [] get_parity_from_desc(desc) = "PARITY_ODD" -> on(t.cflag \cup {"PARENB", "PARODD"})
        [] get_parity_from_desc(desc) = "-1" -> t
        [] OTHER -> [t EXCEPT !.cflag = @ \ {"PARENB"}, !.iflag = @ \ {"INPCK", "PARMRK"}]

set_hardware_flow_ctl(t, on) ==
  [t EXCEPT !.cflag = IF on THEN @ \cup {"CRTSCTS"} ELSE @ \ {"CRTSCTS"}]
set_software_flow_ctl(t, on) ==
  [t EXCEPT !.iflag = IF on THEN @ \cup {"IXON"} ELSE @ \ {"IXON"}]

(* What set_serial_port_attr makes of the options, whatever the setters    *)
(* return; set_local_recv is empty.                                        *)
NewAttr(t, spp) ==
  LET set == set_stop_bits(set_parity_bits(set_data_bits(set_baud_rate(t, spp.baud_rate),
                                                         AsChar(spp.data_bit)),
                                           spp.parity_bits),
                           AsChar(spp.stop_bit))
  IN  [set EXCEPT !.iflag = @ \ {"ICRNL", "IXON"}, !.raw = TRUE]

Params == [baud_rate : BaudRates, data_bit : DataBits, stop_bit : StopBits,
           parity_bits : Parities]

-----------------------------------------------------------------------------
(* What the options mean: the frame on the line, and how it is received.   *)

Frame(t) == [speed |-> t.speed, size |-> t.size,
             stops |-> IF "CSTOPB" \in t.cflag THEN 2 ELSE 1,
             parity |-> IF "PARENB" \notin t.cflag THEN "none"
                        ELSE IF "PARODD" \in t.cflag THEN "odd" ELSE "even",
             checked |-> "INPCK" \in t.iflag,
             hard |-> "CRTSCTS" \in t.cflag, soft |-> "IXON" \in t.iflag]

Frames == [speed : KnownRates, size : 5..8, stops : 1..2, parity : {"none", "odd", "even"},
           checked : BOOLEAN, hard : BOOLEAN, soft : BOOLEAN]

(* What a description asks for, stated by itself, on what the caller gives *)
(* - an int - and by what the header says of it: an unknown one leaves     *)
(* what was asked before.                                                  *)
AskRate(f, rate) == IF rate \in KnownRates THEN [f EXCEPT !.speed = rate] ELSE f
AskSize(f, bits) == IF bits \in 5..8 THEN [f EXCEPT !.size = bits] ELSE f
AskStops(f, bits) == IF bits \in 1..2 THEN [f EXCEPT !.stops = bits] ELSE f
AskParity(f, desc) ==
  IF desc = "other" THEN f
  ELSE [f EXCEPT !.parity = IF desc \in {"o", "O"} THEN "odd"
                            ELSE IF desc \in {"e", "E"} THEN "even" ELSE "none",
                 !.checked = desc \in {"o", "O", "e", "E"}]

(* 264 is no number of data bits, but cut to a char it is 8. *)
Misread(m, field, known, bits) ==
  IF bits \in known THEN m \ {field}
  ELSE IF AsChar(bits) \in known THEN m \cup {field} ELSE m
SizeMisread(m, bits)  == Misread(m, "size", 5..8, bits)
StopsMisread(m, bits) == Misread(m, "stops", 1..2, bits)

(* A port's options before: other programs may have set these flags.       *)
Opened(c, i) == [speed |-> 9600, size |-> 8, cflag |-> c, iflag |-> i, raw |-> FALSE]

SerialInit(run) == /\ port = (IF run THEN "open" ELSE "closed")
                   /\ \E c \in SUBSET {"PARENB", "PARODD"}, i \in SUBSET {"INPCK", "IXON"} :
                        /\ ~run => c = {} /\ i = {}
                        /\ termios = Opened(c, i)
                   /\ asked = Frame(termios) /\ misread = {}

-----------------------------------------------------------------------------
(* set_serial_port_attr, or set_serial_port_quick with its parameters.     *)
SetPort == /\ port = "open"
           /\ \E spp \in Params :
                /\ termios' = NewAttr(termios, spp)
                /\ asked' = [AskRate(AskSize(AskStops(AskParity(asked, spp.parity_bits),
                                                      spp.stop_bit),
                                             spp.data_bit),
                                     spp.baud_rate) EXCEPT !.soft = FALSE]
                /\ misread' = SizeMisread(StopsMisread(misread, spp.stop_bit), spp.data_bit)
           /\ UNCHANGED port

(* tcsetattr() fails: the caller's descriptor is closed.  (set_serial_port_*)
(* quick reports success.)                                                 *)
SetPortFails == /\ port = "open"
                /\ port' = "closed"
                /\ UNCHANGED <<termios, asked, misread>>

(* The caller gets the options, uses one setter, and applies them.         *)
SetOne ==
  /\ port = "open"
  /\ \/ /\ \E rate \in BaudRates : /\ termios' = set_baud_rate(termios, rate)
                                   /\ asked' = AskRate(asked, rate)
        /\ UNCHANGED misread
     \/ \E bits \in DataBits : /\ termios' = set_data_bits(termios, AsChar(bits))
                               /\ asked' = AskSize(asked, bits)
                               /\ misread' = SizeMisread(misread, bits)
     \/ \E bits \in StopBits : /\ termios' = set_stop_bits(termios, AsChar(bits))
                               /\ asked' = AskStops(asked, bits)
                               /\ misread' = StopsMisread(misread, bits)
     \/ /\ \E desc \in Parities : /\ termios' = set_parity_bits(termios, desc)
                                  /\ asked' = AskParity(asked, desc)
        /\ UNCHANGED misread
     \/ /\ \E on \in BOOLEAN : /\ termios' = set_hardware_flow_ctl(termios, on)
                               /\ asked' = [asked EXCEPT !.hard = on]
        /\ UNCHANGED misread
     \/ /\ \E on \in BOOLEAN : /\ termios' = set_software_flow_ctl(termios, on)
                               /\ asked' = [asked EXCEPT !.soft = on]
        /\ UNCHANGED misread
  /\ UNCHANGED port

SerialNext == SetPort \/ SetPortFails \/ SetOne

-----------------------------------------------------------------------------
(* The speed that asking for a rate gives. *)
Given(rate) == IF rate = 3500000 THEN 2500000 ELSE rate

(* The port's frame follows the calls, field by field, over any sequence   *)
(* of them and whatever bits earlier ones, or other programs, left set: no *)
(* setter touches another's bits, an unknown description changes nothing,  *)
(* and a field is other than what was asked for last in two ways only -    *)
(* 3500000 gives 2500000, and a number of data or stop bits that is a      *)
(* known one once cut to a char is taken for it.                           *)
FrameFollows ==
  /\ termios \in Termios /\ asked \in Frames /\ misread \subseteq {"size", "stops"}
  /\ LET f == Frame(termios)
     IN  /\ <<f.parity, f.checked, f.hard, f.soft>>
               = <<asked.parity, asked.checked, asked.hard, asked.soft>>
         /\ f.speed = Given(asked.speed)
         /\ "size" \notin misread => f.size = asked.size
         /\ "stops" \notin misread => f.stops = asked.stops

(* The port's frame is the one the calls asked for last: the rate itself,  *)
(* and nothing from a description that is none.                            *)
FrameAsAsked == Frame(termios) = asked
==============================================================================
