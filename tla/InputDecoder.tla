----------------------------- MODULE InputDecoder -----------------------------
(***************************************************************************)
(* InputStateMachine (oxiterm-proto/src/input/decoder.rs): the bytes of an *)
(* SSH channel become input events, one byte at a time, in the reactor     *)
(* thread (oxiterm-server/src/ssh/reactor.rs).                             *)
(*                                                                         *)
(* The terminal sends items: a character, a key of the Kitty protocol, a   *)
(* mouse report, XON and XOFF, an answer to a query, an app token.  Their  *)
(* encodings are the terminal's side of the protocols.  Between items the  *)
(* line may carry noise: bytes of sequences nobody here knows, or the      *)
(* rests of torn ones.  A pause is more than the 200 ms after which a      *)
(* sequence that was begun is given up.                                    *)
(*                                                                         *)
(* Bytes are numbers, as in the code.  Definitions called ...Mutant are no *)
(* part of the specification: each is a plausible bug that the properties  *)
(* of this module must detect.                                             *)
(***************************************************************************)
EXTENDS Integers, Sequences

CONSTANTS Capacity,  \* of BoundedSubnegBuffer (256 in the code)
          Items,     \* what the terminal sends: bytes and the event they stand for
          Noise,     \* the bytes of a noisy line
          MaxNoise   \* bound: bytes of noise between two items

ESC == 27
XON == 17
XOFF == 19

Byte == 0..255

\* Classes of bytes: the digits, what ends a control sequence, and what goes on
\* with a character of UTF-8.
IsDigit(b) == b \in 48..57
IsFinal(b) == b >= 64 /\ b < 127
IsContinuation(b) == b >= 128 /\ b < 192
Semicolon == 59
Colon == 58
Plus == 43

-----------------------------------------------------------------------------
(* Numbers and lists of numbers *)

\* The largest number TLC holds stands for the largest u32: no item and no noise
\* has a number as long.
MaxU32 == 2147483647
MaxU16 == 65535

Value(digits) ==
    LET value[n \in 0..Len(digits)] == IF n = 0 THEN 0 ELSE 10 * value[n - 1] + (digits[n] - 48)
    IN  value[Len(digits)]

\* str::parse of an unsigned number, with its largest value; -1: an error.
Parse(s, largest) ==
    LET digits == IF s # << >> /\ s[1] = Plus THEN Tail(s) ELSE s
    IN  IF /\ digits # << >> /\ \A i \in DOMAIN digits : IsDigit(digits[i])
           /\ Value(digits) <= largest
        THEN Value(digits) ELSE -1

\* str::split
Split(s, sep) ==
    LET parts[n \in 0..Len(s)] ==
            IF n = 0 THEN << << >> >>
            ELSE IF s[n] = sep THEN Append(parts[n - 1], << >>)
            ELSE [parts[n - 1] EXCEPT ![Len(parts[n - 1])] = Append(@, s[n])]
    IN  parts[Len(s)]

\* A flag of a bit field.
Bit(n, weight) == (n \div weight) % 2 = 1

Flags(n, weights) == {name \in DOMAIN weights : Bit(n, weights[name])}

\* std::str::from_utf8 of one character's bytes: "ok", "more" are to come, "bad".
CharLength(lead) ==
    IF lead < 194 \/ lead > 244 THEN 0
    ELSE IF lead < 224 THEN 2 ELSE IF lead < 240 THEN 3 ELSE 4

\* The second byte may not make the character too long, a surrogate, or too big.
IsSecond(b, lead) ==
    /\ IsContinuation(b)
    /\ lead = 224 => b >= 160
    /\ lead = 237 => b < 160
    /\ lead = 240 => b >= 144
    /\ lead = 244 => b < 144

Utf8(s) ==
    IF \/ Len(s) > 1 /\ ~IsSecond(s[2], s[1])
       \/ \E i \in 3..Len(s) : ~IsContinuation(s[i])
    THEN "bad"
    ELSE IF Len(s) < CharLength(s[1]) THEN "more" ELSE "ok"

IsUtf8(s) ==
    LET bad == <<-1>>
        char[n \in 0..Len(s)] ==
            IF n = 0 THEN << >>
            ELSE LET u == char[n - 1]
                     longer == Append(u, s[n])
                 IN  CASE u = bad -> bad
                       [] u = << >> /\ s[n] < 128 -> << >>
                       [] u = << >> /\ s[n] >= 128 -> IF CharLength(s[n]) = 0 THEN bad ELSE longer
                       [] OTHER -> CASE Utf8(longer) = "ok"   -> << >>
                                     [] Utf8(longer) = "more" -> longer
                                     [] Utf8(longer) = "bad"  -> bad
    IN  char[Len(s)] = << >>

CodePoint(s) ==
    IF Len(s) = 2 THEN (s[1] % 32) * 64 + (s[2] % 64)
    ELSE IF Len(s) = 3 THEN (s[1] % 16) * 4096 + (s[2] % 64) * 64 + (s[3] % 64)
    ELSE (s[1] % 8) * 262144 + (s[2] % 64) * 4096 + (s[3] % 64) * 64 + (s[4] % 64)

-----------------------------------------------------------------------------
(* Events *)

Key(cp, mods, kind) == [type |-> "key", cp |-> cp, mods |-> mods, kind |-> kind]
Typed(cp) == Key(cp, {}, "press")
Mouse(button, action, mods, col, row) ==
    [type |-> "mouse", button |-> button, action |-> action, mods |-> mods, col |-> col, row |-> row]
Flow(type) == [type |-> type]
Capability(data) == [type |-> "capability", data |-> data]
AppToken(token) == [type |-> "token", data |-> token]
Unknown(data) == [type |-> "unknown", data |-> data]

KeyMods == [shift |-> 1, alt |-> 2, ctrl |-> 4, meta |-> 8]
MouseMods == [shift |-> 4, alt |-> 8, ctrl |-> 16]
KeyKinds == [press |-> 1, repeat |-> 2, release |-> 3]

\* char::from_u32: no surrogate, and nothing beyond the last code point.
IsChar(n) == n \in Nat /\ (n < 55296 \/ (n >= 57344 /\ n < 1114112))

\* parse_kitty: code ; 1 + modifiers : kind
ParseKitty(seq, data) ==
    LET parts == Split(seq, Semicolon)
        cp == Parse(parts[1], MaxU32)
        sub == Split(parts[2], Colon)
        mods == Parse(sub[1], MaxU32)
        kind == IF Len(sub) > 1 /\ sub[2] = <<50>> THEN "repeat"
                ELSE IF Len(sub) > 1 /\ sub[2] = <<51>> THEN "release" ELSE "press"
    IN  IF ~IsUtf8(seq) \/ cp = -1 \/ ~IsChar(cp) THEN Unknown(data)
        ELSE IF Len(parts) = 1 THEN Typed(cp)
        ELSE Key(cp, IF mods < 1 THEN {} ELSE Flags(mods - 1, KeyMods), kind)

\* The button of a report: its two lowest bits and the wheel bit.
Button(b) ==
    LET low == b % 4 IN
    CASE ~Bit(b, 64) /\ low = 0 -> "left"   [] ~Bit(b, 64) /\ low = 1 -> "middle"
      [] ~Bit(b, 64) /\ low = 2 -> "right"  [] Bit(b, 64) /\ low = 0 -> "up"
      [] Bit(b, 64) /\ low = 1 -> "down"    [] OTHER -> "none"

\* parse_sgr: flags ; column ; row, and M for a press or m for a release
ParseSgr(seq, pressed, data) ==
    LET parts == Split(seq, Semicolon)
        b == Parse(parts[1], MaxU32)
        col == Parse(parts[2], MaxU16)
        row == Parse(parts[3], MaxU16)
        action == IF Bit(b, 32) THEN "move" ELSE IF pressed THEN "press" ELSE "release"
    IN  IF Len(parts) # 3 \/ -1 \in {b, col, row} THEN Unknown(data)
        ELSE Mouse(Button(b), action, Flags(b, MouseMods), col, row)

\* A CSI sequence that is complete: its last byte says what it is.
Sequence(data) ==
    LET n == Len(data)
        final == data[n]
    IN  IF n > 3 /\ final = 117 THEN ParseKitty(SubSeq(data, 3, n - 1), data)
        ELSE IF n > 3 /\ final \in {77, 109} /\ data[3] = 60
             THEN ParseSgr(SubSeq(data, 4, n - 1), final = 77, data)
        ELSE IF n > 3 /\ final = 99 /\ data[3] = 63 THEN Capability(data)
        ELSE Unknown(data)

\* An application program command that is complete: G answers a query, A sets
\* the app token (from_utf8_lossy, which leaves a text as it is).
Command(data) ==
    IF data[3] = 71 THEN Capability(data)
    ELSE IF data[3] = 65 THEN AppToken(SubSeq(data, 4, Len(data) - 2))
    ELSE Unknown(data)

-----------------------------------------------------------------------------
(* The terminal's side of the protocols *)

Decimal(n) ==
    LET digits[k \in 0..n] == IF k < 10 THEN <<48 + k>>
                              ELSE Append(digits[k \div 10], 48 + (k % 10))
    IN  digits[n]

Encoded(cp) ==
    IF cp < 128 THEN <<cp>>
    ELSE IF cp < 2048 THEN <<192 + (cp \div 64), 128 + (cp % 64)>>
    ELSE IF cp < 65536 THEN <<224 + (cp \div 4096), 128 + ((cp \div 64) % 64), 128 + (cp % 64)>>
    ELSE <<240 + (cp \div 262144), 128 + ((cp \div 4096) % 64),
           128 + ((cp \div 64) % 64), 128 + (cp % 64)>>

Sum(mods, weights) ==
    LET of(name) == IF name \in mods THEN weights[name] ELSE 0
    IN  of("shift") + of("alt") + of("ctrl") + of("meta")

CharItem(cp) == [bytes |-> Encoded(cp), event |-> Typed(cp)]

FlowItem(byte, type) == [bytes |-> <<byte>>, event |-> Flow(type)]

KittyItem(cp, mods, kind) ==
    [bytes |-> <<ESC, 91>> \o Decimal(cp) \o <<Semicolon>> \o Decimal(1 + Sum(mods, KeyMods))
                 \o <<Colon>> \o Decimal(KeyKinds[kind]) \o <<117>>,
     event |-> Key(cp, mods, kind)]

Buttons == [left |-> 0, middle |-> 1, right |-> 2, up |-> 64, down |-> 65]

MouseItem(button, action, mods, col, row) ==
    [bytes |-> <<ESC, 91, 60>>
                 \o Decimal(Buttons[button] + Sum(mods, MouseMods) + (IF action = "move" THEN 32 ELSE 0))
                 \o <<Semicolon>> \o Decimal(col) \o <<Semicolon>> \o Decimal(row)
                 \o (IF action = "release" THEN <<109>> ELSE <<77>>),
     event |-> Mouse(button, action, mods, col, row)]

AnswerItem(bytes) == [bytes |-> bytes, event |-> Capability(bytes)]

TokenItem(token) == [bytes |-> <<ESC, 95, 65>> \o token \o <<ESC, 92>>, event |-> AppToken(token)]

\* A CSI sequence ends with its first byte of 64..126, an application program
\* command with its first ESC \.
IsCsi(bytes) ==
    LET n == Len(bytes) IN
    /\ n > 3 /\ bytes[1] = ESC /\ bytes[2] = 91 /\ IsFinal(bytes[n])
    /\ \A i \in 3..(n - 1) : ~IsFinal(bytes[i])

IsApc(bytes) ==
    LET n == Len(bytes) IN
    /\ n > 4 /\ bytes[1] = ESC /\ bytes[2] = 95 /\ bytes[n - 1] = ESC /\ bytes[n] = 92
    /\ \A i \in 4..(n - 1) : ~(bytes[i - 1] = ESC /\ bytes[i] = 92)

IsKey(e) == IsChar(e.cp) /\ e.mods \subseteq DOMAIN KeyMods /\ e.kind \in DOMAIN KeyKinds

IsMouse(e) ==
    /\ e.button \in DOMAIN Buttons /\ e.action \in {"press", "release", "move"}
    /\ e.mods \subseteq DOMAIN MouseMods
    /\ e.col \in Nat /\ e.col <= MaxU16 /\ e.row \in Nat /\ e.row <= MaxU16

IsItem(i) ==
    LET e == i.event IN
    /\ i.bytes \in Seq(Byte)
    /\ \/ /\ e.type = "key" /\ IsKey(e)
          /\ \/ i = CharItem(e.cp) /\ e.cp \notin {ESC, XON, XOFF}
             \/ i = KittyItem(e.cp, e.mods, e.kind)
       \/ /\ e.type = "mouse" /\ IsMouse(e)
          /\ i = MouseItem(e.button, e.action, e.mods, e.col, e.row)
       \/ i \in {FlowItem(XON, "xon"), FlowItem(XOFF, "xoff")}
       \/ /\ e.type = "capability" /\ i = AnswerItem(i.bytes)
          /\ \/ IsCsi(i.bytes) /\ i.bytes[3] = 63 /\ i.bytes[Len(i.bytes)] = 99
             \/ IsApc(i.bytes) /\ i.bytes[3] = 71
       \/ /\ e.type = "token" /\ e.data \in Seq(Byte)
          /\ i = TokenItem(e.data) /\ IsApc(i.bytes)

ASSUME DecoderAssumption ==
    /\ Capacity \in Nat \ {0}
    /\ Noise \subseteq Byte /\ MaxNoise \in Nat
    /\ \A i \in Items : IsItem(i)

-----------------------------------------------------------------------------
VARIABLES
          state,   \* the parser's state
          buffer,  \* the bytes of the sequence that is being read
          utf8,    \* utf8_buf: the bytes of a character that is being read
          quiet,   \* the last byte is more than 200 ms ago
          item,    \* the item on the line
          pos,     \* how much of it was sent
          got,     \* the events since the item began
          partial, \* history: it began behind a character nobody finished
          torn,    \* history: a pause fell into its escape sequence
          noise    \* bytes of noise since the last item

decoder == <<state, buffer, utf8>>
line == <<item, pos, partial, torn>>
lineVars == <<decoder, quiet, line, got, noise>>

\* What a byte makes of the decoder: its state and the events it gives.
Result(st, buf, u, events) == [state |-> st, buffer |-> buf, utf8 |-> u, events |-> events]

\* reset
Reset(events) == Result("idle", << >>, << >>, events)

\* State::Idle.  A byte that cannot start a character is ignored; one that cannot
\* go on with the character clears it, and is lost itself.
Idle(b, u) ==
    LET char == Append(u, b) IN
    CASE b = ESC -> Result("escaped", <<b>>, u, << >>)
      [] b = XON -> Result("idle", << >>, u, <<Flow("xon")>>)
      [] b = XOFF -> Result("idle", << >>, u, <<Flow("xoff")>>)
      [] b < 128 /\ b \notin {ESC, XON, XOFF} -> Reset(<<Typed(b)>>)
      [] b >= 128 /\ u = << >> /\ CharLength(b) = 0 -> Reset(<< >>)
      [] OTHER -> CASE Utf8(char) = "ok"   -> Reset(<<Typed(CodePoint(char))>>)
                    [] Utf8(char) = "more" -> Result("idle", << >>, char, << >>)
                    [] Utf8(char) = "bad"  -> Reset(<< >>)

\* State::Escaped
Escaped(b, buf, u) ==
    CASE b = 91 -> Result("csi", buf, u, << >>)
      [] b = 95 -> Result("apc", buf, u, << >>)
      [] OTHER -> Reset(<<Unknown(buf)>>)

\* State::Csi: parameters up to a final byte.
Csi(b, buf, u) ==
    IF IsFinal(b) THEN Reset(<<Sequence(buf)>>) ELSE Result("csi", buf, u, << >>)

\* State::Apc and State::ApcEscaped: anything up to ESC \.
Apc(b, buf, u) == Result(IF b = ESC THEN "apcEscaped" ELSE "apc", buf, u, << >>)

ApcEscaped(b, buf, u) ==
    IF b = 92 THEN Reset(<<Command(buf)>>) ELSE Apc(b, buf, u)

OverflowMutant(b, buf, u) == Result("idle", buf, u, << >>)

\* BoundedSubnegBuffer::push fails: what was read is given up, and so is the byte.
Overflow(b, buf, u) == Reset(<< >>)

\* The match of feed, once the guard has looked at the time.
Step(b, st, buf, u) ==
    LET longer == Append(buf, b) IN
    CASE st = "idle" -> Idle(b, u)
      [] st # "idle" /\ Len(buf) >= Capacity -> Overflow(b, buf, u)
      [] OTHER -> CASE st = "escaped"    -> Escaped(b, longer, u)
                    [] st = "csi"        -> Csi(b, longer, u)
                    [] st = "apc"        -> Apc(b, longer, u)
                    [] st = "apcEscaped" -> ApcEscaped(b, longer, u)

FeedMutant(b) == Step(b, state, buffer, utf8)

\* feed: sgr_timeout_guard resets a sequence that was begun 200 ms ago, not a
\* character.
Feed(b) ==
    IF quiet /\ state # "idle" THEN Step(b, "idle", << >>, << >>)
    ELSE Step(b, state, buffer, utf8)

\* No item is on the line.
Silence == [bytes |-> << >>, event |-> Flow("none")]

\* feed_slice and the reactor's loop: a byte of a frame, its events go on in order.
Take(b, seen) ==
    LET r == Feed(b) IN
    /\ state' = r.state /\ buffer' = r.buffer /\ utf8' = r.utf8
    /\ got' = seen \o r.events
    /\ quiet' = FALSE

-----------------------------------------------------------------------------
(* The line *)

LineInit ==
    /\ state = "idle" /\ buffer = << >> /\ utf8 = << >>
    /\ quiet = FALSE
    /\ item = Silence
    /\ pos = 0 /\ got = << >>
    /\ partial = FALSE /\ torn = FALSE
    /\ noise = 0

Whole == pos = Len(item.bytes)

\* The next byte of the item.
Send ==
    /\ ~Whole
    /\ pos' = pos + 1
    /\ Take(item.bytes[pos'], got)
    /\ torn' = (torn \/ (pos > 0 /\ quiet /\ state # "idle"))
    /\ UNCHANGED <<item, partial, noise>>

\* An item begins on a line at rest: nothing is being read, or a pause ends what
\* is.  What else a terminal may send is noise.
Begin ==
    /\ Whole /\ (state = "idle" \/ quiet)
    /\ item' \in Items /\ pos' = 0
    /\ partial' = (state = "idle" /\ utf8 # << >>) /\ torn' = FALSE
    /\ got' = << >> /\ noise' = 0
    /\ UNCHANGED <<decoder, quiet>>

Disturb(b) ==
    /\ Whole
    /\ noise < MaxNoise /\ noise' = noise + 1
    /\ item' = Silence /\ pos' = 0 /\ partial' = FALSE /\ torn' = FALSE
    /\ Take(b, << >>)

Pause ==
    /\ ~quiet
    /\ quiet' = TRUE
    /\ UNCHANGED <<decoder, line, got, noise>>

LineNext ==
    \/ Send
    \/ Begin
    \/ \E b \in Noise : Disturb(b)
    \/ Pause

LineSpec == LineInit /\ [][LineNext]_lineVars

-----------------------------------------------------------------------------
(* Properties *)

States == {"idle", "escaped", "csi", "apc", "apcEscaped"}

\* What is kept between two bytes is what the state stands for: nothing at
\* rest, the beginning of a sequence, and at most the beginning of a character.
\* It stays within the capacity.
KeepsWhatItReads ==
    /\ state \in States
    /\ Len(buffer) <= Capacity
    /\ (state = "idle") <=> (buffer = << >>)
    /\ state = "escaped" => buffer = <<ESC>>
    /\ state = "csi" => /\ SubSeq(buffer, 1, 2) = <<ESC, 91>>
                        /\ \A i \in 3..Len(buffer) : ~IsFinal(buffer[i])
    /\ state \in {"apc", "apcEscaped"} =>
          /\ SubSeq(buffer, 1, 2) = <<ESC, 95>>
          /\ (state = "apcEscaped") <=> (Len(buffer) > 2 /\ buffer[Len(buffer)] = ESC)
          /\ \A i \in 4..Len(buffer) : ~(buffer[i - 1] = ESC /\ buffer[i] = 92)
    /\ utf8 # << >> => Utf8(utf8) = "more" /\ CharLength(utf8[1]) > 0

\* Wherever the stream is cut, an item that begins on a line at rest gives
\* exactly its event, whatever the line carried before: an unknown sequence, an
\* overflow, a torn item.  A character that was never finished costs at most the
\* next one, if that is no ASCII either: no time ends it.
DecodesEachItem ==
    Whole /\ item # Silence /\ ~torn /\ Len(item.bytes) <= Capacity =>
        IF partial /\ Head(item.bytes) >= 128 THEN got = << >> ELSE got = <<item.event>>

=============================================================================
