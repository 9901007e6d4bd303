---------------------------- MODULE InputEncoding ----------------------------
(***************************************************************************)
(* What the input commands write to a terminal (pilotty-core input.rs).    *)
(* Text is a sequence of character codes, bytes are a sequence of 0..255.  *)
(* A key token is the sequence of its parts between the plus signs, each a *)
(* string: a name in lower case, one character, or "" where two signs      *)
(* meet.  The numbers of a mouse report count as one byte each.            *)
(***************************************************************************)
EXTENDS Integers, Sequences, SequencesExt

CONSTANTS
    ByteStrings,    \* what somebody may want to type, in bytes
    Texts           \* what somebody may type

ASSUME InputAssumption ==
    /\ \A bytes \in ByteStrings : bytes \in Seq(0..255)
    /\ \A text \in Texts : text \in Seq(0..2047)

Invalid == <<>>     \* None: no key is without bytes

Escape == 27
Backslash == 92
Plus == 43
LetterX == 120

\* The printable characters, in the order of their codes from 32 (the backquote
\* by its name).
Printable == <<" ", "!", "\"", "#", "$", "%", "&", "'", "(", ")", "*", "+", ",", "-", ".", "/",
    "0", "1", "2", "3", "4", "5", "6", "7", "8", "9", ":", ";", "<", "=", ">", "?",
    "@", "A", "B", "C", "D", "E", "F", "G", "H", "I", "J", "K", "L", "M", "N", "O",
    "P", "Q", "R", "S", "T", "U", "V", "W", "X", "Y", "Z", "[", "\\", "]", "^", "_",
    "backquote", "a", "b", "c", "d", "e", "f", "g", "h", "i", "j", "k", "l", "m", "n", "o",
    "p", "q", "r", "s", "t", "u", "v", "w", "x", "y", "z", "{", "|", "}", "~">>
Chars == {Printable[i] : i \in DOMAIN Printable}
Code == [c \in Chars |-> 31 + CHOOSE i \in DOMAIN Printable : Printable[i] = c]
Codes(string) == [i \in DOMAIN string |-> Code[string[i]]]

IsUpper(code) == code \in 65..90
IsLower(code) == code \in 97..122
ToUpper(code) == IF IsLower(code) THEN code - 32 ELSE code

\* Characters up to U+07FF; longer encodings have the same form.
Utf8(code) == IF code < 128 THEN <<code>> ELSE <<192 + code \div 64, 128 + (code % 64)>>
-----------------------------------------------------------------------------
(* Text with escapes (encode_text).                                         *)

SimpleEscape == [e \in {110, 114, 116, Backslash} |->
    CASE e = 110 -> 10 [] e = 114 -> 13 [] e = 116 -> 9 [] OTHER -> Backslash]

IsHex(code) == code \in (48..57) \cup (65..70) \cup (97..102)
HexDigit(code) == IF code <= 57 THEN code - 48 ELSE ToUpper(code) - 55

\* from_str_radix takes a sign in front of the digits.
HexByte(hex) ==
    IF hex[1] = Plus THEN HexDigit(hex[2]) ELSE 16 * HexDigit(hex[1]) + HexDigit(hex[2])
IsHexByte(hex) == Len(hex) = 2 /\ (IsHex(hex[1]) \/ hex[1] = Plus) /\ IsHex(hex[2])

Wide(text) == FlattenSeq([i \in DOMAIN text |-> Utf8(text[i])])

\* What follows a character, 0 at the end (peek).
NextAt(text, i) == IF i < Len(text) THEN text[i + 1] ELSE 0

\* Up to two characters after a backslash and an x.
HexAt(text, i) == SubSeq(text, i + 2, IF i + 3 < Len(text) THEN i + 3 ELSE Len(text))

\* What the text says at a position, and how many characters it takes for it.
TokenAt(text, i) ==
    LET next == NextAt(text, i)
        hex == HexAt(text, i)
    IN IF text[i] # Backslash THEN [bytes |-> Utf8(text[i]), taken |-> 1]
       ELSE IF next \in DOMAIN SimpleEscape THEN [bytes |-> <<SimpleEscape[next]>>, taken |-> 2]
       ELSE IF next # LetterX THEN [bytes |-> <<Backslash>>, taken |-> 1]
       ELSE [bytes |-> IF IsHexByte(hex) THEN <<HexByte(hex)>> ELSE <<Backslash, LetterX>> \o Wide(hex),
             taken |-> 2 + Len(hex)]

\* A fault: the character after an unknown backslash goes with it.
EncodeTextDropping(text) ==
    LET from[i \in 1..Len(text) + 2] ==
        IF i > Len(text) THEN <<>>
        ELSE LET token == TokenAt(text, i)
                 taken == IF token.bytes = <<Backslash>> THEN 2 ELSE token.taken
             IN token.bytes \o from[i + taken]
    IN from[1]

EncodeText(text) ==
    LET from[i \in 1..Len(text) + 1] ==
        IF i > Len(text) THEN <<>>
        ELSE LET token == TokenAt(text, i)
             IN token.bytes \o from[i + token.taken]
    IN from[1]
-----------------------------------------------------------------------------
(* Keys and combos (key_to_bytes, parse_key_combo, parse_key_sequence).     *)

Csi(string) == <<Escape>> \o Codes(<<"[">> \o string)
Ss3(char) == <<Escape>> \o Codes(<<"O", char>>)

Arrow == [n \in {"up", "arrowup", "down", "arrowdown", "right", "arrowright", "left", "arrowleft"} |->
    CASE n \in {"up", "arrowup"} -> "A" [] n \in {"down", "arrowdown"} -> "B"
      [] n \in {"right", "arrowright"} -> "C" [] OTHER -> "D"]

NamedKey ==
    [enter |-> <<13>>, return |-> <<13>>, tab |-> <<9>>, escape |-> <<Escape>>, esc |-> <<Escape>>,
     backspace |-> <<127>>, delete |-> Csi(<<"3", "~">>), del |-> Csi(<<"3", "~">>),
     space |-> <<32>>, plus |-> <<Plus>>,
     home |-> Csi(<<"H">>), end |-> Csi(<<"F">>),
     pageup |-> Csi(<<"5", "~">>), pgup |-> Csi(<<"5", "~">>),
     pagedown |-> Csi(<<"6", "~">>), pgdn |-> Csi(<<"6", "~">>),
     insert |-> Csi(<<"2", "~">>), ins |-> Csi(<<"2", "~">>),
     f1 |-> Ss3("P"), f2 |-> Ss3("Q"), f3 |-> Ss3("R"), f4 |-> Ss3("S"),
     f5 |-> Csi(<<"1", "5", "~">>), f6 |-> Csi(<<"1", "7", "~">>),
     f7 |-> Csi(<<"1", "8", "~">>), f8 |-> Csi(<<"1", "9", "~">>),
     f9 |-> Csi(<<"2", "0", "~">>), f10 |-> Csi(<<"2", "1", "~">>),
     f11 |-> Csi(<<"2", "3", "~">>), f12 |-> Csi(<<"2", "4", "~">>)]

KeyToBytes(key, appCursor) ==
    IF key \in DOMAIN Arrow THEN IF appCursor THEN Ss3(Arrow[key]) ELSE Csi(<<Arrow[key]>>)
    ELSE IF key \in DOMAIN NamedKey THEN NamedKey[key] ELSE Invalid

CtrlNames == {"ctrl", "control"}
AltNames == {"alt", "meta", "option"}
Modifiers == CtrlNames \cup AltNames \cup {"shift"}

ControlCode(code) ==
    IF IsUpper(ToUpper(code)) THEN <<ToUpper(code) - 64>>
    ELSE CASE code \in {Code["["], Code["3"]} -> <<27>>
           [] code \in {Code["\\"], Code["4"]} -> <<28>>
           [] code \in {Code["]"], Code["5"]} -> <<29>>
           [] code \in {Code["^"], Code["6"]} -> <<30>>
           [] code \in {Code["_"], Code["7"]} -> <<31>>
           [] code \in {Code["@"], Code["2"], Code[" "]} -> <<0>>
           [] code = Code["?"] -> <<127>>
           [] OTHER -> Invalid

CharBytes(char, ctrl, shift) ==
    LET code == IF shift THEN ToUpper(Code[char]) ELSE Code[char]
    IN IF ctrl THEN ControlCode(code) ELSE <<code>>

\* The last part that is no modifier is the key; the others of them are lost.
KeyPart(parts) ==
    LET keys == SelectSeq(parts, LAMBDA p : p \notin Modifiers)
    IN IF keys = <<>> THEN "" ELSE Last(keys)

\* A fault: the Escape goes behind the key.
AltedSuffix(parts, bytes) ==
    IF bytes # Invalid /\ ToSet(parts) \cap AltNames # {} THEN bytes \o <<Escape>> ELSE bytes

Alted(parts, bytes) ==
    IF bytes # Invalid /\ ToSet(parts) \cap AltNames # {} THEN <<Escape>> \o bytes ELSE bytes

ParseKeyCombo(parts, appCursor) ==
    LET key == KeyPart(parts)
        ctrl == ToSet(parts) \cap CtrlNames # {}
        named == KeyToBytes(key, appCursor)
    IN IF ctrl /\ key = "space" THEN Alted(parts, <<0>>)
       ELSE IF named # Invalid THEN Alted(parts, named)
       ELSE IF key \in Chars THEN Alted(parts, CharBytes(key, ctrl, "shift" \in ToSet(parts)))
       ELSE Invalid

\* A token that is no combo can still be the plus sign by itself.
ParseToken(parts, appCursor) ==
    IF parts = <<"", "">> THEN <<Plus>> ELSE ParseKeyCombo(parts, appCursor)

ParseKeySequence(tokens, appCursor) ==
    LET keys == [i \in DOMAIN tokens |-> ParseToken(tokens[i], appCursor)]
    IN IF tokens = <<>> \/ Invalid \in ToSet(keys) THEN Invalid ELSE keys
-----------------------------------------------------------------------------
(* The mouse, with 16-bit coordinates counted from one on the wire.         *)

MaxU16 == 65535
SaturatingNext(n) == IF n = MaxU16 THEN MaxU16 ELSE n + 1

\* A report: its introducer, three numbers (digit by digit in the code), M or m.
MouseReport(button, col, row, final) ==
    Csi(<<"<">>) \o <<button, SaturatingNext(col), SaturatingNext(row)>> \o Codes(<<final>>)

EncodeClick(col, row) == MouseReport(0, col, row, "M") \o MouseReport(0, col, row, "m")

EncodeScroll(up, col, row) == MouseReport(IF up THEN 64 ELSE 65, col, row, "M")
-----------------------------------------------------------------------------
(* What a text can say.                                                     *)

\* A byte in hexadecimal, and as short as it can be written.
HexDigits == [d \in 0..15 |-> IF d < 10 THEN 48 + d ELSE 87 + d]
InHex(byte) == <<Backslash, LetterX, HexDigits[byte \div 16], HexDigits[byte % 16]>>

Printing(byte) == byte \in 32..126
Short(byte) ==
    IF \E e \in DOMAIN SimpleEscape : SimpleEscape[e] = byte
    THEN <<Backslash, CHOOSE e \in DOMAIN SimpleEscape : SimpleEscape[e] = byte>>
    ELSE IF Printing(byte) THEN <<byte>> ELSE InHex(byte)

\* Bytes spelled one by one, some of them in hexadecimal.
Spelled(bytes, hex) ==
    FlattenSeq([i \in DOMAIN bytes |-> IF i \in hex THEN InHex(bytes[i]) ELSE Short(bytes[i])])

\* No backslash of the text begins an escape.
Literal(text) ==
    \A i \in DOMAIN text :
        text[i] = Backslash =>
            /\ NextAt(text, i) \notin DOMAIN SimpleEscape
            /\ ~(NextAt(text, i) = LetterX /\ IsHexByte(HexAt(text, i)))

EveryTextAsTyped ==
    /\ \A bytes \in ByteStrings : \A hex \in SUBSET DOMAIN bytes : EncodeText(Spelled(bytes, hex)) = bytes
    /\ \A text \in Texts : Literal(text) => EncodeText(text) = Wide(text)
=============================================================================
