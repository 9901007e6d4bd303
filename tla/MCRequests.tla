----------------------------- MODULE MCRequests -----------------------------
(* Values of the constants of Requests for TLC, and the meaning of keys.    *)
EXTENDS Requests

CONSTANTS c1, c2

Tokens(names) == [i \in DOMAIN names |-> <<names[i]>>]
Key(keys, delay) == [op |-> "key", keys |-> keys, delay |-> delay]

Inputs ==
    {[op |-> "type", text |-> <<97, Backslash, 110>>],
     Key(<<<<"ctrl", "x">>, <<"up">>>>, 1), Key(<<<<"ctrl", "!">>>>, 0), Key(Tokens(<<"a", "b", "c">>), 0),
     Key(Tokens(<<"a">>), 2), [op |-> "scroll", up |-> FALSE, amount |-> 3],
     [op |-> "scroll", up |-> FALSE, amount |-> 2], [op |-> "scroll", up |-> TRUE], [op |-> "resize", cols |-> 100, rows |-> 30]}

Others ==
    {[op |-> "kill"], [op |-> "status"], [op |-> "snapshot", settle |-> 1, strict |-> TRUE], [op |-> "list"],
     [op |-> "output"], [op |-> "examples"],
     [op |-> "resize", cols |-> 40, rows |-> 10], [op |-> "resize", cols |-> 0, rows |-> 10],
     [op |-> "click", col |-> 7, row |-> MaxU16]}

\* Everybody current, older clients, an older daemon.
Versions(v1, v2, d) == [clients |-> [c \in Clients |-> IF c = c1 THEN v1 ELSE v2], daemon |-> d]
MixedPeers == {Versions(3, 3, 3), Versions(0, 2, 3), Versions(3, 0, 3), Versions(3, 3, 0), Versions(3, 3, 2)}

\* Every stream of up to five bytes.
ShortStreams == UNION {[1..n -> Bytes] : n \in 0..5}

\* Bytes with an escape of their own, bytes that mean something in one, others.
SampleBytes == {9, 10, 13, Backslash, Plus, LetterX, 51, 97, 110, 0, 255}
ShortByteStrings == UNION {[1..n -> SampleBytes] : n \in 0..3}

\* Every text of up to five characters, one of them wide.
ShortTexts == UNION {[1..n -> {Backslash, Plus, LetterX, 51, 110, 233}] : n \in 0..5}

InputAndOther == [c \in Clients |-> IF c = c1 THEN Inputs ELSE Others]
-----------------------------------------------------------------------------
SomeKeys == {"up", "tab", "f5", "a", "Z", "[", "5"}
CanonicalKeys ==
    {"up", "down", "left", "right", "enter", "tab", "escape", "backspace", "delete", "home", "end",
     "pageup", "pagedown", "insert"} \cup {"f1", "f2", "f3", "f4", "f5", "f6", "f7", "f8", "f9", "f10", "f11", "f12"}

EveryKeyAsNamed ==
    \A mode \in BOOLEAN :
        /\ \A k, l \in CanonicalKeys \cup Chars :
               ParseToken(<<k>>, mode) = ParseToken(<<l>>, mode) => k = l
        /\ \A m \in Modifiers, n \in Modifiers, k \in SomeKeys :
               /\ ParseToken(<<m, n, k>>, mode) = ParseToken(<<n, k, m>>, mode)
               /\ LET plain == ParseToken(<<m, k>>, mode)
                  IN m \notin AltNames /\ plain # Invalid =>
                         ParseToken(<<"alt", m, k>>, mode) = <<Escape>> \o plain
        /\ \A i \in 65..90 : \A k \in {Printable[i - 31], Printable[i + 1]} :
               ParseToken(<<"ctrl", k>>, mode) = <<i - 64>>
        /\ \A k \in DOMAIN Arrow : ParseToken(<<k>>, mode)[2] = IF mode THEN Code["O"] ELSE Code["["]

\* The names of keys decide what is sent: different keys without modifiers never
\* send the same bytes, modifiers may come in any order and on either side, alt
\* puts one Escape in front, and control makes one byte of a letter of either case.
KeysAsNamed == Requested("key") => EveryKeyAsNamed
=============================================================================
