----------------------------- MODULE ConsulJson -----------------------------
(***************************************************************************)
(* The answer of ngx_http_consul_service_discovery_module: how many octets *)
(* are reserved for it, and what is written into them.  A text is a        *)
(* sequence of characters, each a string of length one.                    *)
(***************************************************************************)
EXTENDS Integers, Sequences, SequencesExt

Chars(text) == [i \in 1..Len(text) |-> SubSeq(text, i, i)]

\* The characters below 0x20 other than the three that have a letter of their own: one
\* stands for all.
Quoting == [c \in {"\"", "\\", "\n", "\r", "\t"} |->
              CASE c = "\n" -> "n" [] c = "\r" -> "r" [] c = "\t" -> "t" [] OTHER -> c]
Control == {"\f"}

Each(op(_), seq) == [i \in 1..Len(seq) |-> op(seq[i])]

Total(lengths) == FoldLeft(LAMBDA sum, n : sum + n, 0, lengths)

\* One comma less than there are elements.
Commas(seq) == IF seq = <<>> THEN 0 ELSE Len(seq) - 1

-----------------------------------------------------------------------------
(* The length pass                                                         *)

\* Mutant of EscapeLen: a control character is taken for a plain one.
EscapeLenShort(s) == Total(Each(LAMBDA c : IF c \in DOMAIN Quoting THEN 2 ELSE 1, s))

EscapeLen(s) ==
    Total(Each(LAMBDA c : IF c \in DOMAIN Quoting THEN 2 ELSE IF c \in Control THEN 6 ELSE 1, s))

JStrLen(s) == 2 + EscapeLen(s)

IntLen(n) ==
    LET size == IF n < 0 THEN -n ELSE n
        digits[k \in 0..size] == IF k < 10 THEN 1 ELSE 1 + digits[k \div 10]
    IN  (IF n < 0 THEN 1 ELSE 0) + digits[size]

\* A member that is only there if its value is not empty.
OptionLen(key, s) == IF s = <<>> THEN 0 ELSE Len(key) + JStrLen(s)

CheckLen(ck) ==
    1 + Len("\"name\":") + JStrLen(ck.name)
    + 2 + JStrLen(ck.type) + 1 + JStrLen(ck.target)
    + OptionLen(",\"interval\":", ck.interval) + OptionLen(",\"timeout\":", ck.timeout) + 1

PairLen(kv) == JStrLen(kv[1]) + 1 + JStrLen(kv[2])

MetaLen(meta) ==
    IF meta = <<>> THEN 0 ELSE Len(",\"meta\":{") + Commas(meta) + Total(Each(PairLen, meta)) + 1

ChecksLen(checks) ==
    IF checks = <<>> THEN 0 ELSE Len(",\"checks\":[") + Commas(checks) + Total(Each(CheckLen, checks)) + 1

ServiceLen(sv) ==
    1 + Len("\"id\":") + JStrLen(sv.id) + 1
    + Len("\"name\":") + JStrLen(sv.name) + 1
    + Len("\"address\":") + JStrLen(sv.address) + 1
    + Len("\"port\":") + IntLen(sv.port) + 1
    + Len("\"tags\":[") + Commas(sv.tags) + Total(Each(JStrLen, sv.tags)) + 1
    + MetaLen(sv.meta) + ChecksLen(sv.checks) + 1

JsonLen(services) == Len("{\"services\":[]}") + Commas(services) + Total(Each(ServiceLen, services))

-----------------------------------------------------------------------------
(* The writing pass                                                        *)

Escape(s) ==
    FlattenSeq([i \in 1..Len(s) |->
        IF s[i] \in DOMAIN Quoting THEN <<"\\", Quoting[s[i]]>>
        ELSE IF s[i] \in Control THEN <<"\\", "u", "0", "0", "0", "c">>
        ELSE <<s[i]>>])

JStr(s) == <<"\"">> \o Escape(s) \o <<"\"">>

\* What n octets of a literal are, and the elements of a list with commas between them.
Copy(text, n) == [i \in 1..n |-> SubSeq(text, i, i)]
Listed(elements) ==
    FlattenSeq([i \in 1..Len(elements) |-> (IF i > 1 THEN <<",">> ELSE <<>>) \o elements[i]])

\* ngx_sprintf of a port: %i
Printed(n) ==
    LET digit == <<"0", "1", "2", "3", "4", "5", "6", "7", "8", "9">>
        text[k \in 0..n] ==
            IF k < 10 THEN <<digit[k + 1]>> ELSE text[k \div 10] \o <<digit[(k % 10) + 1]>>
    IN  text[n]

Option(key, n, s) == IF s = <<>> THEN <<>> ELSE Copy(key, n) \o JStr(s)

\* Mutant of Check: the option that is empty is written all the same.
CheckFull(ck) ==
    <<"{">> \o Copy("\"name\":", 7) \o JStr(ck.name)
    \o <<",">> \o JStr(ck.type) \o <<":">> \o JStr(ck.target)
    \o Copy(",\"interval\":", 12) \o JStr(ck.interval) \o Option(",\"timeout\":", 11, ck.timeout) \o <<"}">>

Check(ck) ==
    <<"{">> \o Copy("\"name\":", 7) \o JStr(ck.name)
    \o <<",">> \o JStr(ck.type) \o <<":">> \o JStr(ck.target)
    \o Option(",\"interval\":", 12, ck.interval) \o Option(",\"timeout\":", 11, ck.timeout) \o <<"}">>

Pair(kv) == JStr(kv[1]) \o <<":">> \o JStr(kv[2])

Meta(meta) ==
    IF meta = <<>> THEN <<>> ELSE Copy(",\"meta\":{", 9) \o Listed(Each(Pair, meta)) \o <<"}">>

Checks(checks) ==
    IF checks = <<>> THEN <<>> ELSE Copy(",\"checks\":[", 11) \o Listed(Each(Check, checks)) \o <<"]">>

Service(sv) ==
    <<"{">>
    \o Copy("\"id\":", 5) \o JStr(sv.id) \o <<",">>
    \o Copy("\"name\":", 7) \o JStr(sv.name) \o <<",">>
    \o Copy("\"address\":", 10) \o JStr(sv.address) \o <<",">>
    \o Copy("\"port\":", 7) \o Printed(sv.port) \o <<",">>
    \o Copy("\"tags\":[", 8) \o Listed(Each(JStr, sv.tags)) \o <<"]">>
    \o Meta(sv.meta) \o Checks(sv.checks) \o <<"}">>

JsonFill(services) ==
    Copy("{\"services\":[", 13) \o Listed(Each(Service, services)) \o Copy("]}", 2)

\* The static answer while there is no service.
Empty == Chars("{\"services\":[]}")

-----------------------------------------------------------------------------
(* The literals in the code, character by character                        *)

Key(text) == JStr(Chars(text)) \o <<":">>

\* What the writing pass puts between texts, before a character and for one.
ASSUME CharacterAssumption ==
    /\ {"\"", "\\", "u", "0", "1", "2", "3", "4", "5", "6", "7", "8", "9", "c", ",", ":", "{", "}", "[", "]"}
         \subseteq STRING
    /\ \A c \in DOMAIN Quoting : Quoting[c] \in STRING

ASSUME KeyAssumption ==
    /\ {Chars("id"), Chars("name"), Chars("address"), Chars("port"), Chars("tags"), Chars("meta"),
        Chars("checks"), Chars("interval"), Chars("timeout"), Chars("services")} \subseteq Seq(STRING)
    /\ Copy("\"id\":", 5) = Key("id")
    /\ Copy("\"name\":", 7) = Key("name")
    /\ Copy("\"address\":", 10) = Key("address")
    /\ Copy("\"port\":", 7) = Key("port")
    /\ Copy("\"tags\":[", 8) = Key("tags") \o <<"[">>
    /\ Copy(",\"meta\":{", 9) = <<",">> \o Key("meta") \o <<"{">>
    /\ Copy(",\"checks\":[", 11) = <<",">> \o Key("checks") \o <<"[">>
    /\ Copy(",\"interval\":", 12) = <<",">> \o Key("interval")
    /\ Copy(",\"timeout\":", 11) = <<",">> \o Key("timeout")
    /\ Copy("{\"services\":[", 13) = <<"{">> \o Key("services") \o <<"[">>
    /\ Copy("]}", 2) = <<"]", "}">>
    /\ Empty = <<"{">> \o Key("services") \o <<"[", "]", "}">>

\* What sizeof() makes of them.
ASSUME SizeAssumption ==
    /\ Len("\"id\":") = 5 /\ Len("\"name\":") = 7 /\ Len("\"address\":") = 10
    /\ Len("\"port\":") = 7 /\ Len("\"tags\":[") = 8 /\ Len(",\"meta\":{") = 9
    /\ Len(",\"checks\":[") = 11 /\ Len(",\"interval\":") = 12 /\ Len(",\"timeout\":") = 11
    /\ Len("{\"services\":[]}") = 15

=============================================================================
