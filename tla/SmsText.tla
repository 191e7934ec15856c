-------------------------------- MODULE SmsText --------------------------------
(***************************************************************************)
(* The text of a short message on its way: smsEncode.js packs it into      *)
(* parts (buildSubmitParts), the network delivers the parts in any order,  *)
(* parse.js takes them apart (decodeIncomingPdu). 7-bit text is packed bit *)
(* by bit; the concatenation header comes before it as octets and is       *)
(* filled up to a septet. UCS-2 text is a sequence of units, a character   *)
(* outside the basic plane being two.                                      *)
(*                                                                         *)
(* The capacity of a part is a constant, so that short texts need several. *)
(***************************************************************************)
EXTENDS Naturals, Sequences, FiniteSets, SequencesExt

CONSTANTS
    Octets,         \* user data of a part: 140
    Typed,          \* the characters that are typed
    MaxChars        \* bound: how many

\* A character and what stands for it: "at" is septet 0, "euro" is in the
\* extension table, "emoji" takes two units of UCS-2.
Chars == {"at", "a", "euro", "emoji"}
Esc == 27
EuroCode == 101
Code(c) == CASE c = "at" -> 0 [] c = "a" -> 97
IsExt(c) == c = "euro"
Units(c) == IF c = "emoji" THEN <<"high", "low">> ELSE <<c>>

\* GSM7_MAX, GSM7_MAX_UDH, UCS2_MAX and UCS2_MAX_UDH, in septets and in units.
GsmMax == (Octets * 8) \div 7
GsmMaxUdh == (Octets * 8 - 49) \div 7
UcsMax == Octets \div 2
UcsMaxUdh == (Octets - 6) \div 2

VARIABLES
    message,        \* the characters typed
    parts,          \* parts under way: [enc, header, data, udl]
    received        \* parts decoded: [partial, content]

vars == <<message, parts, received>>

-----------------------------------------------------------------------------
(* smsEncode.js                                                            *)

NeedsUcs2(m) == \E i \in DOMAIN m : m[i] = "emoji"

\* Mutant: every character counts one.
SeptetsOne(m) == Len(m)

\* totalSeptets, msgSeptets
TotalSeptets(m) == Len(m) + Cardinality({i \in DOMAIN m : IsExt(m[i])})

\* gsm7Chunks
Gsm7Chunks(m) ==
    LET cut[n \in 0..Len(m)] ==
            IF n = 0 THEN [done |-> <<>>, tmp |-> <<>>, s |-> 0]
            ELSE LET acc == cut[n - 1]
                     s == IF IsExt(m[n]) THEN 2 ELSE 1
                 IN IF acc.s + s > GsmMaxUdh /\ acc.tmp # <<>>
                    THEN [done |-> Append(acc.done, acc.tmp), tmp |-> <<m[n]>>, s |-> s]
                    ELSE [acc EXCEPT !.tmp = Append(@, m[n]), !.s = @ + s]
        end == cut[Len(m)]
    IN IF end.tmp = <<>> THEN end.done ELSE Append(end.done, end.tmp)

AllUnits(m) == FlattenSeq([i \in DOMAIN m |-> Units(m[i])])

\* Mutant: the cut comes where the part is full.
CutAnywhere(units, end) == end

\* The cut goes back before a pair.
CutBefore(units, end) ==
    IF end < Len(units) /\ units[end] = "high" /\ units[end + 1] = "low" THEN end - 1 ELSE end

\* ucs2Chunks
Ucs2Chunks(units) ==
    LET from[start \in 0..Len(units)] ==
            IF start = Len(units) THEN <<>>
            ELSE LET end == CutBefore(units, IF start + UcsMaxUdh < Len(units) THEN start + UcsMaxUdh ELSE Len(units))
                 IN <<SubSeq(units, start + 1, end)>> \o from[end]
    IN from[0]

\* pushBits for each value: the lowest bit comes first.
BitsOf(values, width) ==
    [k \in 1..(width * Len(values)) |-> (values[(k - 1) \div width + 1] \div 2^((k - 1) % width)) % 2]

Septets(m) ==
    FlattenSeq([i \in DOMAIN m |-> IF IsExt(m[i]) THEN <<Esc, EuroCode>> ELSE <<Code(m[i])>>])

\* packSeptets
PackSeptets(m) == BitsOf(Septets(m), 7)

\* The value of the seven or eight bits after the first n; what is not there is zero.
Number(bits, n, width) ==
    LET At(k) == IF k <= width /\ n + k \in DOMAIN bits THEN bits[n + k] * 2^(k - 1) ELSE 0
    IN At(1) + At(2) + At(3) + At(4) + At(5) + At(6) + At(7) + At(8)

\* bitsToOctets: what is left over makes an octet of its own.
ToOctets(bits) == [k \in 1..((Len(bits) + 7) \div 8) |-> Number(bits, 8 * (k - 1), 8)]

\* An octet for the number of the parts and one for that of this part.
Header(total, seq) == <<5, 0, 3, 1, total % 256, seq % 256>>

\* Mutant: the text follows the header at once.
FilledNot(bits) == bits

\* The header is filled up to a septet.
Filled(bits) == bits \o [i \in 1..((7 - (Len(bits) % 7)) % 7) |-> 0]

\* buildUserData: the length counts septets, header and fill included, or octets.
UserData(text, udh, enc) ==
    IF enc = "UCS2"
    THEN [enc |-> enc, udhi |-> udh # <<>>, header |-> udh, data |-> text,
          udl |-> Len(udh) + 2 * Len(text)]
    ELSE [enc |-> enc, udhi |-> udh # <<>>, header |-> <<>>,
          data |-> ToOctets(Filled(BitsOf(udh, 8)) \o PackSeptets(text)),
          udl |-> (Len(udh) * 8 + 6) \div 7 + TotalSeptets(text)]

\* A text that fits goes as it is, another in chunks with a header.
Chunked(chunks, enc) ==
    [i \in DOMAIN chunks |-> UserData(chunks[i], Header(Len(chunks), i), enc)]

\* buildSubmitParts
SubmitParts(m) ==
    IF NeedsUcs2(m)
    THEN IF Len(AllUnits(m)) <= UcsMax THEN <<UserData(AllUnits(m), <<>>, "UCS2")>>
         ELSE Chunked(Ucs2Chunks(AllUnits(m)), "UCS2")
    ELSE IF TotalSeptets(m) <= GsmMax THEN <<UserData(m, <<>>, "7bit")>>
         ELSE Chunked(Gsm7Chunks(m), "7bit")

\* Mutant: the number shown goes by the characters.
StatsByChars(m) == IF Len(m) <= UcsMax THEN 1 ELSE (Len(m) + UcsMaxUdh - 1) \div UcsMaxUdh

\* messageStats: how many the page says it will be.
Stats(m) ==
    IF m = <<>> THEN 0
    ELSE IF NeedsUcs2(m)
    THEN IF Len(AllUnits(m)) <= UcsMax THEN 1 ELSE Len(Ucs2Chunks(AllUnits(m)))
    ELSE IF TotalSeptets(m) <= GsmMax THEN 1 ELSE Len(Gsm7Chunks(m))

-----------------------------------------------------------------------------
(* parse.js                                                                *)

\* unpackSeptets: as many as are asked for and there are, no fill bits.
UnpackSeptets(octets, count) ==
    LET bits == BitsOf(octets, 8)
        n == IF count * 7 <= Len(bits) THEN count ELSE Len(bits) \div 7
    IN [i \in 1..n |-> Number(bits, 7 * (i - 1), 7)]

Plain(septet) == CASE septet = 0 -> "at" [] septet = 97 -> "a" [] OTHER -> "?"

\* septetsToString
Text(septets) ==
    LET from[n \in 0..Len(septets)] ==
            IF n = Len(septets) THEN <<>>
            ELSE IF septets[n + 1] = Esc /\ n + 1 < Len(septets) /\ septets[n + 2] = EuroCode
                 THEN <<"euro">> \o from[n + 2]
            ELSE <<Plain(septets[n + 1])>> \o from[n + 1]
    IN from[0]

\* Mutant: the count and the number of a part change places.
PartialSwapped(octets) ==
    IF octets[1] >= 5 /\ octets[2] = 0 /\ octets[3] >= 3
    THEN [part_number |-> octets[5], parts_count |-> octets[6]]
    ELSE [part_number |-> 1, parts_count |-> 1]

\* The first information element of the header, 8-bit concatenation.
Partial(octets) ==
    IF octets[1] >= 5 /\ octets[2] = 0 /\ octets[3] >= 3
    THEN [parts_count |-> octets[5], part_number |-> octets[6]]
    ELSE [parts_count |-> 1, part_number |-> 1]

WholeMessage == [parts_count |-> 1, part_number |-> 1]

\* decodeIncomingPdu: the user data is cut to its length, the septets are read
\* from its start and those of the header skipped.
Decode(p) ==
    IF p.enc = "UCS2"
    THEN [partial |-> IF p.udhi THEN Partial(p.header) ELSE WholeMessage, content |-> p.data]
    ELSE LET length == (p.udl * 7 + 7) \div 8
             ud == SubSeq(p.data, 1, IF length < Len(p.data) THEN length ELSE Len(p.data))
             skipped == IF p.udhi THEN ((ud[1] + 1) * 8 + 6) \div 7 ELSE 0
             septets == UnpackSeptets(ud, p.udl)
         IN [partial |-> IF p.udhi THEN Partial(ud) ELSE WholeMessage,
             content |-> Text(SubSeq(septets, skipped + 1, Len(septets)))]

-----------------------------------------------------------------------------

TextInit == message = <<>> /\ parts = <<>> /\ received = {}

Type(c) ==
    /\ parts = <<>> /\ Len(message) < MaxChars
    /\ message' = Append(message, c)
    /\ UNCHANGED <<parts, received>>

\* Addresses, validity and coding of a part (buildTpdu) are left out.
Send ==
    /\ parts = <<>> /\ message # <<>>
    /\ parts' = SubmitParts(message)
    /\ UNCHANGED <<message, received>>

\* The network delivers a part, in any order.
Deliver(i) ==
    /\ i \in DOMAIN parts
    /\ \A r \in received : r.partial.part_number # i
    /\ received' = received \union {Decode(parts[i])}
    /\ UNCHANGED <<message, parts>>

TextNext ==
    \/ \E c \in Typed : Type(c)
    \/ Send
    \/ \E i \in 1..MaxChars : Deliver(i)

TextSpec == TextInit /\ [][TextNext]_vars

-----------------------------------------------------------------------------
(* Properties                                                              *)

TextTypeOK ==
    message \in Seq(Chars) /\ \A r \in received : r.partial.parts_count = Len(parts) % 256

\* Every part fits into a message of the network.
PartsFit ==
    \A i \in DOMAIN parts :
        IF parts[i].enc = "UCS2" THEN parts[i].udl <= Octets
        ELSE Len(parts[i].data) <= Octets /\ parts[i].udl * 7 <= Octets * 8

\* The parts that have arrived, in their order.
Joined ==
    FlattenSeq([i \in 1..Len(parts) |-> (CHOOSE r \in received : r.partial.part_number = i).content])

\* What arrives is what was typed, character for character: nothing is shifted by
\* a bit, cut off or added at the end. (The header counts the parts in an octet.)
ArrivesAsTyped ==
    Len(parts) \in 1..255 /\ Cardinality(received) = Len(parts) =>
        Joined = IF NeedsUcs2(message) THEN AllUnits(message) ELSE message

\* A part that comes alone shows whole characters: no pair is cut in two.
WholeCharacters ==
    \A r \in received :
        /\ r.content[1] # "low" /\ r.content[Len(r.content)] # "high"

\* The number of messages that the page tells is the number that is sent.
CountIsTrue == parts # <<>> => Len(parts) = Stats(message)

\* What the bounds are: a part has room for its header and two units.
TextBounds == Typed \subseteq Chars /\ Octets \in Nat /\ Octets >= 10

\* Why: once the text has been sent it stays as it is, and what arrives are its parts.
TextInv ==
    /\ message \in Seq(Chars)
    /\ parts # <<>> => message # <<>> /\ parts = SubmitParts(message)
    /\ received \subseteq {Decode(parts[i]) : i \in DOMAIN parts}
=============================================================================
