------------------------------- MODULE LongSms -------------------------------
(***************************************************************************)
(* Long messages put together: assemble_partial of rust/src/urc.rs. Each   *)
(* part has the sender, a reference and the number of parts, which are the *)
(* key of an entry, and its own number. Parts come in any order, again     *)
(* when the network sends them again, and with numbers that cannot be. The *)
(* table of entries has a limit, an entry a time to live.                  *)
(***************************************************************************)
EXTENDS Integers, Sequences, FiniteSets, Functions

CONSTANTS
    Messages,       \* messages, from 1
    Keys,           \* keys they may have
    Total,          \* parts of a message
    MaxPartial,     \* MAX_PARTIAL_SMS (100)
    MaxArrivals     \* bound: parts that come

VARIABLES
    partials,       \* per key: the parts of its entry, and whose they are
    age             \* the keys of the entries, the oldest first

VARIABLES           \* history
    keyOf,          \* the key of each message
    come,           \* parts that have come: <<message, number>>
    lost,           \* messages whose entry was evicted or has expired
    told,           \* texts announced: the message of each part
    arrivals        \* parts so far

vars == <<partials, age, keyOf, come, lost, told, arrivals>>

NoPart == 0
Empty == [n \in 1..(Total + 1) |-> NoPart]

LongInit ==
    /\ partials = [k \in Keys |-> Empty] /\ age = <<>>
    /\ keyOf \in [Messages -> Keys]
    /\ come = {} /\ lost = {} /\ told = {} /\ arrivals = 0

\* Entries that have expired, the n oldest, are taken out, then the oldest one
\* if there is no room: also when the part needs none.
Expired(n) == SubSeq(age, n + 1, Len(age))
RoomMade(order) == IF Len(order) >= MaxPartial THEN Tail(order) ELSE order

\* Mutant: as many parts as there must be.
AllCounted(parts) == Cardinality({n \in DOMAIN parts : parts[n] # NoPart}) >= Total

\* complete: every number from 1 to the total is there.
Complete(parts) == \A n \in 1..Total : parts[n] # NoPart

\* Mutant: the entry begins anew with each part.
EntryAnew(k, left) == Empty

\* The order without one key, which is in it once at the most.
Without(order, k) ==
    IF k \notin Range(order) THEN order
    ELSE LET i == CHOOSE n \in DOMAIN order : order[n] = k
         IN SubSeq(order, 1, i - 1) \o SubSeq(order, i + 1, Len(order))

\* The entry the part goes to.
Entry(k, left) == IF k \in Range(left) THEN partials[k] ELSE Empty

\* A part of message m with the number n, one past the total if it cannot be.
Arrives(m, n) ==
    /\ arrivals < MaxArrivals /\ arrivals' = arrivals + 1
    /\ come' = come \union {<<m, n>>}
    /\ \E old \in 0..Len(age) :
       LET k == keyOf[m]
           left == RoomMade(Expired(old))
           entry == [Entry(k, left) EXCEPT ![n] = m]
           kept == [j \in Keys |-> IF j \in Range(left) THEN partials[j] ELSE Empty]
           gone == Range(age) \ Range(left)
       IN  /\ lost' = lost \union {o \in Messages : keyOf[o] \in gone}
           /\ IF Complete(entry)
              THEN /\ told' = told \union {[i \in 1..Total |-> entry[i]]}
                   /\ partials' = [kept EXCEPT ![k] = Empty]
                   /\ age' = Without(left, k)
              ELSE /\ UNCHANGED told
                   /\ partials' = [kept EXCEPT ![k] = entry]
                   /\ age' = IF k \in Range(left) THEN left ELSE Append(left, k)
    /\ UNCHANGED keyOf

LongNext == \E m \in Messages, n \in 1..(Total + 1) : Arrives(m, n)

-----------------------------------------------------------------------------
(* Properties                                                              *)

\* Every variable has its type, and the table keeps to its limit.
LongTypeOK ==
    /\ Len(age) <= MaxPartial /\ Range(age) = {k \in Keys : partials[k] # Empty}
    /\ \A k \in Keys, n \in 1..(Total + 1) : partials[k][n] \in Messages \union {NoPart}

Alone(m) == \A o \in Messages \ {m} : keyOf[o] # keyOf[m]
All(m) == [n \in 1..Total |-> m]

\* A message all of whose parts have come, in whatever order and however often,
\* has been announced, if its key is its own and its entry was not evicted and
\* has not expired.
PartsMakeWhole ==
    \A m \in Messages \ lost :
        Alone(m) /\ (\A n \in 1..Total : <<m, n>> \in come) => All(m) \in told

\* A text that is announced has every part, and all of one message if its key is
\* its own.
ToldIsWhole ==
    \A t \in told, m \in Messages :
        Alone(m) /\ (\E n \in 1..Total : t[n] = m) => t = All(m)

\* What the bounds are.
LongBounds == Total \in Nat \ {0} /\ MaxPartial \in Nat \ {0} /\ NoPart \notin Messages

\* Why ToldIsWhole holds: an entry, and so a text that is told, is made of parts
\* with one key.
Parts == [1..(Total + 1) -> Messages \union {NoPart}]
OfOneKey(parts, k) == \A n \in 1..(Total + 1) : parts[n] # NoPart => keyOf[parts[n]] = k
LongInv ==
    /\ keyOf \in [Messages -> Keys]
    /\ partials \in [Keys -> Parts] /\ \A k \in Keys : OfOneKey(partials[k], k)
    /\ \A t \in told : t \in [1..Total -> Messages] /\ \E k \in Keys : \A n \in 1..Total : keyOf[t[n]] = k

\* And PartsMakeWhole: the parts of a message that have come wait in its entry, and
\* an entry that has all is not there any more.
WaitInv ==
    /\ age \in Seq(Keys) /\ \A k \in Keys : partials[k] # Empty => k \in Range(age)
    /\ \A k \in Keys : ~Complete(partials[k])
    /\ \A m \in Messages \ lost : Alone(m) /\ All(m) \notin told =>
          \A n \in 1..Total : <<m, n>> \in come => partials[keyOf[m]][n] = m
=============================================================================
