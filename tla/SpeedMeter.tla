------------------------------ MODULE SpeedMeter ------------------------------
(***************************************************************************)
(* The data rate of the overview (network_status.js, sampleRate): the      *)
(* difference of two readings of the interface's counters, taken a second  *)
(* apart while the page is in sight. The counters may not be readable, they *)
(* start again when the interface is set up anew, and the device changes   *)
(* when the interface is another one.                                      *)
(***************************************************************************)
EXTENDS Integers

CONSTANTS MaxTime, MaxBytes, MaxResets

Unread == -1

VARIABLES
    inSight,        \* the page is in sight
    period,         \* history: number of the present period in sight
    now,            \* time; bound MaxTime
    counter,        \* the counter of the interface
    device,         \* which device it is
    sample,         \* rateSample: [at, rx, dev, period], or NoSample
    request,        \* rateInFlight: what it will answer, or NoRequest
    speed,          \* [bytes, time] that the shown rate rests on
    resets          \* bound: new interfaces

meterVars == <<inSight, period, now, counter, device, sample, request, speed, resets>>

NoSample == [at |-> 0, rx |-> Unread, dev |-> 0, period |-> 0]
NoRequest == [rx |-> Unread, dev |-> 0, sent |-> FALSE]
NoSpeed == [bytes |-> 0, time |-> 1, period |-> 0]

MeterInit ==
    /\ inSight \in BOOLEAN /\ period = 1 /\ now = 1 /\ counter = 0 /\ device = 1
    /\ sample = NoSample /\ request = NoRequest /\ speed = NoSpeed /\ resets = MaxResets

Passes ==
    /\ now < MaxTime /\ now' = now + 1
    /\ counter' \in counter..MaxBytes
    /\ UNCHANGED <<inSight, period, device, sample, request, speed, resets>>

\* The interface is set up anew, perhaps as another device.
Resets ==
    /\ resets > 0 /\ resets' = resets - 1
    /\ counter' = 0 /\ device' \in {device, 3 - device}
    /\ UNCHANGED <<inSight, period, now, sample, request, speed>>

\* One request at a time.
Sample ==
    /\ inSight /\ ~request.sent
    /\ request' \in {[rx |-> counter, dev |-> device, sent |-> TRUE],
                     [rx |-> Unread, dev |-> device, sent |-> TRUE]}
    /\ UNCHANGED <<inSight, period, now, counter, device, sample, speed, resets>>

\* Mutant: a counter that has gone back counts as it stands.
RateAsRead(d) == d

\* A counter that has gone back gives no negative rate.
Rate(d) == IF d >= 0 THEN d ELSE 0

\* The answer: a rate if the last sample is of the same device and both could
\* be read; too soon after it (dt < 0.2 s), nothing at all.
Sampled ==
    /\ request.sent /\ request' = NoRequest
    /\ LET new == [at |-> now, rx |-> request.rx, dev |-> request.dev, period |-> period]
           both == sample.rx # Unread /\ request.rx # Unread
       IN \/ /\ sample # NoSample /\ sample.dev = request.dev /\ both /\ now > sample.at
             /\ speed' = [bytes |-> Rate(request.rx - sample.rx), time |-> now - sample.at,
                          period |-> IF sample.period = period THEN 0 ELSE 1]
             /\ sample' = new
          \/ /\ sample # NoSample /\ sample.dev = request.dev /\ both /\ now <= sample.at
             /\ UNCHANGED <<speed, sample>>
          \/ /\ sample = NoSample \/ sample.dev # request.dev \/ ~both
             /\ sample' = new /\ UNCHANGED speed
    /\ UNCHANGED <<inSight, period, now, counter, device, resets>>

\* netRate fails: the sample goes, and the rate is 0.
SampleFails ==
    /\ request.sent /\ request' = NoRequest
    /\ sample' = NoSample /\ speed' = NoSpeed
    /\ UNCHANGED <<inSight, period, now, counter, device, resets>>

Hide ==
    /\ inSight /\ inSight' = FALSE
    /\ UNCHANGED <<period, now, counter, device, sample, request, speed, resets>>

\* Mutant: the sample that was taken before the page was hidden is still used.
KeepsSample == sample

\* Back in sight the rate starts anew.
DropsSample == NoSample

Show ==
    /\ ~inSight /\ now < MaxTime /\ inSight' = TRUE /\ period' = period + 1 /\ now' = now + 1
    /\ sample' = DropsSample
    /\ UNCHANGED <<counter, device, request, speed, resets>>

MeterNext == Passes \/ Resets \/ Sample \/ Sampled \/ SampleFails \/ Hide \/ Show

MeterSpec == MeterInit /\ [][MeterNext]_meterVars

-----------------------------------------------------------------------------
\* The rate on the page is one that the interface can have had: it is taken
\* from two readings of one device in one period in sight, over a time that is
\* not 0, and is neither negative nor more than all that was ever counted.
RateIsReal ==
    /\ speed.period = 0 /\ speed.time > 0
    /\ speed.bytes \in 0..MaxBytes

\* What the bounds are, and why: a sample that is kept is one of the present
\* period, and what was read of a counter was on it.
MeterBounds == MaxBytes \in Nat
Readings == {Unread} \union 0..MaxBytes

MeterInv ==
    /\ now \in Nat /\ counter \in 0..MaxBytes
    /\ sample.at \in Nat /\ sample.rx \in Readings /\ request.rx \in Readings
    /\ sample = NoSample \/ sample.period = period
    /\ RateIsReal
=============================================================================
