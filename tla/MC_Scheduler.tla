---------------------------- MODULE MC_Scheduler ----------------------------
(* A small instance of Scheduler for TLC: configurations and disturbances.  *)
EXTENDS Scheduler

Pair(l, n) == [lte |-> l, nr |-> n]

Conf(airplane, night, day) ==
    [enabled |-> TRUE, airplane |-> airplane, unlockLte |-> TRUE,
     unlockNr |-> TRUE, on |-> [p \in Periods |-> TRUE],
     lock |-> [p \in Periods |-> IF p = "night" THEN night ELSE day]]

NightAndDay  == Conf(TRUE, Pair("A", "A"), Pair("B", "B"))
NightOnly    == [Conf(TRUE, Pair("B", "A"), Pair("B", "B")) EXCEPT !.on["day"] = FALSE]
SwitchedOff  == [NightAndDay EXCEPT !.enabled = FALSE]
KeepLte      == [NightOnly EXCEPT !.unlockLte = FALSE]
Mismatched   == Conf(TRUE, Pair("odd", "A"), Pair("B", "bad"))
KeepRadio    == Conf(FALSE, Pair("A", "B"), Pair("B", "A"))

BandsAB     == {"A", "B"}
Ample       == {NightAndDay, KeepLte, Mismatched, SwitchedOff, KeepRadio}

\* Bounds on the disturbances: commands that fail, with a period that ends, a
\* change of configuration and a restart; periods that end and come back around
\* a failure; two changes of configuration around one; an outage with a change;
\* an outage with scans.
Nothing     == [d \in Disturbances |-> 0]
Failures    == [Nothing EXCEPT !["fault"] = 2, !["flip"] = 1, !["change"] = 1,
                               !["restart"] = 1]
Flips       == [Nothing EXCEPT !["fault"] = 2, !["flip"] = 2, !["cell"] = 1]
Changes     == [Nothing EXCEPT !["fault"] = 1, !["flip"] = 1, !["change"] = 2]
Outage      == [Nothing EXCEPT !["fault"] = 1, !["change"] = 1, !["outage"] = 1,
                               !["cell"] = 1]
Scans       == [Nothing EXCEPT !["fault"] = 1, !["outage"] = 1, !["scan"] = 1,
                               !["cell"] = 1]
EachTrouble == {Failures, Flips, Changes, Outage, Scans}
=============================================================================
