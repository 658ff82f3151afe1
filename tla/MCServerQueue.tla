---------------------------- MODULE MCServerQueue ----------------------------
(* Small servers under small loads of the requests r1, r2 and r3.          *)
EXTENDS ServerQueue, TLC
CONSTANTS r1, r2, r3

Kinds(a, b, c) == (r1 :> a) @@ (r2 :> b) @@ (r3 :> c)

Base == [NSlots |-> 1, Kind |-> Kinds("completion", "completion", "completion"), WantSlot |-> Kinds(-1, -1, -1),
         Children |-> Kinds(0, 0, 0), BadTask |-> {}, MayFail |-> FALSE, MayLeave |-> {}, MaySleep |-> FALSE, MayStop |-> FALSE]

(* A queue in front of one slot, from which one client steps out.          *)
Line == [Base EXCEPT !.MayLeave = {r2}]
(* Everything that may go wrong: a rejected task, failures, a disconnect.  *)
Faults == [Base EXCEPT !.Kind = Kinds("completion", "completion", "metrics"), !.BadTask = {r2}, !.MayFail = TRUE, !.MayLeave = {r1}]
(* A parent with a child on two slots, and who wants one of these slots.   *)
Family == [Base EXCEPT !.NSlots = 2, !.WantSlot = Kinds(1, -1, -1), !.Children = Kinds(1, 0, 0)]
Pinned == [Family EXCEPT !.Kind = Kinds("completion", "action", "none"), !.WantSlot = Kinds(-1, 0, -1), !.MayFail = TRUE, !.MayLeave = {r1}]
(* Sleep and the end of the server.                                        *)
Sleepy == [Base EXCEPT !.Kind = Kinds("completion", "none", "metrics"), !.MayLeave = {r1}, !.MaySleep = TRUE, !.MayStop = TRUE]

AllSetups == {Line, Faults, Family, Pinned, Sleepy}
OnlySleepy == {Sleepy}
==============================================================================
