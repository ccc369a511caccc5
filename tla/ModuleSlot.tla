----------------------------- MODULE ModuleSlot -----------------------------
(***************************************************************************)
(* What the supervisor promises of each ModuleEntry object (src/src/       *)
(* supervisor.ts), with nothing said of pids, ports, probes or sleeps: a   *)
(* slot with at most one live child, restarted out of a bucket of tokens   *)
(* until it is asked to stop, and never after that.  Slots move together   *)
(* when one event of the hub touches several of them.                      *)
(***************************************************************************)
EXTENDS Integers

CONSTANTS
    Slots,
    Budget    \* SupervisorOpts.maxRestarts: children per sliding window

VARIABLES
    up,       \* a child of the slot is alive
    asked,    \* stop() or restart() has flagged the slot
    said,     \* the slot reads "stopped"
    credit    \* children it may still spawn inside the window

slots == <<up, asked, said, credit>>

Fresh(s) == ~up[s] /\ ~asked[s] /\ ~said[s] /\ credit[s] = Budget

Init ==
    /\ up = [s \in Slots |-> FALSE]
    /\ asked = [s \in Slots |-> FALSE]
    /\ said = [s \in Slots |-> FALSE]
    /\ credit = [s \in Slots |-> Budget]

Same(s) == /\ up'[s] = up[s] /\ asked'[s] = asked[s]
           /\ said'[s] = said[s] /\ credit'[s] = credit[s]

\* Only a slot nobody stops, with no live child, gets one, and pays for it.
Spawn(s) ==
    /\ ~up[s] /\ ~asked[s] /\ credit[s] > 0
    /\ up'[s] /\ ~asked'[s] /\ ~said'[s] /\ credit'[s] = credit[s] - 1

Exits(s) ==
    /\ up[s] /\ ~up'[s]
    /\ asked'[s] = asked[s] /\ said'[s] = said[s] /\ credit'[s] = credit[s]

\* Without a child the slot reads "stopped" at once.
Ask(s) ==
    /\ asked'[s] /\ (said'[s] => ~up[s])
    /\ up'[s] = up[s] /\ credit'[s] = credit[s]

Refill(s) ==   \* a crash leaves the sliding window
    /\ credit[s] < Budget /\ credit'[s] = credit[s] + 1
    /\ up'[s] = up[s] /\ asked'[s] = asked[s] /\ said'[s] = said[s]

\* stop() reports, or a crash handler that slept through it writes over that.
Report(s) ==
    /\ asked[s] /\ asked'[s] /\ ~up[s] /\ said'[s] # said[s]
    /\ up'[s] = up[s] /\ credit'[s] = credit[s]

\* The object is dropped: its hub died, or nothing refers to it any more.
Forget(s) == Fresh(s)'

Step(s) == Spawn(s) \/ Exits(s) \/ Ask(s) \/ Refill(s) \/ Report(s) \/ Forget(s)

Next == \A s \in Slots : Same(s) \/ Step(s)

Spec == Init /\ [][Next]_slots
=============================================================================
