-------------------------- MODULE HubUpgradeProofs --------------------------
(***************************************************************************)
(* Theorems about HubUpgrade for any number of operations and of requests. *)
(*                                                                         *)
(* Most steps are Moves: a helper at work changes its own state, and at    *)
(* most the hub's requests are lost.  What they preserve is proved once;   *)
(* the steps that write a file or seed an operation are taken one by one.  *)
(***************************************************************************)
EXTENDS HubUpgrade, TLAPS

USE UpgradeAssumption DEF Ops, NoOp

Move(o) ==
    /\ Working(o)
    /\ helper' \in [Ops -> Helper]
    /\ helper'[o].at # "off"
    /\ \A p \in Ops \ {o} : helper'[p] = helper[p]
    /\ request' = request \/ request' = [r \in Requests |-> IdleRequest]
    /\ UNCHANGED <<host, lastOp, expired, disorder>>

\* A move that touches no file.
QuietMove(o) == Move(o) /\ helper'[o].io # "staged" /\ UNCHANGED <<slot, temp>>

-----------------------------------------------------------------------------
LEMMA HelperFields ==
    ASSUME NEW h \in Helper
    PROVE  /\ h.at \in {"off", "boot", "upgrading", "failing", "restart", "reporting",
                        "signal", "done", "dead"}
           /\ h.io \in {"none", "read", "staged"}
           /\ h.copy \in Status \cup {NoStatus}
BY DEF Helper

LEMMA Identified ==
    ASSUME NEW s \in Status \cup {NoStatus}
    PROVE  s.op \in Ops \cup {NoOp} /\ (s.op = NoOp <=> s = NoStatus)
BY DEF Status, NoStatus

\* A helper that goes somewhere stays a helper.
LEMMA GoesTyped ==
    ASSUME TypeOK, NEW o \in Ops,
           NEW at \in {"upgrading", "failing", "restart", "reporting", "signal", "done", "dead"},
           Goes(o, at)
    PROVE  /\ helper' \in [Ops -> Helper]
           /\ helper'[o].at = at /\ helper'[o].io = "none"
           /\ \A p \in Ops \ {o} : helper'[p] = helper[p]
<1>1. [at |-> at, io |-> "none", copy |-> NoStatus] \in Helper
  BY DEF Helper
<1> QED  BY <1>1 DEF TypeOK, Goes

-----------------------------------------------------------------------------
\* What a move keeps whatever it does to the files.
LEMMA MoveKeeps ==
    ASSUME IInv, NEW o \in Ops, Move(o)
    PROVE  /\ request' \in [Requests -> Request]
           /\ Seeding' /\ Unseeded' /\ OneWriter'
           /\ disorder' = {} => Orderly /\ OneActive' /\ OthersLate'
<1> USE DEF IInv
<1>1. \A r \in Requests : request'[r] = request[r] \/ request'[r] = IdleRequest
  BY DEF Move, TypeOK
<1>2. request' \in [Requests -> Request]
  <2>1. IdleRequest \in Request
    BY DEF Request, IdleRequest
  <2> QED  BY <2>1 DEF Move, TypeOK
<1>3. \A p \in Ops : helper'[p].at = "off" <=> helper[p].at = "off"
  BY DEF Move, Working
<1>4. \A p \in Ops : Active(p)' => Active(p)
  BY <1>1 DEF Move, Active, Working, IdleRequest
<1>5. Seeding'
  <2>1. \A r \in Requests : request'[r].op # NoOp => request[r].op \in Ops
    BY <1>1 DEF TypeOK, Request, IdleRequest
  <2> QED  BY <1>1, <1>3, <2>1 DEF Seeding, Move, IdleRequest
<1>6. Unseeded'
  BY <1>3 DEF Unseeded, Move
<1>7. OneWriter'
  BY <1>1 DEF OneWriter, IdleRequest
<1>8. ASSUME disorder' = {} PROVE Orderly /\ OneActive' /\ OthersLate'
  <2>1. Orderly
    BY <1>8 DEF Move
  <2>2. OneActive'
    BY <2>1, <1>4 DEF Orderly, OneActive, Move
  <2>3. OthersLate'
    BY <2>1, <1>1, <1>4 DEF Orderly, OthersLate, IdleRequest
  <2> QED  BY <2>1, <2>2, <2>3
<1> QED  BY <1>2, <1>5, <1>6, <1>7, <1>8

LEMMA QuietMoveKeeps ==
    ASSUME IInv, NEW o \in Ops, QuietMove(o),
           helper'[o].io = "none" \/ AppendReads(o)
    PROVE  IInv'
<1> USE DEF IInv
<1>1. Move(o) /\ UNCHANGED <<slot, temp>>
  BY DEF QuietMove
<1>2. /\ request' \in [Requests -> Request]
      /\ Seeding' /\ Unseeded' /\ OneWriter'
      /\ disorder' = {} => Orderly /\ OneActive' /\ OthersLate'
  BY <1>1, MoveKeeps
<1>3. ASSUME helper'[o].io = "none"
      PROVE  TypeOK' /\ Copied' /\ (disorder' = {} => CopyStaged' /\ CopyInFlight')
  <2>1. TypeOK'
    BY <1>1, <1>2, <1>3 DEF TypeOK, Move
  <2>2. Copied'
    BY <1>1, <1>3 DEF Copied, Move, Appending
  <2>3. ASSUME disorder' = {} PROVE CopyStaged' /\ CopyInFlight'
    <3>1. CopyStaged /\ CopyInFlight
      BY <2>3, <1>2 DEF Orderly
    <3>2. ASSUME NEW p \in Ops, helper'[p].io # "none"
          PROVE  helper'[p] = helper[p] /\ temp' = temp
      BY <3>2, <1>1, <1>3 DEF Move
    <3>3. CopyStaged'
      BY <3>1, <3>2 DEF CopyStaged
    <3>4. CopyInFlight'
      BY <3>1, <3>2 DEF CopyInFlight
    <3> QED  BY <3>3, <3>4
  <2> QED  BY <2>1, <2>2, <2>3
<1>4. ASSUME AppendReads(o)
      PROVE  TypeOK' /\ Copied' /\ (disorder' = {} => CopyStaged' /\ CopyInFlight')
  <2>1. /\ helper'[o].at = helper[o].at /\ helper'[o].io = "read"
        /\ helper'[o].copy = [op |-> o, phase |-> Patched(o)]
    BY <1>4 DEF AppendReads, TypeOK, Helper
  <2>2. TypeOK'
    BY <1>1, <1>2, <2>1 DEF TypeOK, Move
  <2>3. Copied'
    BY <1>1, <1>4, <2>1 DEF Copied, Move, Appending, AppendReads, Patched
  <2>4. ASSUME disorder' = {} PROVE CopyStaged' /\ CopyInFlight'
    <3>1. CopyStaged /\ CopyInFlight /\ OwnsSlot
      BY <2>4, <1>2 DEF Orderly
    <3>2. helper'[o].at = "upgrading" => helper'[o].copy.phase \in InFlightPhases
      BY <3>1, <1>1, <2>1 DEF OwnsSlot, Move, Patched
    <3>3. ASSUME NEW p \in Ops, p # o
          PROVE  helper'[p] = helper[p]
      BY <3>3, <1>1 DEF Move
    <3>4. CopyStaged'
      <4>1. ASSUME NEW p \in Ops, helper'[p].io = "staged"
            PROVE  temp' = helper'[p].copy
        <5>1. p # o
          BY <4>1, <2>1
        <5>2. helper'[p] = helper[p] /\ temp' = temp
          BY <5>1, <3>3, <1>1
        <5> QED  BY <5>2, <4>1, <3>1 DEF CopyStaged
      <4> QED  BY <4>1 DEF CopyStaged
    <3>5. CopyInFlight'
      <4>1. ASSUME NEW p \in Ops, helper'[p].io # "none" /\ helper'[p].at = "upgrading"
            PROVE  helper'[p].copy.phase \in InFlightPhases
        BY <4>1, <3>1, <3>2, <3>3 DEF CopyInFlight
      <4> QED  BY <4>1 DEF CopyInFlight
    <3> QED  BY <3>4, <3>5
  <2> QED  BY <2>2, <2>3, <2>4
<1>5. ASSUME disorder' = {} PROVE SeedStaged' /\ SeedLanded' /\ OwnsSlot'
  <2>1. \A r \in Requests : request'[r] = request[r] \/ request'[r] = IdleRequest
    BY <1>1 DEF Move, TypeOK
  <2>2. \A p \in Ops : Working(p)' => Working(p)
    BY <1>1 DEF Move, Working
  <2> QED  BY <1>1, <1>2, <1>5, <2>1, <2>2
           DEF Orderly, SeedStaged, SeedLanded, OwnsSlot, IdleRequest, Move
<1> QED  BY <1>2, <1>3, <1>4, <1>5 DEF Orderly
-----------------------------------------------------------------------------
\* The steps of a helper that touch no file.
LEMMA GoesKeeps ==
    ASSUME IInv, NEW o \in Ops, Working(o),
           NEW at \in {"upgrading", "failing", "restart", "reporting", "signal", "done", "dead"},
           Goes(o, at),
           request' = request \/ request' = [r \in Requests |-> IdleRequest],
           UNCHANGED <<host, slot, temp, lastOp, expired, disorder>>
    PROVE  IInv'
<1>1. /\ helper' \in [Ops -> Helper]
      /\ helper'[o].at = at /\ helper'[o].io = "none"
      /\ \A p \in Ops \ {o} : helper'[p] = helper[p]
  BY GoesTyped DEF IInv
<1>2. QuietMove(o)
  BY <1>1 DEF QuietMove, Move
<1> QED  BY <1>1, <1>2, QuietMoveKeeps

LEMMA AppendReadsKeeps ==
    ASSUME IInv, NEW o \in Ops, AppendReads(o)
    PROVE  IInv'
<1>1. helper[o] \in Helper /\ slot \in Status /\ slot.phase \in Phases
  BY Identified DEF AppendReads, IInv, TypeOK, Status
<1>2. [op |-> o, phase |-> Patched(o)] \in Status
  BY <1>1 DEF Patched, Status, Phases
<1>3. [helper[o] EXCEPT !.io = "read", !.copy = [op |-> o, phase |-> Patched(o)]] \in Helper
  BY <1>1, <1>2 DEF Helper
<1>4. /\ helper' \in [Ops -> Helper]
      /\ \A p \in Ops \ {o} : helper'[p] = helper[p]
      /\ helper'[o].at = helper[o].at /\ helper'[o].io = "read"
  BY <1>1, <1>3 DEF AppendReads, IInv, TypeOK, Helper
<1>5. QuietMove(o)
  BY <1>4 DEF QuietMove, Move, AppendReads, Appending, Working
<1> QED  BY <1>5, QuietMoveKeeps

LEMMA QuietKeeps ==
    ASSUME IInv, NEW o \in Ops,
           \/ AppendSkips(o) \/ AppendThrows(o)
           \/ UpgradeEnds(o) \/ RestartUnit(o) \/ SignalHub(o) \/ HelperDies(o)
    PROVE  IInv'
<1>1. CASE AppendSkips(o)
  <2>1. Working(o) /\ Returned(o) \in {"upgrading", "signal", "done"}
    BY <1>1 DEF AppendSkips, Appending, Working, Returned
  <2> QED  BY <1>1, <2>1, GoesKeeps DEF AppendSkips
<1>2. CASE AppendThrows(o)
  <2>1. Working(o) /\ Thrown(o) \in {"failing", "dead"}
    BY <1>2 DEF AppendThrows, Appending, Working, Thrown, IInv, Copied
  <2> QED  BY <1>2, <2>1, GoesKeeps DEF AppendThrows
<1>3. CASE UpgradeEnds(o)
  <2>1. Working(o) /\ (Goes(o, "failing") \/ Goes(o, "restart") \/ Goes(o, "reporting"))
    BY <1>3 DEF UpgradeEnds, Working
  <2> QED  BY <1>3, <2>1, GoesKeeps DEF UpgradeEnds
<1>4. CASE RestartUnit(o)
  <2>1. Working(o) /\ (Goes(o, "failing") \/ Goes(o, "reporting"))
    BY <1>4 DEF RestartUnit, Working
  <2> QED  BY <1>4, <2>1, GoesKeeps DEF RestartUnit
<1>5. CASE SignalHub(o)
  BY <1>5, GoesKeeps DEF SignalHub, Working
<1>6. CASE HelperDies(o)
  BY <1>6, GoesKeeps DEF HelperDies
<1> QED  BY <1>1, <1>2, <1>3, <1>4, <1>5, <1>6

-----------------------------------------------------------------------------
\* The steps of a helper that write a file.
LEMMA AppendStagesKeeps ==
    ASSUME IInv, NEW o \in Ops, AppendStages(o)
    PROVE  IInv'
<1> USE DEF IInv
<1>1. /\ Working(o) /\ Appending(o)
      /\ helper[o] \in Helper /\ helper[o].copy \in Status /\ helper[o].copy.op = o
  BY Identified DEF AppendStages, Copied, Appending, Working, TypeOK, Helper, NoStatus
<1>2. /\ helper' \in [Ops -> Helper]
      /\ \A p \in Ops \ {o} : helper'[p] = helper[p]
      /\ helper'[o].at = helper[o].at /\ helper'[o].io = "staged"
      /\ helper'[o].copy = helper[o].copy
  <2>1. [helper[o] EXCEPT !.io = "staged"] \in Helper
    BY <1>1 DEF Helper
  <2> QED  BY <1>1, <2>1 DEF AppendStages, TypeOK, Helper
<1>3. Move(o)
  BY <1>1, <1>2 DEF Move, AppendStages, Working
<1>4. /\ request' \in [Requests -> Request]
      /\ Seeding' /\ Unseeded' /\ OneWriter'
      /\ disorder' = {} => Orderly /\ OneActive' /\ OthersLate'
  BY <1>3, MoveKeeps
<1>5. TypeOK'
  <2>1. o <= lastOp
    BY <1>1 DEF Unseeded, Working, TypeOK
  <2> QED  BY <1>1, <1>2, <1>4, <2>1 DEF TypeOK, AppendStages
<1>6. Copied'
  BY <1>1, <1>2 DEF Copied, Appending, AppendStages
<1>7. ASSUME disorder' = {}
      PROVE  SeedStaged' /\ SeedLanded' /\ OwnsSlot' /\ CopyStaged' /\ CopyInFlight'
  <2>1. Orderly
    BY <1>7, <1>4
  <2>2. \A p \in Ops : Active(p) => p = o
    BY <2>1, <1>1 DEF Orderly, OneActive, Active
  <2>3. SeedStaged'
    BY <1>1, <2>2 DEF SeedStaged, Seeding, Active, AppendStages, TypeOK, Request, Working
  <2>4. SeedLanded'
    BY <2>1 DEF Orderly, SeedLanded, AppendStages
  <2>5. OwnsSlot'
    BY <2>1, <1>2 DEF Orderly, OwnsSlot, Working, AppendStages
  <2>6. CopyStaged'
    BY <1>2, <2>2 DEF CopyStaged, AppendStages, Copied, Active, Working, Appending
  <2>7. CopyInFlight'
    BY <2>1, <1>2 DEF Orderly, CopyInFlight, AppendStages
  <2> QED  BY <2>3, <2>4, <2>5, <2>6, <2>7
<1> QED  BY <1>4, <1>5, <1>6, <1>7 DEF Orderly

LEMMA AppendLandsKeeps ==
    ASSUME IInv, NEW o \in Ops, AppendLands(o)
    PROVE  IInv'
<1> USE DEF IInv
<1>1. Working(o) /\ Appending(o) /\ Returned(o) \in {"upgrading", "signal", "done"}
  BY DEF AppendLands, Copied, Appending, Working, Returned
<1>2. /\ helper' \in [Ops -> Helper]
      /\ helper'[o].at = Returned(o) /\ helper'[o].io = "none"
      /\ \A p \in Ops \ {o} : helper'[p] = helper[p]
  BY <1>1, GoesTyped DEF AppendLands
<1>3. Move(o)
  BY <1>1, <1>2 DEF Move, AppendLands
<1>4. /\ request' \in [Requests -> Request]
      /\ Seeding' /\ Unseeded' /\ OneWriter'
      /\ disorder' = {} => Orderly /\ OneActive' /\ OthersLate'
  BY <1>3, MoveKeeps
<1>5. TypeOK'
  BY <1>2, <1>4 DEF TypeOK, AppendLands, NoStatus
<1>6. Copied'
  BY <1>2 DEF Copied, Appending, AppendLands
<1>7. ASSUME disorder' = {}
      PROVE  SeedStaged' /\ SeedLanded' /\ OwnsSlot' /\ CopyStaged' /\ CopyInFlight'
  <2>1. Orderly
    BY <1>7, <1>4
  <2>2. \A p \in Ops : Active(p) => p = o
    BY <2>1, <1>1 DEF Orderly, OneActive, Active
  <2>3. \A r \in Requests : request[r].at \notin {"staged", "landed"}
    BY <1>1, <2>2 DEF Seeding, Active, TypeOK, Request, Working
  <2>4. SeedStaged' /\ SeedLanded'
    BY <2>3 DEF SeedStaged, SeedLanded, AppendLands
  <2>5. \A p \in Ops \ {o} : ~Working(p) /\ helper[p].io = "none"
    BY <2>2 DEF Active, Copied, Appending, Working, TypeOK, Helper
  <2>6. OwnsSlot'
    <3>1. temp = helper[o].copy /\ helper[o].copy.op = o
      BY <2>1 DEF Orderly, CopyStaged, TypeOK, AppendLands
    <3>2. Returned(o) # "done" => helper[o].copy.phase \in InFlightPhases
      BY <2>1, <1>1 DEF Orderly, CopyInFlight, Copied, Returned, Appending, AppendLands,
                        InFlightPhases
    <3> QED  BY <1>2, <2>5, <3>1, <3>2 DEF OwnsSlot, Working, AppendLands
  <2>7. CopyStaged' /\ CopyInFlight'
    BY <1>2, <2>5 DEF CopyStaged, CopyInFlight
  <2> QED  BY <2>4, <2>6, <2>7
<1> QED  BY <1>4, <1>5, <1>6, <1>7 DEF Orderly

-----------------------------------------------------------------------------
\* The steps of the hub.

\* Losing requests, or none, and no helper or file changed.
LEMMA LossKeeps ==
    ASSUME IInv, request' \in [Requests -> Request],
           \A r \in Requests : request'[r] = request[r] \/ request'[r] = IdleRequest,
           UNCHANGED <<host, slot, temp, helper, lastOp, expired, disorder>>
    PROVE  IInv'
<1> USE DEF IInv
<1>1. TypeOK'
  BY DEF TypeOK
<1>2. Seeding' /\ OneWriter'
  BY DEF Seeding, OneWriter, IdleRequest
<1>3. Unseeded' /\ Copied'
  BY DEF Unseeded, Copied, Appending
<1>4. ASSUME disorder' = {} PROVE Orderly'
  <2>1. Orderly
    BY <1>4
  <2>2. \A p \in Ops : Active(p)' => Active(p)
    BY DEF Active, Working, IdleRequest
  <2>3. OneActive' /\ OthersLate'
    BY <2>1, <2>2 DEF Orderly, OneActive, OthersLate, IdleRequest
  <2>4. SeedStaged' /\ SeedLanded'
    BY <2>1 DEF Orderly, SeedStaged, SeedLanded, IdleRequest
  <2>5. OwnsSlot' /\ CopyStaged' /\ CopyInFlight'
    BY <2>1 DEF Orderly, OwnsSlot, CopyStaged, CopyInFlight, Working
  <2> QED  BY <2>3, <2>4, <2>5 DEF Orderly
<1> QED  BY <1>1, <1>2, <1>3, <1>4

LEMMA LosesKeeps ==
    ASSUME IInv, HubDies \/ \E r \in Requests : SeedThrows(r)
    PROVE  IInv'
<1>1. IdleRequest \in Request
  BY DEF Request, IdleRequest
<1>2. request \in [Requests -> Request]
  BY DEF IInv, TypeOK
<1> QED  BY <1>1, <1>2, LossKeeps DEF HubDies, SeedThrows

LEMMA AdmitKeeps ==
    ASSUME IInv, NEW r \in Requests, Admit(r)
    PROVE  IInv'
<1> USE DEF IInv
<1>1. /\ request \in [Requests -> Request] /\ request[r].at = "idle"
      /\ request[r].op = NoOp
  BY DEF Admit, TypeOK, Seeding
<1>2. /\ request'[r] = [request[r] EXCEPT !.at = "resolving"]
      /\ request'[r].at = "resolving" /\ request'[r].op = NoOp
      /\ request'[r].late = request[r].late
      /\ \A q \in Requests \ {r} : request'[q] = request[q]
  BY <1>1 DEF Admit, Request
<1>3. TypeOK'
  <2>1. [request[r] EXCEPT !.at = "resolving"] \in Request
    BY <1>1 DEF Request
  <2> QED  BY <1>1, <2>1 DEF TypeOK, Admit
<1>4. Seeding' /\ OneWriter'
  BY <1>2 DEF Seeding, OneWriter, Admit
<1>5. Unseeded' /\ Copied'
  BY DEF Unseeded, Copied, Appending, Admit
<1>6. ASSUME disorder' = {} PROVE Orderly'
  <2>1. Orderly
    BY <1>6 DEF Admit
  <2>2. \A p \in Ops : Active(p)' => Active(p)
    BY <1>2 DEF Active, Working, Admit
  <2>3. OneActive'
    BY <2>1, <2>2 DEF Orderly, OneActive, Admit
  <2>4. \A p \in Ops : ~Active(p)
    <3>1. \A q \in Requests : request[q].op = NoOp
      BY DEF Seeding, Admit, HubFree
    <3>2. \A p \in Ops : ~Working(p)
      BY <2>1 DEF Orderly, OneActive, OwnsSlot, Active, Admit, Blocked
    <3> QED  BY <3>1, <3>2 DEF Active
  <2>5. OthersLate'
    BY <2>2, <2>4 DEF OthersLate
  <2>6. SeedStaged' /\ SeedLanded'
    BY <2>1, <1>2 DEF Orderly, SeedStaged, SeedLanded, Admit
  <2>7. OwnsSlot' /\ CopyStaged' /\ CopyInFlight'
    BY <2>1 DEF Orderly, OwnsSlot, CopyStaged, CopyInFlight, Working, Admit
  <2> QED  BY <2>3, <2>5, <2>6, <2>7 DEF Orderly
<1> QED  BY <1>3, <1>4, <1>5, <1>6

LEMMA ExpireKeeps ==
    ASSUME IInv, NEW o \in Ops, Expire(o)
    PROVE  IInv'
<1> USE DEF IInv
<1>1. TypeOK'
  BY DEF TypeOK, Expire
<1>2. Seeding' /\ OneWriter' /\ Copied'
  BY DEF Seeding, OneWriter, Copied, Appending, Expire
<1>3. Unseeded'
  BY DEF Unseeded, Expire, TypeOK
<1>4. ASSUME disorder' = {} PROVE Orderly'
  <2>1. Orderly /\ ~Active(o)
    BY <1>4 DEF Expire, Active
  <2>2. OneActive' /\ OthersLate'
    BY <2>1 DEF Orderly, OneActive, OthersLate, Active, Working, Expire
  <2>3. SeedStaged' /\ SeedLanded'
    BY <2>1 DEF Orderly, SeedStaged, SeedLanded, Expire
  <2>4. OwnsSlot' /\ CopyStaged' /\ CopyInFlight'
    BY <2>1 DEF Orderly, OwnsSlot, CopyStaged, CopyInFlight, Working, Expire
  <2> QED  BY <2>2, <2>3, <2>4 DEF Orderly
<1> QED  BY <1>1, <1>2, <1>3, <1>4

LEMMA SeedLandsKeeps ==
    ASSUME IInv, NEW r \in Requests, SeedLands(r)
    PROVE  IInv'
<1> USE DEF IInv
<1>1. /\ request \in [Requests -> Request] /\ request[r] \in Request
      /\ request[r].at = "staged" /\ request[r].op # NoOp
      /\ \A q \in Requests \ {r} : request[q].op = NoOp
  BY DEF SeedLands, TypeOK, Seeding, OneWriter
<1>2. /\ request' \in [Requests -> Request]
      /\ \A q \in Requests \ {r} : request'[q] = request[q]
      /\ IF host = "pinned" THEN request'[r] = IdleRequest
         ELSE request'[r].at = "landed" /\ request'[r].op = request[r].op
  <2>1. IdleRequest \in Request /\ [request[r] EXCEPT !.at = "landed"] \in Request
    BY <1>1 DEF Request, IdleRequest
  <2> QED  BY <1>1, <2>1 DEF SeedLands, Request
<1>3. TypeOK'
  BY <1>2 DEF TypeOK, SeedLands, NoStatus
<1>4. Seeding' /\ OneWriter'
  BY <1>1, <1>2 DEF Seeding, OneWriter, IdleRequest, SeedLands
<1>5. Unseeded' /\ Copied'
  BY DEF Unseeded, Copied, Appending, SeedLands
<1>6. ASSUME disorder' = {} PROVE Orderly'
  <2>1. Orderly
    BY <1>6 DEF SeedLands
  <2>2. \A p \in Ops : Active(p)' => Active(p)
    BY <1>2 DEF Active, Working, IdleRequest, SeedLands
  <2>3. OneActive' /\ OthersLate'
    BY <2>1, <2>2, <1>2 DEF Orderly, OneActive, OthersLate, IdleRequest, SeedLands
  <2>4. SeedStaged'
    BY <1>1, <1>2 DEF SeedStaged, Seeding, IdleRequest
  <2>5. SeedLanded'
    BY <2>1, <1>1, <1>2 DEF Orderly, SeedStaged, SeedLanded, Seeding, IdleRequest, SeedLands
  <2>6. \A p \in Ops : ~Working(p)
    <3>1. request[r].op \in Ops /\ helper[request[r].op].at = "off"
      BY <1>1 DEF Seeding, Request
    <3>2. \A p \in Ops : Active(p) => p = request[r].op
      BY <2>1, <3>1 DEF Orderly, OneActive, Active
    <3> QED  BY <3>1, <3>2 DEF Active, Working
  <2>7. OwnsSlot' /\ CopyStaged' /\ CopyInFlight'
    BY <2>6 DEF OwnsSlot, CopyStaged, CopyInFlight, Working, Copied, Appending, SeedLands,
                TypeOK, Helper
  <2> QED  BY <2>3, <2>4, <2>5, <2>7 DEF Orderly
<1> QED  BY <1>3, <1>4, <1>5, <1>6

LEMMA SpawnKeeps ==
    ASSUME IInv, NEW r \in Requests, Spawn(r)
    PROVE  IInv'
<1> USE DEF IInv
<1> DEFINE o == request[r].op
<1>1. /\ request \in [Requests -> Request] /\ helper \in [Ops -> Helper]
      /\ o \in Ops /\ o <= lastOp /\ helper[o] \in Helper /\ helper[o].at = "off"
      /\ \A q \in Requests \ {r} : request[q].op = NoOp
  BY DEF Spawn, TypeOK, Seeding, OneWriter, Request
<1>2. /\ request' \in [Requests -> Request]
      /\ request'[r] = IdleRequest
      /\ \A q \in Requests \ {r} : request'[q] = request[q]
  <2>1. IdleRequest \in Request
    BY DEF Request, IdleRequest
  <2> QED  BY <1>1, <2>1 DEF Spawn
<1>3. helper[o].io = "none"
  BY <1>1 DEF Copied, Appending, Helper
<1>4. /\ helper' \in [Ops -> Helper]
      /\ helper'[o].at = "boot" /\ helper'[o].io = "none"
      /\ \A p \in Ops \ {o} : helper'[p] = helper[p]
  <2>1. [helper[o] EXCEPT !.at = "boot"] \in Helper
    BY <1>1 DEF Helper
  <2> QED  BY <1>1, <1>3, <2>1 DEF Spawn, Helper
<1>5. TypeOK'
  BY <1>2, <1>4 DEF TypeOK, Spawn
<1>6. Seeding' /\ OneWriter'
  BY <1>1, <1>2, <1>4 DEF Seeding, OneWriter, IdleRequest, Spawn
<1>7. Unseeded'
  BY <1>1, <1>4 DEF Unseeded, Spawn, TypeOK
<1>8. Copied'
  BY <1>4 DEF Copied, Appending, Spawn
<1>9. ASSUME disorder' = {} PROVE Orderly'
  <2>1. Orderly
    BY <1>9 DEF Spawn
  <2>2. Active(o)
    BY <1>1 DEF Active
  <2>3. \A p \in Ops : Active(p)' => Active(p)
    BY <2>2, <1>2, <1>4 DEF Active, Working, IdleRequest
  <2>4. OneActive' /\ OthersLate'
    BY <2>1, <2>3, <1>2 DEF Orderly, OneActive, OthersLate, IdleRequest, Spawn
  <2>5. SeedStaged' /\ SeedLanded'
    BY <2>1, <1>2 DEF Orderly, SeedStaged, SeedLanded, IdleRequest, Spawn
  <2>6. OwnsSlot'
    <3>1. o = lastOp /\ slot.op = o /\ slot.phase = "pending"
      BY <2>1, <2>2, <1>1 DEF Orderly, OneActive, SeedLanded, Spawn
    <3>2. slot' = slot
      BY DEF Spawn
    <3> QED  BY <2>1, <3>1, <3>2, <1>4 DEF Orderly, OwnsSlot, Working, InFlightPhases
  <2>7. temp' = temp
    BY DEF Spawn
  <2>8. CopyStaged' /\ CopyInFlight'
    BY <2>1, <2>7, <1>4 DEF Orderly, CopyStaged, CopyInFlight
  <2> QED  BY <2>4, <2>5, <2>6, <2>8 DEF Orderly
<1> QED  BY <1>5, <1>6, <1>7, <1>8, <1>9

LEMMA SeedStagesKeeps ==
    ASSUME IInv, NEW r \in Requests, SeedStages(r)
    PROVE  IInv'
<1> USE DEF IInv
<1> DEFINE o == lastOp + 1
<1>1. /\ request \in [Requests -> Request] /\ o \in Ops /\ lastOp \in Nat
      /\ \A q \in Requests : request[q].op = NoOp /\ request[q].at \in {"idle", "resolving"}
      /\ helper[o].at = "off" /\ o \notin expired
  <2>1. \A q \in Requests : request[q].at \in {"idle", "resolving"}
    BY DEF SeedStages, HubFree, TypeOK, Request
  <2>2. o \in Ops /\ lastOp \in Nat
    BY DEF SeedStages, TypeOK
  <2> QED  BY <2>1, <2>2 DEF Seeding, Unseeded, TypeOK
<1>2. /\ request' \in [Requests -> Request]
      /\ request'[r].at = "staged" /\ request'[r].op = o
      /\ \A q \in Requests \ {r} : request'[q].op = NoOp /\ request'[q].at = request[q].at
      /\ \A q \in Requests \ {r} : request'[q].at = "resolving" => request'[q].late
  <2>1. [request[r] EXCEPT !.at = "staged", !.op = o] \in Request
    BY <1>1 DEF Request
  <2>2. \A q \in Requests : [request[q] EXCEPT !.late = request[q].at = "resolving"] \in Request
    BY <1>1 DEF Request
  <2>3. request' = [q \in Requests |->
            IF q = r THEN [request[r] EXCEPT !.at = "staged", !.op = o]
            ELSE [request[q] EXCEPT !.late = request[q].at = "resolving"]]
    BY DEF SeedStages
  <2> QED  BY <1>1, <2>1, <2>2, <2>3 DEF Request
<1>3. /\ lastOp' = o /\ temp' \in Status /\ temp'.op = o
      /\ host # "pinned" => temp'.phase = "pending"
  BY <1>1 DEF SeedStages, Status, Phases
<1>4. TypeOK'
  <2>1. disorder' \subseteq {"race", "overrun"}
    BY DEF SeedStages, TypeOK
  <2>2. slot \in Status \cup {NoStatus} /\ slot.op <= lastOp
    BY DEF TypeOK
  <2>3. slot.op <= o /\ temp'.op <= o
    BY <2>2, <1>1, <1>3, Identified
  <2>4. UNCHANGED <<host, slot, helper, expired>>
    BY DEF SeedStages
  <2> QED  BY <1>1, <1>2, <1>3, <2>1, <2>3, <2>4 DEF TypeOK
<1>5. Seeding' /\ OneWriter'
  BY <1>1, <1>2, <1>3 DEF Seeding, OneWriter, SeedStages
<1>6. Unseeded' /\ Copied'
  BY <1>1, <1>3 DEF Unseeded, Copied, Appending, SeedStages, TypeOK
<1>7. ASSUME disorder' = {} PROVE Orderly'
  <2>1. Orderly /\ ~request[r].late
    BY <1>7 DEF SeedStages
  <2>2. \A p \in Ops : ~Active(p)
    BY <2>1 DEF Orderly, OthersLate, SeedStages
  <2>3. \A p \in Ops : ~Working(p)
    BY <2>2 DEF Active
  <2>4. \A p \in Ops : Active(p)' => p = o
    BY <2>3, <1>1, <1>2 DEF Active, Working, SeedStages
  <2>5. OneActive' /\ OthersLate'
    BY <2>4, <1>1, <1>2, <1>3 DEF OneActive, OthersLate, SeedStages
  <2>6. SeedStaged' /\ SeedLanded'
    BY <1>1, <1>2, <1>3 DEF SeedStaged, SeedLanded, SeedStages
  <2>7. OwnsSlot' /\ CopyStaged' /\ CopyInFlight'
    BY <2>3 DEF OwnsSlot, CopyStaged, CopyInFlight, Working, Copied, Appending, SeedStages,
                TypeOK, Helper
  <2> QED  BY <2>5, <2>6, <2>7 DEF Orderly
<1> QED  BY <1>4, <1>5, <1>6, <1>7

-----------------------------------------------------------------------------
\* The inductive invariant: while no request raced and no operation overran
\* its time limit, one operation at a time has a request or a helper, and
\* the files hold what that operation wrote.
THEOREM Inductive == Spec => []IInv
<1>1. Init => IInv
  <2> SUFFICES ASSUME Init PROVE IInv
    OBVIOUS
  <2>1. TypeOK
    BY DEF Init, TypeOK, Request, Helper, IdleRequest, NoStatus
  <2>2. \A p \in Ops : ~Working(p) /\ helper[p].io = "none"
    BY DEF Init, Working
  <2>3. \A r \in Requests : request[r] = IdleRequest
    BY DEF Init
  <2>4. Seeding /\ Unseeded /\ OneWriter /\ Copied
    BY <2>2, <2>3 DEF Init, Seeding, Unseeded, OneWriter, Copied, IdleRequest
  <2>5. Orderly
    BY <2>2, <2>3 DEF Orderly, OneActive, OthersLate, SeedStaged, SeedLanded, OwnsSlot,
                      CopyStaged, CopyInFlight, Active, IdleRequest
  <2> QED  BY <2>1, <2>4, <2>5 DEF IInv
<1>2. IInv /\ [Next]_vars => IInv'
  <2> SUFFICES ASSUME IInv, [Next]_vars PROVE IInv'
    OBVIOUS
  <2>1. CASE \E r \in Requests : Admit(r) \/ Seed(r)
    BY <2>1, AdmitKeeps, SeedStagesKeeps, SeedLandsKeeps, LosesKeeps, SpawnKeeps DEF Seed
  <2>2. CASE \E o \in Ops : Append(o) \/ UpgradeEnds(o) \/ RestartUnit(o) \/ SignalHub(o)
    BY <2>2, AppendReadsKeeps, AppendStagesKeeps, AppendLandsKeeps, QuietKeeps DEF Append
  <2>3. CASE \E o \in Ops : HelperDies(o) \/ Expire(o)
    BY <2>3, QuietKeeps, ExpireKeeps
  <2>4. CASE HubDies
    BY <2>4, LosesKeeps
  <2>5. CASE UNCHANGED vars
    BY <2>5 DEF vars, IInv, TypeOK, Seeding, Unseeded, OneWriter, Copied, Appending, Orderly,
                OneActive, OthersLate, SeedStaged, SeedLanded, OwnsSlot, CopyStaged,
                CopyInFlight, Active, Working
  <2> QED  BY <2>1, <2>2, <2>3, <2>4, <2>5 DEF Next
<1> QED  BY <1>1, <1>2, PTL DEF Spec

\* Every variable keeps its type, however many operations there are; a helper
\* only ever writes records of its own operation.
THEOREM TypeCorrect == Spec => []TypeOK
<1>1. IInv => TypeOK
  BY DEF IInv
<1> QED  BY <1>1, Inductive, PTL

\* The 409 guard keeps helpers apart, unless two requests were past it at
\* once or an operation outlived its time limit.
THEOREM Exclusive == Spec => []ExclusiveUnlessLate
<1>1. IInv => ExclusiveUnlessLate
  BY DEF IInv, Orderly, OneActive, Active, ExclusiveUnlessLate
<1> QED  BY <1>1, Inductive, PTL

-----------------------------------------------------------------------------
(***************************************************************************)
(* What the slot says of one operation only moves on, disorder or not.     *)
(***************************************************************************)

\* The phase an operation is seeded with.
Seeded == IF host = "pinned" THEN "redeploy-required" ELSE "pending"

\* A poll may see q after p.
Advances(p, q) == Rank(q) >= Rank(p) /\ (p = "failed" => q = "failed")

\* Who wrote the temporary file, and where its writer is by now.
StagedBy == \A o \in Ops : temp.op = o =>
    \/ helper[o].at = "off" /\ temp.phase = Seeded
    \/ helper[o].at = "dead"
    \/ helper[o].io = "staged" /\ temp = helper[o].copy

\* What the slot may say of an operation whose helper is at this point, but for
\* the record that the helper has staged.
Says(at) ==
    CASE at = "off" -> {Seeded}
      [] at = "boot" -> {"pending"}
      [] at \in {"upgrading", "failing", "restart", "reporting"} -> {"pending", "running"}
      [] at = "signal" -> {"restarting"}
      [] at = "done" -> {"failed", "restarting"}
      [] OTHER -> Phases

Told == \A o \in Ops : slot.op = o =>
    \/ slot.phase \in Says(helper[o].at)
    \/ helper[o].io = "staged" /\ slot.phase = helper[o].copy.phase

\* A copy of the record moves it on.
CopyLeads == \A o \in Ops : helper[o].io # "none" =>
    /\ helper[o].at = "failing" => helper[o].copy.phase = "failed"
    /\ helper[o].at = "upgrading" => helper[o].copy.phase \in {"pending", "running"}
    /\ slot.op = o => Advances(slot.phase, helper[o].copy.phase)

TempLeads == temp.op = slot.op /\ slot.op # NoOp => Advances(slot.phase, temp.phase)

\* A seed whose rename succeeded is in the temporary file no more.
SeedTaken == \A r \in Requests : request[r].at = "landed" =>
    host # "pinned" /\ temp.op # request[r].op

PInv == StagedBy /\ Told /\ CopyLeads /\ TempLeads /\ SeedTaken

-----------------------------------------------------------------------------
LEMMA AdvanceFacts ==
    /\ \A p \in Phases : Advances(p, p)
    /\ \A p \in {"pending", "running"} : Advances(p, "failed") /\ Advances(p, "restarting")
    /\ Advances("pending", "running")
BY DEF Advances, Rank, Phases

LEMMA SaysFacts ==
    /\ Says("off") = {Seeded} /\ Says("boot") = {"pending"}
    /\ \A at \in {"upgrading", "failing", "restart", "reporting"} :
           Says(at) = {"pending", "running"}
    /\ Says("signal") = {"restarting"} /\ Says("done") = {"failed", "restarting"}
    /\ Says("dead") = Phases
BY DEF Says

\* Where a copy of a record is held, and whose it is.
LEMMA CopyFacts ==
    ASSUME IInv, NEW o \in Ops, helper[o].io # "none"
    PROVE  /\ helper[o].copy \in Status /\ helper[o].copy.op = o
           /\ helper[o].copy.phase \in Phases /\ Appending(o) /\ Working(o)
<1>1. helper[o] \in Helper
  BY DEF IInv, TypeOK
<1>2. helper[o].copy.op = o /\ Appending(o)
  BY DEF IInv, TypeOK, Copied
<1>3. helper[o].copy \in Status
  BY <1>1, <1>2, HelperFields DEF NoStatus
<1> QED  BY <1>2, <1>3 DEF Status, Appending, Working

\* The helper of one operation changes; the files do not.
LEMMA ElsewhereTold ==
    ASSUME IInv, PInv, NEW o \in Ops,
           \A p \in Ops \ {o} : helper'[p] = helper[p],
           UNCHANGED <<host, slot, temp>>,
           helper'[o].io = "none",
           temp.op = o => helper'[o].at = "dead",
           slot.op = o => slot.phase \in Says(helper'[o].at)
    PROVE  StagedBy' /\ Told' /\ CopyLeads' /\ TempLeads'
<1> USE DEF PInv
<1>1. UNCHANGED Seeded /\ \A at : UNCHANGED Says(at)
  BY DEF Seeded, Says
<1>2. StagedBy'
  BY <1>1 DEF StagedBy
<1>3. Told'
  BY <1>1 DEF Told
<1>4. CopyLeads'
  BY DEF CopyLeads
<1>5. TempLeads'
  BY DEF TempLeads
<1> QED  BY <1>2, <1>3, <1>4, <1>5

\* A rename: what it does to the operations whose helper does not move.
LEMMA RenameTells ==
    ASSUME IInv, PInv, NEW p \in Ops, slot' = temp
    PROVE  /\ slot'.op = p => \/ slot'.phase \in Says(helper[p].at)
                              \/ helper[p].io = "staged" /\ slot'.phase = helper[p].copy.phase
           /\ slot'.op = p /\ helper[p].io # "none" =>
                  Advances(slot'.phase, helper[p].copy.phase)
<1> USE DEF PInv
<1> SUFFICES ASSUME slot'.op = p
             PROVE  /\ \/ slot'.phase \in Says(helper[p].at)
                       \/ helper[p].io = "staged" /\ slot'.phase = helper[p].copy.phase
                    /\ helper[p].io # "none" => Advances(slot'.phase, helper[p].copy.phase)
  OBVIOUS
<1>1. temp.op = p /\ temp.phase \in Phases
  BY Identified DEF IInv, TypeOK, Status
<1>2. helper[p].io # "none" => helper[p].at \notin {"off", "dead"}
  BY CopyFacts DEF Working
<1> QED  BY <1>1, <1>2, SaysFacts, AdvanceFacts, CopyFacts DEF StagedBy

-----------------------------------------------------------------------------
\* Steps of a helper that touch no file, and lose requests at most.
LEMMA HelperTells ==
    ASSUME IInv, PInv, NEW o \in Ops,
           \/ AppendSkips(o) \/ AppendThrows(o)
           \/ UpgradeEnds(o) \/ RestartUnit(o) \/ SignalHub(o) \/ HelperDies(o)
    PROVE  PInv'
<1> USE DEF PInv
<1>1. \A at \in {"upgrading", "failing", "restart", "reporting", "signal", "done", "dead"} :
          Goes(o, at) =>
          /\ helper'[o].at = at /\ helper'[o].io = "none"
          /\ \A p \in Ops \ {o} : helper'[p] = helper[p]
  BY GoesTyped DEF IInv
<1>2. /\ slot.op = o => slot.phase \in Phases
      /\ \A at \in {"restart", "signal", "upgrading"} :
            helper[o].at = at /\ helper[o].io = "none" /\ slot.op = o => slot.phase \in Says(at)
      /\ helper[o].at \in {"restart", "signal"} => helper[o].io = "none"
      /\ helper[o].io = "none" /\ Working(o) => temp.op # o
  <2>1. slot.op = o => slot.phase \in Phases
    BY Identified DEF IInv, TypeOK, Status
  <2>2. helper[o].at \in {"restart", "signal"} => helper[o].io = "none"
    BY DEF IInv, Copied, Appending
  <2> QED  BY <2>1, <2>2 DEF Told, StagedBy, Working
<1>3. UNCHANGED <<host, slot, temp>>
  BY DEF AppendSkips, AppendThrows, UpgradeEnds, RestartUnit, SignalHub, HelperDies
<1>4. SeedTaken'
  BY <1>3 DEF SeedTaken, IdleRequest, AppendSkips, AppendThrows, UpgradeEnds, RestartUnit,
              SignalHub, HelperDies
<1>5. /\ \A p \in Ops \ {o} : helper'[p] = helper[p]
      /\ helper'[o].io = "none"
      /\ temp.op = o => helper'[o].at = "dead"
      /\ slot.op = o => slot.phase \in Says(helper'[o].at)
  <2>1. CASE AppendSkips(o)
    <3>1. Working(o) /\ Returned(o) \in {"upgrading", "signal", "done"}
      BY <2>1 DEF AppendSkips, Appending, Working, Returned
    <3> QED  BY <2>1, <3>1, <1>1, <1>2 DEF AppendSkips
  <2>2. CASE AppendThrows(o)
    <3>1. /\ Working(o) /\ Thrown(o) \in {"failing", "dead"} /\ temp.op # o
          /\ Thrown(o) = "failing" <=> helper[o].at = "upgrading"
      BY <2>2, CopyFacts DEF AppendThrows, Thrown, NoStatus
    <3>2. helper[o].at = "upgrading" /\ slot.op = o => slot.phase \in {"pending", "running"}
      BY <2>2, SaysFacts DEF AppendThrows, Told, CopyLeads
    <3> QED  BY <2>2, <3>1, <3>2, <1>1, <1>2, SaysFacts DEF AppendThrows
  <2>3. CASE UpgradeEnds(o)
    <3>1. PICK at \in {"failing", "restart", "reporting"} : Goes(o, at)
      BY <2>3 DEF UpgradeEnds
    <3> QED  BY <2>3, <3>1, <1>1, <1>2, SaysFacts DEF UpgradeEnds, Working
  <2>4. CASE RestartUnit(o)
    <3>1. PICK at \in {"failing", "reporting"} : Goes(o, at)
      BY <2>4 DEF RestartUnit
    <3> QED  BY <2>4, <3>1, <1>1, <1>2, SaysFacts DEF RestartUnit, Working
  <2>5. CASE SignalHub(o)
    BY <2>5, <1>1, <1>2, SaysFacts DEF SignalHub, Working
  <2>6. CASE HelperDies(o)
    BY <2>6, <1>1, <1>2, SaysFacts DEF HelperDies
  <2> QED  BY <2>1, <2>2, <2>3, <2>4, <2>5, <2>6
<1> QED  BY <1>3, <1>4, <1>5, ElsewhereTold

LEMMA ReadsTells ==
    ASSUME IInv, PInv, NEW o \in Ops, AppendReads(o)
    PROVE  PInv'
<1> USE DEF PInv
<1>1. /\ UNCHANGED <<host, slot, temp, request>> /\ slot.op = o /\ temp.op # o
      /\ helper[o].io = "none" /\ Appending(o) /\ slot.phase \in Phases
  <2>1. slot.phase \in Phases
    BY Identified DEF IInv, TypeOK, Status, AppendReads
  <2> QED  BY <2>1 DEF AppendReads, StagedBy, Appending
<1>2. /\ helper'[o].at = helper[o].at /\ helper'[o].io = "read"
      /\ helper'[o].copy.phase = Patched(o)
      /\ \A p \in Ops \ {o} : helper'[p] = helper[p]
  BY DEF AppendReads, IInv, TypeOK, Helper
<1>3. UNCHANGED Seeded /\ \A at : UNCHANGED Says(at)
  BY <1>1 DEF Seeded, Says
<1>4. slot.phase \in Says(helper[o].at)
  BY <1>1 DEF Told
<1>5. StagedBy'
  BY <1>1, <1>2, <1>3 DEF StagedBy
<1>6. Told'
  BY <1>1, <1>2, <1>3, <1>4 DEF Told
<1>7. CopyLeads'
  <2>1. /\ helper[o].at = "failing" => Patched(o) = "failed"
        /\ helper[o].at = "upgrading" => Patched(o) \in {"pending", "running"}
        /\ Advances(slot.phase, Patched(o))
    BY <1>1, <1>4, SaysFacts, AdvanceFacts DEF Patched, Appending
  <2> QED  BY <2>1, <1>1, <1>2 DEF CopyLeads
<1>8. TempLeads' /\ SeedTaken'
  BY <1>1 DEF TempLeads, SeedTaken
<1> QED  BY <1>5, <1>6, <1>7, <1>8

LEMMA StagesTells ==
    ASSUME IInv, PInv, NEW o \in Ops, AppendStages(o)
    PROVE  PInv'
<1> USE DEF PInv
<1>1. /\ UNCHANGED <<host, slot, request>> /\ temp' = helper[o].copy
      /\ helper[o].io = "read" /\ helper[o].copy.op = o /\ Working(o)
  BY CopyFacts DEF AppendStages
<1>2. /\ helper'[o].at = helper[o].at /\ helper'[o].io = "staged"
      /\ helper'[o].copy = helper[o].copy
      /\ \A p \in Ops \ {o} : helper'[p] = helper[p]
  BY DEF AppendStages, IInv, TypeOK, Helper
<1>3. UNCHANGED Seeded /\ \A at : UNCHANGED Says(at)
  BY <1>1 DEF Seeded, Says
<1>4. StagedBy'
  BY <1>1, <1>2 DEF StagedBy
<1>5. Told'
  BY <1>1, <1>2, <1>3 DEF Told
<1>6. CopyLeads'
  BY <1>1, <1>2 DEF CopyLeads
<1>7. TempLeads'
  BY <1>1 DEF TempLeads, CopyLeads
<1>8. SeedTaken'
  <2>1. \A r \in Requests : request[r].at = "landed" =>
            request[r].op \in Ops /\ helper[request[r].op].at = "off"
    BY DEF IInv, Seeding, TypeOK, Request
  <2> QED  BY <1>1, <2>1 DEF SeedTaken, Working
<1> QED  BY <1>4, <1>5, <1>6, <1>7, <1>8

LEMMA LandsTells ==
    ASSUME IInv, PInv, NEW o \in Ops, AppendLands(o)
    PROVE  PInv'
<1> USE DEF PInv
<1>1. /\ UNCHANGED <<host, request>> /\ slot' = temp /\ temp' = NoStatus
      /\ helper[o].io = "staged" /\ Appending(o) /\ Working(o)
      /\ Goes(o, Returned(o)) /\ Returned(o) \in {"upgrading", "signal", "done"}
  BY CopyFacts DEF AppendLands, Returned, Appending
<1>2. /\ helper'[o].at = Returned(o) /\ helper'[o].io = "none"
      /\ \A p \in Ops \ {o} : helper'[p] = helper[p]
  BY <1>1, GoesTyped DEF IInv
<1>3. NoStatus.op = NoOp
  BY DEF NoStatus
<1>4. temp.op = o => temp.phase \in Says(Returned(o))
  <2>1. ASSUME temp.op = o PROVE temp = helper[o].copy
    BY <2>1, <1>1 DEF StagedBy, Working
  <2>2. /\ helper[o].at = "boot" => helper[o].copy.phase = "running"
        /\ helper[o].at = "reporting" => helper[o].copy.phase = "restarting"
        /\ helper[o].at = "failing" => helper[o].copy.phase = "failed"
        /\ helper[o].at = "upgrading" => helper[o].copy.phase \in {"pending", "running"}
    BY <1>1 DEF CopyLeads, IInv, Copied
  <2> QED  BY <2>1, <2>2, <1>1, SaysFacts DEF Returned, Appending
<1>5. UNCHANGED Seeded /\ \A at : UNCHANGED Says(at)
  BY <1>1 DEF Seeded, Says
<1>6. StagedBy' /\ TempLeads'
  BY <1>1, <1>3 DEF StagedBy, TempLeads
<1>7. \A p \in Ops \ {o} :
          /\ slot'.op = p => \/ slot'.phase \in Says(helper[p].at)
                             \/ helper[p].io = "staged" /\ slot'.phase = helper[p].copy.phase
          /\ slot'.op = p /\ helper[p].io # "none" =>
                 Advances(slot'.phase, helper[p].copy.phase)
  BY <1>1, <1>2, RenameTells
<1>8. Told'
  BY <1>1, <1>2, <1>4, <1>5, <1>7 DEF Told
<1>9. CopyLeads'
  BY <1>1, <1>2, <1>7 DEF CopyLeads
<1>10. SeedTaken'
  BY <1>1, <1>3 DEF SeedTaken, IInv, Seeding
<1> QED  BY <1>6, <1>8, <1>9, <1>10

\* The steps of the hub.
LEMMA SeedLandsTells ==
    ASSUME IInv, PInv, NEW r \in Requests, SeedLands(r)
    PROVE  PInv'
<1> USE DEF PInv
<1>1. /\ UNCHANGED <<host, helper>> /\ slot' = temp /\ temp' = NoStatus
      /\ request \in [Requests -> Request] /\ request[r].at = "staged" /\ request[r].op # NoOp
  BY DEF SeedLands, IInv, TypeOK, Seeding
<1>2. NoStatus.op = NoOp
  BY DEF NoStatus
<1>3. StagedBy' /\ TempLeads'
  BY <1>1, <1>2 DEF StagedBy, TempLeads
<1>4. \A p \in Ops :
          /\ slot'.op = p => \/ slot'.phase \in Says(helper[p].at)
                             \/ helper[p].io = "staged" /\ slot'.phase = helper[p].copy.phase
          /\ slot'.op = p /\ helper[p].io # "none" =>
                 Advances(slot'.phase, helper[p].copy.phase)
  BY <1>1, RenameTells
<1>5. UNCHANGED Seeded /\ \A at : UNCHANGED Says(at)
  BY <1>1 DEF Seeded, Says
<1>6. Told' /\ CopyLeads'
  BY <1>1, <1>4, <1>5 DEF Told, CopyLeads
<1>7. SeedTaken'
  <2>1. /\ \A q \in Requests \ {r} : request'[q] = request[q]
        /\ request'[r].at = "landed" => host # "pinned" /\ request'[r].op = request[r].op
    BY <1>1 DEF SeedLands, IdleRequest, Request
  <2> QED  BY <1>1, <1>2, <2>1 DEF SeedTaken, IInv, Seeding
<1> QED  BY <1>3, <1>6, <1>7

LEMMA SeedStagesTells ==
    ASSUME IInv, PInv, NEW r \in Requests, SeedStages(r)
    PROVE  PInv'
<1> USE DEF PInv
<1> DEFINE o == lastOp + 1
<1>1. /\ UNCHANGED <<host, slot, helper>>
      /\ temp' = [op |-> o, phase |-> Seeded]
      /\ o \in Ops /\ lastOp \in Nat /\ helper[o].at = "off" /\ slot.op <= lastOp
      /\ slot.op \in Ops \cup {NoOp}
  <2>1. slot.op \in Ops \cup {NoOp}
    BY Identified DEF IInv, TypeOK
  <2> QED  BY <2>1 DEF SeedStages, Seeded, IInv, TypeOK, Unseeded
<1>2. slot.op # o /\ temp'.op = o /\ temp'.phase = Seeded
  BY <1>1
<1>3. UNCHANGED Seeded /\ \A at : UNCHANGED Says(at)
  BY <1>1 DEF Seeded, Says
<1>4. StagedBy' /\ TempLeads'
  BY <1>1, <1>2, <1>3 DEF StagedBy, TempLeads
<1>5. Told' /\ CopyLeads'
  BY <1>1, <1>3 DEF Told, CopyLeads
<1>6. SeedTaken'
  <2>1. \A q \in Requests : request'[q].at # "landed"
    BY DEF SeedStages, HubFree, IInv, TypeOK, Request
  <2> QED  BY <2>1 DEF SeedTaken
<1> QED  BY <1>4, <1>5, <1>6

LEMMA SpawnTells ==
    ASSUME IInv, PInv, NEW r \in Requests, Spawn(r)
    PROVE  PInv'
<1> USE DEF PInv
<1>1. PICK o \in Ops : o = request[r].op
  BY DEF Spawn, IInv, TypeOK, Seeding, Request
<1>2. /\ UNCHANGED <<host, slot, temp>> /\ host # "pinned" /\ temp.op # o
      /\ helper[o].at = "off" /\ helper[o].io = "none"
  BY <1>1 DEF Spawn, SeedTaken, IInv, TypeOK, Seeding, Copied, Appending
<1>3. /\ helper'[o].at = "boot" /\ helper'[o].io = "none"
      /\ \A p \in Ops \ {o} : helper'[p] = helper[p]
  BY <1>1, <1>2 DEF Spawn, IInv, TypeOK, Helper
<1>4. slot.op = o => slot.phase \in Says("boot")
  BY <1>2, SaysFacts DEF Told, Seeded
<1>5. StagedBy' /\ Told' /\ CopyLeads' /\ TempLeads'
  BY <1>2, <1>3, <1>4, ElsewhereTold
<1>6. SeedTaken'
  BY <1>2 DEF SeedTaken, Spawn, IdleRequest, IInv, TypeOK
<1> QED  BY <1>5, <1>6

\* Steps that change requests, or the clock, and no file and no helper.
LEMMA IdleTells ==
    ASSUME IInv, PInv,
           \/ \E r \in Requests : Admit(r) \/ SeedThrows(r)
           \/ \E o \in Ops : Expire(o)
           \/ HubDies \/ UNCHANGED vars
    PROVE  PInv'
<1> USE DEF PInv
<1>1. UNCHANGED <<host, slot, temp, helper>>
  BY DEF Admit, SeedThrows, Expire, HubDies, vars
<1>2. UNCHANGED Seeded /\ \A at : UNCHANGED Says(at)
  BY <1>1 DEF Seeded, Says
<1>3. StagedBy' /\ Told' /\ CopyLeads' /\ TempLeads'
  BY <1>1, <1>2 DEF StagedBy, Told, CopyLeads, TempLeads
<1>4. SeedTaken'
  <2>1. \A r \in Requests : request'[r].at = "landed" => request'[r] = request[r]
    BY DEF Admit, SeedThrows, Expire, HubDies, vars, IInv, TypeOK, Request, IdleRequest
  <2> QED  BY <1>1, <2>1 DEF SeedTaken
<1> QED  BY <1>3, <1>4

\* The second invariant needs of the first which operation a record, a request
\* and a copy belong to, and nothing of its orderly part.
THEOREM InductiveTold == Spec => []PInv
<1>1. Init => PInv
  BY DEF Init, PInv, StagedBy, Told, CopyLeads, TempLeads, SeedTaken, NoStatus, IdleRequest
<1>2. IInv /\ PInv /\ [Next]_vars => PInv'
  <2> SUFFICES ASSUME IInv, PInv, [Next]_vars PROVE PInv'
    OBVIOUS
  <2>1. CASE \E r \in Requests : Admit(r) \/ Seed(r)
    BY <2>1, IdleTells, SeedStagesTells, SeedLandsTells, SpawnTells DEF Seed
  <2>2. CASE \E o \in Ops : Append(o) \/ UpgradeEnds(o) \/ RestartUnit(o) \/ SignalHub(o)
    BY <2>2, ReadsTells, StagesTells, LandsTells, HelperTells DEF Append
  <2>3. CASE \E o \in Ops : HelperDies(o) \/ Expire(o)
    BY <2>3, HelperTells, IdleTells
  <2>4. CASE HubDies \/ UNCHANGED vars
    BY <2>4, IdleTells
  <2> QED  BY <2>1, <2>2, <2>3, <2>4 DEF Next
<1> QED  BY <1>1, <1>2, Inductive, PTL DEF Spec

\* runHubUpgradeHelper reports before it returns: a helper that ran to its end
\* has left its verdict in the slot, if the slot is its own - whichever process
\* renamed the temporary file, and with any number of operations at once.
THEOREM OutcomeReported == Spec => []ReportsOutcome
<1>1. IInv /\ PInv => ReportsOutcome
  <2> SUFFICES ASSUME IInv, PInv, NEW o \in Ops, helper[o].at = "done", slot.op = o
               PROVE  slot.phase \in {"failed", "restarting"}
    BY DEF ReportsOutcome
  <2>1. helper[o].io = "none"
    BY CopyFacts DEF Working
  <2> QED  BY <2>1, SaysFacts DEF PInv, Told
<1> QED  BY <1>1, Inductive, InductiveTold, PTL

\* appendHubUpgradeStatus and the rename of writeHubUpgradeStatus: the phase a
\* poll reads of one operation never goes back, and failed stays failed, though
\* a rename may take what another process wrote.
THEOREM PollsNeverGoBack == Spec => PhasesAdvance
<1>1. IInv /\ PInv /\ [Next]_vars =>
        [slot.op # NoOp /\ slot'.op = slot.op
            => /\ Rank(slot'.phase) >= Rank(slot.phase)
               /\ slot.phase = "failed" => slot'.phase = "failed"]_vars
  <2> SUFFICES ASSUME IInv, PInv, [Next]_vars, slot.op # NoOp, slot'.op = slot.op
               PROVE  Advances(slot.phase, slot'.phase)
    BY DEF Advances
  <2>1. slot' = slot \/ slot' = temp
    BY DEF Next, Seed, Append, Admit, SeedStages, SeedLands, SeedThrows, Spawn, AppendReads,
           AppendSkips, AppendStages, AppendLands, AppendThrows, UpgradeEnds, RestartUnit,
           SignalHub, HelperDies, Expire, HubDies, vars
  <2>2. slot.phase \in Phases
    BY Identified DEF IInv, TypeOK, Status
  <2> QED  BY <2>1, <2>2, AdvanceFacts DEF PInv, TempLeads
<1> QED  BY <1>1, Inductive, InductiveTold, PTL DEF Spec, PhasesAdvance
=============================================================================
