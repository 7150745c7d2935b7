------------------------------ MODULE DataPlane ------------------------------
(***************************************************************************)
(* Workloads and the containers that run them: src/data-plane/service.ts.  *)
(*                                                                         *)
(* Starting and stopping are calls of docker or podman followed by saves   *)
(* of the unit, its health check and an event, all synchronous: no other   *)
(* request comes between, but each call may fail on its own and the        *)
(* process may be killed between any two.  The unit is appended with a new *)
(* id, so a unit is its place in the list.  The state is saved as in       *)
(* StateCell.  The ready node a start needs is ControlPlane's.             *)
(***************************************************************************)
EXTENDS Faults

CONSTANTS
    Workloads,  \* ids of planned workloads whose runtime is "container"
    Foreign,    \* those with another runtime
    MaxUnits    \* bound: starts

ASSUME WorkloadsAssumption == Workloads \cap Foreign = {}

ASSUME BoundsAssumption == MaxUnits \in Nat

(* Containers are numbered as they are started; 0 is none.                 *)
NoContainer == 0
UnitState == {"running", "stopped", "failed"}
Unit == [workload : Workloads \cup Foreign, state : UnitState, container : Nat]

VARIABLES
    started,    \* starts so far
    live,       \* containers that run on the host
    stopping,   \* the units that the stop in progress still has to stop
    promised,   \* containers whose start was answered 201
    settled     \* units that a stop has marked stopped

host == <<started, live>>
vars == <<cell, host, up, stopping, promised, settled, faults>>

TypeOK ==
    /\ Views \subseteq Seq(Unit)
    /\ started \in Nat
    /\ live \subseteq 1..started
    /\ up \in BOOLEAN
    /\ stopping \subseteq Nat \ {0}
    /\ promised \subseteq 1..started
    /\ settled \subseteq Nat \ {0}
    /\ faults \in Nat

Init ==
    /\ StartsWith(<< >>)
    /\ started = 0
    /\ live = {}
    /\ up = TRUE
    /\ stopping = {}
    /\ promised = {}
    /\ settled = {}
    /\ faults = 0

Idle == up /\ stopping = {}

-----------------------------------------------------------------------------
(* saveUnit stores the unit, then its health check.                        *)
UnitSaved(next) == SavedTwice(next) /\ NoFault

(* The unit is stored or not, and the request ends with 500.               *)
UnitThrows(next) == (NotSaved(next) \/ SavedOnce(next)) /\ Fault

NewUnit(w, state, container) ==
    Append(mem, [workload |-> w, state |-> state, container |-> container])

(* No runtime on the host, another kind of runtime, or docker run failed:  *)
(* a unit is kept as failed.                                               *)
RunFails(w) ==
    /\ Idle
    /\ started < MaxUnits
    /\ started' = started + 1
    /\ LET next == NewUnit(w, "failed", NoContainer) IN
           UnitSaved(next) \/ UnitThrows(next)
    /\ UNCHANGED <<live, up, stopping, promised, settled>>

(* Mutant: one save, without the health check and the event.               *)
RunSavedOnce(w) ==
    /\ Idle
    /\ started < MaxUnits
    /\ started' = started + 1
    /\ live' = live \cup {started'}
    /\ Saved(NewUnit(w, "running", started')) /\ NoFault
    /\ promised' = promised \cup {started'}
    /\ UNCHANGED <<up, stopping, settled>>

(* The container runs, and its unit is saved after that.                   *)
Run(w) ==
    /\ Idle
    /\ started < MaxUnits
    /\ started' = started + 1
    /\ live' = live \cup {started'}
    /\ LET next == NewUnit(w, "running", started') IN
       \/ UnitSaved(next) /\ promised' = promised \cup {started'}
       \/ UnitThrows(next) /\ UNCHANGED promised
    /\ UNCHANGED <<up, stopping, settled>>

(* Units to stop are picked before the first of them is stopped.           *)
BeginStop(w) ==
    /\ Idle
    /\ stopping' = {i \in DOMAIN mem : mem[i].workload = w /\ mem[i].state = "running"}
    /\ stopping' # {}
    /\ UNCHANGED <<cell, host, up, promised, settled, faults>>

(* Mutant: the units that are left are marked together, in one save.       *)
StopUnitSavedOnce ==
    /\ up
    /\ stopping # {}
    /\ live' = live \ {mem[i].container : i \in stopping}
    /\ Saved([i \in DOMAIN mem |-> IF i \in stopping THEN [mem[i] EXCEPT !.state = "stopped"]
                                                     ELSE mem[i]])
    /\ settled' = settled \cup stopping
    /\ stopping' = {}
    /\ UNCHANGED <<started, up, promised, faults>>

(* One turn of the loop of stopWorkload: stop the container, then mark the *)
(* unit stopped whatever the command returned; one that fails is a fault.  *)
StopUnit ==
    /\ up
    /\ \E i \in stopping :
          LET next == [mem EXCEPT ![i].state = "stopped"] IN
          /\ \A j \in stopping : i <= j
          /\ \/ /\ live' = live \ {mem[i].container}
                /\ UnitSaved(next)
                /\ stopping' = stopping \ {i}
                /\ settled' = settled \cup {i}
             \/ /\ UNCHANGED live
                /\ SavedTwice(next) /\ Fault
                /\ stopping' = stopping \ {i}
                /\ settled' = settled \cup {i}
             \/ /\ live' = live \ {mem[i].container}
                /\ UnitThrows(next)
                /\ stopping' = {}
                /\ UNCHANGED settled
    /\ UNCHANGED <<started, up, promised>>

(* A container ends by itself; nothing tells the process.                  *)
Exit ==
    /\ \E c \in live : live' = live \ {c}
    /\ UNCHANGED <<cell, started, up, stopping, promised, settled, faults>>

(* Killed between two of the steps above; within one it is the failure of  *)
(* its next save, followed by this.                                        *)
Kill ==
    /\ up
    /\ up' = FALSE
    /\ stopping' = {}
    /\ UNCHANGED <<cell, host, promised, settled, faults>>

Start ==
    /\ ~up
    /\ up' = TRUE
    /\ Reloaded
    /\ UNCHANGED <<host, stopping, promised, settled, faults>>

Next ==
    \/ \E w \in Workloads : Run(w) \/ BeginStop(w)
    \/ \E w \in Workloads \cup Foreign : RunFails(w)
    \/ StopUnit \/ Exit \/ Kill \/ Start

Spec == Init /\ [][Next]_vars

-----------------------------------------------------------------------------
(* A container whose start was answered 201 is never lost sight of: in     *)
(* memory and in whatever a restart loads, a unit names it, so that a stop *)
(* can find it.  It is the health check saved after the unit that carries  *)
(* the unit into the backup.                                               *)
Knows(s, c) == \E i \in DOMAIN s : s[i].container = c

StartIsKnown == \A c \in promised, s \in Views : Knows(s, c)

(* A unit that stopWorkload has marked stopped is not running again after  *)
(* any failure or restart.                                                 *)
Stopped(s, i) == i \in DOMAIN s /\ s[i].state = "stopped"

StopIsKept == \A i \in settled, s \in Views : Stopped(s, i)

(* "Stop active runtime units for a workload" (src/api/routes.ts:47): the  *)
(* container of a unit that a stop has settled does not run.               *)
StoppedIsDark ==
    \A i \in settled : mem[i].container \notin live
=============================================================================
