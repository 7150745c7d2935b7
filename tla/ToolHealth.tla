----------------------------- MODULE ToolHealth -----------------------------
(***************************************************************************)
(* How the platform learns whether a tool runs: heartbeats, their expiry   *)
(* and the probes of src/systems-api/service.ts, driven by the interval of *)
(* src/server.ts, over the tools of src/systems-api/registry.ts.           *)
(*                                                                         *)
(* A probe round captures the tools and awaits their answers; meanwhile a  *)
(* tool may register anew, move, report or be removed, and the answer is   *)
(* applied to what the registry holds then.  Heartbeats, expiry and probes *)
(* are not stored; the other writes store the whole registry, and the      *)
(* failures of that are left to ExposureRegistry.  One step of the clock   *)
(* is one interval of 30 seconds, and a round, which times out after 5, is *)
(* over before the next.                                                   *)
(***************************************************************************)
EXTENDS Integers

CONSTANTS
    Tools,
    Upstreams,      \* where tools may run
    None,           \* no tool of that id, no upstream, nothing reported
    Late            \* intervals after which a heartbeat has expired: four

ASSUME ToolHealthAssumption ==
    /\ None \notin Upstreams
    /\ Late \in Nat \ {0}

(* "degraded" is as good as "healthy" here.                                *)
Health == {"healthy", "offline"}

(* Intervals since the last heartbeat, up to Late; -1 if there was none.   *)
Never == -1
Age == Never .. Late

Tool == [exposed : BOOLEAN, upstream : Upstreams \cup {None}, health : Health,
         status : {"registered", "active", "offline"}, age : Age]

VARIABLES
    tool,       \* the registry in memory
    stored,     \* the registry file
    running,
    probes,     \* probes of this round that await an answer
    answering,  \* upstreams whose /health answers 2xx in time
    beating     \* tools that send heartbeats

toolHealth == <<tool, stored, running, probes, answering, beating>>

(* What a probe captured: "down" if the tool was offline already.          *)
Probe == [tool : Tools, upstream : Upstreams, down : BOOLEAN]

HealthTypeOK ==
    /\ tool \in [Tools -> Tool \cup {None}]
    /\ stored \in [Tools -> Tool \cup {None}]
    /\ running \in BOOLEAN
    /\ probes \subseteq Probe
    /\ answering \subseteq Upstreams
    /\ beating \subseteq Tools

HealthInit ==
    /\ tool = [t \in Tools |-> None]
    /\ stored = tool
    /\ running = TRUE
    /\ probes = {}
    /\ answering \in SUBSET Upstreams
    /\ beating \in SUBSET Tools

Given(field, otherwise) == IF field = None THEN otherwise ELSE field

-----------------------------------------------------------------------------
(* Writes of clients and operators: the registry is stored as it is.       *)

Commit(t, record) ==
    /\ tool' = [tool EXCEPT ![t] = record]
    /\ stored' = tool'
    /\ UNCHANGED <<running, probes, answering, beating>>

NewTool ==
    [exposed |-> FALSE, upstream |-> None, health |-> "healthy",
     status |-> "registered", age |-> Never]

(* buildTool: what is left out stays, the status always does.              *)
Register(t, upstream, health) ==
    /\ running
    /\ LET old == IF tool[t] = None THEN NewTool ELSE tool[t] IN
         Commit(t, [old EXCEPT !.upstream = Given(upstream, @), !.health = Given(health, @)])

(* updateTool changes the same fields, enableTool and disableTool one.     *)
Expose(t, flag) ==
    /\ running
    /\ tool[t] # None
    /\ Commit(t, [tool[t] EXCEPT !.exposed = flag])

Deregister(t) ==
    /\ running
    /\ tool[t] # None
    /\ Commit(t, None)

-----------------------------------------------------------------------------
(* Heartbeats, expiry and probes: in memory only.                          *)

(* Mutant: the health is stored as the status.                             *)
BeatenWithHealth(old, upstream, health) ==
    [old EXCEPT !.upstream = Given(upstream, @),
                !.status = Given(health, "healthy"),
                !.age = 0]

(* recordToolHeartbeat: an offline tool that reports is healthy again,     *)
(* unless it says something else.                                          *)
Beaten(old, upstream, health) ==
    [old EXCEPT !.upstream = Given(upstream, @),
                !.health = Given(health, "healthy"),
                !.status = "active",
                !.age = 0]

Heartbeat(t, upstream, health) ==
    /\ running
    /\ t \in beating
    /\ tool[t] # None
    /\ tool' = [tool EXCEPT ![t] = Beaten(@, upstream, health)]
    /\ UNCHANGED <<stored, running, probes, answering, beating>>

(* expireToolHeartbeat.                                                    *)
Expired(old) == [old EXCEPT !.health = "offline", !.status = "offline"]

Older(old) == [old EXCEPT !.age = IF @ \in {Never, Late} THEN @ ELSE @ + 1]

(* Mutant: a tool that is shown offline is left alone.                     *)
HasLapsedOnline(old) == old.age = Late /\ old.health # "offline"

HasLapsed(old) == old.age = Late /\ old.status # "offline"

(* applyHeartbeatExpiry.                                                   *)
AfterExpiry ==
    [t \in Tools |->
        IF tool[t] = None THEN None
        ELSE LET old == Older(tool[t]) IN IF HasLapsed(old) THEN Expired(old) ELSE old]

(* Mutant: only tools that are not offline yet are worth a probe.          *)
WatchedOnline(record) ==
    record # None /\ record.exposed /\ record.upstream # None /\ record.health # "offline"

Watched(record) == record # None /\ record.exposed /\ record.upstream # None

(* The interval: expiry first, then probeExposedToolsHealth starts.        *)
Interval ==
    /\ running
    /\ probes = {}
    /\ tool' = AfterExpiry
    /\ probes' = {[tool |-> t, upstream |-> tool'[t].upstream,
                   down |-> tool'[t].health = "offline"] : t \in {s \in Tools : Watched(tool'[s])}}
    /\ UNCHANGED <<stored, running, answering, beating>>

(* A success is recorded as a heartbeat; it keeps a health other than      *)
(* offline.                                                                *)
Succeeded(p, old) == Beaten(old, None, None)

(* A failure takes the tool offline, unless it was when the round began.   *)
Failed(p, old) == IF p.down THEN old ELSE Expired(old)

Answer(p) ==
    /\ probes' = probes \ {p}
    /\ tool' = [tool EXCEPT ![p.tool] =
           IF @ = None THEN None
           ELSE IF p.upstream \in answering THEN Succeeded(p, @) ELSE Failed(p, @)]
    /\ UNCHANGED <<stored, running, answering, beating>>

-----------------------------------------------------------------------------
(* The world: tools and the process start and end.                         *)

Change ==
    /\ answering' \in SUBSET Upstreams
    /\ beating' \in SUBSET Tools
    /\ UNCHANGED <<tool, stored, running, probes>>

HealthKill ==
    /\ running
    /\ running' = FALSE
    /\ probes' = {}
    /\ UNCHANGED <<tool, stored, answering, beating>>

(* The file is loaded; any time has passed.                                *)
HealthStart ==
    /\ ~running
    /\ running' = TRUE
    /\ \E age \in 0 .. Late :
         tool' = [t \in Tools |->
             IF stored[t] = None \/ stored[t].age = Never THEN stored[t]
             ELSE [stored[t] EXCEPT !.age = age]]
    /\ UNCHANGED <<stored, probes, answering, beating>>

ToolWrites(t) ==
    \/ \E upstream \in Upstreams \cup {None}, health \in Health \cup {None} :
          Register(t, upstream, health) \/ Heartbeat(t, upstream, health)
    \/ \E flag \in BOOLEAN : Expose(t, flag)
    \/ Deregister(t)

HealthNext ==
    \/ \E t \in Tools : ToolWrites(t)
    \/ Interval
    \/ \E p \in probes : Answer(p)
    \/ Change \/ HealthKill \/ HealthStart

(* The timer keeps firing, and a fetch ends by its timeout at the latest.  *)
HealthFairness == WF_toolHealth(Interval) /\ WF_toolHealth(\E p \in probes : Answer(p))

HealthSpec == HealthInit /\ [][HealthNext]_toolHealth /\ HealthFairness

-----------------------------------------------------------------------------
RunsAt(t, u) == running /\ tool[t] # None /\ tool[t].upstream = u

HasStatus(t, status) == tool[t] # None /\ tool[t].status = status

(* A tool that is exposed and answers its probes where it runs, from some  *)
(* time on, is active from some time on: a verdict about where it ran      *)
(* before, an expiry, a restart from an old file or a probe that failed at *)
(* the wrong moment is put right by a later round, although the tool       *)
(* itself reports nothing.  (One that keeps moving may stay offline: each  *)
(* round may judge it by the place it has just left.)                      *)
Alive(t, u) == RunsAt(t, u) /\ tool[t].exposed /\ u \in answering

AliveToolRecovers ==
    \A t \in Tools, u \in Upstreams :
        <>[]Alive(t, u) => <>[]HasStatus(t, "active")

(* A tool that reported once and, from some time on, neither reports nor   *)
(* answers probes has lapsed for good from some time on: also one that is  *)
(* not exposed, one that said it was going offline, one that the last      *)
(* round found alive, and one loaded from a file in which it is active.    *)
Dead(t, u) ==
    /\ RunsAt(t, u)
    /\ tool[t].age # Never
    /\ t \notin beating
    /\ u \notin answering

DeadToolLapses ==
    \A t \in Tools, u \in Upstreams \cup {None} :
        <>[]Dead(t, u) => <>[]HasStatus(t, "offline")
=============================================================================
