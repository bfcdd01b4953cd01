---------------------------- MODULE AgentRuntime ----------------------------
(***************************************************************************)
(* The registry status of one agent (server/internal/agents): who writes   *)
(* it, and how the launcher and its supervisor bring it back in line with  *)
(* the agent's configuration and its model provider.                       *)
(*                                                                         *)
(* The status is one column that a request, the heartbeat loop, the        *)
(* supervisor's scan, every conversation and the agent itself write        *)
(* without comparing it, after a call to the provider or after reading a   *)
(* file.  The server keeps in memory which agents it heartbeats (active).  *)
(* Each statement, file access and provider call is one step.  The manager, *)
(* which has a status of its own for a missing secret, is left out.        *)
(*                                                                         *)
(* Time is a choice: two minutes since a probe and the delay of a retry    *)
(* have passed when Elapse says so.                                        *)
(***************************************************************************)
EXTENDS Naturals

CONSTANTS MaxActs,      \* bound: what people, agents and the provider do, and faults
          MaxRestarts   \* bound: how often the server ends

ASSUME RuntimeBounds == MaxActs \in Nat /\ MaxRestarts \in Nat

VARIABLES env,          \* the agent's file env: invalid, or what the provider makes of it
          providerUp,   \* the provider can be reached
          status,       \* agent_registry.status
          active,       \* the launcher heartbeats the agent
          closed,       \* the launcher is closed
          probed,       \* the supervisor's lastProbes: never, within two minutes, before
          retry,        \* the supervisor's probeRetries
          thread,       \* what each thread is doing
          acts, restarts

memory == <<active, closed, probed, retry>>
world  == <<env, providerUp>>
vars   == <<env, providerUp, status, memory, thread, acts, restarts>>

\* The supervisor, the heartbeat loop and a request in the server; a
\* conversation in a worker's process.
Threads == {"scan", "beat", "web", "chat"}

Idle  == [pc |-> "idle", goal |-> "none", env |-> "none", seen |-> "none"]
Begun == [Idle EXCEPT !.pc = "list", !.goal = "boot"]

Become(t, r) == thread' = [thread EXCEPT ![t] = r]
Goto(t, pc)  == Become(t, [thread[t] EXCEPT !.pc = pc])
At(t, pc)    == thread[t].pc = pc
Act          == acts < MaxActs /\ acts' = acts + 1

------------------------------------------------------------------------------
(* Service.                                                                *)

\* loadRuntimeConfig: a valid file ends 'blocked: missing_config'.
Valid     == env # "none"
Refreshed == IF Valid /\ status = "missing_config" THEN "configured" ELSE status
View      == IF Refreshed = "none" THEN "configured" ELSE Refreshed
Load      == status' = Refreshed

\* ProbeAgent: the configuration, the provider's answer to it, the status.
\* openGeneration comes first.
Probe(t) ==
    /\ At(t, "probe")
    /\ IF closed THEN Goto(t, "failed") /\ UNCHANGED status
       ELSE IF ~Valid THEN Goto(t, "mark_missing") /\ UNCHANGED status
       ELSE Become(t, [thread[t] EXCEPT !.pc = "ask", !.env = env]) /\ Load
    /\ UNCHANGED <<world, memory, acts, restarts>>

Answers(t) == thread[t].env = "good" /\ providerUp

Ask(t) ==
    /\ At(t, "ask")
    /\ Become(t, [thread[t] EXCEPT !.pc = "record",
                     !.seen = IF Answers(t) THEN "online" ELSE "provider_error"])
    /\ UNCHANGED <<world, status, memory, acts, restarts>>

Record(t) ==
    /\ At(t, "record")
    /\ status' = thread[t].seen
    /\ Goto(t, IF thread[t].seen = "online" THEN "start" ELSE "deactivate")
    /\ UNCHANGED <<world, memory, acts, restarts>>

\* markUnavailable, markMissingConfig: whatever the file is by now.
MarkMissing(t) ==
    /\ thread[t].pc \in {"mark_missing", "alive_missing"}
    /\ status' = "missing_config"
    /\ Goto(t, IF At(t, "mark_missing") \/ t = "beat" THEN "deactivate" ELSE "failed")
    /\ UNCHANGED <<world, memory, acts, restarts>>

\* ChatAgent.
ChatLoad ==
    /\ At("chat", "idle")
    /\ IF Valid THEN Become("chat", [Idle EXCEPT !.pc = "chat", !.env = env]) /\ Load
       ELSE Goto("chat", "missing") /\ UNCHANGED status
    /\ UNCHANGED <<world, memory, acts, restarts>>

Chat ==
    /\ At("chat", "chat")
    /\ Become("chat", IF Answers("chat") THEN Idle ELSE [Idle EXCEPT !.pc = "error"])
    /\ UNCHANGED <<world, status, memory, acts, restarts>>

ChatMark ==
    /\ thread["chat"].pc \in {"missing", "error"}
    /\ status' = IF At("chat", "missing") THEN "missing_config" ELSE "provider_error"
    /\ Become("chat", Idle)
    /\ UNCHANGED <<world, memory, acts, restarts>>

------------------------------------------------------------------------------
(* Launcher.                                                               *)

\* startMu is held from the check of the generation to the entry in active.
Starting(t) == t \in {"scan", "web"} /\ thread[t].pc \in {"alive", "alive_missing", "renew", "activate"}

\* Mutant of MayStart: whether the launcher was closed meanwhile is not asked.
MayStartClosed == TRUE

\* startHeartbeatForGeneration, of a launcher that was not closed since.
MayStart == ~closed

StartHeartbeat(t) ==
    /\ At(t, "start") /\ \A u \in Threads : ~Starting(u)
    /\ Goto(t, IF ~MayStart THEN "failed" ELSE IF active THEN "started" ELSE "alive")
    /\ UNCHANGED <<world, status, memory, acts, restarts>>

\* keepAlive reads file and status, and writes 'online' in a statement of
\* its own.
KeepAlive(t) ==
    /\ At(t, "alive")
    /\ IF ~Valid THEN Goto(t, "alive_missing") /\ UNCHANGED status
       ELSE /\ Load
            /\ Goto(t, IF View = "online" THEN "renew" ELSE IF t = "beat" THEN "deactivate" ELSE "failed")
    /\ UNCHANGED <<world, memory, acts, restarts>>

Renew(t) ==
    /\ At(t, "renew")
    /\ status' = "online"
    /\ IF t = "beat" THEN Become(t, Idle) ELSE Goto(t, "activate")
    /\ UNCHANGED <<world, memory, acts, restarts>>

\* The start is published first: if that fails it ends here, and the status
\* is 'online' by now.
Activate(t) ==
    /\ At(t, "activate")
    /\ \/ active' = TRUE /\ Goto(t, "started") /\ UNCHANGED acts
       \/ Act /\ Goto(t, "failed") /\ UNCHANGED active
    /\ UNCHANGED <<world, status, closed, probed, retry, restarts>>

\* StartConfiguredAgent: without a probe, for an agent that is online.
GetConfig(t) ==
    /\ At(t, "configured")
    /\ IF closed \/ ~Valid THEN Goto(t, IF closed THEN "failed" ELSE "deactivate") /\ UNCHANGED status
       ELSE Goto(t, IF View = "online" THEN "start" ELSE "failed") /\ Load
    /\ UNCHANGED <<world, memory, acts, restarts>>

Deactivate(t) ==
    /\ At(t, "deactivate")
    /\ active' = FALSE
    /\ IF t = "beat" THEN Become(t, Idle) ELSE Goto(t, "failed")
    /\ UNCHANGED <<world, status, closed, probed, retry, acts, restarts>>

\* runHeartbeats, every fifteen seconds.
Beat ==
    /\ At("beat", "idle") /\ active
    /\ Goto("beat", "alive")
    /\ UNCHANGED <<world, status, memory, acts, restarts>>

------------------------------------------------------------------------------
(* ManagerSupervisor.Scan and Launcher.StartAll, which begins a process.   *)

\* ensureBaselineAgents, before every scan.
Scan ==
    /\ At("scan", "idle") /\ ~closed
    /\ status' = IF status = "none" THEN "missing_config" ELSE status
    /\ Become("scan", [Idle EXCEPT !.pc = "list", !.goal = "restore"])
    /\ UNCHANGED <<world, memory, acts, restarts>>

\* ListAgentConfigs, once for the restoration and once for the report.
ListConfigs ==
    /\ At("scan", "list")
    /\ IF Valid THEN Load /\ Become("scan", [thread["scan"] EXCEPT !.pc = "listed", !.seen = View])
       ELSE Goto("scan", "list_missing") /\ UNCHANGED status
    /\ UNCHANGED <<world, memory, acts, restarts>>

ListMissing ==
    /\ At("scan", "list_missing")
    /\ status' = "missing_config"
    /\ Become("scan", [thread["scan"] EXCEPT !.pc = "listed", !.seen = "none"])
    /\ UNCHANGED <<world, memory, acts, restarts>>

\* StartAll: only what was online is heartbeated again; the supervisor does
\* the rest.
Boot ==
    /\ At("scan", "listed") /\ thread["scan"].goal = "boot"
    /\ IF thread["scan"].seen = "online" THEN Goto("scan", "configured") ELSE Become("scan", Idle)
    /\ UNCHANGED <<world, status, memory, acts, restarts>>

\* An agent that could not be started is called unconfigured.
BootEnds ==
    /\ thread["scan"].goal = "boot" /\ thread["scan"].pc \in {"started", "failed"}
    /\ Become("scan", Idle)
    /\ IF At("scan", "failed")
       THEN active' = FALSE /\ status' = "missing_config"
       ELSE UNCHANGED <<active, status>>
    /\ UNCHANGED <<world, closed, probed, retry, acts, restarts>>

Failure     == retry' = "waiting"
Report      == [Idle EXCEPT !.pc = "list", !.goal = "report"]
Pursue(goal, pc) == Become("scan", [thread["scan"] EXCEPT !.goal = goal, !.pc = pc])

\* Mutant of HealthIsFresh: an agent that is heartbeated is not probed.
HealthIsNeverAsked == active

\* The probe of an active agent is good for two minutes.
HealthIsFresh == active /\ probed = "fresh"

\* restoreAgentRuntimes and restoreAgentRuntime, for what was listed.
Restore ==
    LET seen == thread["scan"].seen
        rest == UNCHANGED <<status, active, closed>>
    IN  /\ At("scan", "listed") /\ thread["scan"].goal = "restore"
        /\ \/ /\ HealthIsFresh
              /\ Become("scan", Report) /\ retry' = "none" /\ UNCHANGED probed
           \/ /\ active /\ ~HealthIsFresh
              /\ Pursue("health", "probe") /\ UNCHANGED <<retry, probed>>
           \/ /\ ~active /\ seen = "online"
              /\ Pursue("online", "configured") /\ UNCHANGED <<retry, probed>>
           \/ /\ ~active /\ seen = "configured"
              /\ Pursue("configured", "probe") /\ retry' = "none" /\ UNCHANGED probed
           \/ /\ ~active /\ seen = "provider_error"
              /\ IF retry = "due" THEN Pursue("retry", "probe") /\ UNCHANGED retry
                 ELSE Become("scan", Report) /\ IF retry = "none" THEN Failure ELSE UNCHANGED retry
              /\ UNCHANGED probed
           \/ /\ ~active /\ seen \notin {"online", "configured", "provider_error"}
              /\ Become("scan", Report) /\ retry' = "none"
              /\ probed' \in IF seen = "none" THEN {probed, "never"} ELSE {"never"}
        /\ rest /\ UNCHANGED <<world, acts, restarts>>

\* What the supervisor remembers of it.  A probe that failed says so by the
\* provider's error.
RestoreEnds ==
    LET provider == thread["scan"].seen = "provider_error" /\ thread["scan"].env # "none"
        goal == thread["scan"].goal
    IN  /\ goal \in {"health", "online", "configured", "retry"}
        /\ \/ At("scan", "started") /\ retry' = "none" /\ probed' = "fresh"
           \/ /\ At("scan", "failed") /\ UNCHANGED probed
              /\ IF provider THEN Failure
                 ELSE retry' = IF goal = "retry" THEN "none" ELSE retry
        /\ Become("scan", Report)
        /\ UNCHANGED <<world, status, active, closed, acts, restarts>>

\* capture lists the agents again.
ReportEnds ==
    /\ At("scan", "listed") /\ thread["scan"].goal = "report"
    /\ Become("scan", Idle)
    /\ UNCHANGED <<world, status, memory, acts, restarts>>

\* activeAgentProbeInterval and agentProbeRetryDelay pass.
Elapse ==
    /\ \/ probed = "fresh" /\ probed' = "old" /\ UNCHANGED retry
       \/ retry = "waiting" /\ retry' = "due" /\ UNCHANGED probed
    /\ UNCHANGED <<world, status, active, closed, thread, acts, restarts>>

------------------------------------------------------------------------------
(* Requests: handleSaveAgentConfig and handleProbeAgent.                   *)

SaveConfig ==
    /\ At("web", "idle") /\ Act
    /\ env' \in {"good", "refused"}
    /\ Goto("web", "save")
    /\ UNCHANGED <<providerUp, status, memory, restarts>>

Save ==
    /\ At("web", "save")
    /\ status' = "configured" /\ Goto("web", "probe")
    /\ UNCHANGED <<world, memory, acts, restarts>>

ProbeByHand ==
    /\ At("web", "idle") /\ Act
    /\ Goto("web", "probe")
    /\ UNCHANGED <<world, status, memory, restarts>>

RequestEnds ==
    /\ thread["web"].pc \in {"started", "failed"}
    /\ Become("web", Idle)
    /\ UNCHANGED <<world, status, memory, acts, restarts>>

\* A client that goes away ends the probe with an error.
RequestCancelled ==
    /\ thread["web"].pc \in {"ask", "record"} /\ Act
    /\ Goto("web", "deactivate")
    /\ UNCHANGED <<world, status, memory, restarts>>

------------------------------------------------------------------------------
(* What else changes the status, the file and the process.                 *)

\* Heartbeat: the agent itself says what it is doing.
Heartbeat ==
    /\ Act /\ status # "none"
    /\ status' \in {"online", "busy"}
    /\ UNCHANGED <<world, memory, thread, restarts>>

\* The executor's supervisor finds a worker without configuration.
BlockMissingConfig ==
    /\ Act /\ status # "none"
    /\ status' = "missing_config"
    /\ UNCHANGED <<world, memory, thread, restarts>>

\* Somebody removes the file, or makes it invalid.
RemoveConfig ==
    /\ Act /\ Valid /\ env' = "none"
    /\ UNCHANGED <<providerUp, status, memory, thread, restarts>>

ProviderMoves ==
    /\ IF providerUp THEN Act ELSE UNCHANGED acts
    /\ providerUp' = ~providerUp
    /\ UNCHANGED <<env, status, memory, thread, restarts>>

\* Close waits for the scan, for startMu and for the heartbeat loop; requests
\* may still be under way.
Close ==
    /\ ~closed /\ restarts < MaxRestarts
    /\ At("scan", "idle") /\ At("beat", "idle") /\ ~Starting("web")
    /\ closed' = TRUE /\ active' = FALSE
    /\ UNCHANGED <<world, status, probed, retry, thread, acts, restarts>>

\* The process ends, closed or not, and another one starts.
Restart ==
    /\ restarts < MaxRestarts /\ restarts' = restarts + 1
    /\ active' = FALSE /\ closed' = FALSE /\ probed' = "never" /\ retry' = "none"
    /\ thread' = [t \in Threads |-> IF t = "chat" THEN thread[t] ELSE IF t = "scan" THEN Begun ELSE Idle]
    /\ UNCHANGED <<world, status, acts>>

------------------------------------------------------------------------------
Init ==
    /\ env = "none" /\ providerUp = TRUE /\ status = "none"
    /\ active = FALSE /\ closed = FALSE /\ probed = "never" /\ retry = "none"
    /\ thread = [t \in Threads |-> IF t = "scan" THEN Begun ELSE Idle]
    /\ acts = 0 /\ restarts = 0

Started(t) ==
    \/ Probe(t) \/ Ask(t) \/ Record(t) \/ MarkMissing(t) \/ Deactivate(t)
    \/ StartHeartbeat(t) \/ KeepAlive(t) \/ Renew(t) \/ Activate(t)

ScanStep ==
    \/ Scan \/ ListConfigs \/ ListMissing \/ Boot \/ BootEnds
    \/ Restore \/ RestoreEnds \/ ReportEnds \/ GetConfig("scan") \/ Started("scan")

WebStep  == Save \/ RequestEnds \/ Started("web")
BeatStep == Beat \/ Started("beat")
ChatEnds == Chat \/ ChatMark

Next ==
    \/ ScanStep \/ BeatStep \/ WebStep \/ ChatLoad \/ ChatEnds \/ Elapse
    \/ SaveConfig \/ ProbeByHand \/ RequestCancelled
    \/ Heartbeat \/ BlockMissingConfig \/ RemoveConfig \/ ProviderMoves
    \/ Close \/ Restart

Spec == Init /\ [][Next]_vars

\* The loops have tickers, calls to the provider time out, time passes.
Fairness ==
    /\ WF_vars(ScanStep) /\ WF_vars(BeatStep) /\ WF_vars(WebStep) /\ WF_vars(ChatEnds)
    /\ WF_vars(Elapse)

FairSpec == Spec /\ Fairness

------------------------------------------------------------------------------
(* Properties.                                                             *)

Statuses == {"none", "missing_config", "configured", "online", "busy", "provider_error"}
Files    == {"none", "refused", "good"}
Places   == {"idle", "list", "list_missing", "listed", "probe", "ask", "record", "mark_missing",
             "deactivate", "configured", "start", "alive", "alive_missing", "renew", "activate",
             "started", "failed", "save", "chat", "missing", "error"}
Goals    == {"none", "boot", "restore", "health", "online", "configured", "retry", "report"}
ThreadRow == [pc : Places, goal : Goals, env : Files, seen : Statuses]

\* Status, file and threads stay in their domains.
TypeOK ==
    /\ env \in Files /\ providerUp \in BOOLEAN /\ status \in Statuses
    /\ active \in BOOLEAN /\ closed \in BOOLEAN
    /\ probed \in {"never", "fresh", "old"} /\ retry \in {"none", "waiting", "due"}
    /\ acts \in 0 .. MaxActs /\ restarts \in 0 .. MaxRestarts
    /\ thread \in [Threads -> ThreadRow]

\* A launcher that was closed heartbeats nobody, whatever request was in
\* the middle of starting an agent.
ClosedIsQuiet == closed => ~active

Works == env = "good" /\ providerUp

\* An agent whose configuration and provider work for good comes online and
\* stays so, and the server heartbeats it, whatever late probes, heartbeats
\* and conversations wrote over each other before; unless it calls itself
\* busy.
WorkingComesOnline ==
    <>[](Works /\ ~closed /\ status # "busy") => <>[](status = "online" /\ active)

\* An agent whose provider fails for good does not stay online unnoticed: the
\* heartbeat that renews 'online' cannot hide it for ever.
FailureIsNoticed == <>[](~Works /\ ~closed) => []<>(status # "online")

\* Both: the status follows the provider.
StatusFollowsProvider == WorkingComesOnline /\ FailureIsNoticed

=============================================================================
