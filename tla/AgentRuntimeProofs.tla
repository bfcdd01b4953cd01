------------------------- MODULE AgentRuntimeProofs -------------------------
(***************************************************************************)
(* A closed launcher heartbeats nobody, however many faults and restarts   *)
(* there are: the proof of ClosedIsQuiet and of the types.                 *)
(***************************************************************************)
EXTENDS AgentRuntime, TLAPS

\* What Close finds, and what nothing after it changes: the scan and the
\* heartbeat loop have ended, and no request is between the check of the
\* generation and the entry in active.
ClosedIsStill ==
    closed => At("scan", "idle") /\ At("beat", "idle") /\ ~Starting("web")

\* The inductive invariant.
IInv == TypeOK /\ ClosedIsQuiet /\ ClosedIsStill

\* What a step does to everything but the threads.
RestFits ==
    /\ env' \in Files /\ providerUp' \in BOOLEAN /\ status' \in Statuses
    /\ active' \in BOOLEAN /\ closed' \in BOOLEAN
    /\ probed' \in {"never", "fresh", "old"} /\ retry' \in {"none", "waiting", "due"}
    /\ acts' \in 0 .. MaxActs /\ restarts' \in 0 .. MaxRestarts

\* What a step of t does to the threads.
Moves(t) ==
    /\ thread' \in [Threads -> ThreadRow]
    /\ \A u \in Threads \ {t} : thread'[u] = thread[u]

\* A thread becomes one of the right type.
LEMMA BecomeMoves ==
    ASSUME IInv, NEW t \in Threads, NEW r \in ThreadRow, Become(t, r)
    PROVE  Moves(t) /\ thread'[t] = r
BY DEF IInv, TypeOK, Become, Moves

\* A thread goes to its next place.
LEMMA GotoMoves ==
    ASSUME IInv, NEW t \in Threads, NEW pc \in Places, Goto(t, pc)
    PROVE  Moves(t) /\ thread'[t].pc = pc
<1> DEFINE r == [thread[t] EXCEPT !.pc = pc]
<1>1. r \in ThreadRow /\ r.pc = pc
  BY DEF IInv, TypeOK, ThreadRow
<1>2. Become(t, r)
  BY DEF Goto
<1> HIDE DEF r
<1> QED BY <1>1, <1>2, BecomeMoves

\* Loading a configuration leaves a status and shows one.
LEMMA LoadFits ==
    ASSUME IInv
    PROVE  Refreshed \in Statuses /\ View \in Statuses
BY DEF IInv, TypeOK, Refreshed, View, Statuses

\* A thread that has nothing to do, or a scan that lists.
LEMMA IdleRow ==
    /\ Idle \in ThreadRow /\ Idle.pc = "idle"
    /\ Begun \in ThreadRow /\ Report \in ThreadRow
BY DEF Idle, Begun, Report, ThreadRow, Places, Goals, Files, Statuses

------------------------------------------------------------------------------
(* The steps of a thread: types.                                           *)

\* A probe and a start of the heartbeats, whatever thread they run in.
LEMMA StartedFits ==
    ASSUME IInv, NEW t \in Threads, Started(t)
    PROVE  RestFits /\ Moves(t)
<1>1. RestFits
  <2>1. thread[t].seen \in Statuses
    BY DEF IInv, TypeOK, ThreadRow
  <2>2. CASE Probe(t) \/ KeepAlive(t)
    BY <2>2, LoadFits DEF Probe, KeepAlive, Load, RestFits, IInv, TypeOK, world, memory
  <2>3. CASE Record(t) \/ MarkMissing(t) \/ Renew(t)
    BY <2>1, <2>3 DEF Record, MarkMissing, Renew, RestFits, IInv, TypeOK, Statuses, world, memory
  <2>4. CASE Ask(t) \/ StartHeartbeat(t)
    BY <2>4 DEF Ask, StartHeartbeat, RestFits, IInv, TypeOK, world, memory
  <2>5. CASE Activate(t) \/ Deactivate(t)
    <3>1. Act => acts' \in 0 .. MaxActs
      BY RuntimeBounds DEF Act, IInv, TypeOK
    <3> QED BY <2>5, <3>1 DEF Activate, Deactivate, RestFits, IInv, TypeOK, world
  <2> QED BY <2>2, <2>3, <2>4, <2>5 DEF Started
<1>2. Moves(t)
  <2>0. thread[t] \in ThreadRow /\ env \in Files
    BY DEF IInv, TypeOK
  <2>1. CASE \E pc \in Places : Goto(t, pc)
    BY <2>1, GotoMoves
  <2>2. CASE Become(t, Idle)
    BY <2>2, BecomeMoves, IdleRow
  <2>3. CASE Probe(t)
    <3> DEFINE r == [thread[t] EXCEPT !.pc = "ask", !.env = env]
    <3>1. r \in ThreadRow
      BY <2>0 DEF ThreadRow, Places
    <3>2. Become(t, r) \/ \E pc \in {"failed", "mark_missing"} : Goto(t, pc)
      BY <2>3 DEF Probe
    <3> HIDE DEF r
    <3> QED BY <2>1, <3>1, <3>2, BecomeMoves DEF Places
  <2>4. CASE Ask(t)
    <3> DEFINE seen == IF Answers(t) THEN "online" ELSE "provider_error"
               r == [thread[t] EXCEPT !.pc = "record", !.seen = seen]
    <3>1. seen \in Statuses
      BY DEF Statuses
    <3> HIDE DEF seen
    <3>2. r \in ThreadRow
      BY <2>0, <3>1 DEF ThreadRow, Places
    <3>3. Become(t, r)
      BY <2>4 DEF Ask, seen
    <3> HIDE DEF r
    <3> QED BY <3>2, <3>3, BecomeMoves
  <2>5. CASE Record(t) \/ StartHeartbeat(t) \/ KeepAlive(t) \/ Activate(t)
    BY <2>1, <2>5 DEF Record, StartHeartbeat, KeepAlive, Activate, Places
  <2>6. CASE MarkMissing(t) \/ Renew(t) \/ Deactivate(t)
    BY <2>1, <2>2, <2>6 DEF MarkMissing, Renew, Deactivate, Places
  <2> QED BY <2>3, <2>4, <2>5, <2>6 DEF Started
<1> QED BY <1>1, <1>2

\* The supervisor's scan, and the start of a process.
LEMMA ScanFits ==
    ASSUME IInv, ScanStep
    PROVE  RestFits /\ Moves("scan")
<1> DEFINE row == thread["scan"]
<1>0. "scan" \in Threads /\ row \in ThreadRow
  BY DEF Threads, IInv, TypeOK
<1>1. CASE Started("scan")
  BY <1>0, <1>1, StartedFits
<1>2. RestFits
  <2>1. CASE Scan \/ ListMissing \/ BootEnds
    BY <2>1 DEF Scan, ListMissing, BootEnds, RestFits, IInv, TypeOK, Statuses, world, memory
  <2>2. CASE ListConfigs \/ GetConfig("scan")
    BY <2>2, LoadFits DEF ListConfigs, GetConfig, Load, RestFits, IInv, TypeOK, world, memory
  <2>3. CASE Boot \/ ReportEnds
    BY <2>3 DEF Boot, ReportEnds, RestFits, IInv, TypeOK, world, memory
  <2>4. CASE Restore
    BY <2>4 DEF Restore, Failure, RestFits, IInv, TypeOK, world
  <2>5. CASE RestoreEnds
    BY <2>5 DEF RestoreEnds, Failure, RestFits, IInv, TypeOK, world
  <2> QED BY <1>1, <2>1, <2>2, <2>3, <2>4, <2>5 DEF ScanStep
<1>3. Moves("scan")
  <2>1. CASE \E pc \in Places : Goto("scan", pc)
    BY <1>0, <2>1, GotoMoves
  <2>2. CASE Become("scan", Idle) \/ Become("scan", Report)
    BY <1>0, <2>2, BecomeMoves, IdleRow
  <2>3. CASE Scan
    <3> DEFINE r == [Idle EXCEPT !.pc = "list", !.goal = "restore"]
    <3>1. r \in ThreadRow
      BY IdleRow DEF ThreadRow, Places, Goals
    <3>2. Become("scan", r)
      BY <2>3 DEF Scan
    <3> HIDE DEF r
    <3> QED BY <1>0, <3>1, <3>2, BecomeMoves
  <2>4. CASE ListConfigs \/ ListMissing
    <3>1. CASE Goto("scan", "list_missing")
      BY <2>1, <3>1 DEF Places
    <3>2. CASE \E seen \in Statuses : Become("scan", [row EXCEPT !.pc = "listed", !.seen = seen])
      <4>1. PICK seen \in Statuses : Become("scan", [row EXCEPT !.pc = "listed", !.seen = seen])
        BY <3>2
      <4>2. [row EXCEPT !.pc = "listed", !.seen = seen] \in ThreadRow
        BY <1>0 DEF ThreadRow, Places
      <4> HIDE DEF row
      <4> QED BY <1>0, <4>1, <4>2, BecomeMoves
    <3>3. View \in Statuses /\ "none" \in Statuses
      BY LoadFits DEF Statuses
    <3> QED BY <2>4, <3>1, <3>2, <3>3 DEF ListConfigs, ListMissing
  <2>5. CASE Boot \/ BootEnds \/ RestoreEnds \/ ReportEnds \/ GetConfig("scan")
    BY <2>1, <2>2, <2>5 DEF Boot, BootEnds, RestoreEnds, ReportEnds, GetConfig, Places
  <2>6. CASE Restore
    <3>1. CASE \E goal \in Goals, pc \in Places : Pursue(goal, pc)
      <4>1. PICK goal \in Goals, pc \in Places : Pursue(goal, pc)
        BY <3>1
      <4> DEFINE r == [row EXCEPT !.goal = goal, !.pc = pc]
      <4>2. r \in ThreadRow
        BY <1>0 DEF ThreadRow
      <4>3. Become("scan", r)
        BY <4>1 DEF Pursue
      <4> HIDE DEF r
      <4> QED BY <1>0, <4>2, <4>3, BecomeMoves
    <3>2. {"health", "online", "configured", "retry"} \subseteq Goals
          /\ {"probe", "configured"} \subseteq Places
      BY DEF Goals, Places
    <3>3. Become("scan", Report) \/ \E goal \in Goals, pc \in Places : Pursue(goal, pc)
      BY <2>6, <3>2 DEF Restore
    <3> QED BY <2>2, <3>1, <3>3
  <2> QED BY <1>1, <2>3, <2>4, <2>5, <2>6 DEF ScanStep
<1> QED BY <1>2, <1>3

\* The heartbeat loop.
LEMMA BeatFits ==
    ASSUME IInv, BeatStep
    PROVE  RestFits /\ Moves("beat")
<1>0. "beat" \in Threads
  BY DEF Threads
<1>1. CASE Started("beat")
  BY <1>0, <1>1, StartedFits
<1>2. CASE Beat
  <2>1. RestFits
    BY <1>2 DEF Beat, RestFits, IInv, TypeOK, world, memory
  <2>2. Goto("beat", "alive") /\ "alive" \in Places
    BY <1>2 DEF Beat, Places
  <2> QED BY <1>0, <2>1, <2>2, GotoMoves
<1> QED BY <1>1, <1>2 DEF BeatStep

\* The requests.
LEMMA WebFits ==
    ASSUME IInv, WebStep \/ SaveConfig \/ ProbeByHand \/ RequestCancelled
    PROVE  RestFits /\ Moves("web")
<1>0. "web" \in Threads
  BY DEF Threads
<1>1. CASE Started("web")
  BY <1>0, <1>1, StartedFits
<1>2. CASE Save \/ RequestEnds \/ SaveConfig \/ ProbeByHand \/ RequestCancelled
  <2>1. RestFits
    <3>1. Act => acts' \in 0 .. MaxActs
      BY RuntimeBounds DEF Act, IInv, TypeOK
    <3> QED BY <1>2, <3>1 DEF Save, RequestEnds, SaveConfig, ProbeByHand, RequestCancelled,
               RestFits, IInv, TypeOK, Statuses, Files, world, memory
  <2>2. (\E pc \in Places : Goto("web", pc)) \/ Become("web", Idle)
    BY <1>2 DEF Save, RequestEnds, SaveConfig, ProbeByHand, RequestCancelled, Places
  <2> QED BY <1>0, <2>1, <2>2, GotoMoves, BecomeMoves, IdleRow
<1> QED BY <1>1, <1>2 DEF WebStep

\* A conversation.
LEMMA ChatFits ==
    ASSUME IInv, ChatLoad \/ ChatEnds
    PROVE  RestFits /\ Moves("chat")
<1>0. "chat" \in Threads
  BY DEF Threads
<1>1. RestFits
  BY LoadFits DEF ChatLoad, ChatEnds, Chat, ChatMark, Load, RestFits, IInv, TypeOK, Statuses, world, memory
<1>2. CASE Become("chat", Idle) \/ Goto("chat", "missing")
  BY <1>0, <1>1, <1>2, GotoMoves, BecomeMoves, IdleRow DEF Places
<1>3. CASE Become("chat", [Idle EXCEPT !.pc = "chat", !.env = env])
  <2>1. [Idle EXCEPT !.pc = "chat", !.env = env] \in ThreadRow
    BY IdleRow DEF ThreadRow, Places, IInv, TypeOK
  <2> QED BY <1>0, <1>1, <1>3, <2>1, BecomeMoves
<1>4. CASE Become("chat", [Idle EXCEPT !.pc = "error"])
  <2>1. [Idle EXCEPT !.pc = "error"] \in ThreadRow
    BY IdleRow DEF ThreadRow, Places
  <2> QED BY <1>0, <1>1, <1>4, <2>1, BecomeMoves
<1> QED BY <1>2, <1>3, <1>4 DEF ChatLoad, ChatEnds, Chat, ChatMark

------------------------------------------------------------------------------
(* What a closed launcher cannot do.                                       *)

\* A closed launcher neither scans nor beats.
LEMMA ClosedRests ==
    ASSUME IInv, ScanStep \/ BeatStep
    PROVE  ~closed /\ ~closed'
<1>1. CASE ScanStep
  <2>1. closed => At("scan", "idle") /\ ~ScanStep
    BY DEF IInv, ClosedIsStill, At, ScanStep, Scan, ListConfigs, ListMissing, Boot, BootEnds, Restore,
           RestoreEnds, ReportEnds, GetConfig, Started, Probe, Ask, Record, MarkMissing, Deactivate,
           StartHeartbeat, KeepAlive, Renew, Activate
  <2>2. closed' = closed
    BY <1>1 DEF ScanStep, Scan, ListConfigs, ListMissing, Boot, BootEnds, Restore,
           RestoreEnds, ReportEnds, GetConfig, Started, Probe, Ask, Record, MarkMissing, Deactivate,
           StartHeartbeat, KeepAlive, Renew, Activate, memory
  <2> QED BY <1>1, <2>1, <2>2
<1>2. CASE BeatStep
  <2>1. closed => ~BeatStep
    BY DEF IInv, ClosedIsStill, ClosedIsQuiet, At, BeatStep, Beat, Started, Probe, Ask, Record,
           MarkMissing, Deactivate, StartHeartbeat, KeepAlive, Renew, Activate
  <2>2. closed' = closed
    BY <1>2 DEF BeatStep, Beat, Started, Probe, Ask, Record, MarkMissing, Deactivate,
           StartHeartbeat, KeepAlive, Renew, Activate, memory
  <2> QED BY <1>2, <2>1, <2>2
<1> QED BY <1>1, <1>2

\* A request that reaches the launcher after it was closed fails there.
LEMMA ClosedRefuses ==
    ASSUME IInv, Moves("web"), WebStep \/ SaveConfig \/ ProbeByHand \/ RequestCancelled
    PROVE  ClosedIsQuiet' /\ ClosedIsStill'
<1>1. closed' = closed /\ (active' = active \/ active' = FALSE \/ Activate("web"))
  BY DEF WebStep, Save, RequestEnds, SaveConfig, ProbeByHand, RequestCancelled, Started, Probe, Ask,
         Record, MarkMissing, Deactivate, StartHeartbeat, KeepAlive, Renew, Activate, memory
<1> SUFFICES ASSUME closed PROVE ~active' /\ ~Starting("web")'
                                 /\ At("scan", "idle")' /\ At("beat", "idle")'
  BY <1>1 DEF ClosedIsQuiet, ClosedIsStill
<1>2. ~active /\ At("scan", "idle") /\ At("beat", "idle") /\ ~Starting("web")
  BY DEF IInv, ClosedIsQuiet, ClosedIsStill
<1>3. At("scan", "idle")' /\ At("beat", "idle")'
  BY <1>2 DEF Moves, At, Threads
<1>4. ~active'
  BY <1>1, <1>2 DEF Activate, At, Starting
<1>5. thread["web"] \in ThreadRow /\ thread \in [Threads -> ThreadRow] /\ "web" \in Threads
  BY DEF IInv, TypeOK, Threads
<1>6. \/ \E pc \in Places \ {"alive", "alive_missing", "renew", "activate"} : Goto("web", pc)
      \/ Become("web", Idle)
      \/ \E r \in ThreadRow : Become("web", r) /\ r.pc \in {"ask", "record"}
  <2>1. CASE Probe("web")
    <3> DEFINE r == [thread["web"] EXCEPT !.pc = "ask", !.env = env]
    <3>1. r \in ThreadRow /\ r.pc = "ask"
      BY <1>5 DEF ThreadRow, Places, IInv, TypeOK
    <3>2. Become("web", r) \/ \E pc \in {"failed", "mark_missing"} : Goto("web", pc)
      BY <2>1 DEF Probe
    <3> HIDE DEF r
    <3> QED BY <3>1, <3>2 DEF Places
  <2>2. CASE Ask("web")
    <3> DEFINE seen == IF Answers("web") THEN "online" ELSE "provider_error"
               r == [thread["web"] EXCEPT !.pc = "record", !.seen = seen]
    <3>1. seen \in Statuses
      BY DEF Statuses
    <3>2. Become("web", r)
      BY <2>2 DEF Ask
    <3> HIDE DEF seen
    <3>3. r \in ThreadRow /\ r.pc = "record"
      BY <1>5, <3>1 DEF ThreadRow, Places
    <3> HIDE DEF r
    <3> QED BY <3>2, <3>3
  <2>3. CASE StartHeartbeat("web")
    BY <2>3 DEF StartHeartbeat, MayStart, Places
  <2>4. CASE Record("web") \/ MarkMissing("web") \/ Deactivate("web")
    BY <1>2, <2>4 DEF Record, MarkMissing, Deactivate, Places
  <2>5. ~KeepAlive("web") /\ ~Renew("web") /\ ~Activate("web")
    BY <1>2 DEF KeepAlive, Renew, Activate, At, Starting
  <2>6. CASE Save \/ RequestEnds \/ SaveConfig \/ ProbeByHand \/ RequestCancelled
    BY <2>6 DEF Save, RequestEnds, SaveConfig, ProbeByHand, RequestCancelled, Places
  <2> QED BY <2>1, <2>2, <2>3, <2>4, <2>5, <2>6 DEF WebStep, Started
<1>7. thread'["web"].pc \notin {"alive", "alive_missing", "renew", "activate"}
  BY <1>5, <1>6, GotoMoves, BecomeMoves, IdleRow
<1> QED BY <1>3, <1>4, <1>7 DEF Starting

------------------------------------------------------------------------------
(* What people, the provider and the end of the process do.                *)

\* The heartbeat of an agent, the executor, the file and the provider, time.
LEMMA WorldFits ==
    ASSUME IInv, Heartbeat \/ BlockMissingConfig \/ RemoveConfig \/ ProviderMoves \/ Elapse
    PROVE  IInv'
<1>1. Act => acts' \in 0 .. MaxActs
  BY RuntimeBounds DEF Act, IInv, TypeOK
<1>2. RestFits
  BY <1>1 DEF Heartbeat, BlockMissingConfig, RemoveConfig, ProviderMoves, Elapse, RestFits,
              IInv, TypeOK, Statuses, Files, world, memory
<1>3. UNCHANGED <<thread, closed, active>>
  BY DEF Heartbeat, BlockMissingConfig, RemoveConfig, ProviderMoves, Elapse, memory
<1> QED BY <1>2, <1>3 DEF RestFits, IInv, TypeOK, ClosedIsQuiet, ClosedIsStill, At, Starting

\* Close waits for what ClosedIsStill says.
LEMMA CloseFits ==
    ASSUME IInv, Close
    PROVE  IInv'
BY DEF Close, IInv, TypeOK, ClosedIsQuiet, ClosedIsStill, At, Starting, world

\* A new process has a launcher that is open.
LEMMA RestartFits ==
    ASSUME IInv, Restart
    PROVE  IInv'
<1>1. thread' \in [Threads -> ThreadRow]
  BY IdleRow DEF Restart, IInv, TypeOK
<1>2. restarts' \in 0 .. MaxRestarts
  BY RuntimeBounds DEF Restart, IInv, TypeOK
<1> QED BY <1>1, <1>2 DEF Restart, IInv, TypeOK, ClosedIsQuiet, ClosedIsStill, world

------------------------------------------------------------------------------
(* The theorems.                                                           *)

\* The invariant holds when the first process starts.
LEMMA InitFits == Init => IInv
<1> SUFFICES ASSUME Init PROVE IInv
  OBVIOUS
<1>1. thread \in [Threads -> ThreadRow]
  BY IdleRow DEF Init
<1>2. 0 \in 0 .. MaxActs /\ 0 \in 0 .. MaxRestarts
  BY RuntimeBounds
<1> QED BY <1>1, <1>2 DEF Init, IInv, TypeOK, ClosedIsQuiet, ClosedIsStill, Files, Statuses

\* Every step keeps it.
LEMMA NextFits == IInv /\ [Next]_vars => IInv'
<1> SUFFICES ASSUME IInv, [Next]_vars PROVE IInv'
  OBVIOUS
<1>1. CASE ScanStep \/ BeatStep
  <2>1. RestFits /\ thread' \in [Threads -> ThreadRow]
    BY <1>1, ScanFits, BeatFits DEF Moves
  <2>2. ~closed'
    BY <1>1, ClosedRests
  <2> QED BY <2>1, <2>2 DEF RestFits, IInv, TypeOK, ClosedIsQuiet, ClosedIsStill
<1>2. CASE WebStep \/ SaveConfig \/ ProbeByHand \/ RequestCancelled
  <2>1. RestFits /\ Moves("web")
    BY <1>2, WebFits
  <2>2. ClosedIsQuiet' /\ ClosedIsStill'
    BY <1>2, <2>1, ClosedRefuses
  <2> QED BY <2>1, <2>2 DEF RestFits, Moves, IInv, TypeOK
<1>3. CASE ChatLoad \/ ChatEnds
  <2>1. RestFits /\ Moves("chat")
    BY <1>3, ChatFits
  <2>2. UNCHANGED <<closed, active>>
    BY <1>3 DEF ChatLoad, ChatEnds, Chat, ChatMark, memory
  <2>3. ClosedIsQuiet' /\ ClosedIsStill'
    BY <2>1, <2>2 DEF IInv, ClosedIsQuiet, ClosedIsStill, Moves, At, Starting, Threads
  <2> QED BY <2>1, <2>3 DEF RestFits, Moves, IInv, TypeOK
<1>4. CASE Heartbeat \/ BlockMissingConfig \/ RemoveConfig \/ ProviderMoves \/ Elapse
  BY <1>4, WorldFits
<1>5. CASE Close \/ Restart
  BY <1>5, CloseFits, RestartFits
<1>6. CASE UNCHANGED vars
  BY <1>6 DEF vars, world, memory, IInv, TypeOK, ClosedIsQuiet, ClosedIsStill, At, Starting
<1> QED BY <1>1, <1>2, <1>3, <1>4, <1>5, <1>6 DEF Next

\* The invariant of the launcher: the types, and that a closed one has no
\* thread left that could enter an agent into active.
THEOREM Invariance == Spec => []IInv
BY InitFits, NextFits, PTL DEF Spec

\* Status, file and threads stay in their domains.
THEOREM TypeCorrect == Spec => []TypeOK
<1>1. IInv => TypeOK
  BY DEF IInv
<1> QED BY <1>1, Invariance, PTL

\* A launcher that was closed heartbeats nobody, although a request that
\* began before may still probe an agent and ask to start it.
THEOREM ClosedIsQuietAlways == Spec => []ClosedIsQuiet
<1>1. IInv => ClosedIsQuiet
  BY DEF IInv
<1> QED BY <1>1, Invariance, PTL
=============================================================================
