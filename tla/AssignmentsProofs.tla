------------------------- MODULE AssignmentsProofs -------------------------
(***************************************************************************)
(* A task is assigned as a whole and once, and keeps the access its agents *)
(* were granted, for any number of servers, steps, agents and overrides:   *)
(* the proofs of AssignedIsComplete, GrantsOutliveCommit and the types of  *)
(* Assignments.                                                            *)
(***************************************************************************)
EXTENDS Assignments, FiniteSetTheorems, TLAPS

TaskStatus     == Waiting \cup {"assigned"}
AgentStatus    == {"absent", "missing_config", "configured", "online"}
DecisionStatus == BlockedDecisions \cup {"none", "ready", "selected"}
Places         == {"idle", "existing", "promote", "match", "block", "grant", "apply", "persist",
                   "resolve", "rollback"}
Row            == [agent : Agents, by : Servers \cup {"admin"}]
Choice         == [agent : Agents \cup {NoAgent}, as : BlockedDecisions \cup {"open", "match", "grant"}]
AssignerRow    == [pc : Places, expected : Waiting, step : 1 .. N + 1,
                   usable : SUBSET Agents, open : SUBSET Agents,
                   choice : [Steps -> Choice], changes : SUBSET Agents]

\* The steps that AssignTask has an agent for.
Chosen(r) == IF r.pc = "match" THEN 1 .. r.step - 1
             ELSE IF r.pc \in {"block", "grant", "apply", "persist", "resolve", "rollback"} THEN Steps
             ELSE {}

\* What a worker holds is of its type, and every step it passed has an agent.
AssignerOK(r) ==
    /\ r \in AssignerRow
    /\ r.pc = "existing" => r.step = 1
    /\ r.pc = "match" => r.step \in Steps
    /\ \A s \in Chosen(r) : r.choice[s].agent \in Agents

Tables ==
    /\ task \in TaskStatus
    /\ assigned \in [Steps -> {Unassigned} \cup Row]
    /\ decision \in [Steps -> DecisionStatus]
    /\ status \in [Agents -> AgentStatus]
    /\ busy \subseteq Agents /\ access \subseteq Agents
    /\ faults \in 0 .. MaxFaults /\ overrides \in 0 .. MaxOverrides /\ moves \in 0 .. MaxMoves

Assigners == assigner \in [Servers -> AssignerRow] /\ \A w \in Servers : AssignerOK(assigner[w])

\* Every row is the worker's own choice or an override.
Mine(w) ==
    \A s \in Steps :
        /\ assigned[s].by \in {w, "admin"}
        /\ assigned[s].by = w => assigned[s].agent = assigner[w].choice[s].agent

Overridden == {s \in Steps : assigned[s].by = "admin"}

\* A worker has rows in a task that is assigned, and then it is done with it,
\* or does not know yet, or was overridden before it looked.
CommitOK(w) ==
    (\E s \in Steps : assigned[s].by = w) =>
        /\ task = "assigned"
        /\ \/ assigner[w].pc = "idle"
           \/ assigner[w].pc = "resolve" /\ Mine(w)
           \/ assigner[w].pc = "rollback" /\ Overridden # {}

\* The inductive invariant.
IInv ==
    /\ Tables /\ Assigners
    /\ \A w \in Servers : CommitOK(w)
    /\ Cardinality(Overridden) <= overrides

\* Together with the invariant: what a worker found complete is, or the task
\* has been assigned since.
Promising ==
    /\ AssignedIsComplete
    /\ \A w \in Servers : assigner[w].pc = "promote" => Complete \/ task = "assigned"

\* One server, or fewer overrides than steps.
FewOverrides == (\A v, w \in Servers : v = w) \/ MaxOverrides < N

------------------------------------------------------------------------------
(* The constants, the table of the workers and the overridden steps.       *)

LEMMA ConstantFacts ==
    /\ N \in Nat \ {0} /\ Steps = 1 .. N
    /\ IsFiniteSet(Steps) /\ Cardinality(Steps) = N
    /\ "admin" \notin Servers /\ "nobody" \notin Servers
    /\ \A s \in Steps : Generated[s] \in Agents
    /\ MaxFaults \in Nat /\ MaxOverrides \in Nat /\ MaxMoves \in Nat
    /\ NoAgent \notin Agents
<1>1. N \in Nat \ {0} /\ Steps = 1 .. N
  BY NAssumption DEF Steps
<1>2. IsFiniteSet(Steps) /\ Cardinality(Steps) = N
  BY <1>1, FS_Interval
<1>3. \A s \in Steps : Generated[s] \in Agents
  BY GeneratedAssumption
<1>. QED
  BY <1>1, <1>2, <1>3, ServersAssumption, AssignmentBounds, NoAgentAssumption

\* An idle worker holds nothing.
LEMMA IdleOK == AssignerOK(Idle) /\ Idle.pc = "idle"
<1>1. Idle \in AssignerRow /\ Idle.pc = "idle"
  BY ConstantFacts DEF Idle, AssignerRow, Places, Waiting, Choice
<1>. QED
  BY <1>1 DEF AssignerOK, Chosen

\* A worker that takes on a row of its type leaves the others what they are.
LEMMA Becomes ==
  ASSUME Assigners, NEW w \in Servers, NEW r, AssignerOK(r), Become(w, r)
  PROVE  /\ Assigners' /\ assigner'[w] = r
         /\ \A v \in Servers \ {w} : assigner'[v] = assigner[v]
<1>1. r \in AssignerRow
  BY DEF AssignerOK
<1>2. /\ assigner' \in [Servers -> AssignerRow] /\ assigner'[w] = r
      /\ \A v \in Servers \ {w} : assigner'[v] = assigner[v]
  BY <1>1 DEF Assigners, Become
<1>3. \A v \in Servers : AssignerOK(assigner'[v])
  BY <1>2 DEF Assigners
<1>. QED
  BY <1>2, <1>3 DEF Assigners

Settling == {"grant", "apply", "persist", "resolve", "rollback"}

\* After the choice a worker only changes its place.
LEMMA PlaceOK ==
  ASSUME NEW r, AssignerOK(r), r.pc \in Settling, NEW pc \in Settling
  PROVE  /\ AssignerOK([r EXCEPT !.pc = pc])
         /\ [r EXCEPT !.pc = pc].pc = pc
         /\ [r EXCEPT !.pc = pc].choice = r.choice
<1>1. r \in AssignerRow
  BY DEF AssignerOK
<1>. DEFINE q == [r EXCEPT !.pc = pc]
<1>2. q \in AssignerRow /\ q.pc = pc /\ q.choice = r.choice
  BY <1>1 DEF AssignerRow, Settling, Places
<1>3. Chosen(q) = Steps /\ Chosen(r) = Steps
  BY <1>2 DEF Chosen, Settling
<1>. QED
  BY <1>2, <1>3 DEF AssignerOK, Settling

\* An override adds at most its step.
LEMMA OverriddenGrows ==
  ASSUME Tables, Cardinality(Overridden) <= overrides, NEW s \in Steps, NEW a \in Agents, Override(s, a)
  PROVE  /\ s \in Overridden'
         /\ Cardinality(Overridden') <= overrides'
<1>1. /\ assigned \in [Steps -> {Unassigned} \cup Row] /\ overrides \in Nat
      /\ assigned' = [assigned EXCEPT ![s] = [agent |-> a, by |-> "admin"]]
      /\ overrides' = overrides + 1
  BY ConstantFacts DEF Tables, Override
<1>2. Overridden' = Overridden \cup {s}
  BY <1>1 DEF Overridden
<1>3. Overridden \subseteq Steps /\ IsFiniteSet(Overridden)
  BY ConstantFacts, FS_Subset DEF Overridden
<1>4. Cardinality(Overridden) \in Nat
  BY <1>3, FS_CardinalityType
<1>5. \/ Cardinality(Overridden \cup {s}) = Cardinality(Overridden)
      \/ Cardinality(Overridden \cup {s}) = Cardinality(Overridden) + 1
  <2>1. CASE s \in Overridden
    BY <2>1, Overridden \cup {s} = Overridden
  <2>2. CASE s \notin Overridden
    BY <2>2, <1>3, FS_AddElement
  <2>. QED
    BY <2>1, <2>2
<1>. QED
  BY <1>1, <1>2, <1>4, <1>5

\* Without overrides there is nothing to count.
LEMMA NoneOverridden ==
  ASSUME Overridden' = {}, overrides \in Nat, overrides' = overrides
  PROVE  Cardinality(Overridden') <= overrides'
<1>1. Cardinality({}) = 0
  BY FS_EmptySet
<1>. QED
  BY <1>1

\* A complete table shows the agent of every step.
LEMMA CompleteMeans ==
  ASSUME Tables
  PROVE  /\ Complete <=> \A s \in Steps : assigned[s].agent \in Agents
         /\ Complete <=> \A s \in Steps : assigned[s].by \in Servers \cup {"admin"}
BY ConstantFacts DEF Tables, Complete, Row, Unassigned

------------------------------------------------------------------------------
(* Steps of a worker that change no row.                                   *)

\* The rows of a worker stay right when it only moves on itself, if it has none
\* or is done or is to take back what it lost.
LEMMA RowsKept ==
  ASSUME IInv, NEW w \in Servers, NEW r, AssignerOK(r), Become(w, r),
         UNCHANGED <<assigned, overrides>>,
         task' = task \/ (task # "assigned" /\ task' = "assigned"),
         (\E s \in Steps : assigned[s].by = w)
            => r.pc = "idle" \/ (r.pc = "rollback" /\ Overridden # {})
  PROVE  /\ Assigners' /\ \A v \in Servers : CommitOK(v)'
         /\ Cardinality(Overridden') <= overrides'
<1>1. /\ Assigners' /\ assigner'[w] = r
      /\ \A v \in Servers \ {w} : assigner'[v] = assigner[v]
  BY Becomes DEF IInv
<1>2. Overridden' = Overridden
  BY DEF Overridden
<1>3. ASSUME NEW v \in Servers PROVE CommitOK(v)'
  <2>1. CommitOK(v)
    BY DEF IInv
  <2>2. CASE v = w
    BY <2>1, <2>2, <1>1, <1>2 DEF CommitOK
  <2>3. CASE v # w
    BY <2>1, <2>3, <1>1, <1>2 DEF CommitOK, Mine
  <2>. QED
    BY <2>2, <2>3
<1>. QED
  BY <1>1, <1>2, <1>3 DEF IInv

\* No one has rows in a table that is cleared,
LEMMA RowsCleared ==
  ASSUME IInv, NEW w \in Servers, Stop(w), overrides' = overrides,
         assigned' = [s \in Steps |-> Unassigned]
  PROVE  /\ Assigners' /\ \A v \in Servers : CommitOK(v)'
         /\ Cardinality(Overridden') <= overrides'
<1>1. Assigners'
  BY Becomes, IdleOK DEF IInv, Stop
<1>2. \A s \in Steps : assigned'[s].by = "nobody"
  BY DEF Unassigned
<1>3. Overridden' = {}
  BY <1>2 DEF Overridden
<1>4. \A v \in Servers : CommitOK(v)'
  BY <1>2, ConstantFacts DEF CommitOK
<1>5. overrides \in Nat
  BY ConstantFacts DEF IInv, Tables
<1>. QED
  BY <1>1, <1>3, <1>4, <1>5, NoneOverridden

\* and after a commit its worker alone has.
LEMMA RowsCommitted ==
  ASSUME IInv, NEW w \in Servers, NEW r, AssignerOK(r), Become(w, r), Committed(w),
         r.pc = "idle" \/ (r.pc = "resolve" /\ r.choice = assigner[w].choice),
         overrides' = overrides
  PROVE  /\ Assigners' /\ \A v \in Servers : CommitOK(v)'
         /\ Cardinality(Overridden') <= overrides'
<1>1. Assigners' /\ assigner'[w] = r
  BY Becomes DEF IInv
<1>2. /\ \A s \in Steps : assigned'[s].by = w /\ assigned'[s].agent = assigner[w].choice[s].agent
      /\ task' = "assigned"
  BY DEF Committed
<1>3. Overridden' = {}
  BY <1>2, ConstantFacts DEF Overridden
<1>4. ASSUME NEW v \in Servers PROVE CommitOK(v)'
  <2>1. CASE v = w
    BY <2>1, <1>1, <1>2 DEF CommitOK, Mine
  <2>2. CASE v # w
    BY <2>2, <1>2 DEF CommitOK
  <2>. QED
    BY <2>1, <2>2
<1>5. overrides \in Nat
  BY ConstantFacts DEF IInv, Tables
<1>. QED
  BY <1>1, <1>3, <1>4, <1>5, NoneOverridden

\* A worker that is neither done nor settling a commit has no rows.
LEMMA NoRows ==
  ASSUME IInv, NEW w \in Servers, assigner[w].pc \notin {"idle", "resolve", "rollback"}
  PROVE  ~\E s \in Steps : assigned[s].by = w
BY DEF IInv, CommitOK

------------------------------------------------------------------------------
(* Every action keeps the invariant.                                       *)

LEMMA WorkerRow ==
  ASSUME IInv, NEW w \in Servers
  PROVE  AssignerOK(assigner[w]) /\ assigner[w] \in AssignerRow
BY DEF IInv, Assigners, AssignerOK

LEMMA RunOnceKeeps ==
  ASSUME IInv, NEW w \in Servers, RunOnce(w)
  PROVE  IInv'
<1>. DEFINE r == [Idle EXCEPT !.pc = "existing", !.expected = task]
<1>1. assigner[w].pc = "idle" /\ task \in Waiting /\ Become(w, r)
  BY DEF RunOnce, Selected, Waiting
<1>2. r \in AssignerRow /\ r.pc = "existing" /\ r.step = 1
  BY <1>1, IdleOK DEF AssignerOK, AssignerRow, Places, Idle
<1>3. AssignerOK(r)
  BY <1>2 DEF AssignerOK, Chosen
<1>4. ~\E s \in Steps : assigned[s].by = w
  BY <1>1 DEF IInv, CommitOK, Waiting
<1>. HIDE DEF r
<1>5. UNCHANGED <<task, assigned, decision, envVars, access, faults, overrides>>
  BY DEF RunOnce
<1>6. Assigners' /\ (\A v \in Servers : CommitOK(v)') /\ Cardinality(Overridden') <= overrides'
  BY <1>1, <1>3, <1>4, <1>5, RowsKept
<1>. QED
  BY <1>5, <1>6 DEF IInv, Tables, envVars

LEMMA ExistingKeeps ==
  ASSUME IInv, NEW w \in Servers, Existing(w)
  PROVE  IInv'
<1>. DEFINE r == IF Complete THEN [assigner[w] EXCEPT !.pc = "promote"]
                 ELSE [assigner[w] EXCEPT !.pc = "match", !.usable = Usable, !.open = access]
<1>1. /\ assigner[w].pc = "existing" /\ Become(w, r)
      /\ UNCHANGED <<task, assigned, decision, envVars, access, faults, overrides>>
  BY DEF Existing
<1>2. assigner[w] \in AssignerRow /\ assigner[w].step = 1
  BY <1>1, WorkerRow DEF AssignerOK
<1>3. Usable \subseteq Agents /\ access \subseteq Agents
  BY DEF Usable, IInv, Tables
<1>4. r \in AssignerRow /\ r.step = 1 /\ r.pc \in {"promote", "match"}
  BY <1>2, <1>3 DEF AssignerRow, Places
<1>. HIDE DEF r
<1>5. Chosen(r) = {} /\ 1 \in Steps
  BY <1>4, ConstantFacts DEF Chosen
<1>6. AssignerOK(r)
  BY <1>4, <1>5 DEF AssignerOK
<1>7. ~\E s \in Steps : assigned[s].by = w
  BY <1>1, NoRows
<1>8. Assigners' /\ (\A v \in Servers : CommitOK(v)') /\ Cardinality(Overridden') <= overrides'
  BY <1>1, <1>6, <1>7, RowsKept
<1>. QED
  BY <1>1, <1>8 DEF IInv, Tables, envVars

LEMMA PromoteKeeps ==
  ASSUME IInv, NEW w \in Servers, Promote(w)
  PROVE  IInv'
<1>1. /\ assigner[w].pc = "promote" /\ Become(w, Idle)
      /\ task' = IF task = assigner[w].expected THEN "assigned" ELSE task
      /\ UNCHANGED <<assigned, decision, envVars, access, faults, overrides>>
  BY DEF Promote, Stop
<1>2. assigner[w].expected \in Waiting
  BY WorkerRow DEF AssignerRow
<1>3. task' = task \/ (task # "assigned" /\ task' = "assigned")
  BY <1>1, <1>2 DEF Waiting
<1>4. task' \in TaskStatus
  BY <1>1 DEF IInv, Tables, TaskStatus
<1>5. Assigners' /\ (\A v \in Servers : CommitOK(v)') /\ Cardinality(Overridden') <= overrides'
  BY <1>1, <1>3, IdleOK, RowsKept
<1>. QED
  BY <1>1, <1>4, <1>5 DEF IInv, Tables, envVars

\* The step that is chosen joins those that have an agent.
LEMMA ChooseOK ==
  ASSUME NEW r, AssignerOK(r), r.pc = "match", NEW a \in Agents,
         NEW as \in BlockedDecisions \cup {"match", "grant"},
         NEW open \in SUBSET Agents, NEW pc \in {"match", "block", "grant"},
         pc = "match" <=> r.step < N
  PROVE  AssignerOK([r EXCEPT !.choice[r.step] = [agent |-> a, as |-> as], !.open = open,
                              !.step = r.step + 1, !.pc = pc])
<1>. DEFINE q == [r EXCEPT !.choice[r.step] = [agent |-> a, as |-> as], !.open = open,
                           !.step = r.step + 1, !.pc = pc]
<1>1. r \in AssignerRow /\ r.step \in 1 .. N /\ N \in Nat /\ Steps = 1 .. N
  BY ConstantFacts DEF AssignerOK
<1>2. [agent |-> a, as |-> as] \in Choice
  BY DEF Choice
<1>3. r.choice \in [Steps -> Choice]
  BY <1>1 DEF AssignerRow
<1>4. PICK ch \in [Steps -> Choice] : ch = [r.choice EXCEPT ![r.step] = [agent |-> a, as |-> as]]
  BY <1>1, <1>2, <1>3
<1>5. /\ q \in AssignerRow /\ q.pc = pc /\ q.step = r.step + 1
      /\ q.choice = [r.choice EXCEPT ![r.step] = [agent |-> a, as |-> as]]
  <2>1. q = [r EXCEPT !.choice = ch, !.open = open, !.step = r.step + 1, !.pc = pc]
    BY <1>1, <1>4 DEF AssignerRow
  <2>2. r.step + 1 \in 1 .. N + 1 /\ pc \in Places
    BY <1>1 DEF Places
  <2>. HIDE DEF q
  <2>3. q \in AssignerRow /\ q.pc = pc /\ q.step = r.step + 1 /\ q.choice = ch
    BY <1>1, <2>1, <2>2 DEF AssignerRow
  <2>. QED
    BY <2>3, <1>4
<1>6. Chosen(r) = 1 .. r.step - 1
  BY DEF Chosen
<1>7. Chosen(q) = 1 .. r.step
  BY <1>1, <1>5 DEF Chosen
<1>. HIDE DEF q
<1>8. ASSUME NEW s \in 1 .. r.step PROVE q.choice[s].agent \in Agents
  <2>1. CASE s = r.step
    BY <2>1, <1>1, <1>3, <1>5
  <2>2. CASE s # r.step
    <3>1. s \in Chosen(r) /\ s \in Steps
      BY <2>2, <1>1, <1>6
    <3>. QED
      BY <3>1, <2>2, <1>3, <1>5 DEF AssignerOK
  <2>. QED
    BY <2>1, <2>2
<1>9. AssignerOK(q)
  BY <1>1, <1>5, <1>7, <1>8 DEF AssignerOK
<1>. QED
  BY <1>9 DEF q

LEMMA ChooseKeeps ==
  ASSUME IInv, NEW w \in Servers, assigner[w].pc = "match", NEW a \in Agents,
         NEW as \in BlockedDecisions \cup {"match", "grant"}, Choose(w, assigner[w].step, a, as),
         UNCHANGED <<task, assigned, overrides>>
  PROVE  Assigners' /\ (\A v \in Servers : CommitOK(v)') /\ Cardinality(Overridden') <= overrides'
<1>1. AssignerOK(assigner[w]) /\ assigner[w] \in AssignerRow
  BY WorkerRow
<1>2. PICK open, pc :
         /\ open \in SUBSET Agents /\ pc \in {"match", "block", "grant"}
         /\ pc = "match" <=> assigner[w].step < N
         /\ Become(w, [assigner[w] EXCEPT !.choice[assigner[w].step] = [agent |-> a, as |-> as],
                                          !.open = open, !.step = assigner[w].step + 1, !.pc = pc])
  <2>. DEFINE open == IF as = "grant" THEN assigner[w].open \cup {a} ELSE assigner[w].open
              pc   == IF assigner[w].step < N THEN "match"
                      ELSE IF as \in BlockedDecisions
                              \/ \E r \in 1 .. assigner[w].step - 1 : assigner[w].choice[r].as \in BlockedDecisions
                      THEN "block" ELSE "grant"
  <2>1. open \in SUBSET Agents
    BY <1>1 DEF AssignerRow
  <2>2. pc \in {"match", "block", "grant"} /\ (pc = "match" <=> assigner[w].step < N)
    OBVIOUS
  <2>3. Become(w, [assigner[w] EXCEPT !.choice[assigner[w].step] = [agent |-> a, as |-> as],
                                      !.open = open, !.step = assigner[w].step + 1, !.pc = pc])
    BY <1>1 DEF Choose, Become, AssignerRow
  <2>. QED
    BY <2>1, <2>2, <2>3
<1>. DEFINE r == [assigner[w] EXCEPT !.choice[assigner[w].step] = [agent |-> a, as |-> as],
                                     !.open = open, !.step = assigner[w].step + 1, !.pc = pc]
<1>3. AssignerOK(r) /\ Become(w, r)
  BY <1>1, <1>2, ChooseOK
<1>4. ~\E s \in Steps : assigned[s].by = w
  BY NoRows
<1>. HIDE DEF r
<1>. QED
  BY <1>3, <1>4, RowsKept

LEMMA MatchStepKeeps ==
  ASSUME IInv, NEW w \in Servers, MatchStep(w)
  PROVE  IInv'
<1>. DEFINE s == assigner[w].step
<1>1. assigner[w].pc = "match" /\ s \in Steps
  BY WorkerRow DEF MatchStep, AssignerOK
<1>2. Matching(w, s) \subseteq Agents /\ Grantable(w, s) \subseteq Agents
  BY <1>1, WorkerRow DEF Matching, Grantable, Candidates, AssignerRow
<1>3. Generated[s] \in Agents /\ GeneratedState(w, s) \in BlockedDecisions \cup {"match", "grant"}
  BY <1>1, ConstantFacts DEF GeneratedState, BlockedDecisions
<1>4. UNCHANGED <<task, assigned, decision, envVars, faults, overrides>>
  BY DEF MatchStep
<1>5. \E a \in Agents, as \in BlockedDecisions \cup {"match", "grant"} : Choose(w, s, a, as)
  BY <1>2, <1>3 DEF MatchStep
<1>6. access' \subseteq Agents
  BY <1>3 DEF MatchStep, IInv, Tables
<1>7. Assigners' /\ (\A v \in Servers : CommitOK(v)') /\ Cardinality(Overridden') <= overrides'
  BY <1>1, <1>4, <1>5, ChooseKeeps
<1>. QED
  BY <1>4, <1>6, <1>7 DEF IInv, Tables, envVars


LEMMA BlockKeeps ==
  ASSUME IInv, NEW w \in Servers, Block(w)
  PROVE  IInv'
<1>1. assigner[w].pc = "block" /\ Become(w, Idle) /\ UNCHANGED <<busy, moves, access, overrides>>
  BY DEF Block, Stop
<1>2. faults' \in 0 .. MaxFaults
  BY ConstantFacts DEF Block, IInv, Tables
<1>3. CASE UNCHANGED <<task, assigned, decision, status>>
  <2>1. Assigners' /\ (\A v \in Servers : CommitOK(v)') /\ Cardinality(Overridden') <= overrides'
    BY <1>1, <1>3, IdleOK, RowsKept
  <2>. QED
    BY <1>1, <1>2, <1>3, <2>1 DEF IInv, Tables
<1>4. CASE /\ Verified(w)
           /\ assigned' = [s \in Steps |-> Unassigned]
           /\ decision' = [s \in Steps |->
                 IF s \in {r \in Steps : ChosenAs(w, r) \in BlockedDecisions} THEN ChosenAs(w, s)
                 ELSE IF /\ assigner[w].choice[s].agent \notin Granted(w)
                         /\ decision[s] \in BlockedDecisions
                      THEN "ready" ELSE decision[s]]
           /\ status' = [a \in Agents |->
                 IF status[a] = "absent"
                    /\ \E s \in {r \in Steps : ChosenAs(w, r) \in BlockedDecisions} : Generated[s] = a
                 THEN "missing_config" ELSE status[a]]
           /\ task' \in {"missing_resources", "missing_config"}
  <2>1. Assigners' /\ (\A v \in Servers : CommitOK(v)') /\ Cardinality(Overridden') <= overrides'
    BY <1>1, <1>4, RowsCleared, Stop(w) DEF Stop
  <2>2. task' \in TaskStatus /\ assigned' \in [Steps -> {Unassigned} \cup Row]
    BY <1>4 DEF TaskStatus, Waiting
  <2>3. decision' \in [Steps -> DecisionStatus]
    BY <1>4 DEF IInv, Tables, DecisionStatus
  <2>4. status' \in [Agents -> AgentStatus]
    BY <1>4 DEF IInv, Tables, AgentStatus
  <2>. QED
    BY <1>1, <1>2, <2>1, <2>2, <2>3, <2>4 DEF IInv, Tables
<1>. QED
  BY <1>3, <1>4 DEF Block

LEMMA PrepareGrantsKeeps ==
  ASSUME IInv, NEW w \in Servers, PrepareGrants(w)
  PROVE  IInv'
<1>. DEFINE r == [assigner[w] EXCEPT !.pc = "apply", !.changes = Granted(w) \ access]
<1>1. /\ assigner[w].pc = "grant" /\ Become(w, r)
      /\ UNCHANGED <<task, assigned, decision, envVars, access, faults, overrides>>
  BY DEF PrepareGrants
<1>2. assigner[w] \in AssignerRow /\ \A s \in Steps : assigner[w].choice[s].agent \in Agents
  BY <1>1, WorkerRow DEF AssignerOK, Chosen
<1>3. Granted(w) \subseteq Agents
  BY <1>2 DEF Granted
<1>4. r \in AssignerRow /\ r.pc = "apply" /\ r.choice = assigner[w].choice
  BY <1>2, <1>3 DEF AssignerRow, Places
<1>. HIDE DEF r
<1>5. AssignerOK(r)
  BY <1>2, <1>4 DEF AssignerOK, Chosen
<1>6. ~\E s \in Steps : assigned[s].by = w
  BY <1>1, NoRows
<1>7. Assigners' /\ (\A v \in Servers : CommitOK(v)') /\ Cardinality(Overridden') <= overrides'
  BY <1>1, <1>5, <1>6, RowsKept
<1>. QED
  BY <1>1, <1>7 DEF IInv, Tables, envVars

LEMMA ApplyGrantsKeeps ==
  ASSUME IInv, NEW w \in Servers, ApplyGrants(w)
  PROVE  IInv'
<1>1. /\ assigner[w].pc = "apply"
      /\ UNCHANGED <<task, assigned, decision, envVars, faults, overrides>>
      /\ access' = access \cup assigner[w].changes \/ access' = access
  BY DEF ApplyGrants
<1>2. AssignerOK(assigner[w]) /\ assigner[w].changes \subseteq Agents
  BY WorkerRow DEF AssignerRow
<1>3. PICK r : AssignerOK(r) /\ Become(w, r)
  BY <1>1, <1>2, PlaceOK, IdleOK DEF ApplyGrants, Goto, Stop, Settling
<1>4. ~\E s \in Steps : assigned[s].by = w
  BY <1>1, NoRows
<1>5. Assigners' /\ (\A v \in Servers : CommitOK(v)') /\ Cardinality(Overridden') <= overrides'
  BY <1>1, <1>3, <1>4, RowsKept
<1>6. access' \subseteq Agents
  BY <1>1, <1>2 DEF IInv, Tables
<1>. QED
  BY <1>1, <1>5, <1>6 DEF IInv, Tables, envVars

LEMMA PersistKeeps ==
  ASSUME IInv, NEW w \in Servers, Persist(w)
  PROVE  IInv'
<1>1. assigner[w].pc = "persist" /\ UNCHANGED <<envVars, access, overrides>>
  BY DEF Persist
<1>2. AssignerOK(assigner[w]) /\ \A s \in Steps : assigner[w].choice[s].agent \in Agents
  BY <1>1, WorkerRow DEF AssignerOK, Chosen
<1>3. faults' \in 0 .. MaxFaults
  BY ConstantFacts DEF Persist, IInv, Tables
<1>4. PICK r : /\ AssignerOK(r) /\ Become(w, r) /\ r.pc \in {"idle", "resolve", "rollback"}
               /\ \/ Committed(w) /\ (r.pc = "idle" \/ (r.pc = "resolve" /\ r.choice = assigner[w].choice))
                  \/ UNCHANGED <<task, assigned, decision>>
  BY <1>1, <1>2, PlaceOK, IdleOK DEF Persist, Goto, Stop, Settling
<1>5. CASE Committed(w) /\ (r.pc = "idle" \/ (r.pc = "resolve" /\ r.choice = assigner[w].choice))
  <2>1. Assigners' /\ (\A v \in Servers : CommitOK(v)') /\ Cardinality(Overridden') <= overrides'
    BY <1>1, <1>4, <1>5, RowsCommitted
  <2>2. /\ task' \in TaskStatus /\ assigned' \in [Steps -> {Unassigned} \cup Row]
        /\ decision' \in [Steps -> DecisionStatus]
    BY <1>2, <1>5 DEF Committed, TaskStatus, Row, DecisionStatus
  <2>. QED
    BY <1>1, <1>3, <2>1, <2>2 DEF IInv, Tables, envVars
<1>6. CASE UNCHANGED <<task, assigned, decision>>
  <2>1. ~\E s \in Steps : assigned[s].by = w
    BY <1>1, NoRows
  <2>2. Assigners' /\ (\A v \in Servers : CommitOK(v)') /\ Cardinality(Overridden') <= overrides'
    BY <1>1, <1>4, <1>6, <2>1, RowsKept
  <2>. QED
    BY <1>1, <1>3, <1>6, <2>2 DEF IInv, Tables, envVars
<1>. QED
  BY <1>4, <1>5, <1>6

\* Only an override keeps a worker from finding again what it committed.
LEMMA NotFoundOverridden ==
  ASSUME IInv, NEW w \in Servers, assigner[w].pc = "resolve", ~MatchesPrepared(w),
         \E s \in Steps : assigned[s].by = w
  PROVE  Overridden # {}
<1>1. Mine(w) /\ Tables
  BY DEF IInv, CommitOK
<1>2. SUFFICES ASSUME Overridden = {} PROVE FALSE
  OBVIOUS
<1>3. \A s \in Steps : assigned[s].by = w /\ assigned[s].agent = assigner[w].choice[s].agent
  BY <1>1, <1>2 DEF Mine, Overridden
<1>4. Complete
  BY <1>1, <1>3, CompleteMeans
<1>. QED
  BY <1>3, <1>4 DEF MatchesPrepared

LEMMA ResolveKeeps ==
  ASSUME IInv, NEW w \in Servers, Resolve(w)
  PROVE  IInv'
<1>1. assigner[w].pc = "resolve" /\ UNCHANGED <<task, assigned, decision, envVars, access, overrides>>
  BY DEF Resolve
<1>2. AssignerOK(assigner[w])
  BY WorkerRow
<1>3. faults' \in 0 .. MaxFaults
  BY ConstantFacts DEF Resolve, IInv, Tables
<1>4. PICK r : AssignerOK(r) /\ Become(w, r) /\ (r.pc = "idle" \/ (r.pc = "rollback" /\ ~MatchesPrepared(w)))
  <2>1. CASE Stop(w)
    BY <2>1, IdleOK DEF Stop
  <2>2. CASE ~MatchesPrepared(w) /\ Goto(w, "rollback")
    <3>1. assigner[w].pc \in Settling /\ "rollback" \in Settling
      BY <1>1 DEF Settling
    <3>. QED
      BY <2>2, <3>1, <1>2, PlaceOK DEF Goto
  <2>. QED
    BY <2>1, <2>2 DEF Resolve
<1>5. (\E s \in Steps : assigned[s].by = w) => r.pc = "idle" \/ (r.pc = "rollback" /\ Overridden # {})
  BY <1>1, <1>4, NotFoundOverridden
<1>6. Assigners' /\ (\A v \in Servers : CommitOK(v)') /\ Cardinality(Overridden') <= overrides'
  BY <1>1, <1>4, <1>5, RowsKept
<1>. QED
  BY <1>1, <1>3, <1>6 DEF IInv, Tables, envVars

LEMMA StopKeeps ==
  ASSUME IInv, NEW w \in Servers, Rollback(w) \/ Crash(w)
  PROVE  IInv'
<1>1. /\ Become(w, Idle) /\ UNCHANGED <<task, assigned, decision, envVars, overrides>>
      /\ access' \subseteq access
  BY DEF Rollback, Crash, Stop
<1>2. faults' \in 0 .. MaxFaults
  BY ConstantFacts DEF Rollback, Crash, IInv, Tables
<1>3. Assigners' /\ (\A v \in Servers : CommitOK(v)') /\ Cardinality(Overridden') <= overrides'
  BY <1>1, IdleOK, RowsKept
<1>. QED
  BY <1>1, <1>2, <1>3 DEF IInv, Tables, envVars

LEMMA OverrideKeeps ==
  ASSUME IInv, NEW s \in Steps, NEW a \in Agents, Override(s, a)
  PROVE  IInv'
<1>1. /\ overrides < MaxOverrides /\ overrides' = overrides + 1
      /\ assigned' = [assigned EXCEPT ![s] = [agent |-> a, by |-> "admin"]]
      /\ UNCHANGED <<task, decision, envVars, access, assigner, faults>>
  BY DEF Override
<1>2. /\ assigned \in [Steps -> {Unassigned} \cup Row] /\ [agent |-> a, by |-> "admin"] \in Row
      /\ overrides \in 0 .. MaxOverrides
  BY DEF IInv, Tables, Row
<1>3. assigned' \in [Steps -> {Unassigned} \cup Row] /\ overrides' \in 0 .. MaxOverrides
  BY <1>1, <1>2, ConstantFacts
<1>4. s \in Overridden' /\ Cardinality(Overridden') <= overrides'
  BY OverriddenGrows DEF IInv
<1>5. ASSUME NEW v \in Servers PROVE CommitOK(v)'
  <2>1. CommitOK(v) /\ v # "admin"
    BY ConstantFacts DEF IInv
  <2>2. \A t \in Steps : /\ t # s => assigned'[t] = assigned[t]
                         /\ t = s => assigned'[t].by = "admin"
    BY <1>1, <1>2
  <2>3. Mine(v) => Mine(v)'
    BY <1>1, <2>1, <2>2 DEF Mine
  <2>. QED
    BY <1>1, <1>4, <2>1, <2>2, <2>3 DEF CommitOK
<1>. QED
  BY <1>1, <1>3, <1>4, <1>5 DEF IInv, Tables, Assigners, envVars

LEMMA AgentMovesKeeps ==
  ASSUME IInv, NEW a \in Agents, AgentMoves(a)
  PROVE  IInv'
<1>1. UNCHANGED <<task, assigned, decision, access, assigner, faults, overrides>>
  BY DEF AgentMoves
<1>2. /\ status' \in [Agents -> AgentStatus] /\ busy' \subseteq Agents /\ moves' \in 0 .. MaxMoves
  BY ConstantFacts DEF AgentMoves, IInv, Tables, AgentStatus
<1>3. Overridden' = Overridden /\ \A v \in Servers : CommitOK(v)'
  BY <1>1 DEF Overridden, IInv, CommitOK, Mine
<1>. QED
  BY <1>1, <1>2, <1>3 DEF IInv, Tables, Assigners

LEMMA StepKeeps == IInv /\ [Next]_vars => IInv'
<1>. SUFFICES ASSUME IInv, [Next]_vars PROVE IInv'
  OBVIOUS
<1>1. ASSUME NEW w \in Servers, Work(w) PROVE IInv'
  BY <1>1, RunOnceKeeps, ExistingKeeps, PromoteKeeps, MatchStepKeeps, BlockKeeps,
     PrepareGrantsKeeps, ApplyGrantsKeeps, PersistKeeps, ResolveKeeps, StopKeeps DEF Work
<1>2. ASSUME NEW w \in Servers, Crash(w) PROVE IInv'
  BY <1>2, StopKeeps
<1>3. CASE UNCHANGED vars
  <2>1. UNCHANGED <<task, assigned, decision, status, busy, moves, access, assigner, faults, overrides>>
    BY <1>3 DEF vars, envVars
  <2>2. Overridden' = Overridden /\ \A v \in Servers : CommitOK(v)'
    BY <2>1 DEF Overridden, IInv, CommitOK, Mine
  <2>. QED
    BY <2>1, <2>2 DEF IInv, Tables, Assigners
<1>. QED
  BY <1>1, <1>2, <1>3, OverrideKeeps, AgentMovesKeeps DEF Next


LEMMA Initially == Init => IInv
<1>. SUFFICES ASSUME Init PROVE IInv
  OBVIOUS
<1>1. Tables
  BY ConstantFacts DEF Init, Tables, TaskStatus, Waiting, DecisionStatus, AgentStatus
<1>2. Assigners
  BY IdleOK DEF Init, Assigners, AssignerOK
<1>3. \A s \in Steps : assigned[s].by = "nobody"
  BY DEF Init, Unassigned
<1>4. Overridden = {}
  BY <1>3 DEF Overridden
<1>5. Cardinality(Overridden) <= overrides
  BY <1>4, FS_EmptySet DEF Init
<1>6. \A w \in Servers : CommitOK(w)
  BY <1>3, ConstantFacts DEF CommitOK
<1>. QED
  BY <1>1, <1>2, <1>5, <1>6 DEF IInv

\* The invariant holds of every reachable state.
THEOREM Invariance == Spec => []IInv
BY Initially, StepKeeps, PTL DEF Spec

\* Every variable holds what its table or file may hold (assignments/service.go).
THEOREM TypeCorrect == Spec => []TypeOK
<1>1. IInv => TypeOK
  <2>. SUFFICES ASSUME IInv PROVE TypeOK
    OBVIOUS
  <2>1. \A w \in Servers : assigner[w].pc = "match" => assigner[w].step \in Steps
    BY DEF IInv, Assigners, AssignerOK
  <2>. QED
    BY <2>1 DEF IInv, Tables, Assigners, TypeOK, TaskStatus, DecisionStatus, AgentStatus,
                Row, AssignerRow, Choice, Places
<1>. QED
  BY <1>1, Invariance, PTL

------------------------------------------------------------------------------
(* The access of a committed assignment.                                   *)

\* A worker takes back the access it granted only if the task shows none of
\* its choices, or an administrator has changed one (service.go, Persist's
\* uncertain commits): with any number of servers and overrides.
THEOREM GrantsOutlive == Spec => GrantsOutliveCommit
<1>1. ASSUME IInv, NEW w \in Servers, assigner[w].pc = "rollback"
      PROVE  \/ \A s \in Steps : assigned[s].by # w
             \/ \E s \in Steps : assigned[s].by = "admin"
  BY <1>1 DEF IInv, CommitOK, Overridden
<1>2. IInv /\ [Next]_vars => [\A w \in Servers :
          assigner[w].pc = "rollback" /\ assigner'[w].pc = "idle" /\ access' # access
          => \/ \A s \in Steps : assigned[s].by # w
             \/ \E s \in Steps : assigned[s].by = "admin"]_vars
  BY <1>1
<1>. QED
  BY <1>2, Invariance, PTL DEF Spec, GrantsOutliveCommit

------------------------------------------------------------------------------
(* Assigned as a whole.                                                    *)

\* Where fewer steps are overridden than there are, a complete table holds a
\* row of a worker, and the task is assigned.
LEMMA CompleteByWorker ==
  ASSUME IInv, Complete, MaxOverrides < N
  PROVE  task = "assigned"
<1>1. Tables /\ Cardinality(Overridden) <= overrides /\ overrides \in 0 .. MaxOverrides
  BY DEF IInv, Tables
<1>2. \A s \in Steps : assigned[s].by \in Servers \cup {"admin"}
  BY <1>1, CompleteMeans
<1>3. Overridden # Steps
  <2>1. Cardinality(Overridden) \in Nat
    BY ConstantFacts, FS_Subset, FS_CardinalityType DEF Overridden
  <2>. QED
    BY <1>1, <2>1, ConstantFacts
<1>4. PICK s \in Steps : assigned[s].by \in Servers
  BY <1>2, <1>3 DEF Overridden
<1>. QED
  BY <1>4 DEF IInv, CommitOK

\* What a worker found complete another one does not clear.
LEMMA FoundNotCleared ==
  ASSUME IInv, Promising, FewOverrides, NEW v \in Servers, NEW w \in Servers,
         v # w, assigner[v].pc = "promote", Verified(w)
  PROVE  FALSE
<1>1. assigner[w].expected # "assigned" /\ task # "assigned"
  BY WorkerRow DEF AssignerRow, Waiting, Verified
<1>2. Complete /\ MaxOverrides < N
  BY <1>1 DEF Promising, FewOverrides
<1>. QED
  BY <1>1, <1>2, CompleteByWorker


\* A worker that leaves the rows alone keeps the promise, if it promotes and
\* announces only what is complete.
LEMMA PromiseKept ==
  ASSUME IInv, Promising, NEW w \in Servers, NEW r, Become(w, r), assigned' = assigned,
         task' = task \/ (Complete /\ task' = "assigned"), r.pc = "promote" => Complete
  PROVE  Promising'
<1>1. assigner'[w] = r /\ \A v \in Servers \ {w} : assigner'[v] = assigner[v]
  BY DEF IInv, Assigners, Become
<1>2. Complete' <=> Complete
  BY DEF Complete
<1>3. AssignedIsComplete'
  BY CompleteMeans DEF IInv, Promising, AssignedIsComplete
<1>4. ASSUME NEW v \in Servers, assigner'[v].pc = "promote" PROVE Complete \/ task' = "assigned"
  BY <1>1, <1>4 DEF Promising
<1>. QED
  BY <1>2, <1>3, <1>4 DEF Promising

LEMMA ChoosePromise ==
  ASSUME IInv, Promising, NEW w \in Servers, MatchStep(w)
  PROVE  Promising'
<1>1. UNCHANGED <<task, assigned>>
  BY DEF MatchStep
<1>2. PICK s, a, as : Choose(w, s, a, as)
  BY DEF MatchStep
<1>. DEFINE pc == IF s < N THEN "match"
                  ELSE IF as \in BlockedDecisions
                          \/ \E r \in 1 .. s - 1 : assigner[w].choice[r].as \in BlockedDecisions
                  THEN "block" ELSE "grant"
            r  == [assigner[w] EXCEPT !.choice[s] = [agent |-> a, as |-> as],
                                      !.open = IF as = "grant" THEN @ \cup {a} ELSE @,
                                      !.step = s + 1, !.pc = pc]
<1>3. Become(w, r)
  BY <1>2 DEF Choose
<1>4. r.pc # "promote"
  BY WorkerRow DEF AssignerRow
<1>. HIDE DEF r
<1>. QED
  BY <1>1, <1>3, <1>4, PromiseKept

LEMMA BlockPromise ==
  ASSUME IInv, Promising, FewOverrides, NEW w \in Servers, Block(w)
  PROVE  Promising'
<1>1. Become(w, Idle)
  BY DEF Block, Stop
<1>2. CASE UNCHANGED <<task, assigned, decision, status>>
  BY <1>1, <1>2, IdleOK, PromiseKept
<1>3. CASE Verified(w) /\ task' \in {"missing_resources", "missing_config"}
  <2>1. \A v \in Servers \ {w} : assigner'[v] = assigner[v] /\ assigner[v].pc # "promote"
    BY <1>1, <1>3, FoundNotCleared DEF IInv, Assigners, Become
  <2>2. assigner'[w].pc = "idle"
    BY <1>1, IdleOK DEF IInv, Assigners, Become
  <2>3. \A v \in Servers : assigner'[v].pc # "promote"
    BY <2>1, <2>2
  <2>. QED
    BY <1>3, <2>3 DEF Promising, AssignedIsComplete
<1>. QED
  BY <1>2, <1>3 DEF Block

LEMMA PersistPromise ==
  ASSUME IInv, Promising, NEW w \in Servers, Persist(w)
  PROVE  Promising'
<1>1. AssignerOK(assigner[w]) /\ assigner[w] \in AssignerRow /\ assigner[w].pc = "persist"
  BY WorkerRow DEF Persist
<1>2. PICK r : /\ Become(w, r) /\ r.pc \in {"idle", "resolve", "rollback"}
               /\ Committed(w) \/ UNCHANGED <<task, assigned>>
  BY <1>1, PlaceOK, IdleOK DEF Persist, Goto, Stop, Settling
<1>3. CASE Committed(w)
  <2>1. \A s \in Steps : assigned'[s].agent \in Agents
    BY <1>1, <1>3 DEF Committed, AssignerOK, Chosen
  <2>. QED
    BY <2>1, <1>3 DEF Promising, AssignedIsComplete, Committed
<1>4. CASE UNCHANGED <<task, assigned>>
  BY <1>2, <1>4, PromiseKept
<1>. QED
  BY <1>2, <1>3, <1>4

\* An override only adds to the table.
LEMMA OverridePromise ==
  ASSUME IInv, Promising, NEW s \in Steps, NEW a \in Agents, Override(s, a)
  PROVE  Promising'
<1>1. /\ task' = task /\ assigner' = assigner
      /\ assigned' = [assigned EXCEPT ![s] = [agent |-> a, by |-> "admin"]]
  BY DEF Override
<1>2. Tables /\ Tables'
  BY OverrideKeeps DEF IInv
<1>3. \A t \in Steps : assigned[t].agent \in Agents => assigned'[t].agent \in Agents
  BY <1>1, <1>2 DEF Tables
<1>4. Complete => Complete'
  <2>1. Complete' <=> \A t \in Steps : assigned'[t].agent \in Agents
    BY <1>2, ConstantFacts DEF Tables, Complete, Row, Unassigned
  <2>. QED
    BY <2>1, <1>2, <1>3, CompleteMeans
<1>. QED
  BY <1>1, <1>3, <1>4 DEF Promising, AssignedIsComplete

LEMMA PromisingKept == IInv /\ Promising /\ FewOverrides /\ [Next]_vars => Promising'
<1>. SUFFICES ASSUME IInv, Promising, FewOverrides, [Next]_vars PROVE Promising'
  OBVIOUS
<1>1. ASSUME NEW w \in Servers, Work(w) PROVE Promising'
  <2>1. CASE RunOnce(w)
    <3>1. [Idle EXCEPT !.pc = "existing", !.expected = task].pc = "existing"
      BY DEF Idle
    <3>. QED
      BY <2>1, <3>1, PromiseKept DEF RunOnce
  <2>2. CASE Existing(w)
    <3>. DEFINE r == IF Complete THEN [assigner[w] EXCEPT !.pc = "promote"]
                     ELSE [assigner[w] EXCEPT !.pc = "match", !.usable = Usable, !.open = access]
    <3>1. Become(w, r) /\ UNCHANGED <<task, assigned>>
      BY <2>2 DEF Existing
    <3>2. r.pc = "promote" => Complete
      BY WorkerRow DEF AssignerRow
    <3>. HIDE DEF r
    <3>. QED
      BY <3>1, <3>2, PromiseKept
  <2>3. CASE Promote(w)
    <3>1. /\ assigner[w].pc = "promote" /\ assigned' = assigned /\ Become(w, Idle)
          /\ task' = IF task = assigner[w].expected THEN "assigned" ELSE task
      BY <2>3 DEF Promote, Stop
    <3>2. assigner[w].expected # "assigned"
      BY WorkerRow DEF AssignerRow, Waiting
    <3>3. task' = task \/ (Complete /\ task' = "assigned")
      BY <3>1, <3>2 DEF Promising
    <3>. QED
      BY <3>1, <3>3, IdleOK, PromiseKept
  <2>4. CASE PrepareGrants(w)
    <3>1. [assigner[w] EXCEPT !.pc = "apply", !.changes = Granted(w) \ access].pc = "apply"
      BY WorkerRow DEF AssignerRow
    <3>. QED
      BY <2>4, <3>1, PromiseKept DEF PrepareGrants
  <2>5. CASE ApplyGrants(w) \/ Resolve(w) \/ Rollback(w)
    <3>1. PICK r : Become(w, r) /\ r.pc \in {"idle", "persist", "rollback"}
      <4>1. /\ [assigner[w] EXCEPT !.pc = "persist"].pc = "persist"
            /\ [assigner[w] EXCEPT !.pc = "rollback"].pc = "rollback"
        BY WorkerRow DEF AssignerRow
      <4>2. Stop(w) \/ Goto(w, "persist") \/ Goto(w, "rollback")
        BY <2>5 DEF ApplyGrants, Resolve, Rollback
      <4>. QED
        BY <4>1, <4>2, IdleOK DEF Stop, Goto
    <3>2. UNCHANGED <<task, assigned>>
      BY <2>5 DEF ApplyGrants, Resolve, Rollback
    <3>. QED
      BY <3>1, <3>2, PromiseKept
  <2>. QED
    BY <1>1, <2>1, <2>2, <2>3, <2>4, <2>5, ChoosePromise, BlockPromise, PersistPromise DEF Work
<1>2. ASSUME NEW w \in Servers, Crash(w) PROVE Promising'
  BY <1>2, IdleOK, PromiseKept DEF Crash, Stop
<1>3. CASE UNCHANGED <<task, assigned, assigner>>
  BY <1>3 DEF Promising, AssignedIsComplete, Complete
<1>4. (UNCHANGED vars \/ \E a \in Agents : AgentMoves(a)) => UNCHANGED <<task, assigned, assigner>>
  BY DEF vars, AgentMoves
<1>. QED
  BY <1>1, <1>2, <1>3, <1>4, OverridePromise DEF Next

\* A task is 'assigned' only when each of its steps has an agent, although
\* overrides assign steps one by one and every try of a worker clears the
\* table first (Existing, Block): with one server, or if fewer steps are
\* overridden than there are.  With two servers and every step overridden one
\* of them may clear what the other found complete.
THEOREM AssignedComplete == FewOverrides => (Spec => []AssignedIsComplete)
<1>1. Init => Promising
  BY IdleOK DEF Init, Promising, AssignedIsComplete
<1>2. IInv /\ Promising /\ FewOverrides /\ [Next]_vars => Promising'
  BY PromisingKept
<1>3. Promising => AssignedIsComplete
  BY DEF Promising
<1>4. FewOverrides => (Spec => []Promising)
  <2>. SUFFICES ASSUME FewOverrides PROVE Spec => []Promising
    OBVIOUS
  <2>1. IInv /\ Promising /\ [Next]_vars => Promising'
    BY <1>2
  <2>. QED
    BY <1>1, <2>1, Invariance, PTL DEF Spec
<1>5. (Spec => []Promising) => (Spec => []AssignedIsComplete)
  BY <1>3, PTL
<1>. QED
  BY <1>4, <1>5
=============================================================================
