--------------------------- MODULE TaskLifeProofs ---------------------------
(***************************************************************************)
(* A delivery is whole and the first plan is stored once, for any number   *)
(* of planning and delivery workers, plan versions and work items: the     *)
(* proofs of AwaitingIsWhole, InitialPlanOnce and the types of TaskLife,   *)
(* and that a task is a DeliveryCycle.                                     *)
(***************************************************************************)
EXTENDS TaskLife, Integers, WellFoundedInduction, TLAPS

Versions == 1 .. MaxVersion

TaskStatus == {"created", "planning", "planning_error", "blocked", "planned", "assigned",
               "workspace_ready", "suspended", "in_progress", "interrupted", "review",
               "changes_requested", "merged", "awaiting_acceptance", "rework_planning", "completed"}
TaskRow == [status : TaskStatus, attempts : 0 .. MaxAttempts,
            class : {"none", "transient", "configuration"}, retry : {"never", "set"},
            started : {"none", "fresh", "stale"}, condition : 0 .. MaxFaults + 1]
PlanRow == [status : {"none", "planning", "planned"}, copies : Nat]
PlannerRow == [pc : {"idle", "recover", "ready", "claim", "chat", "persist", "block"},
               attempt : 0 .. MaxAttempts, sawDown : BOOLEAN,
               class : {"none", "transient", "configuration"}]
NoteStatus == {"pending", "processing", "stale", "consumed"}
RoundStatus == {"none", "pending", "processing", "stale", "planned"}
DelivererRow == [pc : {"idle", "read", "check", "build", "failed", "rounds", "rework", "persist",
                       "mark", "returned"},
                 id : Nat, commit : Nat, version : Nat]

AllRows     == UNION {Rows(v) : v \in Versions}
NoteRow     == [row : AllRows, status : NoteStatus]
SnapshotRow == [note : 1 .. Len(notes), commit : 1 .. Len(notes), version : Versions,
                status : {"awaiting_acceptance", "accepted", "rejected"}]

\* A task that is created has no attempt behind it.
TaskOK == task \in TaskRow /\ (task.status = "created" => task.attempts = 0)

WorldOK ==
    /\ planner \in [Planners -> PlannerRow] /\ managerUp \in BOOLEAN
    /\ faults \in 0 .. MaxFaults /\ condition \in 1 .. faults + 1

\* The versions that exist are the first ones, and only one that is stored has
\* steps.
PlansOK ==
    /\ plan \in [Versions -> PlanRow]
    /\ \E k \in 0 .. MaxVersion : \A v \in Versions : plan[v].status # "none" <=> v <= k
    /\ \A v \in Versions : plan[v].status # "planned" => plan[v].copies = 0

RowsOK      == merged \subseteq AllRows /\ notes \in Seq(NoteRow)
SnapshotsOK == snapshots \in Seq(SnapshotRow)
HistoryOK   == abandoned \subseteq 1 .. Len(snapshots) /\ replanned \in Nat

\* What was begun and is not merged is of the current plan.
WorkOK ==
    /\ begun \subseteq AllRows /\ merged \subseteq begun
    /\ begun \ merged \subseteq Rows(CurrentVersion)

\* Only a version after the first has a round, and it exists.
RoundsOK ==
    /\ rounds \in [Versions -> [status : RoundStatus]]
    /\ \A v \in Versions : rounds[v].status # "none" => v # 1 /\ plan[v].status # "none"

\* What a delivery worker holds, of n notifications and the rounds rs.
Knows(r, n, rs) ==
    /\ r.id \in 0 .. n + MaxVersion
    /\ r.pc \in {"read", "check", "build", "failed"} => r.id \in 1 .. n
    /\ r.pc \in {"check", "build"} => r.commit \in 1 .. n
    /\ r.pc = "build" => r.version \in Versions
    /\ r.pc \in {"rework", "persist", "mark", "returned"} =>
          r.id \in Versions /\ rs[r.id].status # "none"

DeliverersOK ==
    /\ deliverer \in [Deliverers -> DelivererRow]
    /\ \A d \in Deliverers : Knows(deliverer[d], Len(notes), rounds)

\* A delivery that is awaited is of a plan that exists.
Awaits ==
    /\ AwaitingIsWhole
    /\ task.status = "awaiting_acceptance" => plan[1].status # "none"

\* The inductive invariant.
IInv ==
    /\ TaskOK /\ WorldOK /\ PlansOK /\ RowsOK /\ SnapshotsOK /\ RoundsOK /\ DeliverersOK
    /\ WorkOK /\ HistoryOK
    /\ issue \in {"none", "open", "resolved"}
    /\ Awaits

\* It has the types in it.
LEMMA TypesFollow == IInv => TypeOK
<1> SUFFICES ASSUME IInv PROVE TypeOK
  OBVIOUS
<1>1. PlanningTypeOK
  BY PlanningBounds DEF IInv, TaskOK, WorldOK, PlansOK, PlanningTypeOK, TaskRow, TaskStatus, PlannerRow,
     PlanRow, Versions
<1>2. /\ merged \subseteq AllRows
      /\ \A n \in DOMAIN notes : notes[n] \in NoteRow
      /\ DOMAIN notes = 1 .. Len(notes)
  BY DEF IInv, RowsOK
<1>3. /\ \A k \in DOMAIN snapshots : snapshots[k] \in SnapshotRow
      /\ begun \subseteq AllRows /\ merged \subseteq begun
      /\ abandoned \subseteq DOMAIN snapshots /\ replanned \in Nat
  BY DEF IInv, SnapshotsOK, WorkOK, HistoryOK
<1>4. /\ rounds \in [Versions -> [status : RoundStatus]]
      /\ \A d \in Deliverers : /\ deliverer[d] \in DelivererRow
                                /\ deliverer[d].id \in 0 .. Len(notes) + MaxVersion
  BY DEF IInv, RoundsOK, DeliverersOK, Knows
<1> QED BY <1>1, <1>2, <1>3, <1>4 DEF IInv, TypeOK, AllRows, NoteRow, NoteStatus, SnapshotRow, RoundStatus,
           DelivererRow, Versions

------------------------------------------------------------------------------
(* Numbers, versions and sequences.                                        *)

\* A set of numbers below a bound has a greatest.
LEMMA MaxExists ==
    ASSUME NEW n \in Nat, NEW S, S \subseteq 1 .. n, S # {}
    PROVE  \E x \in S : \A y \in S : y <= x
<1> DEFINE T == {n - x : x \in S}
           R == {ss \in Nat \X Nat : ss[1] < ss[2]}
<1>1. T \subseteq Nat
  OBVIOUS
<1>2. T # {}
  <2>1. PICK x \in S : TRUE
    OBVIOUS
  <2>2. n - x \in T
    BY <2>1
  <2> QED BY <2>2
<1>3. IsWellFoundedOn(R, Nat)
  BY NatLessThanWellFounded DEF OpToRel
<1>4. PICK t \in T : \A u \in T : <<u, t>> \notin R
  <2> HIDE DEF T, R
  <2> QED BY <1>1, <1>2, <1>3, WFMin
<1>5. PICK x \in S : t = n - x
  OBVIOUS
<1>6. ASSUME NEW y \in S PROVE y <= x
  <2>1. n - y \in T
    OBVIOUS
  <2>2. <<n - y, t>> \notin R
    BY <1>4, <2>1
  <2>3. n - y \in Nat /\ t \in Nat
    BY <1>1, <2>1
  <2>4. ~(n - y < t)
    BY <2>2, <2>3
  <2> QED BY <1>5, <2>4
<1> QED BY <1>6

\* Last is the greatest of a set of notifications.
LEMMA LastType ==
    ASSUME RowsOK, ActiveNotes # {}
    PROVE  Last(ActiveNotes) \in 1 .. Len(notes)
<1>1. Len(notes) \in Nat /\ ActiveNotes \subseteq 1 .. Len(notes)
  BY DEF RowsOK, ActiveNotes
<1>2. \E n \in ActiveNotes : \A m \in ActiveNotes : m <= n
  BY <1>1, MaxExists
<1>3. Last(ActiveNotes) \in ActiveNotes
  BY <1>2 DEF Last
<1> QED BY <1>1, <1>3

\* The current version is a version, and the last that exists.
LEMMA CurrentVersionIsLast ==
    ASSUME PlansOK
    PROVE  /\ CurrentVersion \in Versions
           /\ \A v \in Versions : plan[v].status # "none" => v <= CurrentVersion
           /\ \A v \in Versions : v < CurrentVersion => plan[v].status # "none"
           /\ CurrentVersion > 1 => plan[CurrentVersion].status # "none"
<1>1. PICK k \in 0 .. MaxVersion : \A v \in Versions : plan[v].status # "none" <=> v <= k
  BY DEF PlansOK
<1> DEFINE rows == {v \in 1 .. MaxVersion : plan[v].status # "none"}
<1>2. MaxVersion \in Nat \ {0}
  BY PlanningBounds
<1>3. CASE k = 0
  <2>1. rows = {}
    BY <1>1, <1>2, <1>3 DEF Versions
  <2>2. CurrentVersion = 1
    BY <2>1 DEF CurrentVersion
  <2> QED BY <1>1, <1>2, <1>3, <2>2 DEF Versions
<1>4. CASE k # 0
  <2>1. k \in rows /\ \A u \in rows : u <= k
    BY <1>1, <1>2, <1>4 DEF Versions
  <2>2. rows # {} /\ \E v \in rows : \A u \in rows : u <= v
    BY <2>1
  <2>3. CurrentVersion \in rows /\ \A u \in rows : u <= CurrentVersion
    BY <2>2 DEF CurrentVersion
  <2>4. CurrentVersion = k
    BY <2>1, <2>3, <1>2
  <2> QED BY <1>1, <1>2, <1>4, <2>4 DEF Versions
<1> QED BY <1>3, <1>4

\* A change of a status inside a sequence of notifications leaves a sequence
\* of the same length.
LEMMA NotesKeepTheirRows ==
    ASSUME NEW S, NEW s \in Seq([row : S, status : NoteStatus]), NEW t,
           t = [n \in DOMAIN s |-> t[n]],
           \A n \in DOMAIN s : t[n] \in [row : S, status : NoteStatus]
    PROVE  t \in Seq([row : S, status : NoteStatus]) /\ Len(t) = Len(s)
OBVIOUS

------------------------------------------------------------------------------
(* What a step may do to each part, and what stays then.                   *)

\* No version and no work item goes away.
PlanGrows ==
    /\ PlansOK'
    /\ \A v \in Versions : /\ Rows(v) \subseteq Rows(v)'
                           /\ plan[v].status # "none" => plan'[v].status # "none"

\* The current version stays, or nothing is left of it to merge.
RowsStay == Rows(CurrentVersion) \subseteq Rows(CurrentVersion)'

NotesGrow  == Len(notes) \in Nat /\ Len(notes)' \in Nat /\ Len(notes) <= Len(notes)'
RoundsGrow == \A v \in Versions : rounds[v].status # "none" => rounds'[v].status # "none"

LEMMA PlanRests ==
    ASSUME PlansOK, UNCHANGED plan
    PROVE  PlanGrows /\ RowsStay
BY DEF PlanGrows, PlansOK, Rows, RowsStay, CurrentVersion

\* A version that is the first or exists is stored.
LEMMA PlanStored ==
    ASSUME PlansOK, NEW v \in Versions, v = 1 \/ plan[v].status # "none", StorePlan(v)
    PROVE  /\ PlanGrows /\ RowsStay /\ (v # 1 => plan'[1] = plan[1])
           /\ CurrentVersion' = CurrentVersion /\ v \in 1 .. CurrentVersion
<1> DEFINE new == [status |-> "planned", copies |-> plan[v].copies + 1]
           rows == {u \in 1 .. MaxVersion : plan[u].status # "none"}
<1>1. plan \in [Versions -> PlanRow] /\ plan' = [plan EXCEPT ![v] = new]
  BY DEF PlansOK, StorePlan
<1>2. new \in PlanRow /\ new.status = "planned" /\ new.copies = plan[v].copies + 1 /\ plan[v].copies \in Nat
  BY <1>1 DEF PlanRow
<1> HIDE DEF new
<1>3. plan' \in [Versions -> PlanRow]
  BY <1>1, <1>2
<1>4. \A u \in Versions : plan'[u] = IF u = v THEN new ELSE plan[u]
  BY <1>1
<1>5. PICK k \in 0 .. MaxVersion : \A u \in Versions : plan[u].status # "none" <=> u <= k
  BY DEF PlansOK
<1>6. MaxVersion \in Nat \ {0} /\ 1 \in Versions
  BY PlanningBounds DEF Versions
<1>7. \E j \in 0 .. MaxVersion : \A u \in Versions : plan'[u].status # "none" <=> u <= j
  <2>1. CASE plan[v].status # "none"
    BY <1>2, <1>4, <1>5, <2>1
  <2>2. CASE plan[v].status = "none"
    <3>1. v = 1 /\ k = 0
      BY <1>5, <1>6, <2>2 DEF Versions
    <3>2. \A u \in Versions : plan'[u].status # "none" <=> u <= 1
      BY <1>2, <1>4, <1>5, <1>6, <3>1 DEF Versions
    <3> QED BY <1>6, <3>2
  <2> QED BY <2>1, <2>2
<1>8. \A u \in Versions : plan'[u].status # "planned" => plan'[u].copies = 0
  BY <1>2, <1>4 DEF PlansOK
<1>9. ASSUME NEW u \in Versions
      PROVE  Rows(u) \subseteq Rows(u)' /\ (plan[u].status # "none" => plan'[u].status # "none")
  <2>1. plan[u].copies \in Nat /\ plan'[u].copies \in Nat /\ plan[u].copies <= plan'[u].copies
    BY <1>1, <1>2, <1>3, <1>4 DEF PlanRow
  <2>2. 1 .. plan[u].copies \subseteq 1 .. plan'[u].copies
    BY <2>1
  <2>3. Rows(u) \subseteq Rows(u)'
    BY <2>2 DEF Rows
  <2> QED BY <1>2, <1>4, <2>3
<1>10. PlanGrows
  BY <1>3, <1>7, <1>8, <1>9 DEF PlanGrows, PlansOK
<1>11. Versions = 1 .. MaxVersion
  BY DEF Versions
<1>12. CurrentVersion' = CurrentVersion /\ v \in 1 .. CurrentVersion
  <2>1. CASE plan[v].status # "none"
    <3>1. rows' = rows
      BY <1>2, <1>4, <1>11, <2>1
    <3>2. CurrentVersion' = CurrentVersion
      <4>1. CurrentVersion = IF rows = {} THEN 1 ELSE Last(rows)
        BY Zenon DEF CurrentVersion, Last
      <4>2. CurrentVersion' = IF rows' = {} THEN 1 ELSE Last(rows')
        BY Zenon DEF CurrentVersion, Last
      <4> HIDE DEF rows
      <4> QED BY <3>1, <4>1, <4>2
    <3>3. v <= CurrentVersion /\ CurrentVersion \in Versions
      BY <2>1, CurrentVersionIsLast
    <3> QED BY <1>6, <1>11, <3>2, <3>3
  <2>2. CASE plan[v].status = "none"
    <3>1. v = 1 /\ \A u \in Versions : plan[u].status = "none"
      BY <1>5, <1>6, <1>11, <2>2
    <3>2. rows = {} /\ {u \in 1 .. MaxVersion : plan'[u].status # "none"} = {1}
      BY <1>2, <1>4, <1>6, <1>11, <3>1
    <3>3. CurrentVersion = 1
      BY <3>2 DEF CurrentVersion
    <3>4. CurrentVersion' = 1
      BY <3>2 DEF CurrentVersion
    <3> QED BY <3>1, <3>3, <3>4
  <2> QED BY <2>1, <2>2
<1>13. RowsStay
  <2>1. PICK c \in Versions : c = CurrentVersion
    BY CurrentVersionIsLast
  <2>2. Rows(c) \subseteq Rows(c)'
    BY <1>9
  <2>3. Rows(c)' = Rows(CurrentVersion)'
    BY <1>12, <2>1 DEF Rows
  <2> QED BY <2>1, <2>2, <2>3 DEF RowsStay
<1> QED BY <1>12, <1>13, <1>2, <1>4, <1>6, <1>10

\* A rejection asks for the next version.
LEMMA VersionAsked ==
    ASSUME PlansOK, CurrentVersion + 1 <= MaxVersion, plan[1].status # "none",
           plan' = [plan EXCEPT ![CurrentVersion + 1] = [status |-> "planning", copies |-> 0]]
    PROVE  PlanGrows /\ plan'[1] = plan[1] /\ plan'[CurrentVersion + 1].status # "none"
<1> DEFINE v == CurrentVersion + 1
           new == [status |-> "planning", copies |-> 0]
<1>1. plan \in [Versions -> PlanRow] /\ plan' = [plan EXCEPT ![v] = new]
  BY DEF PlansOK
<1>2. new \in PlanRow /\ new.status = "planning" /\ new.copies = 0
  BY DEF PlanRow
<1>3. /\ v \in Versions /\ v # 1 /\ 1 \in Versions /\ MaxVersion \in Nat \ {0}
      /\ \A u \in Versions : plan[u].status # "none" <=> u < v
  BY CurrentVersionIsLast, PlanningBounds DEF Versions
<1> HIDE DEF new, v
<1>4. \A u \in Versions : plan'[u] = IF u = v THEN new ELSE plan[u]
  BY <1>1
<1>5. plan' \in [Versions -> PlanRow]
  BY <1>1, <1>2, <1>3
<1>6. \A u \in Versions : plan'[u].status # "none" <=> u <= v
  BY <1>2, <1>3, <1>4 DEF Versions
<1>7. v \in 0 .. MaxVersion
  BY <1>3 DEF Versions
<1>8. \A u \in Versions : plan'[u].status # "planned" => plan'[u].copies = 0
  BY <1>2, <1>4 DEF PlansOK
<1>9. ASSUME NEW u \in Versions
      PROVE  Rows(u) \subseteq Rows(u)' /\ (plan[u].status # "none" => plan'[u].status # "none")
  <2>1. CASE u = v
    <3>1. plan[u].copies = 0
      BY <1>3, <2>1 DEF PlansOK, Versions
    <3>2. Rows(u) = {}
      BY <3>1 DEF Rows
    <3> QED BY <3>2, <1>2, <1>4, <2>1
  <2>2. CASE u # v
    BY <1>4, <2>2 DEF Rows
  <2> QED BY <2>1, <2>2
<1>10. PlanGrows
  BY <1>5, <1>6, <1>7, <1>8, <1>9 DEF PlanGrows, PlansOK
<1>11. plan'[1] = plan[1] /\ plan'[v].status # "none"
  BY <1>2, <1>3, <1>4
<1> QED BY <1>10, <1>11 DEF v

LEMMA AllRowsGrow ==
    ASSUME PlanGrows
    PROVE  AllRows \subseteq AllRows'
BY DEF PlanGrows, AllRows

LEMMA RowsRest ==
    ASSUME RowsOK, PlanGrows, merged' = merged, notes' = notes
    PROVE  RowsOK' /\ NotesGrow
<1>1. AllRows \subseteq AllRows'
  BY AllRowsGrow
<1>2. NoteRow \subseteq NoteRow'
  BY <1>1 DEF NoteRow
<1>3. notes' \in Seq(NoteRow')
  <2>1. notes \in Seq(NoteRow)
    BY DEF RowsOK
  <2> DEFINE A == NoteRow
             B == NoteRow'
  <2>2. notes \in Seq(A) /\ A \subseteq B
    BY <1>2, <2>1
  <2> HIDE DEF A, B
  <2>3. notes \in Seq(B)
    BY <2>2
  <2> QED BY <2>3 DEF B
<1>4. Len(notes) \in Nat
  BY DEF RowsOK
<1> QED BY <1>1, <1>3, <1>4 DEF RowsOK, NotesGrow

\* Work goes on where the current version does.
LEMMA WorkRests ==
    ASSUME WorkOK, PlanGrows, RowsStay, merged' = merged,
           begun' = begun \/ begun' = begun \cup Rows(CurrentVersion),
           Rows(CurrentVersion) \subseteq AllRows
    PROVE  WorkOK'
<1>1. AllRows \subseteq AllRows'
  BY AllRowsGrow
<1> QED BY <1>1 DEF WorkOK, RowsStay

LEMMA CurrentRows ==
    ASSUME PlansOK
    PROVE  Rows(CurrentVersion) \subseteq AllRows
BY CurrentVersionIsLast DEF AllRows

\* One notification changes its status.
LEMMA NoteMoves ==
    ASSUME RowsOK, UNCHANGED <<workVars, plan>>, NEW n \in 1 .. Len(notes), NEW st \in NoteStatus,
           notes' = [notes EXCEPT ![n].status = st]
    PROVE  RowsOK' /\ NotesGrow
<1>1. notes \in Seq(NoteRow) /\ Len(notes) \in Nat
  BY DEF RowsOK
<1>2. notes[n] \in NoteRow
  BY <1>1
<1> DEFINE new == [notes[n] EXCEPT !.status = st]
<1>3. new \in NoteRow
  BY <1>2 DEF NoteRow
<1>4. notes' = [notes EXCEPT ![n] = new]
  OBVIOUS
<1> HIDE DEF new
<1>5. notes' \in Seq(NoteRow) /\ Len(notes') = Len(notes)
  BY <1>1, <1>3, <1>4
<1>6. AllRows' = AllRows
  BY DEF AllRows, Rows
<1> QED BY <1>1, <1>5, <1>6 DEF RowsOK, NoteRow, NotesGrow, workVars

LEMMA SnapshotsRest ==
    ASSUME SnapshotsOK, UNCHANGED snapshots, NotesGrow
    PROVE  SnapshotsOK'
<1> DEFINE A == SnapshotRow
           B == SnapshotRow'
<1>1. A \subseteq B
  BY DEF NotesGrow, SnapshotRow
<1>2. snapshots \in Seq(A)
  BY DEF SnapshotsOK
<1> HIDE DEF A, B
<1>3. snapshots \in Seq(B)
  BY <1>1, <1>2
<1> QED BY <1>3 DEF SnapshotsOK, B

LEMMA HistoryRests ==
    ASSUME HistoryOK, UNCHANGED <<snapshots, history>>
    PROVE  HistoryOK'
BY DEF HistoryOK, history

LEMMA RoundsRest ==
    ASSUME RoundsOK, PlanGrows, UNCHANGED rounds
    PROVE  RoundsOK' /\ RoundsGrow
BY DEF RoundsOK, PlanGrows, RoundsGrow

\* One round that exists changes its status.
LEMMA RoundMoves ==
    ASSUME RoundsOK, UNCHANGED plan, NEW v \in Versions, rounds[v].status # "none",
           NEW st \in RoundStatus, st # "none", rounds' = [rounds EXCEPT ![v].status = st]
    PROVE  RoundsOK' /\ RoundsGrow
<1>1. rounds \in [Versions -> [status : RoundStatus]]
  BY DEF RoundsOK
<1>2. rounds' = [rounds EXCEPT ![v] = [status |-> st]]
  <2>1. [rounds[v] EXCEPT !.status = st] = [status |-> st]
    BY <1>1
  <2> QED BY <2>1
<1>3. rounds' \in [Versions -> [status : RoundStatus]]
  BY <1>1, <1>2
<1>4. \A u \in Versions : rounds'[u].status # "none" <=> rounds[u].status # "none"
  BY <1>1, <1>2
<1> QED BY <1>3, <1>4 DEF RoundsOK, RoundsGrow

LEMMA DeliverersRest ==
    ASSUME DeliverersOK, UNCHANGED deliverer, NotesGrow, RoundsGrow
    PROVE  DeliverersOK'
<1>1. MaxVersion \in Nat
  BY PlanningBounds
<1>2. ASSUME NEW d \in Deliverers PROVE Knows(deliverer[d], Len(notes)', rounds')
  <2>1. Knows(deliverer[d], Len(notes), rounds)
    BY DEF DeliverersOK
  <2> QED BY <1>1, <2>1 DEF Knows, NotesGrow, RoundsGrow
<1> QED BY <1>2 DEF DeliverersOK

\* One worker moves to where it has what it must have.
LEMMA DelivererBecomes ==
    ASSUME DeliverersOK, NotesGrow, RoundsGrow, NEW d \in Deliverers, NEW r \in DelivererRow,
           Knows(r, Len(notes)', rounds'), Become(d, r)
    PROVE  DeliverersOK'
<1>1. MaxVersion \in Nat
  BY PlanningBounds
<1>2. deliverer \in [Deliverers -> DelivererRow] /\ deliverer' = [deliverer EXCEPT ![d] = r]
  BY DEF DeliverersOK, Become
<1>3. ASSUME NEW e \in Deliverers PROVE Knows(deliverer'[e], Len(notes)', rounds')
  <2>1. CASE e = d
    BY <1>2, <2>1
  <2>2. CASE e # d
    <3>1. deliverer'[e] = deliverer[e] /\ Knows(deliverer[e], Len(notes), rounds)
      BY <1>2, <2>2 DEF DeliverersOK
    <3> QED BY <1>1, <3>1 DEF Knows, NotesGrow, RoundsGrow
  <2> QED BY <2>1, <2>2
<1> QED BY <1>2, <1>3 DEF DeliverersOK

\* A worker that is idle or goes on to the rounds has nothing.
LEMMA IdleKnows ==
    ASSUME NEW n \in Nat, NEW rs
    PROVE  /\ IdleDeliverer \in DelivererRow /\ Knows(IdleDeliverer, n, rs)
           /\ [IdleDeliverer EXCEPT !.pc = "rounds"] \in DelivererRow
           /\ Knows([IdleDeliverer EXCEPT !.pc = "rounds"], n, rs)
BY PlanningBounds DEF IdleDeliverer, DelivererRow, Knows

\* A task that awaits acceptance is left as it is.
LEMMA AwaitRests ==
    ASSUME Awaits, UNCHANGED <<snapshots, abandoned>>,
           task'.status = "awaiting_acceptance" <=> task.status = "awaiting_acceptance",
           task.status = "awaiting_acceptance" =>
               /\ UNCHANGED plan /\ merged \subseteq merged'
               /\ ActiveNotes = {} => ActiveNotes' = {}
    PROVE  Awaits'
<1>1. Open' = Open /\ Len(snapshots)' = Len(snapshots)
  BY DEF Open
<1>2. CASE task.status # "awaiting_acceptance"
  BY <1>1, <1>2 DEF Awaits, AwaitingIsWhole
<1>3. CASE task.status = "awaiting_acceptance"
  <2>1. CurrentVersion' = CurrentVersion /\ Rows(CurrentVersion)' = Rows(CurrentVersion)
    BY <1>3 DEF CurrentVersion, Rows
  <2> QED BY <1>1, <1>3, <2>1 DEF Awaits, AwaitingIsWhole
<1> QED BY <1>2, <1>3

------------------------------------------------------------------------------
(* The steps of the planners, and what is done to the task around them.    *)

\* From here a task may be planned for the first time.
Unplanned == {"created", "planning", "planning_error"}

\* What a step does to the task's status and to the first plan together.
StatusFits ==
    /\ task'.status = "awaiting_acceptance" <=> task.status = "awaiting_acceptance"
    /\ task.status = "awaiting_acceptance" => UNCHANGED plan

FirstPlanFits ==
    \/ /\ plan'[1] = plan[1] /\ replanned' = replanned
       /\ task'.status \in Unplanned => task.status \in Unplanned
    \/ plan'[1] = plan[1] /\ replanned' = replanned /\ plan[1].copies = 0
    \/ plan'[1] = plan[1] /\ replanned' = replanned + 1
    \/ /\ task.status = "planning" /\ task'.status = "planned" /\ replanned' = replanned
       /\ plan'[1].copies = plan[1].copies + 1

PlanningFits == /\ TaskOK' /\ WorldOK' /\ PlanGrows /\ RowsStay /\ StatusFits
                /\ replanned' = replanned => FirstPlanFits

\* Only the task's row changes, and only by steps that leave the plan alone.
LEMMA TaskFits ==
    ASSUME PlansOK, TaskOK', WorldOK', UNCHANGED plan,
           task'.status = "awaiting_acceptance" <=> task.status = "awaiting_acceptance",
           task'.status \in Unplanned => task.status \in Unplanned
    PROVE  PlanningFits
BY PlanRests DEF PlanningFits, StatusFits, FirstPlanFits

\* A planner goes on, and nothing but the task's row changes with it.
LEMMA PlannerFits ==
    ASSUME PlansOK, WorldOK, TaskOK', UNCHANGED <<plan, condition, managerUp, faults>>,
           planner' \in [Planners -> PlannerRow],
           task'.status = "awaiting_acceptance" <=> task.status = "awaiting_acceptance",
           task'.status \in Unplanned => task.status \in Unplanned
    PROVE  PlanningFits
<1>1. WorldOK'
  BY DEF WorldOK
<1> QED BY <1>1, TaskFits

\* The planning of a task, from one of its statuses to another, does not
\* touch a delivery.
LEMMA AmongUnplanned ==
    ASSUME task.status \in Unplanned, task'.status \in Unplanned
    PROVE  /\ task'.status = "awaiting_acceptance" <=> task.status = "awaiting_acceptance"
           /\ task'.status \in Unplanned => task.status \in Unplanned
BY DEF Unplanned

\* An attempt's number and the retry it allows.
LEMMA RetryType ==
    ASSUME NEW a
    PROVE  RetryAfter(a) \in {"never", "set"}
BY DEF RetryAfter

\* A planner takes up an attempt, or puts it down.
LEMMA AttemptTaken ==
    ASSUME planner \in [Planners -> PlannerRow], NEW p \in Planners,
           NEW a \in {"idle", "recover", "ready", "claim", "chat", "persist", "block"},
           NEW b \in 0 .. MaxAttempts,
           planner' = [planner EXCEPT ![p].pc = a, ![p].attempt = b]
    PROVE  planner' \in [Planners -> PlannerRow]
<1> DEFINE r == [planner[p] EXCEPT !.pc = a, !.attempt = b]
<1>1. planner[p] \in PlannerRow
  OBVIOUS
<1>2. r \in PlannerRow
  BY <1>1 DEF PlannerRow
<1>3. planner' = [planner EXCEPT ![p] = r]
  BY <1>1
<1> HIDE DEF r
<1> QED BY <1>2, <1>3

LEMMA RunOnceFits ==
    ASSUME IInv, NEW p \in Planners, RunOnce(p)
    PROVE  PlanningFits
<1>1. task \in TaskRow /\ planner \in [Planners -> PlannerRow]
  BY DEF IInv, TaskOK, WorldOK
<1>2. 0 \in 0 .. MaxAttempts
  BY PlanningBounds
<1>3. planner' \in [Planners -> PlannerRow]
  <2> DEFINE stale == task.status = "planning" /\ task.started # "fresh"
             a == IF stale THEN "recover" ELSE "ready"
             b == IF stale THEN task.attempts ELSE 0
  <2>1. a \in {"recover", "ready"} /\ b \in 0 .. MaxAttempts
    BY <1>1, <1>2 DEF TaskRow
  <2>2. planner' = [planner EXCEPT ![p].pc = a, ![p].attempt = b]
    BY DEF RunOnce
  <2> HIDE DEF a, b
  <2> QED BY <1>1, <2>1, <2>2, AttemptTaken
<1>4. TaskOK' /\ UNCHANGED <<task, plan, condition, managerUp, faults>>
  BY DEF IInv, TaskOK, RunOnce
<1> QED BY <1>3, <1>4, PlannerFits DEF IInv

LEMMA RecoverStaleTaskFits ==
    ASSUME IInv, NEW p \in Planners, RecoverStaleTask(p)
    PROVE  PlanningFits
<1> DEFINE stored == planner[p].attempt
           attempt == IF stored < 1 THEN 1 ELSE IF stored > MaxAttempts THEN MaxAttempts ELSE stored
           new == [task EXCEPT !.status = "planning_error", !.attempts = attempt,
                               !.class = "transient", !.retry = RetryAfter(attempt),
                               !.started = "none"]
<1>1. task \in TaskRow /\ planner \in [Planners -> PlannerRow]
  BY DEF IInv, TaskOK, WorldOK
<1>2. MaxAttempts \in Nat \ {0} /\ stored \in 0 .. MaxAttempts
  BY <1>1, PlanningBounds DEF PlannerRow
<1>3. attempt \in 0 .. MaxAttempts
  BY <1>2
<1>4. planner' \in [Planners -> PlannerRow]
  <2>1. planner' = [planner EXCEPT ![p].pc = "ready", ![p].attempt = 0]
    BY DEF RecoverStaleTask
  <2>2. 0 \in 0 .. MaxAttempts
    BY <1>2
  <2> QED BY <1>1, <2>1, <2>2, AttemptTaken
<1>5. UNCHANGED <<plan, condition, managerUp, faults>>
  BY DEF RecoverStaleTask
<1>6. UNCHANGED task \/ (task.status = "planning" /\ task' = new)
  BY DEF RecoverStaleTask
<1>7. CASE UNCHANGED task
  <2>1. TaskOK'
    BY <1>7 DEF IInv, TaskOK
  <2> QED BY <1>4, <1>5, <1>7, <2>1, PlannerFits DEF IInv
<1>8. CASE task.status = "planning" /\ task' = new
  <2>1. RetryAfter(attempt) \in {"never", "set"}
    BY RetryType
  <2> HIDE DEF attempt
  <2>2. new \in TaskRow /\ new.status = "planning_error"
    BY <1>1, <1>3, <2>1 DEF TaskRow, TaskStatus
  <2> HIDE DEF new
  <2>3. TaskOK' /\ task'.status \in Unplanned /\ task.status \in Unplanned
    BY <1>8, <2>2 DEF TaskOK, Unplanned
  <2> QED BY <1>4, <1>5, <2>3, AmongUnplanned, PlannerFits DEF IInv
<1> QED BY <1>6, <1>7, <1>8

LEMMA ResetBlockedFits ==
    ASSUME IInv, NEW p \in Planners, ResetBlocked(p)
    PROVE  PlanningFits
<1>1. /\ task \in TaskRow /\ planner \in [Planners -> PlannerRow] /\ managerUp \in BOOLEAN
      /\ faults \in 0 .. MaxFaults /\ condition \in 1 .. faults + 1 /\ MaxFaults \in Nat
      /\ 0 \in 0 .. MaxAttempts
  BY PlanningBounds DEF IInv, TaskOK, WorldOK
<1>2. planner' \in [Planners -> PlannerRow]
  <2> DEFINE a == IF managerUp THEN "claim" ELSE "idle"
             b == ~managerUp
             r == [planner[p] EXCEPT !.pc = a, !.sawDown = b]
  <2>1. planner[p] \in PlannerRow /\ a \in {"claim", "idle"} /\ b \in BOOLEAN
    BY <1>1
  <2>2. planner' = [planner EXCEPT ![p].pc = a, ![p].sawDown = b]
    BY DEF ResetBlocked
  <2> HIDE DEF a, b
  <2>3. r \in PlannerRow
    BY <2>1 DEF PlannerRow
  <2>4. planner' = [planner EXCEPT ![p] = r]
    BY <1>1, <2>2
  <2> HIDE DEF r
  <2> QED BY <1>1, <2>3, <2>4
<1>3. UNCHANGED <<plan, condition, managerUp, faults>>
  BY DEF ResetBlocked
<1>4. UNCHANGED task \/ (GivenUp /\ Reset)
  BY DEF ResetBlocked
<1>5. CASE UNCHANGED task
  <2>1. TaskOK'
    BY <1>5 DEF IInv, TaskOK
  <2> QED BY <1>2, <1>3, <1>5, <2>1, PlannerFits DEF IInv
<1>6. CASE GivenUp /\ Reset
  <2>1. condition \in 0 .. MaxFaults + 1
    BY <1>1
  <2>2. task' \in TaskRow /\ task'.status = "created" /\ task'.attempts = 0
    BY <1>1, <1>6, <2>1 DEF Reset, TaskRow, TaskStatus
  <2>3. TaskOK' /\ task'.status \in Unplanned /\ task.status \in Unplanned
    BY <1>6, <2>2 DEF TaskOK, Unplanned, GivenUp
  <2> QED BY <1>2, <1>3, <2>3, AmongUnplanned, PlannerFits DEF IInv
<1> QED BY <1>4, <1>5, <1>6

LEMMA ClaimInitialPlanFits ==
    ASSUME IInv, NEW p \in Planners, ClaimInitialPlan(p)
    PROVE  PlanningFits
<1>1. /\ task \in TaskRow /\ planner \in [Planners -> PlannerRow]
      /\ faults \in 0 .. MaxFaults /\ condition \in 1 .. faults + 1 /\ MaxFaults \in Nat
      /\ MaxAttempts \in Nat \ {0} /\ (task.status = "created" => task.attempts = 0)
  BY PlanningBounds DEF IInv, TaskOK, WorldOK
<1>2. UNCHANGED <<plan, condition, managerUp, faults>>
  BY DEF ClaimInitialPlan
<1>3. CASE Claimable
  <2>1. task.attempts \in 0 .. MaxAttempts /\ task.attempts < MaxAttempts
    BY <1>1, <1>3 DEF Claimable, TaskRow
  <2>2. task.attempts + 1 \in 0 .. MaxAttempts /\ condition \in 0 .. MaxFaults + 1
    BY <1>1, <2>1
  <2>3. planner' \in [Planners -> PlannerRow]
    BY <1>1, <1>3, <2>2 DEF ClaimInitialPlan, PlannerRow
  <2> DEFINE new == [task EXCEPT !.status = "planning", !.attempts = task.attempts + 1,
                                 !.class = "none", !.retry = "never", !.started = "fresh",
                                 !.condition = condition]
  <2>4. task' = new
    BY <1>1, <1>3 DEF ClaimInitialPlan
  <2>5. new \in TaskRow /\ new.status = "planning"
    BY <1>1, <2>2 DEF TaskRow, TaskStatus
  <2> HIDE DEF new
  <2>6. TaskOK' /\ task'.status \in Unplanned /\ task.status \in Unplanned
    BY <1>3, <2>4, <2>5 DEF TaskOK, Unplanned, Claimable
  <2> QED BY <1>2, <2>3, <2>6, AmongUnplanned, PlannerFits DEF IInv
<1>4. CASE ~Claimable
  <2>1. planner' \in [Planners -> PlannerRow]
    BY <1>1, <1>4 DEF ClaimInitialPlan, PlannerRow
  <2>2. TaskOK' /\ UNCHANGED task
    BY <1>4 DEF ClaimInitialPlan, IInv, TaskOK
  <2> QED BY <1>2, <2>1, <2>2, PlannerFits DEF IInv
<1> QED BY <1>3, <1>4

LEMMA ChatFits ==
    ASSUME IInv, NEW p \in Planners, Chat(p)
    PROVE  PlanningFits
<1>1. planner \in [Planners -> PlannerRow]
  BY DEF IInv, WorldOK
<1>2. planner' \in [Planners -> PlannerRow]
  BY <1>1 DEF Chat, PlannerAt, PlannerRow
<1>3. TaskOK' /\ UNCHANGED <<task, plan, condition, managerUp, faults>>
  BY DEF Chat, IInv, TaskOK
<1> QED BY <1>2, <1>3, PlannerFits DEF IInv

LEMMA PersistInitialPlanFits ==
    ASSUME IInv, NEW p \in Planners, PersistInitialPlan(p)
    PROVE  PlanningFits
<1>1. /\ task \in TaskRow /\ planner \in [Planners -> PlannerRow]
      /\ MaxAttempts \in Nat \ {0} /\ MaxFaults \in Nat /\ 1 \in Versions
  BY PlanningBounds DEF IInv, TaskOK, WorldOK, Versions
<1>2. planner' \in [Planners -> PlannerRow]
  BY <1>1 DEF PersistInitialPlan, PlannerRow
<1>3. UNCHANGED <<condition, managerUp, faults>>
  BY DEF PersistInitialPlan
<1>4. WorldOK'
  BY <1>2, <1>3 DEF IInv, WorldOK
<1>5. CASE task.status = "planning"
  <2>1. StorePlan(1)
    BY <1>5 DEF PersistInitialPlan
  <2>2. task' \in TaskRow /\ task'.status = "planned"
    <3> DEFINE new == [task EXCEPT !.status = "planned", !.class = "none", !.retry = "never",
                                   !.started = "none", !.condition = 0]
    <3>1. task' = new
      BY <1>5 DEF PersistInitialPlan
    <3>2. 0 \in 0 .. MaxFaults + 1
      BY <1>1
    <3>3. new \in TaskRow /\ new.status = "planned"
      BY <1>1, <3>2 DEF TaskRow, TaskStatus
    <3> HIDE DEF new
    <3> QED BY <3>1, <3>3
  <2>3. TaskOK' /\ StatusFits
    BY <1>5, <2>2 DEF TaskOK, StatusFits
  <2>4. PlanGrows /\ RowsStay
    BY <1>1, <2>1, PlanStored DEF IInv
  <2>5. plan \in [Versions -> PlanRow]
    BY DEF IInv, PlansOK
  <2>6. plan'[1].copies = plan[1].copies + 1
    BY <1>1, <2>1, <2>5 DEF StorePlan
  <2> QED BY <1>4, <1>5, <2>2, <2>3, <2>4, <2>6 DEF PlanningFits, FirstPlanFits
<1>6. CASE task.status # "planning"
  <2>1. TaskOK' /\ UNCHANGED <<task, plan>>
    BY <1>6 DEF PersistInitialPlan, IInv, TaskOK
  <2> QED BY <1>4, <2>1, TaskFits DEF IInv
<1> QED BY <1>5, <1>6

LEMMA BlockFits ==
    ASSUME IInv, NEW p \in Planners, Block(p)
    PROVE  PlanningFits
<1>1. task \in TaskRow /\ planner \in [Planners -> PlannerRow] /\ 0 \in 0 .. MaxAttempts
  BY PlanningBounds DEF IInv, TaskOK, WorldOK
<1>2. planner' \in [Planners -> PlannerRow]
  BY <1>1 DEF Block, PlannerRow
<1>3. UNCHANGED <<plan, condition, managerUp, faults>>
  BY DEF Block
<1>4. CASE task.status = "planning"
  <2> DEFINE class == planner[p].class
             retry == IF class = "transient" THEN RetryAfter(planner[p].attempt) ELSE "never"
  <2>1. class \in {"none", "transient", "configuration"}
    BY <1>1 DEF PlannerRow
  <2>2. retry \in {"never", "set"}
    BY RetryType
  <2>3. task' = [task EXCEPT !.status = "planning_error", !.class = class, !.retry = retry,
                             !.started = "none"]
    BY <1>4 DEF Block, Unplannable
  <2> HIDE DEF class, retry
  <2>4. task' \in TaskRow /\ task'.status = "planning_error"
    BY <1>1, <2>1, <2>2, <2>3 DEF TaskRow, TaskStatus
  <2>5. TaskOK' /\ task'.status \in Unplanned /\ task.status \in Unplanned
    BY <1>4, <2>4 DEF TaskOK, Unplanned
  <2> QED BY <1>2, <1>3, <2>5, AmongUnplanned, PlannerFits DEF IInv
<1>5. CASE task.status # "planning"
  <2>1. TaskOK' /\ UNCHANGED task
    BY <1>5 DEF Block, IInv, TaskOK
  <2> QED BY <1>2, <1>3, <2>1, PlannerFits DEF IInv
<1> QED BY <1>4, <1>5

LEMMA PlannerCrashFits ==
    ASSUME IInv, NEW p \in Planners, PlannerCrash(p)
    PROVE  PlanningFits
<1>1. /\ planner \in [Planners -> PlannerRow] /\ faults \in 0 .. MaxFaults /\ MaxFaults \in Nat
      /\ condition \in 1 .. faults + 1 /\ 0 \in 0 .. MaxAttempts
  BY PlanningBounds DEF IInv, WorldOK
<1>2. planner' \in [Planners -> PlannerRow]
  BY <1>1 DEF PlannerCrash, IdlePlanner, PlannerRow
<1>3. faults' \in 0 .. MaxFaults /\ condition' \in 1 .. faults' + 1
  BY <1>1 DEF PlannerCrash, Fault, Calm
<1>4. WorldOK'
  BY <1>2, <1>3 DEF IInv, WorldOK, PlannerCrash
<1>5. TaskOK' /\ UNCHANGED <<task, plan>>
  BY DEF PlannerCrash, IInv, TaskOK
<1> QED BY <1>4, <1>5, TaskFits DEF IInv

\* What happens around the planners.
LEMMA SurroundingsFit ==
    ASSUME IInv, ChangeCondition \/ ManagerStops \/ ManagerStarts \/ ElapsePlanning
    PROVE  PlanningFits
<1>1. /\ task \in TaskRow /\ faults \in 0 .. MaxFaults /\ MaxFaults \in Nat
      /\ condition \in 1 .. faults + 1 /\ managerUp \in BOOLEAN /\ UNCHANGED <<plan, planner>>
  BY PlanningBounds DEF IInv, TaskOK, WorldOK, ChangeCondition, ManagerStops, ManagerStarts, ElapsePlanning
<1>2. faults' \in {faults, faults + 1} /\ faults' \in 0 .. MaxFaults
  BY <1>1 DEF ChangeCondition, ManagerStops, ManagerStarts, ElapsePlanning, Fault, Calm
<1>3. condition' \in 1 .. faults' + 1
  <2>1. condition' = condition \/ (condition' = condition + 1 /\ faults' = faults + 1)
    BY DEF ChangeCondition, ManagerStops, ManagerStarts, ElapsePlanning, Fault
  <2> QED BY <1>1, <1>2, <2>1
<1>4. managerUp' \in BOOLEAN
  <2>1. managerUp' = managerUp \/ managerUp' = FALSE \/ managerUp' = TRUE
    BY DEF ChangeCondition, ManagerStops, ManagerStarts, ElapsePlanning
  <2> QED BY <1>1, <2>1
<1>5. WorldOK'
  BY <1>1, <1>2, <1>3, <1>4 DEF IInv, WorldOK
<1>6. UNCHANGED task \/ (task.status = "planning" /\ task' = [task EXCEPT !.started = "stale"])
  BY DEF ChangeCondition, ManagerStops, ManagerStarts, ElapsePlanning
<1>7. TaskOK' /\ task'.status = task.status
  BY <1>1, <1>6 DEF IInv, TaskOK, TaskRow
<1> QED BY <1>1, <1>5, <1>7, TaskFits DEF IInv

\* Planning leaves a delivery alone.
LEMMA PlanningStep ==
    ASSUME IInv, PlanningNext
    PROVE  IInv' /\ FirstPlanFits
<1>1. PlanningFits
  BY RunOnceFits, RecoverStaleTaskFits, ResetBlockedFits, ClaimInitialPlanFits, ChatFits,
     PersistInitialPlanFits, BlockFits, PlannerCrashFits, SurroundingsFit
  DEF PlanningNext, PlannerStep
<1>2. /\ UNCHANGED <<workVars, notes, snapshots, rounds, issue, deliverer>>
      /\ UNCHANGED <<history, begun, merged, abandoned, replanned>>
  BY DEF PlanningNext, deliveryVars, workVars, history
<1>3. PlanGrows /\ RowsStay
  BY <1>1 DEF PlanningFits
<1>4. RowsOK' /\ NotesGrow
  BY <1>2, <1>3, RowsRest DEF IInv
<1>5. SnapshotsOK'
  BY <1>2, <1>4, SnapshotsRest DEF IInv
<1>6. RoundsOK' /\ RoundsGrow
  BY <1>2, <1>3, RoundsRest DEF IInv
<1>7. DeliverersOK'
  BY <1>2, <1>4, <1>6, DeliverersRest DEF IInv
<1>8. ActiveNotes' = ActiveNotes
  BY <1>2 DEF ActiveNotes, Active
<1>9. Awaits'
  BY <1>1, <1>2, <1>8, AwaitRests DEF PlanningFits, StatusFits, IInv
<1>10. WorkOK' /\ HistoryOK'
  BY <1>2, <1>3, WorkRests, CurrentRows, HistoryRests DEF IInv
<1> QED BY <1>1, <1>2, <1>3, <1>4, <1>5, <1>6, <1>7, <1>9, <1>10 DEF IInv, PlanningFits, PlanGrows

------------------------------------------------------------------------------
(* The steps of the delivery workers and of everybody else.                *)

\* What such a step shows.
Kept == IInv' /\ FirstPlanFits

LEMMA FaultCounted ==
    ASSUME WorldOK, Fault, UNCHANGED <<planner, condition, managerUp>>
    PROVE  WorldOK'
<1>1. MaxFaults \in Nat
  BY PlanningBounds
<1>2. faults' \in 0 .. MaxFaults /\ condition' \in 1 .. faults' + 1
  BY <1>1 DEF WorldOK, Fault, Calm
<1> QED BY <1>2 DEF WorldOK

\* A step that moves neither the task nor its plan nor a delivery.
LEMMA DeliveryRests ==
    ASSUME IInv, UNCHANGED <<task, plan, snapshots, workVars>>, WorldOK', RowsOK', NotesGrow,
           RoundsOK', DeliverersOK', issue' \in {"none", "open", "resolved"},
           ActiveNotes = {} => ActiveNotes' = {}
    PROVE  Kept
<1>1. UNCHANGED <<history, begun, merged, abandoned, replanned>>
  BY DEF workVars, history
<1>2. TaskOK' /\ PlanGrows /\ RowsStay
  BY PlanRests DEF IInv, TaskOK
<1>3. SnapshotsOK' /\ HistoryOK' /\ WorkOK'
  BY <1>1, <1>2, SnapshotsRest, HistoryRests, WorkRests, CurrentRows DEF IInv
<1>4. Awaits'
  BY <1>1, AwaitRests DEF IInv
<1>5. FirstPlanFits
  BY <1>1 DEF FirstPlanFits
<1> QED BY <1>2, <1>3, <1>4, <1>5 DEF Kept, IInv, PlanGrows

\* A step that moves the task's status, and may begin the current plan.
LEMMA TaskMoved ==
    ASSUME IInv, UNCHANGED <<plan, merged, notes, snapshots, rounds, issue, deliverer>>,
           TaskOK', WorldOK', HistoryOK', Awaits', FirstPlanFits,
           begun' = begun \/ begun' = begun \cup Rows(CurrentVersion)
    PROVE  Kept
<1>1. PlanGrows /\ RowsStay
  BY PlanRests DEF IInv
<1>2. WorkOK'
  BY <1>1, WorkRests, CurrentRows DEF IInv
<1>3. RowsOK' /\ NotesGrow
  <2>1. RowsOK /\ AllRows' = AllRows /\ NoteRow' = NoteRow
    BY DEF IInv, AllRows, Rows, NoteRow
  <2> QED BY <2>1 DEF RowsOK, NotesGrow
<1>4. RoundsOK' /\ RoundsGrow
  BY <1>1, RoundsRest DEF IInv
<1>5. SnapshotsOK' /\ DeliverersOK'
  BY <1>3, <1>4, SnapshotsRest, DeliverersRest DEF IInv
<1> QED BY <1>1, <1>2, <1>3, <1>4, <1>5 DEF Kept, IInv, PlanGrows

\* A worker that only goes on.
LEMMA DelivererGoes ==
    ASSUME IInv, UNCHANGED <<task, plan, workVars, notes, snapshots, rounds, issue>>, WorldOK',
           NEW d \in Deliverers, NEW r \in DelivererRow, Knows(r, Len(notes), rounds), Become(d, r)
    PROVE  Kept
<1>1. PlanGrows
  BY PlanRests DEF IInv
<1>2. RowsOK' /\ NotesGrow /\ RoundsOK' /\ RoundsGrow
  BY <1>1, RowsRest, RoundsRest DEF IInv, workVars
<1>3. DeliverersOK'
  BY <1>2, DelivererBecomes DEF IInv
<1>4. ActiveNotes' = ActiveNotes
  BY DEF ActiveNotes, Active
<1> QED BY <1>2, <1>3, <1>4, DeliveryRests DEF IInv

\* A worker and one notification that is not consumed.
LEMMA DelivererTakesNote ==
    ASSUME IInv, UNCHANGED <<task, plan, workVars, snapshots, rounds, issue>>, WorldOK',
           NEW n \in 1 .. Len(notes), Active(n), NEW st \in NoteStatus,
           notes' = [notes EXCEPT ![n].status = st],
           \/ UNCHANGED deliverer
           \/ \E d \in Deliverers, r \in DelivererRow : Become(d, r) /\ Knows(r, Len(notes)', rounds')
    PROVE  Kept
<1>1. PlanGrows /\ RoundsOK' /\ RoundsGrow
  BY PlanRests, RoundsRest DEF IInv
<1>2. RowsOK' /\ NotesGrow
  BY NoteMoves DEF IInv
<1>3. DeliverersOK'
  BY <1>1, <1>2, DelivererBecomes, DeliverersRest DEF IInv
<1>4. ActiveNotes # {}
  <2>1. n \in DOMAIN notes
    BY DEF IInv, RowsOK
  <2> QED BY <2>1 DEF ActiveNotes
<1> QED BY <1>1, <1>2, <1>3, <1>4, DeliveryRests DEF IInv

LEMMA ClaimNotificationStep ==
    ASSUME IInv, NEW d \in Deliverers, ClaimNotification(d)
    PROVE  Kept
<1>1. /\ Len(notes) \in Nat /\ DOMAIN notes = 1 .. Len(notes) /\ MaxVersion \in Nat
      /\ deliverer[d] \in DelivererRow /\ deliverer[d].pc = "idle"
      /\ Knows(deliverer[d], Len(notes), rounds)
  <2>1. deliverer[d].pc = "idle"
    BY DEF ClaimNotification
  <2> QED BY <2>1, PlanningBounds DEF IInv, RowsOK, DeliverersOK
<1>2. WorldOK' /\ UNCHANGED <<task, plan, workVars, snapshots, rounds, issue>>
  BY DEF IInv, WorldOK, ClaimNotification, planningVars
<1>3. CASE \E n \in WaitingNotes :
              /\ notes' = [notes EXCEPT ![n].status = "processing"]
              /\ Become(d, [IdleDeliverer EXCEPT !.pc = "read", !.id = n])
  <2>1. PICK n \in WaitingNotes :
              /\ notes' = [notes EXCEPT ![n].status = "processing"]
              /\ Become(d, [IdleDeliverer EXCEPT !.pc = "read", !.id = n])
    BY <1>3
  <2> DEFINE r == [IdleDeliverer EXCEPT !.pc = "read", !.id = n]
  <2>2. n \in 1 .. Len(notes) /\ Active(n)
    BY <1>1 DEF WaitingNotes, Waiting, Active
  <2>3. RowsOK' /\ NotesGrow
    <3>1. RowsOK /\ UNCHANGED <<workVars, plan>> /\ "processing" \in NoteStatus
      BY <1>2 DEF IInv, NoteStatus
    <3> QED BY <2>1, <2>2, <3>1, NoteMoves
  <2>4. r \in DelivererRow /\ r.pc = "read" /\ r.id = n
    <3>1. n \in Nat
      BY <1>1, <2>2
    <3> QED BY <3>1 DEF IdleDeliverer, DelivererRow
  <2>5. Knows(r, Len(notes)', rounds')
    <3> HIDE DEF r
    <3> QED BY <1>1, <2>2, <2>3, <2>4 DEF Knows, NotesGrow
  <2> QED BY <1>2, <2>1, <2>2, <2>4, <2>5, DelivererTakesNote DEF NoteStatus
<1>4. CASE Goto(d, "rounds") /\ UNCHANGED notes
  <2> DEFINE r == [deliverer[d] EXCEPT !.pc = "rounds"]
  <2>1. r \in DelivererRow /\ r.pc = "rounds" /\ r.id = deliverer[d].id
    BY <1>1 DEF DelivererRow
  <2>2. Knows(r, Len(notes), rounds)
    <3> HIDE DEF r
    <3> QED BY <1>1, <2>1 DEF Knows
  <2> QED BY <1>2, <1>4, <2>1, <2>2, DelivererGoes DEF Goto
<1> QED BY <1>3, <1>4 DEF ClaimNotification

LEMMA ReadNotificationStep ==
    ASSUME IInv, NEW d \in Deliverers, ReadNotification(d)
    PROVE  Kept
<1>1. /\ Len(notes) \in Nat /\ DOMAIN notes = 1 .. Len(notes) /\ MaxVersion \in Nat
      /\ deliverer[d] \in DelivererRow /\ deliverer[d].pc = "read"
      /\ Knows(deliverer[d], Len(notes), rounds)
  BY PlanningBounds DEF IInv, RowsOK, DeliverersOK, ReadNotification
<1>2. WorldOK' /\ UNCHANGED <<task, plan, workVars, notes, snapshots, rounds, issue>>
  BY DEF IInv, WorldOK, ReadNotification, planningVars
<1> DEFINE n == deliverer[d].id
           c == IF ActiveNotes = {} THEN n ELSE Last(ActiveNotes)
           r == [deliverer[d] EXCEPT !.pc = "check", !.commit = c]
<1>3. ToRounds(d) \/ Become(d, r)
  BY DEF ReadNotification
<1>4. CASE ToRounds(d)
  BY <1>1, <1>2, <1>4, IdleKnows, DelivererGoes DEF ToRounds
<1>5. CASE Become(d, r)
  <2>1. n \in 1 .. Len(notes) /\ c \in 1 .. Len(notes)
    <3>1. n \in 1 .. Len(notes)
      BY <1>1 DEF Knows
    <3>2. ActiveNotes # {} => Last(ActiveNotes) \in 1 .. Len(notes)
      BY LastType DEF IInv
    <3> QED BY <3>1, <3>2
  <2> HIDE DEF c
  <2>2. r \in DelivererRow /\ r.pc = "check" /\ r.id = n /\ r.commit = c
    <3>1. c \in Nat
      BY <1>1, <2>1
    <3> QED BY <1>1, <3>1 DEF DelivererRow
  <2>3. Knows(r, Len(notes), rounds)
    <3> HIDE DEF r, n
    <3> QED BY <1>1, <2>1, <2>2 DEF Knows
  <2> HIDE DEF r
  <2> QED BY <1>2, <1>5, <2>2, <2>3, DelivererGoes
<1> QED BY <1>3, <1>4, <1>5

LEMMA CheckReadyStep ==
    ASSUME IInv, NEW d \in Deliverers, CheckReady(d)
    PROVE  Kept
<1>1. /\ Len(notes) \in Nat /\ MaxVersion \in Nat
      /\ deliverer[d] \in DelivererRow /\ deliverer[d].pc = "check"
      /\ Knows(deliverer[d], Len(notes), rounds)
  BY PlanningBounds DEF IInv, RowsOK, DeliverersOK, CheckReady
<1>2. WorldOK' /\ UNCHANGED <<task, plan, workVars, notes, snapshots, rounds, issue>>
  BY DEF IInv, WorldOK, CheckReady, planningVars
<1>3. CurrentVersion \in Versions /\ CurrentVersion \in Nat
  BY CurrentVersionIsLast DEF IInv, Versions
<1> DEFINE r == [deliverer[d] EXCEPT !.pc = "build", !.version = CurrentVersion]
           q == [deliverer[d] EXCEPT !.pc = "failed"]
<1>4. Become(d, r) \/ Become(d, q)
  BY DEF CheckReady
<1>5. /\ r \in DelivererRow /\ r.pc = "build" /\ r.version = CurrentVersion
      /\ r.id = deliverer[d].id /\ r.commit = deliverer[d].commit
  BY <1>1, <1>3 DEF DelivererRow
<1>6. q \in DelivererRow /\ q.pc = "failed" /\ q.id = deliverer[d].id
  BY <1>1 DEF DelivererRow
<1> HIDE DEF r, q
<1>7. Knows(r, Len(notes), rounds) /\ Knows(q, Len(notes), rounds)
  BY <1>1, <1>3, <1>5, <1>6 DEF Knows
<1> QED BY <1>2, <1>4, <1>5, <1>6, <1>7, DelivererGoes

LEMMA ReturnNotificationStep ==
    ASSUME IInv, NEW d \in Deliverers, ReturnNotification(d)
    PROVE  Kept
<1> DEFINE n == deliverer[d].id
           r == [IdleDeliverer EXCEPT !.pc = "rounds"]
<1>1. /\ Len(notes) \in Nat /\ n \in 1 .. Len(notes) /\ Become(d, r)
      /\ WorldOK' /\ UNCHANGED <<task, plan, workVars, snapshots, rounds, issue>>
  BY DEF IInv, RowsOK, DeliverersOK, Knows, ReturnNotification, WorldOK, planningVars, ToRounds
<1>2. CASE notes[n].status \in {"processing", "stale"}
  <2>1. notes' = [notes EXCEPT ![n].status = "pending"] /\ Active(n)
    BY <1>2 DEF ReturnNotification, Active
  <2>2. NotesGrow
    BY <1>1, <2>1, NoteMoves DEF IInv, NoteStatus
  <2>3. r \in DelivererRow /\ Knows(r, Len(notes)', rounds')
    BY <2>2, IdleKnows DEF NotesGrow
  <2> QED BY <1>1, <2>1, <2>3, DelivererTakesNote DEF NoteStatus
<1>3. CASE notes[n].status \notin {"processing", "stale"}
  <2>1. UNCHANGED notes
    BY <1>3 DEF ReturnNotification
  <2> QED BY <1>1, <2>1, IdleKnows, DelivererGoes
<1> QED BY <1>2, <1>3

\* One round that is there changes its status, and a worker goes on.
LEMMA DelivererTakesRound ==
    ASSUME IInv, UNCHANGED <<task, plan, workVars, notes, snapshots, issue>>, WorldOK',
           NEW v \in Versions, rounds[v].status # "none", NEW st \in RoundStatus, st # "none",
           rounds' = [rounds EXCEPT ![v].status = st],
           \/ UNCHANGED deliverer
           \/ \E d \in Deliverers, r \in DelivererRow : Become(d, r) /\ Knows(r, Len(notes)', rounds')
    PROVE  Kept
<1>1. PlanGrows
  BY PlanRests DEF IInv
<1>2. RowsOK' /\ NotesGrow
  BY <1>1, RowsRest DEF IInv, workVars
<1>3. RoundsOK' /\ RoundsGrow
  BY RoundMoves DEF IInv
<1>4. DeliverersOK'
  BY <1>2, <1>3, DelivererBecomes, DeliverersRest DEF IInv
<1>5. ActiveNotes' = ActiveNotes
  BY DEF ActiveNotes, Active
<1> QED BY <1>2, <1>3, <1>4, <1>5, DeliveryRests DEF IInv

LEMMA ClaimRoundStep ==
    ASSUME IInv, NEW d \in Deliverers, ClaimRound(d)
    PROVE  Kept
<1>1. Len(notes) \in Nat /\ UNCHANGED <<task, plan, workVars, notes, snapshots, issue>> /\ WorldOK'
  <2>1. UNCHANGED <<task, plan, planner, condition, managerUp, workVars, notes, snapshots, issue>>
    BY DEF ClaimRound
  <2>2. UNCHANGED faults \/ Fault
    BY DEF ClaimRound
  <2>3. CASE UNCHANGED faults
    BY <2>1, <2>3 DEF IInv, RowsOK, WorldOK
  <2>4. CASE Fault
    BY <2>1, <2>4, FaultCounted DEF IInv, RowsOK
  <2> QED BY <2>2, <2>3, <2>4
<1>2. IdleDeliverer \in DelivererRow /\ Knows(IdleDeliverer, Len(notes)', rounds')
  BY <1>1, IdleKnows
<1>3. CASE Become(d, IdleDeliverer) /\ UNCHANGED rounds
  BY <1>1, <1>2, <1>3, DelivererGoes
<1>4. ASSUME NEW v \in WaitingRounds,
             rounds' = [rounds EXCEPT ![v].status = "planned"], Become(d, IdleDeliverer)
      PROVE  Kept
  <2>1. v \in Versions /\ rounds[v].status # "none"
    BY DEF WaitingRounds, Waiting, IInv, RoundsOK
  <2> QED BY <1>1, <1>2, <1>4, <2>1, DelivererTakesRound DEF RoundStatus
<1>5. ASSUME NEW v \in WaitingRounds,
             rounds' = [rounds EXCEPT ![v].status = "processing"],
             Become(d, [IdleDeliverer EXCEPT !.pc = "rework", !.id = v])
      PROVE  Kept
  <2> DEFINE r == [IdleDeliverer EXCEPT !.pc = "rework", !.id = v]
  <2>1. v \in Versions /\ v \in Nat /\ rounds[v].status # "none"
    BY DEF WaitingRounds, Waiting, IInv, RoundsOK, Versions
  <2>2. r \in DelivererRow /\ r.pc = "rework" /\ r.id = v
    BY <2>1 DEF IdleDeliverer, DelivererRow
  <2> HIDE DEF r
  <2>3. rounds'[v].status # "none"
    BY <1>1, <1>5, <2>1, RoundMoves DEF IInv, RoundStatus, RoundsGrow
  <2>4. Knows(r, Len(notes)', rounds')
    BY <1>1, <2>1, <2>2, <2>3, PlanningBounds DEF Knows, Versions
  <2> QED BY <1>1, <1>5, <2>1, <2>2, <2>4, DelivererTakesRound DEF RoundStatus, r
<1> QED BY <1>3, <1>4, <1>5 DEF ClaimRound

LEMMA PlanReworkStep ==
    ASSUME IInv, NEW d \in Deliverers, PlanRework(d)
    PROVE  Kept
<1>1. /\ deliverer[d] \in DelivererRow /\ deliverer[d].pc = "rework"
      /\ Knows(deliverer[d], Len(notes), rounds)
      /\ UNCHANGED <<task, plan, planner, condition, managerUp, workVars, notes, snapshots, rounds, issue>>
  BY DEF IInv, DeliverersOK, PlanRework
<1>2. WorldOK'
  <2>1. UNCHANGED faults \/ Fault
    BY DEF PlanRework
  <2>2. CASE UNCHANGED faults
    BY <1>1, <2>2 DEF IInv, WorldOK
  <2>3. CASE Fault
    BY <1>1, <2>3, FaultCounted DEF IInv
  <2> QED BY <2>1, <2>2, <2>3
<1>3. PICK pc \in {"persist", "returned"} : Become(d, [deliverer[d] EXCEPT !.pc = pc])
  BY DEF PlanRework, Goto
<1> DEFINE r == [deliverer[d] EXCEPT !.pc = pc]
<1>4. r \in DelivererRow /\ r.pc = pc /\ r.id = deliverer[d].id
  BY <1>1 DEF DelivererRow
<1> HIDE DEF r
<1>5. Knows(r, Len(notes), rounds)
  BY <1>1, <1>4 DEF Knows
<1> QED BY <1>1, <1>2, <1>3, <1>4, <1>5, DelivererGoes DEF r

LEMMA MarkRoundStep ==
    ASSUME IInv, NEW d \in Deliverers, MarkRound(d)
    PROVE  Kept
<1> DEFINE v == deliverer[d].id
           st == IF deliverer[d].pc = "mark" THEN "planned" ELSE "pending"
<1>1. /\ v \in Versions /\ rounds[v].status # "none" /\ Len(notes) \in Nat
      /\ UNCHANGED <<task, plan, workVars, notes, snapshots, issue>> /\ WorldOK'
      /\ rounds' = [rounds EXCEPT ![v].status = st] /\ Become(d, IdleDeliverer)
  BY DEF IInv, DeliverersOK, Knows, RowsOK, MarkRound, WorldOK, planningVars
<1>2. st \in RoundStatus /\ st # "none"
  BY DEF RoundStatus
<1>3. IdleDeliverer \in DelivererRow /\ Knows(IdleDeliverer, Len(notes)', rounds')
  BY <1>1, IdleKnows
<1> HIDE DEF v, st
<1> QED BY <1>1, <1>2, <1>3, DelivererTakesRound

\* The round that is planned anew is never the first.
LEMMA PersistReworkStep ==
    ASSUME IInv, NEW d \in Deliverers, PersistRework(d)
    PROVE  Kept
<1> DEFINE v == deliverer[d].id
<1>1. /\ deliverer[d] \in DelivererRow /\ Knows(deliverer[d], Len(notes), rounds)
      /\ v \in Versions /\ rounds[v].status # "none" /\ v # 1 /\ plan[v].status # "none"
      /\ Len(notes) \in Nat
  BY DEF IInv, DeliverersOK, RowsOK, RoundsOK, Knows, PersistRework
<1>2. UNCHANGED <<planner, condition, managerUp, faults, workVars, notes, snapshots, rounds, issue>>
  BY DEF PersistRework
<1>7. UNCHANGED <<history, begun, merged, abandoned, replanned>>
  BY <1>2 DEF workVars, history
<1>3. WorldOK'
  BY <1>2 DEF IInv, WorldOK
<1> DEFINE go(pc) == [deliverer[d] EXCEPT !.pc = pc]
<1>4. ASSUME NEW pc \in {"mark", "returned"}
      PROVE  go(pc) \in DelivererRow /\ Knows(go(pc), Len(notes), rounds)
  <2>1. go(pc) \in DelivererRow /\ go(pc).pc = pc /\ go(pc).id = v
    BY <1>1 DEF DelivererRow
  <2> HIDE DEF go
  <2> QED BY <1>1, <2>1 DEF Knows
<1>5. CASE task.status = "rework_planning"
  <2>1. StorePlan(v) /\ task' = [task EXCEPT !.status = "planned"] /\ Become(d, go("mark"))
    BY <1>5 DEF PersistRework, Goto
  <2>2. PlanGrows /\ RowsStay /\ plan'[1] = plan[1]
    BY <1>1, <2>1, PlanStored DEF IInv
  <2>3. task' \in TaskRow /\ task'.status = "planned"
    BY <2>1 DEF IInv, TaskOK, TaskRow, TaskStatus
  <2>4. TaskOK' /\ FirstPlanFits
    BY <1>7, <2>2, <2>3 DEF TaskOK, FirstPlanFits, Unplanned
  <2>5. RowsOK' /\ NotesGrow /\ RoundsOK' /\ RoundsGrow
    BY <1>2, <2>2, RowsRest, RoundsRest DEF IInv, workVars
  <2>6. SnapshotsOK'
    BY <1>2, <2>5, SnapshotsRest DEF IInv
  <2>7. DeliverersOK'
    <3>1. go("mark") \in DelivererRow /\ Knows(go("mark"), Len(notes)', rounds')
      BY <1>2, <1>4
    <3> HIDE DEF go
    <3> QED BY <2>1, <2>5, <3>1, DelivererBecomes DEF IInv
  <2>8. Awaits'
    <3>1. UNCHANGED snapshots /\ task.status # "awaiting_acceptance" /\ task'.status # "awaiting_acceptance"
      BY <1>2, <1>5, <2>3
    <3> QED BY <1>7, <3>1, AwaitRests DEF IInv
  <2>9. WorkOK' /\ HistoryOK'
    BY <1>2, <1>7, <2>2, WorkRests, CurrentRows, HistoryRests DEF IInv
  <2> QED BY <1>2, <1>3, <2>2, <2>4, <2>5, <2>6, <2>7, <2>8, <2>9 DEF Kept, IInv, PlanGrows
<1>6. CASE task.status # "rework_planning"
  <2>1. Become(d, go("returned")) /\ UNCHANGED <<task, plan>>
    BY <1>6 DEF PersistRework, Goto
  <2>2. go("returned") \in DelivererRow /\ Knows(go("returned"), Len(notes), rounds)
    BY <1>4
  <2> HIDE DEF go
  <2> QED BY <1>2, <1>3, <2>1, <2>2, DelivererGoes
<1> QED BY <1>5, <1>6

\* Assignment and provisioning.
LEMMA BeginWorkStep ==
    ASSUME IInv, BeginWork
    PROVE  Kept
<1>1. /\ task.status \in {"planned", "assigned"} /\ task' = [task EXCEPT !.status = "workspace_ready"]
      /\ begun' = begun \cup Rows(CurrentVersion)
      /\ UNCHANGED <<plan, planner, condition, managerUp, faults, history, merged, notes, snapshots,
                     rounds, issue, deliverer>>
  BY DEF BeginWork
<1>2. UNCHANGED <<abandoned, replanned>>
  BY <1>1 DEF history
<1>3. task' \in TaskRow /\ task'.status = "workspace_ready"
  BY <1>1 DEF IInv, TaskOK, TaskRow, TaskStatus
<1>4. TaskOK' /\ WorldOK'
  BY <1>1, <1>3 DEF IInv, TaskOK, WorldOK
<1>5. FirstPlanFits
  BY <1>1, <1>2, <1>3 DEF FirstPlanFits, Unplanned
<1>6. Awaits' /\ HistoryOK'
  BY <1>1, <1>2, <1>3, AwaitRests, HistoryRests DEF IInv
<1> QED BY <1>1, <1>4, <1>5, <1>6, TaskMoved

\* A drift, a handoff and its end.
LEMMA SuspensionStep ==
    ASSUME IInv, Suspend \/ Resume
    PROVE  Kept
<1>1. /\ UNCHANGED <<plan, planner, condition, managerUp, deliveryVars>>
      /\ UNCHANGED faults \/ Fault
      /\ task.status \in {"workspace_ready", "suspended"}
      /\ \E st \in {"workspace_ready", "suspended"} : task' = [task EXCEPT !.status = st]
  BY DEF Suspend, Resume
<1>2. UNCHANGED <<begun, merged, notes, snapshots, rounds, issue, deliverer, history, abandoned, replanned>>
  BY <1>1 DEF deliveryVars, workVars, history
<1>3. task' \in TaskRow /\ task'.status \in {"workspace_ready", "suspended"}
  BY <1>1 DEF IInv, TaskOK, TaskRow, TaskStatus
<1>4. TaskOK'
  BY <1>3 DEF TaskOK
<1>5. WorldOK'
  <2>1. CASE UNCHANGED faults
    BY <1>1, <2>1 DEF IInv, WorldOK
  <2>2. CASE Fault
    BY <1>1, <2>2, FaultCounted DEF IInv
  <2> QED BY <1>1, <2>1, <2>2
<1>6. FirstPlanFits
  BY <1>1, <1>2, <1>3 DEF FirstPlanFits, Unplanned
<1>7. Awaits' /\ HistoryOK'
  BY <1>1, <1>2, <1>3, AwaitRests, HistoryRests DEF IInv
<1> QED BY <1>1, <1>2, <1>4, <1>5, <1>6, <1>7, TaskMoved

\* A repair leaves what was open to the history.
LEMMA RepairStep ==
    ASSUME IInv, Repair
    PROVE  Kept
<1>1. /\ Fault /\ task' = [task EXCEPT !.status = "workspace_ready"]
      /\ abandoned' = abandoned \cup Open
      /\ UNCHANGED <<plan, planner, condition, managerUp, begun, merged, notes, snapshots, rounds, issue,
                     deliverer, replanned>>
  BY DEF Repair
<1>2. task' \in TaskRow /\ task'.status = "workspace_ready"
  BY <1>1 DEF IInv, TaskOK, TaskRow, TaskStatus
<1>3. TaskOK' /\ WorldOK'
  BY <1>1, <1>2, FaultCounted DEF IInv, TaskOK
<1>4. FirstPlanFits
  BY <1>1, <1>2 DEF FirstPlanFits, Unplanned
<1>5. HistoryOK'
  <2>1. Open \subseteq 1 .. Len(snapshots)
    BY DEF IInv, SnapshotsOK, Open
  <2> QED BY <1>1, <2>1 DEF IInv, HistoryOK
<1>6. Awaits'
  <2>1. Open' \ abandoned' = {}
    BY <1>1 DEF Open
  <2> QED BY <1>2, <2>1 DEF Awaits, AwaitingIsWhole
<1> QED BY <1>1, <1>3, <1>4, <1>5, <1>6, TaskMoved

\* A move by hand.
LEMMA MoveByHandStep ==
    ASSUME IInv, MoveByHand
    PROVE  Kept
<1>1. /\ task \in TaskRow /\ faults \in 0 .. MaxFaults /\ MaxFaults \in Nat
      /\ condition \in 1 .. faults + 1 /\ 0 \in 0 .. MaxAttempts
  BY PlanningBounds DEF IInv, TaskOK, WorldOK
<1>2. PICK move \in Moves :
          /\ UpdateStatus(move)
          /\ replanned' = IF move[2] = "planning" /\ plan[1].status = "planned"
                          THEN replanned + 1 ELSE replanned
          /\ UNCHANGED <<begun, merged, notes, snapshots, rounds, issue, deliverer, abandoned>>
  BY DEF MoveByHand
<1>3. /\ UNCHANGED <<plan, planner, condition, managerUp>> /\ Fault /\ task.status = move[1]
      /\ task' = IF move = <<"planning_error", "created">>
                 THEN [task EXCEPT !.status = "created", !.attempts = 0, !.class = "none",
                                   !.retry = "never", !.started = "none", !.condition = 0]
                 ELSE [task EXCEPT !.status = move[2]]
  BY <1>2 DEF UpdateStatus
<1>4. WorldOK'
  BY <1>3, FaultCounted DEF IInv
<1>5. /\ move \in ValidTransition /\ move[2] \in TaskStatus
      /\ move[1] # "awaiting_acceptance" /\ move[2] # "awaiting_acceptance"
      /\ move[2] \in Unplanned => move[2] = "planning" \/ move[1] \in Unplanned
      /\ move[2] = "created" => move = <<"planning_error", "created">>
  BY PlanningBounds DEF ValidTransition, TaskStatus, Unplanned
<1>6. task' \in TaskRow /\ task'.status = move[2] /\ (task'.status = "created" => task'.attempts = 0)
  <2> DEFINE a == [task EXCEPT !.status = "created", !.attempts = 0, !.class = "none",
                               !.retry = "never", !.started = "none", !.condition = 0]
             b == [task EXCEPT !.status = move[2]]
  <2>1. 0 \in 0 .. MaxFaults + 1
    BY <1>1
  <2>2. a \in TaskRow /\ a.status = "created" /\ a.attempts = 0
    BY <1>1, <2>1 DEF TaskRow, TaskStatus
  <2>3. b \in TaskRow /\ b.status = move[2]
    BY <1>1, <1>5 DEF TaskRow
  <2>4. task' = IF move = <<"planning_error", "created">> THEN a ELSE b
    BY <1>3
  <2> HIDE DEF a, b
  <2> QED BY <1>5, <2>2, <2>3, <2>4
<1>7. TaskOK'
  BY <1>6 DEF TaskOK
<1>8. FirstPlanFits
  <2>1. plan[1].status # "planned" => plan[1].copies = 0
    BY PlanningBounds DEF IInv, PlansOK, Versions
  <2> QED BY <1>2, <1>3, <1>5, <1>6, <2>1 DEF FirstPlanFits
<1>9. HistoryOK'
  BY <1>2 DEF IInv, HistoryOK
<1>10. Awaits'
  <2>1. ActiveNotes' = ActiveNotes
    BY <1>2 DEF ActiveNotes, Active
  <2> QED BY <1>2, <1>3, <1>5, <1>6, <2>1, AwaitRests DEF IInv
<1> QED BY <1>2, <1>3, <1>4, <1>7, <1>8, <1>9, <1>10, TaskMoved

\* A merge appends its notification, while nothing awaits acceptance.
LEMMA MergeStep ==
    ASSUME IInv, NEW r \in begun, Merge(r)
    PROVE  Kept
<1> DEFINE note == [row |-> r, status |-> "pending"]
<1>1. /\ r \notin merged /\ merged' = merged \cup {r} /\ notes' = Append(notes, note)
      /\ UNCHANGED <<task, plan, planner, condition, managerUp, faults, begun, history, snapshots, rounds,
                     issue, deliverer>>
  BY DEF Merge, planningVars
<1>2. notes \in Seq(NoteRow) /\ merged \subseteq AllRows
  BY DEF IInv, RowsOK
<1>3. r \in AllRows /\ r \in Rows(CurrentVersion)
  BY <1>1 DEF IInv, WorkOK
<1>4. note \in NoteRow
  BY <1>3 DEF NoteRow, NoteStatus
<1>5. notes' \in Seq(NoteRow) /\ NotesGrow
  <2> HIDE DEF note
  <2>1. notes' \in Seq(NoteRow) /\ Len(notes') = Len(notes) + 1 /\ Len(notes) \in Nat
    BY <1>1, <1>2, <1>4
  <2> QED BY <2>1 DEF NotesGrow
<1>6. AllRows' = AllRows /\ NoteRow' = NoteRow
  BY <1>1 DEF AllRows, NoteRow, Rows
<1>7. RowsOK'
  BY <1>1, <1>2, <1>3, <1>5, <1>6 DEF RowsOK
<1>8. PlanGrows /\ RowsStay
  BY <1>1, PlanRests DEF IInv
<1>9. RoundsOK' /\ RoundsGrow
  BY <1>1, <1>8, RoundsRest DEF IInv
<1>10. SnapshotsOK' /\ DeliverersOK' /\ HistoryOK'
  BY <1>1, <1>5, <1>9, SnapshotsRest, DeliverersRest, HistoryRests DEF IInv
<1>11. UNCHANGED <<abandoned, replanned>>
  BY <1>1 DEF history
<1>12. Awaits'
  <2>1. task.status # "awaiting_acceptance"
    BY <1>1, <1>3 DEF IInv, Awaits, AwaitingIsWhole
  <2> QED BY <1>1, <1>11, <2>1, AwaitRests DEF IInv
<1>13. WorkOK'
  BY <1>1, <1>6, <1>8 DEF IInv, WorkOK, RowsStay
<1>14. TaskOK' /\ WorldOK' /\ FirstPlanFits
  BY <1>1, <1>11 DEF IInv, TaskOK, WorldOK, FirstPlanFits
<1> QED BY <1>1, <1>7, <1>8, <1>9, <1>10, <1>12, <1>13, <1>14 DEF Kept, IInv, PlanGrows

\* Issues, and claims that become old.
LEMMA AmongTheJobs ==
    ASSUME IInv, \/ RaiseIssue \/ ResolveIssue
                 \/ \E n \in DOMAIN notes : StaleNotification(n)
                 \/ \E v \in 1 .. MaxVersion : StaleRound(v)
    PROVE  Kept
<1>1. /\ UNCHANGED <<task, plan, planner, condition, managerUp, workVars, snapshots, deliverer>>
      /\ UNCHANGED faults \/ Fault
  BY DEF RaiseIssue, ResolveIssue, StaleNotification, StaleRound, planningVars
<1>2. WorldOK'
  <2>1. CASE UNCHANGED faults
    BY <1>1, <2>1 DEF IInv, WorldOK
  <2>2. CASE Fault
    BY <1>1, <2>2, FaultCounted DEF IInv
  <2> QED BY <1>1, <2>1, <2>2
<1>3. CASE RaiseIssue \/ ResolveIssue
  <2>1. UNCHANGED <<notes, rounds>> /\ issue' \in {"none", "open", "resolved"}
    BY <1>3 DEF RaiseIssue, ResolveIssue
  <2>2. PlanGrows
    BY <1>1, PlanRests DEF IInv
  <2>3. RowsOK' /\ NotesGrow /\ RoundsOK' /\ RoundsGrow
    BY <1>1, <2>1, <2>2, RowsRest, RoundsRest DEF IInv, workVars
  <2>4. DeliverersOK'
    BY <1>1, <2>3, DeliverersRest DEF IInv
  <2>5. ActiveNotes' = ActiveNotes
    BY <2>1 DEF ActiveNotes, Active
  <2> QED BY <1>1, <1>2, <2>1, <2>3, <2>4, <2>5, DeliveryRests
<1>4. ASSUME NEW n \in DOMAIN notes, StaleNotification(n) PROVE Kept
  <2>1. n \in 1 .. Len(notes) /\ Active(n) /\ notes' = [notes EXCEPT ![n].status = "stale"]
        /\ UNCHANGED <<rounds, issue>>
    BY <1>4 DEF StaleNotification, Active, IInv, RowsOK
  <2> QED BY <1>1, <1>2, <2>1, DelivererTakesNote DEF NoteStatus
<1>5. ASSUME NEW v \in 1 .. MaxVersion, StaleRound(v) PROVE Kept
  <2>1. v \in Versions /\ rounds[v].status # "none" /\ rounds' = [rounds EXCEPT ![v].status = "stale"]
        /\ UNCHANGED <<notes, issue>>
    BY <1>5 DEF StaleRound, Versions
  <2> QED BY <1>1, <1>2, <2>1, DelivererTakesRound DEF RoundStatus
<1> QED BY <1>3, <1>4, <1>5

LEMMA DelivererCrashStep ==
    ASSUME IInv, NEW d \in Deliverers, DelivererCrash(d)
    PROVE  Kept
<1>1. /\ UNCHANGED <<task, plan, planner, condition, managerUp, workVars, notes, snapshots, rounds, issue>>
      /\ Fault /\ Become(d, IdleDeliverer)
  BY DEF DelivererCrash
<1>2. WorldOK' /\ Len(notes) \in Nat
  BY <1>1, FaultCounted DEF IInv, RowsOK
<1> QED BY <1>1, <1>2, IdleKnows, DelivererGoes

\* The transaction of a delivery: the last snapshot, of the current plan, with
\* every step merged and no notification left.
LEMMA BuildSnapshotStep ==
    ASSUME IInv, NEW d \in Deliverers, BuildSnapshot(d)
    PROVE  Kept
<1> DEFINE v == deliverer[d].version
           go == [deliverer[d] EXCEPT !.pc = "failed"]
<1>1. /\ deliverer[d] \in DelivererRow /\ Knows(deliverer[d], Len(notes), rounds)
      /\ deliverer[d].pc = "build" /\ Len(notes) \in Nat
      /\ UNCHANGED <<plan, planner, condition, managerUp, faults, workVars, rounds>>
  <2>1. deliverer[d].pc = "build" /\ UNCHANGED <<plan, planner, condition, managerUp, faults, workVars, rounds>>
    BY DEF BuildSnapshot
  <2> QED BY <2>1 DEF IInv, DeliverersOK, RowsOK
<1>5. UNCHANGED <<history, begun, merged, abandoned, replanned>>
  BY <1>1 DEF workVars, history
<1>2. WorldOK'
  BY <1>1 DEF IInv, WorldOK
<1>3. CASE Goto(d, "failed") /\ UNCHANGED <<task, snapshots, notes, issue>>
  <2>1. go \in DelivererRow /\ go.pc = "failed" /\ go.id = deliverer[d].id
    BY <1>1 DEF DelivererRow
  <2>2. Become(d, go)
    BY <1>3 DEF Goto
  <2> HIDE DEF go
  <2>3. Knows(go, Len(notes), rounds)
    BY <1>1, <2>1 DEF Knows
  <2> QED BY <1>1, <1>2, <1>3, <2>1, <2>2, <2>3, DelivererGoes
<1>4. ASSUME NEW risky \in BOOLEAN, Delivered(d, risky), task.status \in {"merged", "workspace_ready"},
             CurrentVersion = v, Deliverable(v), Rows(v) # {}
      PROVE  Kept
  <2> DEFINE shot == [note |-> deliverer[d].id, commit |-> deliverer[d].commit,
                      version |-> deliverer[d].version, status |-> "awaiting_acceptance"]
  <2>1. /\ snapshots' = Append(snapshots, shot)
        /\ notes' = [n \in DOMAIN notes |-> IF Active(n) THEN [notes[n] EXCEPT !.status = "consumed"]
                                            ELSE notes[n]]
        /\ issue' \in {issue, "open"}
        /\ task' = [task EXCEPT !.status = "awaiting_acceptance"]
        /\ Become(d, [IdleDeliverer EXCEPT !.pc = "rounds"])
    BY <1>4 DEF Delivered, ToRounds
  <2>2. shot \in SnapshotRow /\ shot.status = "awaiting_acceptance" /\ shot.version = v
    BY <1>1 DEF Knows, SnapshotRow
  <2>3. task' \in TaskRow /\ task'.status = "awaiting_acceptance"
    BY <2>1 DEF IInv, TaskOK, TaskRow, TaskStatus
  <2>4. TaskOK' /\ FirstPlanFits
    BY <1>1, <1>5, <2>3 DEF TaskOK, FirstPlanFits, Unplanned
  <2>5. PlanGrows /\ RowsStay
    BY <1>1, PlanRests DEF IInv
  <2>6. notes \in Seq(NoteRow) /\ DOMAIN notes = 1 .. Len(notes)
    BY DEF IInv, RowsOK
  <2>7. /\ notes' \in Seq(NoteRow) /\ Len(notes') = Len(notes)
        /\ \A n \in DOMAIN notes' : notes'[n].status = "consumed"
    <3>1. ASSUME NEW n \in DOMAIN notes
          PROVE  notes'[n] \in NoteRow /\ notes'[n].status = "consumed"
      <4>1. notes[n] \in NoteRow
        BY <2>6
      <4>2. CASE Active(n)
        <5>1. notes'[n] = [notes[n] EXCEPT !.status = "consumed"]
          BY <2>1, <4>2
        <5> QED BY <4>1, <5>1 DEF NoteRow, NoteStatus
      <4>3. CASE ~Active(n)
        BY <2>1, <4>1, <4>3 DEF Active
      <4> QED BY <4>2, <4>3
    <3>2. notes' = [n \in DOMAIN notes |-> notes'[n]] /\ DOMAIN notes' = DOMAIN notes
      BY <2>1
    <3>3. notes' \in Seq(NoteRow) /\ Len(notes') = Len(notes)
      BY <2>6, <3>1, <3>2, NotesKeepTheirRows DEF NoteRow
    <3> QED BY <3>1, <3>2, <3>3
  <2>8. AllRows' = AllRows /\ NoteRow' = NoteRow
    BY <1>1 DEF AllRows, NoteRow, Rows
  <2>9. RowsOK' /\ NotesGrow
    BY <1>5, <2>7, <2>8 DEF IInv, RowsOK, NotesGrow
  <2>10. RoundsOK' /\ RoundsGrow
    BY <1>1, <2>5, RoundsRest DEF IInv
  <2>11. DeliverersOK'
    <3>1. Len(notes)' \in Nat
      BY <2>9 DEF NotesGrow
    <3> QED BY <2>1, <2>9, <2>10, <3>1, IdleKnows, DelivererBecomes DEF IInv
  <2> HIDE DEF shot
  <2>12. snapshots \in Seq(SnapshotRow)
    BY DEF IInv, SnapshotsOK
  <2>13. /\ snapshots' \in Seq(SnapshotRow) /\ Len(snapshots') = Len(snapshots) + 1
         /\ DOMAIN snapshots' = 1 .. Len(snapshots) + 1 /\ Len(snapshots) \in Nat
         /\ \A k \in 1 .. Len(snapshots) : snapshots'[k] = snapshots[k]
         /\ snapshots'[Len(snapshots) + 1] = shot
    BY <2>1, <2>2, <2>12
  <2>14. SnapshotRow' = SnapshotRow
    BY <2>7 DEF SnapshotRow
  <2>15. SnapshotsOK'
    BY <2>13, <2>14 DEF SnapshotsOK
  <2>16. Awaits'
    <3>1. Open \subseteq abandoned /\ abandoned \subseteq 1 .. Len(snapshots)
      BY <1>4 DEF IInv, Awaits, AwaitingIsWhole, HistoryOK
    <3>2. Open' = Open \cup {Len(snapshots) + 1} /\ Open' \ abandoned' = {Len(snapshots')}
      <4>1. Open' = Open \cup {Len(snapshots) + 1}
        BY <2>2, <2>12, <2>13 DEF Open
      <4>2. abandoned' = abandoned /\ Len(snapshots') = Len(snapshots) + 1 /\ Len(snapshots) \in Nat
        BY <1>5, <2>13
      <4>3. Len(snapshots) + 1 \notin abandoned
        BY <3>1, <4>2
      <4> QED BY <3>1, <4>1, <4>2, <4>3
    <3>3. CurrentVersion' = v /\ Rows(CurrentVersion)' = Rows(v) /\ Rows(v) \subseteq merged'
      BY <1>1, <1>4, <1>5 DEF CurrentVersion, Rows, Deliverable
    <3>4. ActiveNotes' = {}
      BY <2>7 DEF ActiveNotes, Active
    <3>5. plan'[1].status # "none"
      <4>1. CurrentVersion \in Versions /\ 1 \in Versions /\ MaxVersion \in Nat
        BY CurrentVersionIsLast, PlanningBounds DEF IInv, Versions
      <4>2. plan[v].copies # 0
        BY <1>4 DEF Rows
      <4>3. plan[v].status # "none"
        BY <1>4, <4>1, <4>2 DEF IInv, PlansOK
      <4>4. v = 1 \/ 1 < v
        BY <1>4, <4>1 DEF Versions
      <4> QED BY <1>1, <1>4, <4>1, <4>3, <4>4, CurrentVersionIsLast DEF IInv
    <3> QED BY <2>2, <2>3, <2>13, <3>2, <3>3, <3>4, <3>5 DEF Awaits, AwaitingIsWhole
  <2>17. WorkOK' /\ HistoryOK'
    BY <1>5, <2>5, <2>13, WorkRests, CurrentRows DEF IInv, HistoryOK
  <2> QED BY <1>2, <2>1, <2>4, <2>5, <2>9, <2>10, <2>11, <2>15, <2>16, <2>17 DEF Kept, IInv, PlanGrows
<1> QED BY <1>3, <1>4 DEF BuildSnapshot

\* A decision closes the one delivery that is open; a rejection asks for the
\* next version and its round.
LEMMA DecideStep ==
    ASSUME IInv, Decide
    PROVE  Kept
<1> DEFINE next == CurrentVersion + 1
<1>1. PICK k \in DOMAIN snapshots :
          /\ snapshots[k].status = "awaiting_acceptance" /\ task.status = "awaiting_acceptance"
          /\ \/ /\ snapshots' = [snapshots EXCEPT ![k].status = "accepted"]
                /\ task' = [task EXCEPT !.status = "completed"]
                /\ UNCHANGED <<plan, rounds>>
             \/ /\ next <= MaxVersion
                /\ snapshots' = [snapshots EXCEPT ![k].status = "rejected"]
                /\ task' = [task EXCEPT !.status = "rework_planning"]
                /\ plan' = [plan EXCEPT ![next] = [status |-> "planning", copies |-> 0]]
                /\ rounds' = [rounds EXCEPT ![next] = [status |-> "pending"]]
          /\ abandoned' = abandoned \cup (Open \ {k})
          /\ UNCHANGED <<planner, condition, managerUp, faults, begun, merged, replanned, notes, issue,
                         deliverer>>
  BY DEF Decide, Decidable
<1>2. WorldOK'
  BY <1>1 DEF IInv, WorldOK
<1>3. PICK st \in {"accepted", "rejected"} : snapshots' = [snapshots EXCEPT ![k].status = st]
  BY <1>1
<1>4. snapshots \in Seq(SnapshotRow) /\ k \in 1 .. Len(snapshots) /\ Len(snapshots) \in Nat
  BY DEF IInv, SnapshotsOK
<1>5. /\ snapshots' \in Seq(SnapshotRow) /\ DOMAIN snapshots' = DOMAIN snapshots
      /\ \A j \in DOMAIN snapshots : j # k => snapshots'[j] = snapshots[j]
      /\ snapshots'[k].status # "awaiting_acceptance"
  <2> DEFINE shot == [snapshots[k] EXCEPT !.status = st]
  <2>1. snapshots[k] \in SnapshotRow
    BY <1>4
  <2>2. shot \in SnapshotRow /\ shot.status = st
    BY <2>1 DEF SnapshotRow
  <2>3. snapshots' = [snapshots EXCEPT ![k] = shot]
    BY <1>3
  <2> HIDE DEF shot
  <2> QED BY <1>4, <2>2, <2>3
<1>6. SnapshotsOK'
  <2>1. SnapshotRow' = SnapshotRow
    BY <1>1 DEF SnapshotRow
  <2> QED BY <1>5, <2>1 DEF SnapshotsOK
<1>7. Open' \ abandoned' = {} /\ HistoryOK'
  <2>1. Open' = Open \ {k} /\ Open \subseteq 1 .. Len(snapshots) /\ Len(snapshots') = Len(snapshots)
    BY <1>4, <1>5 DEF Open
  <2> QED BY <1>1, <2>1 DEF IInv, HistoryOK
<1>8. /\ task' \in TaskRow /\ task'.status \in {"completed", "rework_planning"}
  BY <1>1 DEF IInv, TaskOK, TaskRow, TaskStatus
<1>9. TaskOK' /\ Awaits'
  BY <1>7, <1>8 DEF TaskOK, Awaits, AwaitingIsWhole
<1>10. PlanGrows /\ plan'[1] = plan[1] /\ RoundsOK' /\ RoundsGrow
  <2>1. CASE UNCHANGED <<plan, rounds>>
    BY <2>1, PlanRests, RoundsRest DEF IInv
  <2>2. CASE /\ next <= MaxVersion /\ plan' = [plan EXCEPT ![next] = [status |-> "planning", copies |-> 0]]
             /\ rounds' = [rounds EXCEPT ![next] = [status |-> "pending"]]
    <3>1. plan[1].status # "none"
      BY <1>1 DEF IInv, Awaits
    <3>2. PlanGrows /\ plan'[1] = plan[1] /\ plan'[next].status # "none"
      BY <2>2, <3>1, VersionAsked DEF IInv
    <3>3. next \in Versions /\ next # 1
      BY <2>2, CurrentVersionIsLast, PlanningBounds DEF IInv, Versions
    <3> DEFINE v == next
               round == [status |-> "pending"]
    <3>4. round \in [status : RoundStatus] /\ round.status # "none"
      BY DEF RoundStatus
    <3>5. rounds' = [rounds EXCEPT ![v] = round] /\ v \in Versions /\ v # 1 /\ plan'[v].status # "none"
      BY <2>2, <3>2, <3>3
    <3> HIDE DEF v, round
    <3>6. rounds \in [Versions -> [status : RoundStatus]]
      BY DEF IInv, RoundsOK
    <3>7. /\ rounds' \in [Versions -> [status : RoundStatus]]
          /\ \A u \in Versions : rounds'[u] = IF u = v THEN round ELSE rounds[u]
      BY <3>4, <3>5, <3>6
    <3>8. RoundsOK' /\ RoundsGrow
      BY <3>2, <3>4, <3>5, <3>7 DEF IInv, RoundsOK, RoundsGrow, PlanGrows
    <3> QED BY <3>2, <3>8
  <2> QED BY <1>1, <2>1, <2>2
<1>11. FirstPlanFits
  BY <1>1, <1>8, <1>10 DEF FirstPlanFits, Unplanned
<1>12. RowsOK' /\ NotesGrow
  BY <1>1, <1>10, RowsRest DEF IInv
<1>14. WorkOK'
  <2>1. begun \ merged = {} /\ AllRows \subseteq AllRows'
    BY <1>1, <1>10, AllRowsGrow DEF IInv, WorkOK, Awaits, AwaitingIsWhole
  <2> QED BY <1>1, <2>1 DEF IInv, WorkOK
<1>13. DeliverersOK'
  BY <1>1, <1>10, <1>12, DeliverersRest DEF IInv
<1> QED BY <1>1, <1>2, <1>6, <1>9, <1>10, <1>11, <1>12, <1>13, <1>14, <1>7 DEF Kept, IInv, PlanGrows

------------------------------------------------------------------------------
(* The theorems.                                                           *)

LEMMA InitFits == Init => IInv
<1> SUFFICES ASSUME Init PROVE IInv
  OBVIOUS
<1>1. MaxAttempts \in Nat \ {0} /\ MaxVersion \in Nat \ {0} /\ MaxFaults \in Nat /\ 0 \in 0 .. MaxAttempts
  BY PlanningBounds
<1>2. TaskOK
  BY <1>1 DEF Init, PlanningInit, TaskOK, TaskRow, TaskStatus
<1>3. WorldOK
  <2>1. IdlePlanner \in PlannerRow
    BY <1>1 DEF IdlePlanner, PlannerRow
  <2>2. planner \in [Planners -> PlannerRow]
    BY <2>1 DEF Init, PlanningInit
  <2> QED BY <1>1, <2>2 DEF Init, PlanningInit, WorldOK
<1>4. PlansOK
  <2>1. NoPlan \in PlanRow /\ NoPlan.status = "none" /\ NoPlan.copies = 0
    BY DEF NoPlan, PlanRow
  <2>2. plan = [v \in Versions |-> NoPlan]
    BY DEF Init, PlanningInit, Versions
  <2>3. 0 \in 0 .. MaxVersion /\ \A v \in Versions : ~(v <= 0)
    BY <1>1 DEF Versions
  <2> QED BY <2>1, <2>2, <2>3 DEF PlansOK
<1>5. RowsOK /\ SnapshotsOK /\ Len(notes) = 0
  BY DEF Init, RowsOK, SnapshotsOK
<1>6. RoundsOK
  BY DEF Init, RoundsOK, RoundStatus, Versions
<1>7. DeliverersOK
  BY <1>5, IdleKnows DEF Init, DeliverersOK
<1>8. Awaits
  <2>1. Open = {}
    BY DEF Init, Open
  <2> QED BY <2>1 DEF Init, PlanningInit, Awaits, AwaitingIsWhole
<1>9. WorkOK /\ HistoryOK
  BY DEF Init, WorkOK, HistoryOK
<1> QED BY <1>2, <1>3, <1>4, <1>5, <1>6, <1>7, <1>8, <1>9 DEF IInv, Init

\* Every step keeps the invariant, and what it does to the first plan fits the
\* status it does it in.
LEMMA NextFits ==
    ASSUME IInv, [Next]_vars
    PROVE  Kept
<1>1. CASE PlanningNext
  BY <1>1, PlanningStep DEF Kept
<1>2. CASE \E d \in Deliverers : DelivererStep(d) \/ DelivererCrash(d)
  BY <1>2, ClaimNotificationStep, ReadNotificationStep, CheckReadyStep, BuildSnapshotStep,
     ReturnNotificationStep, ClaimRoundStep, PlanReworkStep, PersistReworkStep, MarkRoundStep,
     DelivererCrashStep DEF DelivererStep
<1>3. CASE BeginWork \/ Suspend \/ Resume \/ Repair \/ MoveByHand \/ Decide
  BY <1>3, BeginWorkStep, SuspensionStep, RepairStep, MoveByHandStep, DecideStep
<1>4. CASE \E r \in begun : Merge(r)
  BY <1>4, MergeStep
<1>5. CASE \/ RaiseIssue \/ ResolveIssue
           \/ \E n \in DOMAIN notes : StaleNotification(n)
           \/ \E v \in 1 .. MaxVersion : StaleRound(v)
  BY <1>5, AmongTheJobs
<1>6. CASE UNCHANGED vars
  <2>1. UNCHANGED <<task, plan, planner, condition, managerUp, faults, workVars, begun, merged, abandoned,
                    replanned, history, notes, snapshots, rounds, issue, deliverer>>
    BY <1>6 DEF vars, planningVars, deliveryVars, workVars, history
  <2>2. WorldOK' /\ TaskOK' /\ FirstPlanFits
    BY <2>1 DEF IInv, WorldOK, TaskOK, FirstPlanFits
  <2>3. HistoryOK' /\ Awaits'
    <3>1. ActiveNotes' = ActiveNotes
      BY <2>1 DEF ActiveNotes, Active
    <3> QED BY <2>1, <3>1, HistoryRests, AwaitRests DEF IInv
  <2> QED BY <2>1, <2>2, <2>3, TaskMoved
<1> QED BY <1>1, <1>2, <1>3, <1>4, <1>5, <1>6 DEF Next

LEMMA Invariance == Spec => []IInv
<1>1. IInv /\ [Next]_vars => IInv'
  BY NextFits DEF Kept
<1> QED BY InitFits, <1>1, PTL DEF Spec

\* Every row and every worker of TaskLife stays in its domain, and a task is
\* not planned more often than maxPlanningAttempts allows.
THEOREM TypeCorrect == Spec => []TypeOK
BY Invariance, TypesFollow, PTL

\* While a task awaits acceptance its last delivery is open, of the current
\* plan, whole, and no notification is left; and no other delivery is open but
\* what a repair took the task away from.
THEOREM DeliveryIsWhole == Spec => []AwaitingIsWhole
<1>1. IInv => AwaitingIsWhole
  BY DEF IInv, Awaits
<1> QED BY Invariance, <1>1, PTL

\* What makes it inductive: a task that may be planned was sent back there as
\* often as it has been planned.
PlanOnce ==
    /\ plan[1].copies <= 1 + replanned
    /\ task.status \in Unplanned => plan[1].copies <= replanned

\* The work items of the first plan are inserted once, and once more at most
\* for every time an administrator sent the planned task back to planning,
\* whatever stale attempts, rounds, repairs and moves by hand there are.
THEOREM PlannedOnce == Spec => []InitialPlanOnce
<1>1. Init => PlanOnce
  <2>1. 1 \in Versions
    BY PlanningBounds DEF Versions
  <2> QED BY <2>1 DEF Init, PlanningInit, PlanOnce, NoPlan, Versions
<1>2. ASSUME IInv, PlanOnce, [Next]_vars PROVE PlanOnce'
  <2>1. FirstPlanFits
    BY <1>2, NextFits DEF Kept
  <2>2. plan[1].copies \in Nat /\ replanned \in Nat
    BY <1>2, PlanningBounds DEF IInv, PlansOK, PlanRow, HistoryOK, Versions
  <2> QED BY <1>2, <2>1, <2>2 DEF PlanOnce, FirstPlanFits, Unplanned
<1>3. PlanOnce => InitialPlanOnce
  BY DEF PlanOnce, InitialPlanOnce
<1> QED BY Invariance, <1>1, <1>2, <1>3, PTL DEF Spec
------------------------------------------------------------------------------
(* Planning and delivery implement DeliveryCycle.                          *)

\* The stage of the cycle is seen in two statuses.
Outside  == {"awaiting_acceptance", "completed"}
StageStays ==
    \/ task'.status = task.status
    \/ task.status \notin Outside /\ task'.status \notin Outside

LEMMA StageKept ==
    ASSUME StageStays
    PROVE  Stage' = Stage
BY DEF StageStays, Outside, Stage

\* A step of planning leaves the deliveries alone, and stores the first plan or
\* none.
LEMMA PlanningStays ==
    ASSUME IInv, PlanningNext
    PROVE  /\ StageStays /\ UNCHANGED snapshots
           /\ \/ UNCHANGED plan
              \/ task.status = "planning" /\ StorePlan(1)
<1>1. UNCHANGED snapshots
  BY DEF PlanningNext, deliveryVars
<1>2. task \in TaskRow
  BY DEF IInv, TaskOK, TaskRow
<1>3. ASSUME NEW p \in Planners, PlannerStep(p) \/ PlannerCrash(p)
      PROVE  StageStays /\ (UNCHANGED plan \/ (task.status = "planning" /\ StorePlan(1)))
  <2>1. ASSUME RunOnce(p) \/ Chat(p) \/ PlannerCrash(p)
        PROVE  UNCHANGED <<task, plan>>
    BY <2>1 DEF RunOnce, Chat, PlannerCrash
  <2>2. ASSUME RecoverStaleTask(p)
        PROVE  /\ UNCHANGED plan
               /\ UNCHANGED task \/ (task.status = "planning" /\ task'.status = "planning_error")
    BY <1>2, <2>2 DEF RecoverStaleTask, TaskRow
  <2>3. ASSUME ResetBlocked(p)
        PROVE  /\ UNCHANGED plan
               /\ UNCHANGED task \/ (task.status = "planning_error" /\ task'.status = "created")
    BY <1>2, <2>3 DEF ResetBlocked, GivenUp, Reset, TaskRow
  <2>4. ASSUME ClaimInitialPlan(p)
        PROVE  /\ UNCHANGED plan
               /\ \/ UNCHANGED task
                  \/ task.status \in {"created", "planning_error"} /\ task'.status = "planning"
    BY <1>2, <2>4 DEF ClaimInitialPlan, Claimable, TaskRow
  <2>5. ASSUME PersistInitialPlan(p)
        PROVE  \/ UNCHANGED <<task, plan>>
               \/ task.status = "planning" /\ task'.status = "planned" /\ StorePlan(1)
    BY <1>2, <2>5 DEF PersistInitialPlan, TaskRow
  <2>6. ASSUME Block(p)
        PROVE  /\ UNCHANGED plan
               /\ UNCHANGED task \/ (task.status = "planning" /\ task'.status = "planning_error")
    BY <1>2, <2>6 DEF Block, Unplannable, TaskRow
  <2> QED BY <1>3, <2>1, <2>2, <2>3, <2>4, <2>5, <2>6 DEF PlannerStep, StageStays, Outside
<1>5. ASSUME ChangeCondition \/ ManagerStops \/ ManagerStarts \/ ElapsePlanning
      PROVE  StageStays /\ UNCHANGED plan
  <2>1. UNCHANGED <<task, plan>> \/ (UNCHANGED plan /\ task' = [task EXCEPT !.started = "stale"])
    BY <1>5 DEF ChangeCondition, ManagerStops, ManagerStarts, ElapsePlanning
  <2>2. task'.status = task.status /\ UNCHANGED plan
    BY <1>2, <2>1 DEF TaskRow
  <2> QED BY <2>2 DEF StageStays
<1> QED BY <1>1, <1>3, <1>5 DEF PlanningNext

\* The same for everybody else but the transactions of the cycle.
LEMMA OthersStay ==
    ASSUME IInv,
           \/ UNCHANGED vars
           \/ \E d \in Deliverers : \/ ClaimNotification(d) \/ ReadNotification(d) \/ CheckReady(d)
                                    \/ ReturnNotification(d) \/ ClaimRound(d) \/ PlanRework(d)
                                    \/ MarkRound(d) \/ DelivererCrash(d)
           \/ BeginWork \/ Suspend \/ Resume \/ RaiseIssue \/ ResolveIssue
           \/ \E r \in begun : Merge(r)
           \/ \E n \in DOMAIN notes : StaleNotification(n)
           \/ \E v \in 1 .. MaxVersion : StaleRound(v)
    PROVE  StageStays /\ UNCHANGED <<plan, snapshots>>
<1>1. ASSUME BeginWork \/ Suspend \/ Resume
      PROVE  /\ task.status \in {"planned", "assigned", "workspace_ready", "suspended"}
             /\ task'.status \in {"workspace_ready", "suspended"}
  BY <1>1 DEF BeginWork, Suspend, Resume, IInv, TaskOK, TaskRow
<1>2. BeginWork \/ Suspend \/ Resume => UNCHANGED <<plan, snapshots>>
  BY DEF BeginWork, Suspend, Resume, deliveryVars
<1>3. ASSUME NEW d \in Deliverers, \/ ClaimNotification(d) \/ ReadNotification(d) \/ CheckReady(d)
                                    \/ ReturnNotification(d) \/ ClaimRound(d) \/ PlanRework(d)
                                    \/ MarkRound(d) \/ DelivererCrash(d)
      PROVE  UNCHANGED <<task, plan, snapshots>>
  <2>1. CASE ClaimNotification(d) \/ ReadNotification(d) \/ CheckReady(d)
    BY <2>1 DEF planningVars, ClaimNotification, ReadNotification, CheckReady
  <2>2. CASE ReturnNotification(d) \/ ClaimRound(d) \/ MarkRound(d)
    BY <2>2 DEF planningVars, ReturnNotification, ClaimRound, MarkRound
  <2>3. CASE PlanRework(d) \/ DelivererCrash(d)
    BY <2>3 DEF PlanRework, DelivererCrash
  <2> QED BY <1>3, <2>1, <2>2, <2>3
<1>4. ASSUME \/ RaiseIssue \/ ResolveIssue
             \/ \E r \in begun : Merge(r)
             \/ \E n \in DOMAIN notes : StaleNotification(n)
             \/ \E v \in 1 .. MaxVersion : StaleRound(v)
      PROVE  UNCHANGED <<task, plan, snapshots>>
  BY <1>4 DEF planningVars, RaiseIssue, ResolveIssue, Merge, StaleNotification, StaleRound
<1>5. UNCHANGED vars => UNCHANGED <<task, plan, snapshots>>
  BY DEF vars, planningVars, deliveryVars
<1>6. BeginWork \/ Suspend \/ Resume \/ UNCHANGED <<task, plan, snapshots>>
  BY <1>3, <1>4, <1>5
<1> QED BY <1>1, <1>2, <1>6 DEF StageStays, Outside
\* What leaves the plans and the deliveries alone is not seen in the cycle.
LEMMA RestShown ==
    ASSUME StageStays, UNCHANGED <<plan, snapshots>>
    PROVE  UNCHANGED Cycle!vars
<1>1. Stage' = Stage
  BY StageKept
<1>2. CurrentVersion' = CurrentVersion /\ PlannedRounds' = PlannedRounds /\ Deliveries' = Deliveries
  BY DEF CurrentVersion, PlannedRounds, Deliveries
<1> QED BY <1>1, <1>2 DEF Cycle!vars

\* A repair may reopen a task.
LEMMA RepairShown ==
    ASSUME IInv, Repair
    PROVE  [Cycle!Next]_(Cycle!vars)
<1>1. /\ task'.status = "workspace_ready" /\ Stage' = "underway"
      /\ Stage \in {"underway", "offered", "closed"}
  BY DEF Repair, IInv, TaskOK, TaskRow, Stage
<1>2. CurrentVersion' = CurrentVersion /\ PlannedRounds' = PlannedRounds /\ Deliveries' = Deliveries
  BY DEF Repair, CurrentVersion, PlannedRounds, Deliveries
<1>3. CASE Stage = "underway"
  BY <1>1, <1>2, <1>3 DEF Cycle!vars
<1>4. CASE Stage # "underway"
  <2>1. Cycle!Reopen
    BY <1>1, <1>2, <1>4 DEF Cycle!Reopen
  <2> QED BY <2>1 DEF Cycle!Next
<1> QED BY <1>3, <1>4

\* A move by hand may close one.
LEMMA MoveShown ==
    ASSUME IInv, MoveByHand
    PROVE  [Cycle!Next]_(Cycle!vars)
<1>1. PICK move \in Moves : UpdateStatus(move) /\ UNCHANGED snapshots
  BY DEF MoveByHand
<1>2. move \in ValidTransition /\ UNCHANGED plan /\ task.status = move[1] /\ task'.status = move[2]
  BY <1>1, PlanningBounds DEF UpdateStatus, IInv, TaskOK, TaskRow
<1>3. CurrentVersion' = CurrentVersion /\ PlannedRounds' = PlannedRounds /\ Deliveries' = Deliveries
  BY <1>1, <1>2 DEF CurrentVersion, PlannedRounds, Deliveries
<1>4. CASE move = <<"merged", "completed">>
  <2>1. Stage = "underway" /\ Stage' = "closed"
    BY <1>2, <1>4 DEF Stage
  <2>2. Cycle!Close
    BY <1>3, <2>1 DEF Cycle!Close
  <2> QED BY <2>2 DEF Cycle!Next
<1>5. CASE move # <<"merged", "completed">>
  <2>1. move[1] \notin Outside /\ move[2] \notin Outside
    BY <1>2, <1>5 DEF ValidTransition, Outside
  <2> QED BY <1>1, <1>2, <2>1, RestShown DEF StageStays
<1> QED BY <1>4, <1>5

\* A plan that is stored is the first or that of a round that was asked for.
LEMMA PlanShown ==
    ASSUME IInv, NEW v \in Versions, v = 1 \/ plan[v].status # "none", StorePlan(v),
           StageStays, UNCHANGED snapshots, Stage = "underway"
    PROVE  Cycle!Plan
<1> DEFINE new == [status |-> "planned", copies |-> plan[v].copies + 1]
<1>1. PlansOK /\ plan \in [Versions -> PlanRow] /\ plan' = [plan EXCEPT ![v] = new]
  BY DEF IInv, PlansOK, StorePlan
<1>2. new.status = "planned"
  OBVIOUS
<1> HIDE DEF new
<1>3. \A u \in Versions : plan'[u] = IF u = v THEN new ELSE plan[u]
  BY <1>1
<1>4. CurrentVersion' = CurrentVersion /\ v \in 1 .. CurrentVersion
  BY <1>1, PlanStored
<1>5. PlannedRounds' = PlannedRounds \cup {v}
  BY <1>2, <1>3 DEF PlannedRounds, Versions
<1>6. Deliveries' = Deliveries /\ Stage' = Stage
  BY StageKept DEF Deliveries
<1> QED BY <1>4, <1>5, <1>6 DEF Cycle!Plan

\* The deliveries of the cycle are the snapshots, one by one.
LEMMA DeliveriesShown ==
    ASSUME SnapshotsOK
    PROVE  /\ Deliveries \in Seq([round : Versions, verdict : {"awaiting_acceptance", "accepted", "rejected"}])
           /\ Len(Deliveries) = Len(snapshots) /\ DOMAIN Deliveries = 1 .. Len(snapshots)
           /\ DOMAIN snapshots = 1 .. Len(snapshots) /\ Len(snapshots) \in Nat
           /\ \A k \in 1 .. Len(snapshots) :
                 Deliveries[k] = [round |-> snapshots[k].version, verdict |-> snapshots[k].status]
<1>1. /\ snapshots \in Seq(SnapshotRow) /\ Len(snapshots) \in Nat
      /\ DOMAIN snapshots = 1 .. Len(snapshots)
  BY DEF SnapshotsOK
<1>2. \A k \in 1 .. Len(snapshots) : snapshots[k] \in SnapshotRow
  BY <1>1
<1>3. \A k \in 1 .. Len(snapshots) :
          [round |-> snapshots[k].version, verdict |-> snapshots[k].status]
             \in [round : Versions, verdict : {"awaiting_acceptance", "accepted", "rejected"}]
  BY <1>2 DEF SnapshotRow
<1> QED BY <1>1, <1>3 DEF Deliveries

\* A delivery is offered once, of a round that is planned.
LEMMA OfferShown ==
    ASSUME IInv, NEW d \in Deliverers, BuildSnapshot(d)
    PROVE  [Cycle!Next]_(Cycle!vars)
<1> DEFINE v == deliverer[d].version
           n == Len(snapshots)
<1>1. UNCHANGED plan /\ task \in TaskRow
  BY DEF BuildSnapshot, IInv, TaskOK
<1>2. CASE UNCHANGED <<task, snapshots>>
  BY <1>1, <1>2, RestShown DEF StageStays
<1>3. ASSUME NEW risky \in BOOLEAN, Delivered(d, risky), task.status \in {"merged", "workspace_ready"},
             CurrentVersion = v, Rows(v) # {}
      PROVE  Cycle!Offer
  <2> DEFINE shot == [note |-> deliverer[d].id, commit |-> deliverer[d].commit,
                      version |-> v, status |-> "awaiting_acceptance"]
             new  == [round |-> v, verdict |-> "awaiting_acceptance"]
  <2>1. snapshots' = Append(snapshots, shot) /\ shot.version = v /\ shot.status = "awaiting_acceptance"
        /\ task' = [task EXCEPT !.status = "awaiting_acceptance"]
    BY <1>3 DEF Delivered
  <2>2. task'.status = "awaiting_acceptance"
    BY <1>1, <2>1 DEF TaskRow
  <2>3. Stage = "underway" /\ Stage' = "offered"
    BY <1>3, <2>2 DEF Stage
  <2>4. v \in PlannedRounds
    <3>1. v \in Versions
      BY <1>3, CurrentVersionIsLast DEF IInv
    <3>2. plan[v].copies # 0
      BY <1>3 DEF Rows
    <3> QED BY <3>1, <3>2 DEF IInv, PlansOK, PlannedRounds, Versions
  <2>5. Deliveries' = Append(Deliveries, new)
    <3> HIDE DEF shot
    <3>1. /\ n \in Nat /\ DOMAIN snapshots = 1 .. n /\ Len(Deliveries) = n
          /\ Deliveries \in Seq([round : Versions, verdict : {"awaiting_acceptance", "accepted", "rejected"}])
          /\ \A k \in 1 .. n : Deliveries[k] = [round |-> snapshots[k].version, verdict |-> snapshots[k].status]
      BY DeliveriesShown DEF IInv
    <3>2. snapshots \in Seq(SnapshotRow)
      BY DEF IInv, SnapshotsOK
    <3>3. /\ DOMAIN snapshots' = 1 .. n + 1 /\ snapshots'[n + 1] = shot
          /\ \A k \in 1 .. n : snapshots'[k] = snapshots[k]
      BY <2>1, <3>1, <3>2
    <3>4. /\ DOMAIN Deliveries' = 1 .. n + 1 /\ Deliveries'[n + 1] = new
          /\ \A k \in 1 .. n : Deliveries'[k] = Deliveries[k]
          /\ Deliveries' = [k \in 1 .. n + 1 |-> Deliveries'[k]]
      BY <2>1, <3>1, <3>3 DEF Deliveries
    <3> QED BY <3>1, <3>4
  <2>6. CurrentVersion' = CurrentVersion /\ PlannedRounds' = PlannedRounds
    BY <1>1 DEF CurrentVersion, PlannedRounds
  <2> QED BY <1>3, <2>3, <2>4, <2>5, <2>6 DEF Cycle!Offer
<1> QED BY <1>2, <1>3 DEF BuildSnapshot, Cycle!Next
\* A decision is made on the last delivery.
LEMMA VerdictShown ==
    ASSUME IInv, NEW k \in DOMAIN snapshots, snapshots[k].status = "awaiting_acceptance",
           NEW st \in {"accepted", "rejected"}, snapshots' = [snapshots EXCEPT ![k].status = st]
    PROVE  /\ k \in DOMAIN Deliveries /\ Deliveries[k].verdict = "awaiting_acceptance"
           /\ Deliveries' = [Deliveries EXCEPT ![k].verdict = st]
<1> DEFINE n == Len(snapshots)
<1>2. /\ n \in Nat /\ DOMAIN snapshots = 1 .. n /\ Len(Deliveries) = n /\ DOMAIN Deliveries = 1 .. n
      /\ \A j \in 1 .. n : Deliveries[j] = [round |-> snapshots[j].version, verdict |-> snapshots[j].status]
  BY DeliveriesShown DEF IInv
<1>3. snapshots \in Seq(SnapshotRow) /\ snapshots[k] \in SnapshotRow /\ k \in 1 .. n
  BY <1>2 DEF IInv, SnapshotsOK
<1> DEFINE shot == [snapshots[k] EXCEPT !.status = st]
<1>4. shot.status = st /\ shot.version = snapshots[k].version
  BY <1>3 DEF SnapshotRow
<1>5. snapshots' = [snapshots EXCEPT ![k] = shot]
  OBVIOUS
<1> HIDE DEF shot
<1>6. DOMAIN snapshots' = 1 .. n /\ \A j \in 1 .. n : snapshots'[j] = IF j = k THEN shot ELSE snapshots[j]
  BY <1>2, <1>3, <1>5
<1>7. /\ Deliveries' = [j \in 1 .. n |-> Deliveries'[j]]
      /\ \A j \in 1 .. n : j # k => Deliveries'[j] = Deliveries[j]
      /\ Deliveries'[k] = [round |-> snapshots[k].version, verdict |-> st]
  BY <1>2, <1>3, <1>4, <1>6 DEF Deliveries
<1>9. [Deliveries[k] EXCEPT !.verdict = st] = [round |-> snapshots[k].version, verdict |-> st]
  BY <1>2, <1>3
<1>10. Deliveries = [j \in 1 .. n |-> Deliveries[j]]
  BY <1>2 DEF Deliveries
<1> DEFINE D == Deliveries
           E == Deliveries'
<1>11. [D EXCEPT ![k].verdict = st] = [j \in 1 .. n |-> IF j = k THEN [D[k] EXCEPT !.verdict = st] ELSE D[j]]
  <2> HIDE DEF D
  <2> QED BY <1>10 DEF D
<1>12. E = [j \in 1 .. n |-> IF j = k THEN [D[k] EXCEPT !.verdict = st] ELSE D[j]]
  BY <1>7, <1>9
<1> QED BY <1>2, <1>3, <1>11, <1>12

LEMMA DecideShown ==
    ASSUME IInv, Decide
    PROVE  [Cycle!Next]_(Cycle!vars)
<1> DEFINE next == CurrentVersion + 1
           asked == [status |-> "planning", copies |-> 0]
<1>1. PICK k \in DOMAIN snapshots :
          /\ snapshots[k].status = "awaiting_acceptance" /\ task.status = "awaiting_acceptance"
          /\ \/ /\ snapshots' = [snapshots EXCEPT ![k].status = "accepted"]
                /\ task' = [task EXCEPT !.status = "completed"]
                /\ UNCHANGED plan
             \/ /\ next <= MaxVersion
                /\ snapshots' = [snapshots EXCEPT ![k].status = "rejected"]
                /\ task' = [task EXCEPT !.status = "rework_planning"]
                /\ plan' = [plan EXCEPT ![next] = asked]
  BY DEF Decide, Decidable
<1>2. task \in TaskRow /\ Stage = "offered"
  BY <1>1 DEF IInv, TaskOK, Stage
<1>3. ASSUME snapshots' = [snapshots EXCEPT ![k].status = "accepted"],
             task' = [task EXCEPT !.status = "completed"], UNCHANGED plan
      PROVE  Cycle!Accept
  <2>1. task'.status = "completed"
    BY <1>2, <1>3 DEF TaskRow
  <2>2. Stage' = "closed"
    BY <2>1 DEF Stage
  <2>3. /\ k \in DOMAIN Deliveries /\ Deliveries[k].verdict = "awaiting_acceptance"
        /\ Deliveries' = [Deliveries EXCEPT ![k].verdict = "accepted"]
    BY <1>1, <1>3, VerdictShown
  <2>4. CurrentVersion' = CurrentVersion /\ PlannedRounds' = PlannedRounds
    BY <1>3 DEF CurrentVersion, PlannedRounds
  <2> QED BY <1>2, <2>2, <2>3, <2>4 DEF Cycle!Accept, Cycle!Decide
<1>4. ASSUME next <= MaxVersion, snapshots' = [snapshots EXCEPT ![k].status = "rejected"],
             task' = [task EXCEPT !.status = "rework_planning"], plan' = [plan EXCEPT ![next] = asked]
      PROVE  Cycle!Reject
  <2>1. task'.status = "rework_planning"
    BY <1>2, <1>4 DEF TaskRow
  <2>2. Stage' = "underway"
    BY <2>1 DEF Stage
  <2>3. /\ k \in DOMAIN Deliveries /\ Deliveries[k].verdict = "awaiting_acceptance"
        /\ Deliveries' = [Deliveries EXCEPT ![k].verdict = "rejected"]
    BY <1>1, <1>4, VerdictShown
  <2>4. MaxVersion \in Nat \ {0} /\ Versions = 1 .. MaxVersion /\ PlansOK /\ plan \in [Versions -> PlanRow]
    BY PlanningBounds DEF Versions, IInv, PlansOK
  <2>5. /\ CurrentVersion \in Versions /\ next \in Versions /\ CurrentVersion < next
        /\ \A u \in Versions : plan[u].status # "none" <=> u < next
    <3>1. plan[1].status # "none"
      BY <1>1 DEF IInv, Awaits
    <3>2. /\ CurrentVersion \in Versions
          /\ \A u \in Versions : plan[u].status # "none" => u <= CurrentVersion
          /\ \A u \in Versions : u < CurrentVersion => plan[u].status # "none"
          /\ CurrentVersion > 1 => plan[CurrentVersion].status # "none"
      BY <2>4, CurrentVersionIsLast
    <3> QED BY <1>4, <2>4, <3>1, <3>2
  <2>6. asked.status = "planning" /\ asked.copies = 0
    OBVIOUS
  <2> HIDE DEF asked
  <2>7. PICK w \in Versions : w = next
    BY <2>5
  <2>8. \A u \in Versions : plan'[u] = IF u = w THEN asked ELSE plan[u]
    BY <1>4, <2>4, <2>7
  <2>9. CurrentVersion' = w
    <3> DEFINE rows == {u \in 1 .. MaxVersion : plan'[u].status # "none"}
    <3>1. rows = 1 .. w
      BY <2>4, <2>5, <2>6, <2>7, <2>8
    <3>2. w \in rows /\ \A u \in rows : u <= w
      BY <2>4, <3>1
    <3>3. rows # {} /\ \E v \in rows : \A u \in rows : u <= v
      BY <3>2
    <3>4. CurrentVersion' \in rows /\ \A u \in rows : u <= CurrentVersion'
      BY <3>3 DEF CurrentVersion
    <3> QED BY <2>4, <3>1, <3>2, <3>4
  <2>10. PlannedRounds' = PlannedRounds
    BY <2>4, <2>5, <2>6, <2>7, <2>8 DEF PlannedRounds
  <2> QED BY <1>2, <2>2, <2>3, <2>7, <2>9, <2>10 DEF Cycle!Reject, Cycle!Decide
<1> QED BY <1>1, <1>3, <1>4 DEF Cycle!Next

\* A round that is planned again was asked for before.
LEMMA PersistReworkShown ==
    ASSUME IInv, NEW d \in Deliverers, PersistRework(d)
    PROVE  [Cycle!Next]_(Cycle!vars)
<1> DEFINE v == deliverer[d].id
<1>1. v \in Versions /\ plan[v].status # "none" /\ task \in TaskRow
  BY DEF IInv, TaskOK, DeliverersOK, RoundsOK, Knows, PersistRework
<1>2. UNCHANGED snapshots
  BY DEF PersistRework
<1>3. CASE task.status = "rework_planning"
  <2>1. StorePlan(v) /\ task'.status = "planned"
    BY <1>1, <1>3 DEF PersistRework, TaskRow
  <2>2. StageStays /\ Stage = "underway"
    BY <1>3, <2>1 DEF StageStays, Outside, Stage
  <2> QED BY <1>1, <1>2, <2>1, <2>2, PlanShown DEF Cycle!Next
<1>4. CASE task.status # "rework_planning"
  <2>1. UNCHANGED <<task, plan>>
    BY <1>4 DEF PersistRework
  <2> QED BY <1>2, <2>1, RestShown DEF StageStays
<1> QED BY <1>3, <1>4

LEMMA CycleSimulates ==
    ASSUME IInv, [Next]_vars
    PROVE  [Cycle!Next]_(Cycle!vars)
<1>1. CASE PlanningNext
  <2>1. /\ StageStays /\ UNCHANGED snapshots
        /\ UNCHANGED plan \/ (task.status = "planning" /\ StorePlan(1))
    BY <1>1, PlanningStays
  <2>2. CASE UNCHANGED plan
    BY <2>1, <2>2, RestShown
  <2>3. CASE task.status = "planning" /\ StorePlan(1)
    <3>1. Stage = "underway" /\ 1 \in Versions
      BY <2>3, PlanningBounds DEF Stage, Versions
    <3> QED BY <2>1, <2>3, <3>1, PlanShown DEF Cycle!Next
  <2> QED BY <2>1, <2>2, <2>3
<1>2. CASE Repair \/ MoveByHand \/ Decide \/ \E d \in Deliverers : BuildSnapshot(d) \/ PersistRework(d)
  BY <1>2, RepairShown, MoveShown, DecideShown, OfferShown, PersistReworkShown
<1>3. CASE ~PlanningNext /\ ~Repair /\ ~MoveByHand /\ ~Decide
           /\ ~\E d \in Deliverers : BuildSnapshot(d) \/ PersistRework(d)
  <2>1. StageStays /\ UNCHANGED <<plan, snapshots>>
    BY <1>3, OthersStay DEF Next, DelivererStep
  <2> QED BY <2>1, RestShown
<1> QED BY <1>1, <1>2, <1>3

\* Only a planned round is delivered, nothing is planned or delivered while a
\* delivery is offered or the task is closed, a verdict stands and a round ends
\* with a rejection only, although an administrator may close a task by hand
\* and a repair reopen it (deliveries/service.go, BuildSnapshot; acceptance.go,
\* Decide; workspaces/reconcile.go, RepairTask): the steps of planners,
\* delivery workers, users and administrators are steps of DeliveryCycle or
\* none at all.
THEOREM CycleImplemented == Spec => ImplementsCycle
<1>1. Init => Cycle!Init
  <2> SUFFICES ASSUME Init PROVE Cycle!Init
    OBVIOUS
  <2>1. \A v \in 1 .. MaxVersion : plan[v] = NoPlan
    BY DEF Init, PlanningInit
  <2>2. task.status = "created" /\ snapshots = <<>>
    BY DEF Init, PlanningInit
  <2>3. \A v \in 1 .. MaxVersion : plan[v].status = "none" /\ plan[v].copies = 0
    BY <2>1 DEF NoPlan
  <2>4. Stage = "underway"
    BY <2>2 DEF Stage
  <2>5. {v \in 1 .. MaxVersion : plan[v].status # "none"} = {} /\ PlannedRounds = {}
    BY <2>3 DEF PlannedRounds
  <2>6. CurrentVersion = 1
    BY <2>5 DEF CurrentVersion
  <2>7. Deliveries = <<>>
    <3>1. DOMAIN snapshots = {}
      BY <2>2
    <3> QED BY <3>1 DEF Deliveries
  <2> QED BY <2>4, <2>5, <2>6, <2>7 DEF Cycle!Init
<1>2. IInv /\ [Next]_vars => [Cycle!Next]_(Cycle!vars)
  BY CycleSimulates
<1> QED BY Invariance, <1>1, <1>2, PTL DEF Spec, ImplementsCycle, Cycle!Spec
=============================================================================
