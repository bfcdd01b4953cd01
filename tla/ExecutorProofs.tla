----------------------------- MODULE ExecutorProofs -----------------------------
(***************************************************************************)
(* Proofs about Executor, for any number of supervisors, steps, leases and *)
(* claims.  The invariant says what a run row, an attempt and a scan know  *)
(* of each other; capacity is counted apart, in the second half.           *)
(***************************************************************************)
EXTENDS Executor, FiniteSetTheorems, TLAPS

Held(t) == attempt[t].phase \in {"claimed", "prepared", "launched", "confirmed"}

\* A row names the claim it was last given to.  Only a confirmed one gets a
\* pid, and only a confirmed one can be late.
TokenOK(l) ==
  LET row == run[l]
      t == run[l].token
  IN  /\ row.pid => t # 0
      /\ t # 0 =>
           /\ attempt[t].phase # "unused"
           /\ Held(t) => LeaseOf(t) = l
           /\ row.pid => attempt[t].phase \in {"confirmed", "done"}
           /\ ~row.pid => ~attempt[t].late

\* Every launch is counted before its worker starts, and all but the first are
\* continuations.
CountOK(l) ==
  LET row == run[l] IN
  /\ row.launches = 0 => row.continuations = 0
  /\ row.launches > 0 => row.continuations = row.launches - 1
  /\ row.begun <= row.launches
  /\ (row.pid /\ attempt[row.token].proc = "polling") => row.begun < row.launches

\* A process exists only from the launch on, and one that works owns its row.
AttemptOK(t) ==
  /\ attempt[t].phase \in {"unused", "claimed", "prepared"} => attempt[t].proc = "none"
  /\ attempt[t].phase = "launched" => attempt[t].proc \in {"polling", "dead"}
  /\ Held(t) \/ ProcessAlive(t) =>
       /\ attempt[t].sup \in Supervisors /\ attempt[t].step \in Steps
       /\ attempt[t].version \in Versions
  /\ attempt[t].proc = "working" => run[LeaseOf(t)].token = t /\ run[LeaseOf(t)].pid

\* A scan claims for one candidate at a time, and for no active one.
ScanOK(p) ==
  /\ scan[p].stage # "idle" => scan[p].step \in Steps /\ InScan(p) = {}
  /\ scan[p].stage = "ready" =>
       scan[p].version \in Versions /\ ~AlreadyActive(p, scan[p].step)

OneHeldPerStep ==
  \A t, u \in Attempts :
    Held(t) /\ Held(u) /\ attempt[t].sup = attempt[u].sup
      /\ attempt[t].step = attempt[u].step => t = u

IInv ==
  /\ TypeOK
  /\ \A l \in LeaseIds : TokenOK(l) /\ CountOK(l)
  /\ \A t \in Attempts : AttemptOK(t)
  /\ \A p \in Supervisors : ScanOK(p)
  /\ OneHeldPerStep

Slots == {l \in LeaseIds : StillOwned(run[l]) /\ ~attempt[run[l].token].late}
CapOK ==
  /\ Cardinality(Slots) <= GlobalLimit
  /\ \A s \in Steps :
       Cardinality({l \in Slots : AgentOf[l[1]] = AgentOf[s]}) <= AgentLimit

-----------------------------------------------------------------------------
(* Rows and attempts *)

\* The row of an attempt's lease: written by its owner, kept for another one.
LEMMA OwnerWrites ==
  ASSUME TypeOK, NEW t \in Attempts, NEW row \in RunRow, run' = IfOwner(t, row)
  PROVE  /\ run' \in [LeaseIds -> RunRow]
         /\ \A l \in LeaseIds :
              \/ run'[l] = run[l]
              \/ run[l].token = t /\ l = LeaseOf(t) /\ run'[l] = row
<1>1. CASE run[LeaseOf(t)].token = t
  <2>1. run' = [run EXCEPT ![LeaseOf(t)] = row]  BY <1>1 DEF IfOwner
  <2>2. run \in [LeaseIds -> RunRow]  BY DEF TypeOK
  <2>3. QED BY <1>1, <2>1, <2>2
<1>2. CASE run[LeaseOf(t)].token # t
  BY <1>2 DEF IfOwner, TypeOK
<1>3. QED BY <1>1, <1>2

\* A cleared row keeps its counters and names nobody.
LEMMA ClearedRow ==
  ASSUME TypeOK, NEW t \in Attempts, LeaseOf(t) \in LeaseIds
  PROVE  LET row == run[LeaseOf(t)] IN
         \A r \in {Cleared(t), [Cleared(t) EXCEPT !.status = "stopped"]} :
           /\ r \in RunRow
           /\ r.token = 0 /\ ~r.fresh /\ ~r.pid
           /\ r.launches = row.launches /\ r.continuations = row.continuations
           /\ r.begun = row.begun
<1> DEFINE row == run[LeaseOf(t)]
           a == [row EXCEPT !.token = 0]
           b == [a EXCEPT !.fresh = FALSE]
           c == [b EXCEPT !.pid = FALSE]
           d == [c EXCEPT !.status = "stopped"]
<1>1. row \in RunRow  BY DEF TypeOK
<1>2. Cleared(t) = c  BY DEF Cleared
<1> HIDE DEF row
<1>3. a \in RunRow /\ a.token = 0
      /\ a.launches = row.launches /\ a.continuations = row.continuations
      /\ a.begun = row.begun
  BY <1>1, ExecutorAssumption DEF RunRow
<1> HIDE DEF a
<1>4. b \in RunRow /\ b.token = 0 /\ ~b.fresh
      /\ b.launches = row.launches /\ b.continuations = row.continuations
      /\ b.begun = row.begun
  BY <1>3 DEF RunRow
<1> HIDE DEF b
<1>5. c \in RunRow /\ c.token = 0 /\ ~c.fresh /\ ~c.pid
      /\ c.launches = row.launches /\ c.continuations = row.continuations
      /\ c.begun = row.begun
  BY <1>4 DEF RunRow
<1> HIDE DEF c
<1>6. d \in RunRow /\ d.token = 0 /\ ~d.fresh /\ ~d.pid
      /\ d.launches = row.launches /\ d.continuations = row.continuations
      /\ d.begun = row.begun
  BY <1>5 DEF RunRow, RunStatus
<1> HIDE DEF d
<1>7. Cleared(t) = c /\ [Cleared(t) EXCEPT !.status = "stopped"] = d
  BY <1>2 DEF d
<1>. QED BY <1>5, <1>6, <1>7 DEF row

\* An attempt with another phase or process keeps everything else, unless it
\* has settled.
LEMMA AttemptMoves ==
  ASSUME TypeOK, NEW t \in Attempts, NEW ph \in Phases,
         NEW pr \in {"none", "polling", "working", "dead"},
         attempt' = Becomes(t, ph, pr)
  PROVE  /\ attempt' \in [Attempts -> Attempt]
         /\ \A u \in Attempts : u # t => attempt'[u] = attempt[u]
         /\ attempt'[t].phase = ph
         /\ attempt'[t].late => attempt[t].late
         /\ IF ph = "done" /\ pr \in {"none", "dead"}
            THEN attempt'[t].proc = "none"
            ELSE /\ attempt'[t].proc = pr
                 /\ attempt'[t].sup = attempt[t].sup
                 /\ attempt'[t].step = attempt[t].step
                 /\ attempt'[t].version = attempt[t].version
                 /\ attempt'[t].late = attempt[t].late
<1> DEFINE new == [attempt[t] EXCEPT !.phase = ph, !.proc = pr]
<1>1. attempt[t] \in Attempt /\ attempt \in [Attempts -> Attempt]  BY DEF TypeOK
<1>2. attempt' = [attempt EXCEPT ![t] = Settled(new)]  BY DEF Becomes
<1>3. new \in Attempt  BY <1>1 DEF Attempt
<1>4. NoAttempt \in Attempt  BY ExecutorAssumption DEF NoAttempt, Attempt, Phases
<1>5. /\ new.phase = ph /\ new.proc = pr /\ new.sup = attempt[t].sup
      /\ new.step = attempt[t].step /\ new.version = attempt[t].version
      /\ new.late = attempt[t].late
  BY <1>1 DEF Attempt
<1>6. CASE ph = "done" /\ pr \in {"none", "dead"}
  <2>1. Settled(new) = [NoAttempt EXCEPT !.phase = "done"]  BY <1>5, <1>6 DEF Settled
  <2>2. [NoAttempt EXCEPT !.phase = "done"] \in Attempt
    BY <1>4 DEF Attempt, Phases
  <2>3. [NoAttempt EXCEPT !.phase = "done"].phase = "done"
        /\ [NoAttempt EXCEPT !.phase = "done"].proc = "none"
        /\ [NoAttempt EXCEPT !.phase = "done"].late = FALSE
    BY DEF NoAttempt
  <2>4. QED BY <1>1, <1>2, <1>6, <2>1, <2>2, <2>3
<1>7. CASE ~(ph = "done" /\ pr \in {"none", "dead"})
  <2>1. Settled(new) = new  BY <1>5, <1>7 DEF Settled
  <2>2. QED BY <1>1, <1>2, <1>3, <1>5, <1>7, <2>1
<1>8. QED BY <1>6, <1>7

-----------------------------------------------------------------------------
(* Leases *)

\* What the lease operations leave is a table of leases.
LEMMA LeaseTables ==
  ASSUME TypeOK, NEW s \in Steps
  PROVE  /\ \A st \in LeaseStatus : Moved(s, st) \in [Steps -> NewestLease]
         /\ Frozen(s) \in [Steps -> NewestLease]
         /\ lease[s].version < MaxVersion => Granted(s) \in [Steps -> NewestLease]
<1>1. lease \in [Steps -> NewestLease] /\ lease[s] \in NewestLease  BY DEF TypeOK
<1>2. \A st \in LeaseStatus : Moved(s, st) \in [Steps -> NewestLease]
  BY <1>1 DEF Moved, NewestLease
<1>3. Frozen(s) \in [Steps -> NewestLease]
  BY <1>1, <1>2 DEF Frozen, LeaseStatus
<1>4. ASSUME lease[s].version < MaxVersion
      PROVE  Granted(s) \in [Steps -> NewestLease]
  <2>1. lease[s].version + 1 \in 0..MaxVersion
    BY <1>1, <1>4, ExecutorAssumption DEF NewestLease
  <2>2. [version |-> lease[s].version + 1, status |-> "active"] \in NewestLease
    BY <2>1 DEF NewestLease, LeaseStatus
  <2>3. QED BY <1>1, <2>2 DEF Granted
<1>5. QED BY <1>2, <1>3, <1>4

-----------------------------------------------------------------------------
(* Steps that end something *)

\* The attempt stays where it is or is over; its process does not come back.
Aged(u) ==
  /\ attempt'[u].phase \in {attempt[u].phase, "done"}
  /\ attempt'[u].proc \in {attempt[u].proc, "dead", "none"}
  /\ attempt'[u].phase \in {"unused", "claimed", "prepared"} =>
       attempt'[u] = attempt[u]
  /\ attempt'[u].phase = "launched" => attempt'[u].proc # "none"
  /\ attempt'[u].phase # "done" \/ attempt'[u].proc \in {"polling", "working"} =>
       /\ attempt'[u].sup = attempt[u].sup /\ attempt'[u].step = attempt[u].step
       /\ attempt'[u].version = attempt[u].version
  /\ attempt'[u].late => attempt[u].late
  /\ attempt'[u].proc \in {"polling", "working"} => attempt'[u].late = attempt[u].late

\* The row keeps its claim, or gives it up once no worker works under it.
Wound(l) ==
  /\ run'[l].launches = run[l].launches /\ run'[l].begun = run[l].begun
  /\ run'[l].continuations = run[l].continuations
  /\ \/ /\ run'[l].token = 0 /\ ~run'[l].pid
        /\ run[l].token # 0 => attempt'[run[l].token].proc # "working"
     \/ /\ run'[l].token = run[l].token /\ run'[l].pid = run[l].pid
        /\ run'[l].fresh => run[l].fresh

\* Steps that only let attempts age, and scans give up, keep the invariant.
LEMMA WindingDown ==
  ASSUME IInv,
         lease' \in [Steps -> NewestLease], run' \in [LeaseIds -> RunRow],
         attempt' \in [Attempts -> Attempt], scan' \in [Supervisors -> Item],
         \A u \in Attempts : attempt'[u] = attempt[u] \/ Aged(u),
         \A l \in LeaseIds : run'[l] = run[l] \/ Wound(l),
         \A p \in Supervisors : scan'[p] = scan[p] \/ scan'[p].stage = "idle"
  PROVE  IInv' /\ Slots' \subseteq Slots
<1>1. TypeOK'  BY DEF TypeOK
<1>2. \A l \in LeaseIds : run[l] \in RunRow /\ run'[l] \in RunRow
  BY DEF IInv, TypeOK
<1>3. \A u \in Attempts : attempt[u] \in Attempt /\ attempt'[u] \in Attempt
  BY DEF IInv, TypeOK
<1>4. \A u \in Attempts : Aged(u)
  <2> TAKE u \in Attempts
  <2>1. CASE attempt'[u] = attempt[u]
    <3>1. attempt[u].phase = "launched" => attempt[u].proc # "none"
      BY DEF IInv, AttemptOK
    <3>2. QED BY <2>1, <3>1 DEF Aged
  <2>2. QED BY <2>1
<1>5. \A l \in LeaseIds : run[l].token # 0 => run[l].token \in Attempts
  BY <1>2 DEF RunRow, Attempts
<1>6. ASSUME NEW l \in LeaseIds  PROVE TokenOK(l)'
  <2>1. TokenOK(l)  BY DEF IInv
  <2>2. CASE run'[l].token = 0 /\ ~run'[l].pid  BY <2>2 DEF TokenOK
  <2>3. CASE run'[l].token # 0 /\ run'[l].token = run[l].token /\ run'[l].pid = run[l].pid
    <3>1. Aged(run[l].token)  BY <1>4, <1>5, <2>3
    <3>2. QED BY <2>1, <2>3, <3>1 DEF TokenOK, Held, LeaseOf, Aged
  <2>4. CASE run'[l].token = 0 /\ run'[l].token = run[l].token /\ run'[l].pid = run[l].pid
    BY <2>1, <2>4 DEF TokenOK
  <2>5. QED BY <2>2, <2>3, <2>4 DEF Wound
<1>7. ASSUME NEW l \in LeaseIds  PROVE CountOK(l)'
  <2>1. CountOK(l) /\ TokenOK(l)  BY DEF IInv
  <2>2. CASE ~run'[l].pid  BY <2>1, <2>2 DEF CountOK, Wound
  <2>3. CASE run'[l].pid
    <3>1. run'[l].token = run[l].token /\ run[l].pid  BY <2>3 DEF Wound
    <3>2. run[l].token # 0  BY <2>1, <3>1 DEF TokenOK
    <3>3. Aged(run[l].token)  BY <1>4, <1>5, <3>2
    <3>4. attempt'[run[l].token].proc = "polling" => attempt[run[l].token].proc = "polling"
      BY <3>3 DEF Aged
    <3>5. QED BY <2>1, <3>1, <3>4 DEF CountOK, Wound
  <2>4. QED BY <2>2, <2>3
<1>8. ASSUME NEW u \in Attempts  PROVE AttemptOK(u)'
  <2>1. AttemptOK(u) /\ Aged(u)  BY <1>4 DEF IInv
  <2>2. /\ attempt'[u].phase \in {"unused", "claimed", "prepared"} =>
             attempt'[u].proc = "none"
        /\ attempt'[u].phase = "launched" => attempt'[u].proc \in {"polling", "dead"}
    BY <2>1 DEF AttemptOK, Aged
  <2>3. Held(u)' \/ ProcessAlive(u)' =>
          /\ attempt'[u].sup \in Supervisors /\ attempt'[u].step \in Steps
          /\ attempt'[u].version \in Versions
    BY <2>1 DEF AttemptOK, Aged, Held, ProcessAlive
  <2>4. ASSUME attempt'[u].proc = "working"
        PROVE  run'[LeaseOf(u)'].token = u /\ run'[LeaseOf(u)'].pid
    <3>1. attempt[u].proc = "working" /\ LeaseOf(u)' = LeaseOf(u)
      BY <2>1, <2>4 DEF Aged, LeaseOf
    <3>2. run[LeaseOf(u)].token = u /\ run[LeaseOf(u)].pid /\ LeaseOf(u) \in LeaseIds
      BY <2>1, <3>1 DEF AttemptOK, ProcessAlive, LeaseOf, LeaseIds
    <3>3. u # 0  BY DEF Attempts
    <3>4. QED BY <2>4, <3>1, <3>2, <3>3 DEF Wound
  <2>5. QED BY <2>2, <2>3, <2>4 DEF AttemptOK
<1>9. ASSUME NEW p \in Supervisors  PROVE ScanOK(p)'
  <2>1. ScanOK(p)  BY DEF IInv
  <2>2. InScan(p)' \subseteq InScan(p) /\ Active(p)' \subseteq Active(p)
    BY <1>4 DEF InScan, Active, Aged
  <2>3. \A t \in Active(p)' : attempt'[t].step = attempt[t].step
    BY <1>4 DEF Active, Aged
  <2>4. CASE scan'[p].stage = "idle"  BY <2>4 DEF ScanOK
  <2>5. CASE scan'[p] = scan[p]
    BY <2>1, <2>2, <2>3, <2>5 DEF ScanOK, AlreadyActive
  <2>6. QED BY <2>4, <2>5
<1>10. OneHeldPerStep'
  <2>1. \A t \in Attempts : Held(t)' =>
          Held(t) /\ attempt'[t].sup = attempt[t].sup /\ attempt'[t].step = attempt[t].step
    BY <1>4 DEF Held, Aged
  <2>2. QED BY <2>1 DEF IInv, OneHeldPerStep
<1>11. Slots' \subseteq Slots
  <2> SUFFICES ASSUME NEW l \in LeaseIds, l \in Slots'  PROVE l \in Slots
    BY DEF Slots
  <2>1. run'[l].token # 0 /\ StillOwned(run[l])' /\ ~attempt'[run'[l].token].late
    BY DEF Slots, StillOwned
  <2>2. run'[l].token = run[l].token /\ run'[l].pid = run[l].pid
        /\ (run'[l].fresh => run[l].fresh)
    BY <2>1 DEF Wound
  <2>3. Aged(run[l].token) /\ TokenOK(l)  BY <1>4, <1>5, <2>1, <2>2 DEF IInv
  <2>4. CASE run[l].pid
    <3>1. attempt'[run[l].token].proc \in {"polling", "working"}
      BY <2>1, <2>2, <2>4 DEF StillOwned, ProcessAlive
    <3>2. QED BY <2>1, <2>2, <2>3, <2>4, <3>1 DEF Slots, StillOwned, ProcessAlive, Aged
  <2>5. CASE ~run[l].pid
    BY <2>1, <2>2, <2>3, <2>5 DEF Slots, StillOwned, TokenOK
  <2>6. QED BY <2>4, <2>5
<1>. QED
  BY <1>1, <1>6, <1>7, <1>8, <1>9, <1>10, <1>11 DEF IInv


\* A supervisor that is done with an attempt clears the row if it still owns it.
LEMMA Retires ==
  ASSUME IInv, NEW t \in Attempts, Held(t),
         NEW row \in {Cleared(t), [Cleared(t) EXCEPT !.status = "stopped"]},
         run' = IfOwner(t, row),
         NEW pr \in {attempt[t].proc, "dead"}, pr # "working",
         attempt' = Becomes(t, "done", pr),
         lease' \in [Steps -> NewestLease], scan' = scan
  PROVE  IInv' /\ Slots' \subseteq Slots
<1>1. TypeOK /\ attempt[t] \in Attempt  BY DEF IInv, TypeOK
<1>2. LeaseOf(t) \in LeaseIds  BY DEF IInv, AttemptOK, LeaseOf, LeaseIds
<1>3. /\ row \in RunRow /\ row.token = 0 /\ ~row.pid
      /\ row.launches = run[LeaseOf(t)].launches
      /\ row.continuations = run[LeaseOf(t)].continuations
      /\ row.begun = run[LeaseOf(t)].begun
  BY <1>1, <1>2, ClearedRow
<1>4. /\ run' \in [LeaseIds -> RunRow]
      /\ \A l \in LeaseIds : \/ run'[l] = run[l]
                             \/ run[l].token = t /\ l = LeaseOf(t) /\ run'[l] = row
  BY <1>1, <1>3, OwnerWrites
<1>5. pr \in {"none", "polling", "working", "dead"} /\ "done" \in Phases
  BY <1>1 DEF Attempt, Phases
<1>6. /\ attempt' \in [Attempts -> Attempt]
      /\ \A u \in Attempts : u # t => attempt'[u] = attempt[u]
      /\ attempt'[t].phase = "done" /\ (attempt'[t].late => attempt[t].late)
      /\ IF pr \in {"none", "dead"} THEN attempt'[t].proc = "none"
         ELSE /\ attempt'[t].proc = pr
              /\ attempt'[t].sup = attempt[t].sup /\ attempt'[t].step = attempt[t].step
              /\ attempt'[t].version = attempt[t].version
              /\ attempt'[t].late = attempt[t].late
  BY <1>1, <1>5, AttemptMoves
<1>7. Aged(t)  BY <1>5, <1>6 DEF Aged
<1>8. \A l \in LeaseIds : run'[l] = run[l] \/ Wound(l)
  BY <1>3, <1>4, <1>5, <1>6 DEF Wound
<1>9. scan' \in [Supervisors -> Item]  BY <1>1 DEF TypeOK
<1>. QED BY <1>4, <1>6, <1>7, <1>8, <1>9, WindingDown

\* A process that ends keeps its claim's row.
LEMMA ProcessEnds ==
  ASSUME IInv, NEW t \in Attempts, ProcessAlive(t), attempt' = Dies(t),
         \/ run' = run
         \/ run' = IfOwner(t, [run[LeaseOf(t)] EXCEPT !.status = "stopped"]),
         lease' \in [Steps -> NewestLease], scan' = scan
  PROVE  IInv' /\ Slots' \subseteq Slots
<1>1. TypeOK /\ attempt[t] \in Attempt /\ AttemptOK(t)  BY DEF IInv, TypeOK
<1>2. LeaseOf(t) \in LeaseIds  BY <1>1 DEF AttemptOK, LeaseOf, LeaseIds
<1>3. /\ run' \in [LeaseIds -> RunRow]
      /\ \A l \in LeaseIds : run'[l] = run[l] \/ Wound(l)
  <2>1. CASE run' = run  BY <1>1, <2>1 DEF TypeOK
  <2>2. CASE run' = IfOwner(t, [run[LeaseOf(t)] EXCEPT !.status = "stopped"])
    <3> DEFINE row == [run[LeaseOf(t)] EXCEPT !.status = "stopped"]
    <3>1. run[LeaseOf(t)] \in RunRow  BY <1>1, <1>2 DEF TypeOK
    <3>2. /\ row \in RunRow /\ row.token = run[LeaseOf(t)].token
          /\ row.pid = run[LeaseOf(t)].pid /\ row.fresh = run[LeaseOf(t)].fresh
          /\ row.launches = run[LeaseOf(t)].launches
          /\ row.continuations = run[LeaseOf(t)].continuations
          /\ row.begun = run[LeaseOf(t)].begun
      BY <3>1 DEF RunRow, RunStatus
    <3> HIDE DEF row
    <3>3. run' = IfOwner(t, row)  BY <2>2 DEF row
    <3>4. /\ run' \in [LeaseIds -> RunRow]
          /\ \A l \in LeaseIds : \/ run'[l] = run[l]
                                 \/ run[l].token = t /\ l = LeaseOf(t) /\ run'[l] = row
      BY <1>1, <3>2, <3>3, OwnerWrites
    <3>5. QED BY <3>2, <3>4 DEF Wound
  <2>3. QED BY <2>1, <2>2
<1>4. attempt[t].phase \in Phases /\ attempt' = Becomes(t, attempt[t].phase, "dead")
  BY <1>1 DEF Attempt, Dies
<1>5. /\ attempt' \in [Attempts -> Attempt]
      /\ \A u \in Attempts : u # t => attempt'[u] = attempt[u]
      /\ attempt'[t].phase = attempt[t].phase
      /\ attempt'[t].late => attempt[t].late
      /\ IF attempt[t].phase = "done" THEN attempt'[t].proc = "none"
         ELSE /\ attempt'[t].proc = "dead"
              /\ attempt'[t].sup = attempt[t].sup /\ attempt'[t].step = attempt[t].step
              /\ attempt'[t].version = attempt[t].version
              /\ attempt'[t].late = attempt[t].late
  BY <1>1, <1>4, AttemptMoves
<1>6. attempt[t].phase \notin {"unused", "claimed", "prepared"}
  BY <1>1 DEF AttemptOK, ProcessAlive
<1>7. Aged(t)  BY <1>5, <1>6 DEF Aged
<1>8. scan' \in [Supervisors -> Item]  BY <1>1 DEF TypeOK
<1>. QED BY <1>3, <1>5, <1>7, <1>8, WindingDown

\* A supervisor's crash ends its attempts, its processes live on.
LEMMA CrashEnds ==
  ASSUME IInv, NEW p \in Supervisors, SupervisorCrash(p)
  PROVE  IInv' /\ Slots' \subseteq Slots
<1> DEFINE end(t) == [attempt[t] EXCEPT !.phase = "done"]
<1>1. TypeOK  BY DEF IInv
<1>2. \A t \in Attempts : attempt[t] \in Attempt  BY <1>1 DEF TypeOK
<1>3. NoItem \in Item /\ NoItem.stage = "idle"
  BY ExecutorAssumption DEF NoItem, Item
<1>4. /\ scan' \in [Supervisors -> Item]
      /\ \A q \in Supervisors : scan'[q] = scan[q] \/ scan'[q].stage = "idle"
  BY <1>1, <1>3 DEF SupervisorCrash, TypeOK
<1>5. ASSUME NEW t \in Attempts
      PROVE  attempt'[t] \in Attempt /\ (attempt'[t] = attempt[t] \/ Aged(t))
  <2>1. CASE ~(attempt[t].sup = p /\ attempt[t].phase # "done")
    BY <1>2, <2>1 DEF SupervisorCrash
  <2>2. CASE attempt[t].sup = p /\ attempt[t].phase # "done"
    <3>1. attempt'[t] = Settled(end(t))  BY <2>2 DEF SupervisorCrash
    <3>2. /\ end(t) \in Attempt /\ end(t).phase = "done"
          /\ end(t).proc = attempt[t].proc /\ end(t).sup = attempt[t].sup
          /\ end(t).step = attempt[t].step /\ end(t).version = attempt[t].version
          /\ end(t).late = attempt[t].late
      BY <1>2 DEF Attempt, Phases
    <3> HIDE DEF end
    <3>3. CASE end(t).proc \in {"none", "dead"}
      <4> DEFINE over == [NoAttempt EXCEPT !.phase = "done"]
      <4>1. attempt'[t] = over  BY <3>1, <3>2, <3>3 DEF Settled
      <4>2. NoAttempt \in Attempt
        BY ExecutorAssumption DEF NoAttempt, Attempt, Phases
      <4>3. /\ over \in Attempt /\ over.phase = "done" /\ over.proc = "none"
            /\ over.late = FALSE
        BY <4>2 DEF NoAttempt, Attempt, Phases
      <4> HIDE DEF over
      <4>4. QED BY <4>1, <4>3 DEF Aged
    <3>4. CASE end(t).proc \notin {"none", "dead"}
      <4>1. attempt'[t] = end(t)  BY <3>1, <3>4 DEF Settled
      <4>2. QED BY <3>2, <4>1 DEF Aged
    <3>5. QED BY <3>3, <3>4
  <2>3. QED BY <2>1, <2>2
<1>6. attempt' \in [Attempts -> Attempt]
  BY <1>5 DEF SupervisorCrash
<1>7. lease' \in [Steps -> NewestLease] /\ run' \in [LeaseIds -> RunRow] /\ run' = run
  BY <1>1 DEF TypeOK, SupervisorCrash
<1>. QED BY <1>4, <1>5, <1>6, <1>7, WindingDown

-----------------------------------------------------------------------------
(* Steps that begin something *)

\* A scan that goes on knows its step, and before it claims also its lease.
LEMMA ScanMoves ==
  ASSUME IInv, lease' \in [Steps -> NewestLease],
         UNCHANGED <<run, attempt>>,
         scan' \in [Supervisors -> Item],
         \A p \in Supervisors : scan'[p] = scan[p] \/ ScanOK(p)'
  PROVE  IInv' /\ Slots' \subseteq Slots
<1>1. TypeOK'  BY DEF IInv, TypeOK
<1>2. \A l \in LeaseIds : TokenOK(l)' /\ CountOK(l)'
  BY DEF IInv, TokenOK, CountOK, Held, LeaseOf
<1>3. \A t \in Attempts : AttemptOK(t)'
  BY DEF IInv, AttemptOK, Held, ProcessAlive, LeaseOf
<1>4. ASSUME NEW p \in Supervisors, scan'[p] = scan[p]  PROVE ScanOK(p)'
  <2>1. ScanOK(p)  BY DEF IInv
  <2>2. QED BY <1>4, <2>1 DEF ScanOK, InScan, AlreadyActive, Active
<1>5. OneHeldPerStep'  BY DEF IInv, OneHeldPerStep, Held
<1>6. Slots' \subseteq Slots  BY DEF Slots, StillOwned, ProcessAlive
<1>. QED BY <1>1, <1>2, <1>3, <1>4, <1>5, <1>6 DEF IInv

\* An attempt that has no row with a pid yet goes on, and keeps its lease.
LEMMA Advances ==
  ASSUME IInv, NEW t \in Attempts, attempt[t].phase \in {"claimed", "prepared"},
         NEW ph \in {"prepared", "launched"}, NEW pr,
         pr = (IF ph = "launched" THEN "polling" ELSE "none"),
         attempt' = Becomes(t, ph, pr),
         lease' \in [Steps -> NewestLease], UNCHANGED <<run, scan>>
  PROVE  IInv' /\ Slots' \subseteq Slots
<1>1. TypeOK /\ AttemptOK(t) /\ Held(t)  BY DEF IInv, Held
<1>2. ph \in Phases /\ pr \in {"none", "polling", "working", "dead"}  BY DEF Phases
<1>3. /\ attempt' \in [Attempts -> Attempt]
      /\ \A u \in Attempts : u # t => attempt'[u] = attempt[u]
      /\ attempt'[t].phase = ph /\ attempt'[t].proc = pr
      /\ attempt'[t].sup = attempt[t].sup /\ attempt'[t].step = attempt[t].step
      /\ attempt'[t].version = attempt[t].version
      /\ attempt'[t].late = attempt[t].late
  BY <1>1, <1>2, AttemptMoves
<1>4. TypeOK'  BY <1>1, <1>3 DEF TypeOK
<1>5. \A u \in Attempts : LeaseOf(u)' = LeaseOf(u)
  BY <1>3 DEF LeaseOf
<1>6. \A l \in LeaseIds : run[l].token # 0 => run[l].token \in Attempts
  BY <1>1 DEF TypeOK, RunRow, Attempts
<1>7. \A l \in LeaseIds : run[l].token = t => ~run[l].pid
  BY DEF IInv, TokenOK, Attempts
<1>8. ASSUME NEW l \in LeaseIds  PROVE TokenOK(l)' /\ CountOK(l)'
  <2>1. TokenOK(l) /\ CountOK(l)  BY DEF IInv
  <2>2. CASE run[l].token = t
    BY <1>1, <1>3, <1>5, <1>7, <2>1, <2>2 DEF TokenOK, CountOK, Held
  <2>3. CASE run[l].token # t /\ run[l].token # 0
    BY <1>3, <1>5, <1>6, <2>1, <2>3 DEF TokenOK, CountOK, Held
  <2>4. CASE run[l].token = 0
    BY <2>1, <2>4 DEF TokenOK, CountOK
  <2>5. QED BY <2>2, <2>3, <2>4
<1>9. ASSUME NEW u \in Attempts  PROVE AttemptOK(u)'
  <2>1. CASE u = t
    BY <1>1, <1>3, <2>1 DEF AttemptOK
  <2>2. CASE u # t
    BY <1>3, <1>5, <2>2 DEF IInv, AttemptOK, Held, ProcessAlive
  <2>3. QED BY <2>1, <2>2
<1>10. ASSUME NEW p \in Supervisors  PROVE ScanOK(p)'
  <2>1. ScanOK(p)  BY DEF IInv
  <2>2. InScan(p)' = InScan(p)  BY <1>3 DEF InScan
  <2>3. Active(p)' = Active(p)  BY <1>3 DEF Active
  <2>4. \A u \in Attempts : attempt'[u].step = attempt[u].step  BY <1>3
  <2>5. QED BY <2>1, <2>2, <2>3, <2>4 DEF ScanOK, AlreadyActive, Active
<1>11. OneHeldPerStep'
  BY <1>1, <1>3 DEF IInv, OneHeldPerStep, Held
<1>12. Slots' \subseteq Slots
  BY <1>3, <1>6, <1>7 DEF Slots, StillOwned, ProcessAlive
<1>. QED BY <1>4, <1>8, <1>9, <1>10, <1>11, <1>12 DEF IInv

\* A claim takes a row nobody owns, for a step its supervisor has no attempt of.
LEMMA ClaimBegins ==
  ASSUME IInv, NEW p \in Supervisors, NEW t \in Attempts, ClaimExecution(p, t)
  PROVE  IInv' /\ CapacityAvailable(ItemLease(p)) /\ ItemLease(p) \in LeaseIds
         /\ Slots' \subseteq Slots \cup {ItemLease(p)}
<1> DEFINE l == ItemLease(p)
           row == [run[l] EXCEPT !.status = "starting", !.token = t,
                                 !.fresh = TRUE, !.pid = FALSE]
           new == [NoAttempt EXCEPT !.phase = "claimed", !.sup = p,
                                    !.step = l[1], !.version = l[2]]
<1>1. TypeOK /\ ScanOK(p) /\ scan[p].stage = "ready" /\ lease' = lease
  BY DEF IInv, ClaimExecution
<1>2. /\ l \in LeaseIds /\ l[1] \in Steps /\ l[2] \in Versions
      /\ l[1] = scan[p].step /\ InScan(p) = {} /\ ~AlreadyActive(p, l[1])
  BY <1>1 DEF ScanOK, ItemLease, LeaseIds
<1> HIDE DEF l
<1>3. /\ attempt[t] = NoAttempt /\ run' = [run EXCEPT ![l] = row]
      /\ attempt' = [attempt EXCEPT ![t] = new]
      /\ scan' = [scan EXCEPT ![p] = NoItem] /\ CapacityAvailable(l)
  BY DEF ClaimExecution, Skip, l
<1>4. run[l] \in RunRow /\ t \in 0..MaxAttempts /\ t # 0
  BY <1>1, <1>2 DEF TypeOK, Attempts
<1>5. /\ row \in RunRow /\ row.token = t /\ row.fresh /\ ~row.pid
      /\ row.launches = run[l].launches /\ row.begun = run[l].begun
      /\ row.continuations = run[l].continuations
  <2> DEFINE a == [run[l] EXCEPT !.status = "starting"]
             b == [a EXCEPT !.token = t]
             c == [b EXCEPT !.fresh = TRUE]
             d == [c EXCEPT !.pid = FALSE]
  <2>1. /\ a \in RunRow /\ a.launches = run[l].launches /\ a.begun = run[l].begun
        /\ a.continuations = run[l].continuations
    BY <1>4 DEF RunRow, RunStatus
  <2> HIDE DEF a
  <2>2. /\ b \in RunRow /\ b.token = t /\ b.launches = a.launches
        /\ b.begun = a.begun /\ b.continuations = a.continuations
    BY <1>4, <2>1 DEF RunRow
  <2> HIDE DEF b
  <2>3. /\ c \in RunRow /\ c.token = t /\ c.fresh /\ c.launches = b.launches
        /\ c.begun = b.begun /\ c.continuations = b.continuations
    BY <2>2 DEF RunRow
  <2> HIDE DEF c
  <2>4. /\ d \in RunRow /\ d.token = t /\ d.fresh /\ ~d.pid
        /\ d.launches = c.launches
        /\ d.begun = c.begun /\ d.continuations = c.continuations
    BY <2>3 DEF RunRow
  <2> HIDE DEF d
  <2>5. row = d  BY DEF a, b, c, d
  <2>6. QED BY <2>1, <2>2, <2>3, <2>4, <2>5
<1> HIDE DEF row
<1>6. /\ new \in Attempt /\ new.phase = "claimed" /\ new.proc = "none"
      /\ new.sup = p /\ new.step = l[1] /\ new.version = l[2] /\ new.late = FALSE
  <2> DEFINE a == [NoAttempt EXCEPT !.phase = "claimed"]
             b == [a EXCEPT !.sup = p]
             c == [b EXCEPT !.step = l[1]]
             d == [c EXCEPT !.version = l[2]]
  <2>1. NoAttempt \in Attempt /\ NoAttempt.proc = "none" /\ NoAttempt.late = FALSE
    BY ExecutorAssumption DEF NoAttempt, Attempt, Phases
  <2>2. l[2] \in 0..MaxVersion  BY <1>2 DEF Versions
  <2>3. a \in Attempt /\ a.phase = "claimed" /\ a.proc = "none" /\ a.late = FALSE
    BY <2>1 DEF Attempt, Phases
  <2> HIDE DEF a
  <2>4. /\ b \in Attempt /\ b.phase = "claimed" /\ b.proc = "none" /\ b.late = FALSE
        /\ b.sup = p
    BY <2>3 DEF Attempt
  <2> HIDE DEF b
  <2>5. /\ c \in Attempt /\ c.phase = "claimed" /\ c.proc = "none" /\ c.late = FALSE
        /\ c.sup = p /\ c.step = l[1]
    BY <1>2, <2>4 DEF Attempt
  <2> HIDE DEF c
  <2>6. /\ d \in Attempt /\ d.phase = "claimed" /\ d.proc = "none" /\ d.late = FALSE
        /\ d.sup = p /\ d.step = l[1] /\ d.version = l[2]
    BY <2>2, <2>5 DEF Attempt
  <2> HIDE DEF d
  <2>7. new = d  BY DEF a, b, c, d
  <2>8. QED BY <2>6, <2>7
<1> HIDE DEF new
<1>7. NoItem \in Item /\ NoItem.stage = "idle"
  BY ExecutorAssumption DEF NoItem, Item
<1>8. TypeOK'
  BY <1>1, <1>2, <1>3, <1>5, <1>6, <1>7 DEF TypeOK
<1>9. /\ attempt'[t] = new /\ \A u \in Attempts : u # t => attempt'[u] = attempt[u]
      /\ run'[l] = row /\ \A k \in LeaseIds : k # l => run'[k] = run[k]
      /\ scan'[p] = NoItem /\ \A q \in Supervisors : q # p => scan'[q] = scan[q]
  BY <1>1, <1>2, <1>3 DEF TypeOK
<1>10. attempt[t].phase = "unused" /\ attempt[t].proc = "none"
  BY <1>3 DEF NoAttempt
<1>11. \A k \in LeaseIds : run[k].token # t
  BY <1>4, <1>10 DEF IInv, TokenOK
<1>12. \A k \in LeaseIds : run[k].token # 0 => run[k].token \in Attempts
  BY <1>1 DEF TypeOK, RunRow, Attempts
<1>13. \A u \in Attempts \ {t} : LeaseOf(u)' = LeaseOf(u)
  BY <1>9 DEF LeaseOf
<1>14. LeaseOf(t)' = l
  BY <1>2, <1>6, <1>9 DEF LeaseOf, LeaseIds
<1>15. ASSUME NEW k \in LeaseIds  PROVE TokenOK(k)' /\ CountOK(k)'
  <2>1. TokenOK(k) /\ CountOK(k)  BY DEF IInv
  <2>2. CASE k = l
    <3>1. run'[k] = row /\ LeaseOf(t)' = k  BY <1>9, <1>14, <2>2
    <3>2. TokenOK(k)'  BY <1>5, <1>6, <1>9, <3>1 DEF TokenOK
    <3>3. CountOK(k)'  BY <1>5, <2>1, <2>2, <3>1 DEF CountOK
    <3>4. QED BY <3>2, <3>3
  <2>3. CASE k # l /\ run[k].token # 0
    BY <1>9, <1>11, <1>12, <1>13, <2>1, <2>3 DEF TokenOK, CountOK, Held
  <2>4. CASE k # l /\ run[k].token = 0
    BY <1>9, <2>1, <2>4 DEF TokenOK, CountOK
  <2>5. QED BY <2>2, <2>3, <2>4
<1>16. ASSUME NEW u \in Attempts, u # t, attempt[u].proc = "working"
       PROVE  LeaseOf(u) # l
  <2>1. /\ run[LeaseOf(u)].token = u /\ run[LeaseOf(u)].pid
        /\ ProcessAlive(u)
    BY <1>16 DEF IInv, AttemptOK, ProcessAlive
  <2>2. StillOwned(run[LeaseOf(u)])  BY <2>1 DEF StillOwned, Attempts
  <2>3. QED BY <2>2 DEF ClaimExecution, l
<1>17. ASSUME NEW u \in Attempts  PROVE AttemptOK(u)'
  <2>1. CASE u = t
    BY <1>2, <1>6, <1>9, <2>1 DEF AttemptOK
  <2>2. CASE u # t
    <3>1. AttemptOK(u) /\ attempt'[u] = attempt[u] /\ LeaseOf(u)' = LeaseOf(u)
      BY <1>9, <1>13, <2>2 DEF IInv
    <3>2. ASSUME attempt[u].proc = "working"  PROVE run'[LeaseOf(u)] = run[LeaseOf(u)]
      <4>1. LeaseOf(u) \in LeaseIds
        BY <3>1, <3>2 DEF AttemptOK, ProcessAlive, LeaseOf, LeaseIds
      <4>2. QED BY <1>9, <1>16, <2>2, <3>2, <4>1
    <3>3. QED BY <3>1, <3>2 DEF AttemptOK, Held, ProcessAlive
  <2>3. QED BY <2>1, <2>2
<1>18. ASSUME NEW q \in Supervisors  PROVE ScanOK(q)'
  <2>1. CASE q = p  BY <1>7, <1>9, <2>1 DEF ScanOK
  <2>2. CASE q # p
    <3>1. \A u \in Attempts : attempt'[u].sup = q => u # t  BY <1>6, <1>9, <2>2
    <3>2. InScan(q)' \subseteq InScan(q) /\ Active(q)' \subseteq Active(q)
      BY <1>9, <3>1 DEF InScan, Active
    <3>3. \A u \in Active(q)' : attempt'[u].step = attempt[u].step
      BY <1>9, <3>1 DEF Active
    <3>4. ScanOK(q) /\ scan'[q] = scan[q]  BY <1>9, <2>2 DEF IInv
    <3>5. QED BY <3>2, <3>3, <3>4 DEF ScanOK, AlreadyActive
  <2>3. QED BY <2>1, <2>2
<1>19. ASSUME NEW u \in Attempts, u # t, Held(u), attempt[u].sup = p
       PROVE  attempt[u].step # l[1]
  <2>1. attempt[u].phase = "confirmed"  BY <1>2, <1>19 DEF Held, InScan
  <2>2. QED BY <1>2, <1>19, <2>1 DEF AlreadyActive, Active
<1>20. OneHeldPerStep'
  BY <1>6, <1>9, <1>19 DEF IInv, OneHeldPerStep, Held
<1>21. Slots' \subseteq Slots \cup {l}
  <2> SUFFICES ASSUME NEW k \in LeaseIds, k \in Slots', k # l  PROVE k \in Slots
    BY DEF Slots
  <2>1. run'[k] = run[k] /\ run[k].token # 0  BY <1>9 DEF Slots, StillOwned
  <2>2. attempt'[run[k].token] = attempt[run[k].token]
    BY <1>9, <1>11, <1>12, <2>1
  <2>3. QED BY <2>1, <2>2 DEF Slots, StillOwned, ProcessAlive
<1>. QED
  BY <1>2, <1>3, <1>8, <1>15, <1>17, <1>18, <1>20, <1>21 DEF IInv, l

\* A confirmed launch is counted, and turns a claim into a process.
LEMMA LaunchConfirmed ==
  ASSUME IInv, NEW t \in Attempts, ConfirmLaunch(t)
  PROVE  IInv' /\ Slots' \subseteq Slots
<1> DEFINE l == LeaseOf(t)
           old == run[l]
           again == IF old.launches > 0 THEN 1 ELSE 0
           row == [old EXCEPT !.status = "running", !.pid = TRUE, !.fresh = FALSE,
                              !.launches = old.launches + 1,
                              !.continuations = old.continuations + again]
           new == [attempt[t] EXCEPT !.phase = "confirmed", !.late = ~old.fresh]
<1>1. TypeOK /\ AttemptOK(t) /\ attempt[t].phase = "launched"
  BY DEF IInv, ConfirmLaunch
<1>2. l \in LeaseIds /\ attempt[t] \in Attempt /\ t # 0
  BY <1>1 DEF AttemptOK, Held, LeaseOf, LeaseIds, TypeOK, Attempts
<1>3. /\ run' = [run EXCEPT ![l] = row] /\ attempt' = [attempt EXCEPT ![t] = new]
      /\ lease' = lease /\ scan' = scan
      /\ old.token = t /\ ~Exhausted(old)
  BY DEF ConfirmLaunch
<1>4. TokenOK(l) /\ CountOK(l) /\ old \in RunRow  BY <1>1, <1>2 DEF IInv, TypeOK
<1>5. ~old.pid  BY <1>1, <1>2, <1>3, <1>4 DEF TokenOK
<1>6. /\ row \in RunRow /\ row.token = t /\ row.pid
      /\ row.launches = old.launches + 1 /\ row.begun = old.begun
      /\ row.continuations = old.continuations + again
  <2> DEFINE cont == old.continuations + again
             a == [old EXCEPT !.status = "running"]
             b == [a EXCEPT !.pid = TRUE]
             c == [b EXCEPT !.fresh = FALSE]
             d == [c EXCEPT !.launches = old.launches + 1]
             e == [d EXCEPT !.continuations = cont]
  <2>1. /\ old.launches \in Nat /\ old.continuations \in Nat /\ MaxContinuations \in Nat
        /\ old.launches <= MaxContinuations + 1 /\ old.continuations <= MaxContinuations
    BY <1>4, ExecutorAssumption DEF RunRow
  <2>2. /\ old.launches = 0 => old.continuations = 0
        /\ old.launches > 0 => old.continuations = old.launches - 1
                               /\ ~(old.continuations >= MaxContinuations)
    BY <1>3, <1>4 DEF CountOK, Exhausted
  <2>3. old.launches + 1 \in 0..(MaxContinuations + 1) /\ cont \in 0..MaxContinuations
    <3> HIDE DEF old
    <3>1. CASE old.launches = 0  BY <2>1, <2>2, <3>1
    <3>2. CASE old.launches > 0  BY <2>1, <2>2, <3>2
    <3>3. QED BY <2>1, <3>1, <3>2
  <2>4. /\ a \in RunRow /\ a.token = t /\ a.launches = old.launches /\ a.begun = old.begun
        /\ a.continuations = old.continuations
    BY <1>3, <1>4 DEF RunRow, RunStatus
  <2> HIDE DEF a, cont
  <2>5. /\ b \in RunRow /\ b.token = t /\ b.pid /\ b.launches = old.launches
        /\ b.begun = old.begun /\ b.continuations = old.continuations
    BY <2>4 DEF RunRow
  <2> HIDE DEF b
  <2>6. /\ c \in RunRow /\ c.token = t /\ c.pid /\ c.launches = old.launches
        /\ c.begun = old.begun /\ c.continuations = old.continuations
    BY <2>5 DEF RunRow
  <2> HIDE DEF c
  <2>7. /\ d \in RunRow /\ d.token = t /\ d.pid /\ d.launches = old.launches + 1
        /\ d.begun = old.begun /\ d.continuations = old.continuations
    BY <2>3, <2>6 DEF RunRow
  <2> HIDE DEF d
  <2>8. /\ e \in RunRow /\ e.token = t /\ e.pid /\ e.launches = old.launches + 1
        /\ e.begun = old.begun /\ e.continuations = cont
    BY <2>3, <2>7 DEF RunRow
  <2> HIDE DEF e
  <2>9. row = e  BY <2>4, <2>5, <2>6, <2>7 DEF a, b, c, d, e, cont
  <2>10. QED BY <2>8, <2>9 DEF cont
<1>7. /\ new \in Attempt /\ new.phase = "confirmed" /\ new.proc = attempt[t].proc
      /\ new.sup = attempt[t].sup /\ new.step = attempt[t].step
      /\ new.version = attempt[t].version /\ new.late = ~old.fresh
  <2> DEFINE a == [attempt[t] EXCEPT !.phase = "confirmed"]
             b == [a EXCEPT !.late = ~old.fresh]
  <2>1. old.fresh \in BOOLEAN  BY <1>4 DEF RunRow
  <2>2. /\ a \in Attempt /\ a.phase = "confirmed" /\ a.proc = attempt[t].proc
        /\ a.sup = attempt[t].sup /\ a.step = attempt[t].step
        /\ a.version = attempt[t].version
    BY <1>2 DEF Attempt, Phases
  <2> HIDE DEF a
  <2>3. /\ b \in Attempt /\ b.phase = "confirmed" /\ b.proc = a.proc /\ b.sup = a.sup
        /\ b.step = a.step /\ b.version = a.version /\ b.late = ~old.fresh
    BY <2>1, <2>2 DEF Attempt
  <2> HIDE DEF b
  <2>4. new = b  BY DEF a, b
  <2>5. QED BY <2>2, <2>3, <2>4
<1> HIDE DEF row, new
<1>8. /\ attempt'[t] = new /\ \A u \in Attempts : u # t => attempt'[u] = attempt[u]
      /\ run'[l] = row /\ \A k \in LeaseIds : k # l => run'[k] = run[k]
  BY <1>1, <1>2, <1>3 DEF TypeOK
<1>9. TypeOK'  BY <1>1, <1>2, <1>3, <1>6, <1>7 DEF TypeOK
<1>10. \A u \in Attempts : LeaseOf(u)' = LeaseOf(u)  BY <1>7, <1>8 DEF LeaseOf
<1>11. \A k \in LeaseIds : k # l => run[k].token # t
  BY <1>1, <1>2 DEF IInv, TokenOK, Held
<1>12. \A k \in LeaseIds : run[k].token # 0 => run[k].token \in Attempts
  BY <1>1 DEF TypeOK, RunRow, Attempts
<1>13. ASSUME NEW k \in LeaseIds  PROVE TokenOK(k)' /\ CountOK(k)'
  <2>1. TokenOK(k) /\ CountOK(k)  BY DEF IInv
  <2>2. CASE k = l
    <3>1. run'[k] = row /\ LeaseOf(t)' = k /\ old = run[k]  BY <1>8, <1>10, <2>2
    <3>2. TokenOK(k)'  BY <1>2, <1>6, <1>7, <1>8, <3>1 DEF TokenOK
    <3>3. /\ run[k].launches \in Nat /\ run[k].continuations \in Nat
          /\ run[k].begun \in Nat
      BY <1>4, <3>1, ExecutorAssumption DEF RunRow
    <3>4. /\ run'[k].launches = run[k].launches + 1 /\ run'[k].begun = run[k].begun
          /\ run'[k].continuations =
               run[k].continuations + (IF run[k].launches > 0 THEN 1 ELSE 0)
      BY <1>6, <3>1
    <3>5. /\ run[k].launches = 0 => run[k].continuations = 0
          /\ run[k].launches > 0 => run[k].continuations = run[k].launches - 1
          /\ run[k].begun <= run[k].launches
      BY <2>1 DEF CountOK
    <3>6. /\ run'[k].launches > 0 /\ run'[k].continuations = run'[k].launches - 1
          /\ run'[k].begun < run'[k].launches
      BY <3>3, <3>4, <3>5
    <3>7. run'[k].launches \in Nat /\ run'[k].begun \in Nat  BY <3>3, <3>4
    <3>8. CountOK(k)'  BY <3>6, <3>7 DEF CountOK
    <3>9. QED BY <3>2, <3>8
  <2>3. CASE k # l /\ run[k].token # 0
    BY <1>8, <1>10, <1>11, <1>12, <2>1, <2>3 DEF TokenOK, CountOK, Held
  <2>4. CASE k # l /\ run[k].token = 0
    BY <1>8, <2>1, <2>4 DEF TokenOK, CountOK
  <2>5. QED BY <2>2, <2>3, <2>4
<1>14. ASSUME NEW u \in Attempts  PROVE AttemptOK(u)'
  <2>1. CASE u = t
    <3>1. attempt'[t].proc \in {"polling", "dead"} /\ Held(t)
      BY <1>1, <1>7, <1>8 DEF AttemptOK, Held
    <3>2. QED BY <1>1, <1>7, <1>8, <2>1, <3>1 DEF AttemptOK
  <2>2. CASE u # t
    <3>1. AttemptOK(u) /\ attempt'[u] = attempt[u] /\ LeaseOf(u)' = LeaseOf(u)
      BY <1>8, <1>10, <2>2 DEF IInv
    <3>2. ASSUME attempt[u].proc = "working"  PROVE run'[LeaseOf(u)] = run[LeaseOf(u)]
      <4>1. LeaseOf(u) \in LeaseIds /\ run[LeaseOf(u)].token = u
        BY <3>1, <3>2 DEF AttemptOK, ProcessAlive, LeaseOf, LeaseIds
      <4>2. QED BY <1>3, <1>8, <2>2, <4>1
    <3>3. QED BY <3>1, <3>2 DEF AttemptOK, Held, ProcessAlive
  <2>3. QED BY <2>1, <2>2
<1>15. ASSUME NEW p \in Supervisors  PROVE ScanOK(p)'
  <2>1. ScanOK(p) /\ scan' = scan  BY <1>3 DEF IInv
  <2>2. InScan(p)' \subseteq InScan(p)  BY <1>7, <1>8 DEF InScan
  <2>3. scan[p].stage = "ready" => attempt[t].sup # p
    <3>1. scan[p].stage = "ready" => t \notin InScan(p)  BY <2>1 DEF ScanOK
    <3>2. QED BY <1>1, <3>1 DEF InScan
  <2>4. scan[p].stage = "ready" => Active(p)' = Active(p)
    BY <1>7, <1>8, <2>3 DEF Active
  <2>5. \A u \in Attempts : attempt'[u].step = attempt[u].step  BY <1>7, <1>8
  <2>6. QED BY <2>1, <2>2, <2>4, <2>5 DEF ScanOK, AlreadyActive, Active
<1>16. OneHeldPerStep'
  <2>1. \A u \in Attempts : Held(u)' = Held(u) /\ attempt'[u].sup = attempt[u].sup
                            /\ attempt'[u].step = attempt[u].step
    BY <1>1, <1>7, <1>8 DEF Held
  <2>2. QED BY <2>1 DEF IInv, OneHeldPerStep
<1>17. Slots' \subseteq Slots
  <2> SUFFICES ASSUME NEW k \in LeaseIds, k \in Slots'  PROVE k \in Slots
    BY DEF Slots
  <2>1. CASE k = l
    <3>1. ~attempt[t].late  BY <1>2, <1>3, <1>4, <1>5 DEF TokenOK
    <3>2. ~attempt'[t].late
      BY <1>6, <1>8, <2>1 DEF Slots
    <3>3. old.fresh  BY <1>4, <1>7, <1>8, <3>2 DEF RunRow
    <3>4. QED BY <1>2, <1>3, <1>5, <2>1, <3>1, <3>3 DEF Slots, StillOwned
  <2>2. CASE k # l
    <3>1. run'[k] = run[k] /\ run[k].token # 0  BY <1>8, <2>2 DEF Slots, StillOwned
    <3>2. attempt'[run[k].token] = attempt[run[k].token]
      BY <1>8, <1>11, <1>12, <2>2, <3>1
    <3>3. QED BY <3>1, <3>2 DEF Slots, StillOwned, ProcessAlive
  <2>3. QED BY <2>1, <2>2
<1>. QED BY <1>9, <1>13, <1>14, <1>15, <1>16, <1>17 DEF IInv

\* A worker that starts owns the row that shows its launch.
LEMMA WorkBegins ==
  ASSUME IInv, NEW t \in Attempts, StartRun(t)
  PROVE  IInv' /\ Slots' \subseteq Slots
<1> DEFINE l == LeaseOf(t)
           row == [run[l] EXCEPT !.begun = @ + 1]
<1>1. TypeOK /\ AttemptOK(t) /\ attempt[t] \in Attempt /\ attempt[t].proc = "polling"
  BY DEF IInv, TypeOK, StartRun
<1>2. l \in LeaseIds /\ t # 0
  BY <1>1 DEF AttemptOK, ProcessAlive, LeaseOf, LeaseIds, Attempts
<1>3. /\ run' = [run EXCEPT ![l] = row]
      /\ attempt' = Becomes(t, attempt[t].phase, "working")
      /\ lease' = lease /\ scan' = scan
      /\ run[l].token = t /\ run[l].pid
  BY DEF StartRun
<1>4. TokenOK(l) /\ CountOK(l) /\ run[l] \in RunRow  BY <1>1, <1>2 DEF IInv, TypeOK
<1>5. /\ row \in RunRow /\ row.token = run[l].token /\ row.pid = run[l].pid
      /\ row.begun = run[l].begun + 1 /\ row.launches = run[l].launches
      /\ row.continuations = run[l].continuations /\ row.fresh = run[l].fresh
  BY <1>4 DEF RunRow
<1> HIDE DEF row
<1>6. attempt[t].phase \in Phases  BY <1>1 DEF Attempt
<1>7. /\ attempt' \in [Attempts -> Attempt]
      /\ \A u \in Attempts : u # t => attempt'[u] = attempt[u]
      /\ attempt'[t].phase = attempt[t].phase /\ attempt'[t].proc = "working"
      /\ attempt'[t].sup = attempt[t].sup /\ attempt'[t].step = attempt[t].step
      /\ attempt'[t].version = attempt[t].version
      /\ attempt'[t].late = attempt[t].late
  BY <1>1, <1>3, <1>6, AttemptMoves
<1>8. run'[l] = row /\ \A k \in LeaseIds : k # l => run'[k] = run[k]
  BY <1>1, <1>2, <1>3 DEF TypeOK
<1>9. TypeOK'  BY <1>1, <1>2, <1>3, <1>5, <1>7 DEF TypeOK
<1>10. \A u \in Attempts : LeaseOf(u)' = LeaseOf(u)  BY <1>7 DEF LeaseOf
<1>11. \A k \in LeaseIds : run[k].token # 0 => run[k].token \in Attempts
  BY <1>1 DEF TypeOK, RunRow, Attempts
<1>12. \A k \in LeaseIds : /\ run'[k].token = run[k].token /\ run'[k].pid = run[k].pid
                           /\ run'[k].launches = run[k].launches
                           /\ run'[k].continuations = run[k].continuations
  <2> TAKE k \in LeaseIds
  <2>1. CASE k = l  BY <1>5, <1>8, <2>1
  <2>2. CASE k # l  BY <1>8, <2>2
  <2>3. QED BY <2>1, <2>2
<1>13. ASSUME NEW k \in LeaseIds  PROVE TokenOK(k)' /\ CountOK(k)'
  <2>1. TokenOK(k) /\ CountOK(k)  BY DEF IInv
  <2>2. TokenOK(k)'
    BY <1>7, <1>10, <1>11, <1>12, <2>1 DEF TokenOK, Held
  <2>3. CASE k = l
    <3>1. run[k].begun < run[k].launches
      BY <1>1, <1>3, <1>4, <2>3 DEF CountOK
    <3>2. run[k].begun \in Nat /\ run[k].launches \in Nat
      BY <1>4, <2>3, ExecutorAssumption DEF RunRow
    <3>3. run'[k].begun = run[k].begun + 1  BY <1>5, <1>8, <2>3
    <3>4. run'[k].begun <= run'[k].launches
      BY <1>12, <3>1, <3>2, <3>3
    <3>5. attempt'[run'[k].token].proc # "polling"
      BY <1>3, <1>7, <1>12, <2>3
    <3>6. CountOK(k)'  BY <1>12, <2>1, <3>4, <3>5 DEF CountOK
    <3>7. QED BY <2>2, <3>6
  <2>4. CASE k # l
    <3>1. run'[k] = run[k]  BY <1>8, <2>4
    <3>2. (run[k].pid /\ attempt'[run[k].token].proc = "polling") =>
             attempt[run[k].token].proc = "polling"
      BY <1>7, <1>11, <2>1 DEF TokenOK
    <3>3. CountOK(k)'  BY <2>1, <3>1, <3>2 DEF CountOK
    <3>4. QED BY <2>2, <3>3
  <2>5. QED BY <2>3, <2>4
<1>14. ASSUME NEW u \in Attempts  PROVE AttemptOK(u)'
  <2>1. AttemptOK(u) /\ LeaseOf(u)' = LeaseOf(u)  BY <1>10 DEF IInv
  <2>2. CASE u = t
    <3>1. attempt'[t].phase \in {"confirmed", "done"}
      BY <1>2, <1>3, <1>4, <1>7 DEF TokenOK
    <3>2. run'[LeaseOf(t)].token = t /\ run'[LeaseOf(t)].pid
      BY <1>2, <1>3, <1>12
    <3>3. ProcessAlive(t)  BY <1>1 DEF ProcessAlive
    <3>4. QED BY <1>7, <2>1, <2>2, <3>1, <3>2, <3>3 DEF AttemptOK
  <2>3. CASE u # t
    <3>1. attempt'[u] = attempt[u]  BY <1>7, <2>3
    <3>2. attempt[u].proc = "working" => LeaseOf(u) \in LeaseIds
      BY <2>1 DEF AttemptOK, ProcessAlive, LeaseOf, LeaseIds
    <3>3. QED BY <1>12, <2>1, <3>1, <3>2 DEF AttemptOK, Held, ProcessAlive
  <2>4. QED BY <2>2, <2>3
<1>15. ASSUME NEW p \in Supervisors  PROVE ScanOK(p)'
  <2>1. ScanOK(p) /\ scan' = scan  BY <1>3 DEF IInv
  <2>2. InScan(p)' = InScan(p)  BY <1>7 DEF InScan
  <2>3. Active(p)' = Active(p)  BY <1>7 DEF Active
  <2>4. \A u \in Attempts : attempt'[u].step = attempt[u].step  BY <1>7
  <2>5. QED BY <2>1, <2>2, <2>3, <2>4 DEF ScanOK, AlreadyActive, Active
<1>16. OneHeldPerStep'
  <2>1. \A u \in Attempts : Held(u)' = Held(u) /\ attempt'[u].sup = attempt[u].sup
                            /\ attempt'[u].step = attempt[u].step
    BY <1>7 DEF Held
  <2>2. QED BY <2>1 DEF IInv, OneHeldPerStep
<1>17. Slots' \subseteq Slots
  <2> SUFFICES ASSUME NEW k \in LeaseIds, k \in Slots'  PROVE k \in Slots
    BY DEF Slots
  <2>1. run[k].token \in Attempts /\ run'[k].fresh = run[k].fresh
    BY <1>5, <1>8, <1>11, <1>12 DEF Slots, StillOwned
  <2>2. QED BY <1>1, <1>7, <1>12, <2>1 DEF Slots, StillOwned, ProcessAlive
<1>. QED BY <1>9, <1>13, <1>14, <1>15, <1>16, <1>17 DEF IInv

\* A scan that reads or takes a candidate goes on with one supervisor's item.
LEMMA ScanBegins ==
  ASSUME IInv, NEW p \in Supervisors,
         (\E s \in Steps : ReadCandidate(p, s)) \/ TakeCandidate(p)
  PROVE  IInv' /\ Slots' \subseteq Slots
<1>1. TypeOK /\ ScanOK(p) /\ scan[p] \in Item /\ UNCHANGED <<run, attempt>>
  BY DEF IInv, TypeOK, ReadCandidate, TakeCandidate
<1>2. NoItem \in Item /\ NoItem.stage = "idle"
  BY ExecutorAssumption DEF NoItem, Item
<1>3. InScan(p)' = InScan(p)  BY <1>1 DEF InScan
<1>4. \A s : AlreadyActive(p, s)' <=> AlreadyActive(p, s)
  BY <1>1 DEF AlreadyActive, Active
<1>5. ASSUME NEW s \in Steps, ReadCandidate(p, s)
      PROVE  IInv' /\ Slots' \subseteq Slots
  <2> DEFINE v == IF lease[s].status = "none" THEN 0 ELSE lease[s].version
             item == [stage |-> "read", step |-> s, version |-> v]
  <2>1. lease' = lease /\ scan' = [scan EXCEPT ![p] = item] /\ InScan(p) = {}
    BY <1>5 DEF ReadCandidate
  <2>2. v \in 0..MaxVersion
    BY <1>1, ExecutorAssumption DEF TypeOK, NewestLease
  <2>3. item \in Item /\ item.stage = "read" /\ item.step = s
    BY <2>2 DEF Item
  <2> HIDE DEF item
  <2>4. scan' \in [Supervisors -> Item] /\ scan'[p] = item
        /\ \A q \in Supervisors : q # p => scan'[q] = scan[q]
    BY <1>1, <2>1, <2>3 DEF TypeOK
  <2>5. ScanOK(p)'  BY <1>3, <2>1, <2>3, <2>4 DEF ScanOK
  <2>6. lease' \in [Steps -> NewestLease]  BY <1>1, <2>1 DEF TypeOK
  <2>7. QED BY <1>1, <2>4, <2>5, <2>6, ScanMoves
<1>6. ASSUME TakeCandidate(p)  PROVE IInv' /\ Slots' \subseteq Slots
  <2> DEFINE s == scan[p].step
  <2>1. scan[p].stage = "read" /\ ~AlreadyActive(p, s)  BY <1>6 DEF TakeCandidate
  <2>2. s \in Steps /\ InScan(p) = {}  BY <1>1, <2>1 DEF ScanOK
  <2>3. CASE scan[p].version # 0 /\ lease' = lease
             /\ scan' = [scan EXCEPT ![p] = [scan[p] EXCEPT !.stage = "ready"]]
    <3> DEFINE item == [scan[p] EXCEPT !.stage = "ready"]
    <3>1. item \in Item /\ item.stage = "ready" /\ item.step = s
          /\ item.version \in Versions
      BY <1>1, <2>3, ExecutorAssumption DEF Item, Versions
    <3> HIDE DEF item
    <3>2. scan' = [scan EXCEPT ![p] = item]  BY <2>3 DEF item
    <3>3. scan' \in [Supervisors -> Item] /\ scan'[p] = item
          /\ \A q \in Supervisors : q # p => scan'[q] = scan[q]
      BY <1>1, <3>1, <3>2 DEF TypeOK
    <3>4. ScanOK(p)'  BY <1>3, <1>4, <2>1, <2>2, <3>1, <3>3 DEF ScanOK
    <3>5. lease' \in [Steps -> NewestLease]  BY <1>1, <2>3 DEF TypeOK
    <3>6. QED BY <1>1, <3>3, <3>4, <3>5, ScanMoves
  <2>4. CASE /\ lease[s].version < MaxVersion /\ lease' = Granted(s)
             /\ scan' = [scan EXCEPT ![p] =
                          [scan[p] EXCEPT !.stage = "ready",
                                          !.version = lease[s].version + 1]]
    <3> DEFINE a == [scan[p] EXCEPT !.stage = "ready"]
               item == [a EXCEPT !.version = lease[s].version + 1]
    <3>1. lease[s].version + 1 \in Versions
      BY <1>1, <2>2, <2>4, ExecutorAssumption DEF TypeOK, NewestLease, Versions
    <3>2. a \in Item /\ a.stage = "ready" /\ a.step = s
      BY <1>1 DEF Item
    <3> HIDE DEF a
    <3>3. item \in Item /\ item.stage = "ready" /\ item.step = s
          /\ item.version \in Versions
      BY <3>1, <3>2, ExecutorAssumption DEF Item, Versions
    <3> HIDE DEF item
    <3>4. scan' = [scan EXCEPT ![p] = item]  BY <2>4 DEF a, item
    <3>5. scan' \in [Supervisors -> Item] /\ scan'[p] = item
          /\ \A q \in Supervisors : q # p => scan'[q] = scan[q]
      BY <1>1, <3>3, <3>4 DEF TypeOK
    <3>6. ScanOK(p)'  BY <1>3, <1>4, <2>1, <2>2, <3>3, <3>5 DEF ScanOK
    <3>7. lease' \in [Steps -> NewestLease]  BY <1>1, <2>2, <2>4, LeaseTables
    <3>8. QED BY <1>1, <3>5, <3>6, <3>7, ScanMoves
  <2>5. CASE lease' = lease /\ scan' = [scan EXCEPT ![p] = NoItem]
    <3>1. scan' \in [Supervisors -> Item] /\ scan'[p] = NoItem
          /\ \A q \in Supervisors : q # p => scan'[q] = scan[q]
      BY <1>1, <1>2, <2>5 DEF TypeOK
    <3>2. ScanOK(p)'  BY <1>2, <3>1 DEF ScanOK
    <3>3. lease' \in [Steps -> NewestLease]  BY <1>1, <2>5 DEF TypeOK
    <3>4. QED BY <1>1, <3>1, <3>2, <3>3, ScanMoves
  <2>6. QED BY <1>6, <2>3, <2>4, <2>5 DEF TakeCandidate, Skip
<1>. QED BY <1>5, <1>6

-----------------------------------------------------------------------------
(* The invariant *)

\* A step takes a slot only by a claim, which has found the capacity for it.
SlotsGrow ==
  \/ Slots' \subseteq Slots
  \/ \E l \in LeaseIds : CapacityAvailable(l) /\ Slots' \subseteq Slots \cup {l}

\* Nothing has been claimed at first.
LEMMA InitHolds == Init => IInv /\ Slots = {}
<1> SUFFICES ASSUME Init  PROVE IInv /\ Slots = {}
  OBVIOUS
<1>1. NoRun \in RunRow /\ NoRun.token = 0 /\ ~NoRun.pid /\ NoRun.launches = 0
      /\ NoRun.continuations = 0 /\ NoRun.begun = 0
  BY ExecutorAssumption DEF NoRun, RunRow, RunStatus
<1>2. NoAttempt \in Attempt /\ NoAttempt.phase = "unused" /\ NoAttempt.proc = "none"
  BY ExecutorAssumption DEF NoAttempt, Attempt, Phases
<1>3. NoItem \in Item /\ NoItem.stage = "idle"
  BY ExecutorAssumption DEF NoItem, Item
<1>4. \A s \in Steps : lease[s] \in NewestLease
  BY ExecutorAssumption DEF Init, NewestLease, LeaseStatus
<1>5. /\ \A l \in LeaseIds : run[l] = NoRun
      /\ \A t \in Attempts : attempt[t] = NoAttempt
      /\ \A p \in Supervisors : scan[p] = NoItem
  BY DEF Init
<1>6. TypeOK  BY <1>1, <1>2, <1>3, <1>4 DEF Init, TypeOK
<1>7. \A l \in LeaseIds : TokenOK(l) /\ CountOK(l)
  BY <1>1, <1>5 DEF TokenOK, CountOK
<1>8. \A t \in Attempts : ~Held(t) /\ ~ProcessAlive(t) /\ AttemptOK(t)
  BY <1>2, <1>5 DEF AttemptOK, Held, ProcessAlive
<1>9. \A p \in Supervisors : ScanOK(p)  BY <1>3, <1>5 DEF ScanOK
<1>10. OneHeldPerStep  BY <1>8 DEF OneHeldPerStep
<1>11. Slots = {}  BY <1>1, <1>5 DEF Slots, StillOwned
<1>. QED BY <1>6, <1>7, <1>8, <1>9, <1>10, <1>11 DEF IInv

\* A supervisor's scan.
LEMMA ScanStepHolds ==
  ASSUME IInv, NEW p \in Supervisors, ScanStep(p)
  PROVE  IInv' /\ SlotsGrow
<1>1. TypeOK /\ ScanOK(p)  BY DEF IInv
<1>2. NoItem \in Item /\ NoItem.stage = "idle"
  BY ExecutorAssumption DEF NoItem, Item
<1>3. ASSUME Skip(p), UNCHANGED <<run, attempt>>, lease' \in [Steps -> NewestLease]
      PROVE  IInv' /\ Slots' \subseteq Slots
  <2>1. scan' \in [Supervisors -> Item]
        /\ \A q \in Supervisors : scan'[q] = scan[q] \/ scan'[q].stage = "idle"
    BY <1>1, <1>2, <1>3 DEF Skip, TypeOK
  <2>2. run' \in [LeaseIds -> RunRow] /\ attempt' \in [Attempts -> Attempt]
    BY <1>1, <1>3 DEF TypeOK
  <2>3. QED BY <1>3, <2>1, <2>2, WindingDown
<1>4. CASE SkipCandidate(p) \/ ClaimRefused(p)
  BY <1>1, <1>3, <1>4 DEF SkipCandidate, ClaimRefused, TypeOK, SlotsGrow
<1>5. CASE ConfigMissing(p)
  <2>1. scan[p].step \in Steps /\ lease \in [Steps -> NewestLease]
    BY <1>1, <1>5 DEF ConfigMissing, ScanOK, TypeOK
  <2>2. lease' \in [Steps -> NewestLease]
    BY <1>1, <1>5, <2>1, LeaseTables DEF ConfigMissing
  <2>3. QED BY <1>3, <1>5, <2>2 DEF ConfigMissing, SlotsGrow
<1>6. CASE RetryExhausted(p)
  <2>1. scan[p].step \in Steps
    BY <1>1, <1>6 DEF RetryExhausted, ScanOK
  <2>2. lease' \in [Steps -> NewestLease]
    BY <1>1, <1>6, <2>1, LeaseTables DEF RetryExhausted
  <2>3. QED BY <1>3, <1>6, <2>2 DEF RetryExhausted, SlotsGrow
<1>7. CASE (\E s \in Steps : ReadCandidate(p, s)) \/ TakeCandidate(p)
  BY <1>7, ScanBegins DEF SlotsGrow
<1>8. ASSUME NEW t \in Attempts, ClaimExecution(p, t)  PROVE IInv' /\ SlotsGrow
  BY <1>8, ClaimBegins DEF SlotsGrow
<1>. QED BY <1>4, <1>5, <1>6, <1>7, <1>8 DEF ScanStep, SlotsGrow

\* What a supervisor does with an attempt.
LEMMA AttemptStepHolds ==
  ASSUME IInv, NEW t \in Attempts, AttemptStep(t)
  PROVE  IInv' /\ Slots' \subseteq Slots
<1>1. TypeOK /\ AttemptOK(t) /\ attempt[t] \in Attempt  BY DEF IInv, TypeOK
<1>2. lease \in [Steps -> NewestLease]  BY <1>1 DEF TypeOK
<1>3. attempt[t].phase = "claimed" => attempt[t].step \in Steps
  BY <1>1 DEF AttemptOK, Held
<1>4. CASE PrepareLease(t)
  <2>1. lease' \in [Steps -> NewestLease]
    BY <1>1, <1>3, <1>4, LeaseTables DEF PrepareLease, LeaseStatus
  <2>2. QED BY <1>4, <2>1, Advances DEF PrepareLease
<1>5. CASE Launch(t)
  BY <1>2, <1>5, Advances DEF Launch
<1>6. CASE PrepareFreezes(t)
  <2>1. lease' \in [Steps -> NewestLease]
    BY <1>1, <1>3, <1>6, LeaseTables DEF PrepareFreezes
  <2>2. attempt[t].proc # "working" /\ Held(t)
    BY <1>1, <1>6 DEF AttemptOK, Held, PrepareFreezes
  <2>3. QED BY <1>6, <2>1, <2>2, Retires DEF PrepareFreezes, Released, Done
<1>7. CASE PrepareFails(t) \/ LaunchFails(t)
  <2>1. attempt[t].proc # "working" /\ Held(t)
    BY <1>1, <1>7 DEF AttemptOK, Held, PrepareFails, LaunchFails
  <2>2. QED BY <1>2, <1>7, <2>1, Retires DEF PrepareFails, LaunchFails, Released, Done
<1>8. CASE ConfirmFails(t)
  <2>1. Held(t)  BY <1>8 DEF Held, ConfirmFails
  <2>2. QED BY <1>2, <1>8, <2>1, Retires DEF ConfirmFails, Released
<1>9. CASE Wait(t)
  <2>1. attempt[t].proc # "working" /\ Held(t)  BY <1>9 DEF Held, Wait
  <2>2. QED BY <1>2, <1>9, <2>1, Retires DEF Wait, Done
<1>10. CASE ConfirmLaunch(t)  BY <1>10, LaunchConfirmed
<1>. QED BY <1>4, <1>5, <1>6, <1>7, <1>8, <1>9, <1>10 DEF AttemptStep

\* What a worker process does.
LEMMA WorkerStepHolds ==
  ASSUME IInv, NEW t \in Attempts, WorkerStep(t)
  PROVE  IInv' /\ Slots' \subseteq Slots
<1>1. TypeOK /\ AttemptOK(t)  BY DEF IInv
<1>2. lease \in [Steps -> NewestLease]  BY <1>1 DEF TypeOK
<1>3. ProcessAlive(t) => attempt[t].step \in Steps  BY <1>1 DEF AttemptOK
<1>4. CASE StartRun(t)  BY <1>4, WorkBegins
<1>5. CASE WorkerDies(t)
  BY <1>2, <1>5, ProcessEnds DEF WorkerDies
<1>6. ASSUME Exit(t), lease' \in [Steps -> NewestLease]
      PROVE  IInv' /\ Slots' \subseteq Slots
  <2>1. ProcessAlive(t)  BY <1>6 DEF Exit, ProcessAlive
  <2>2. QED BY <1>6, <2>1, ProcessEnds DEF Exit
<1>7. CASE WorkerCompletes(t)
  <2>1. ProcessAlive(t)  BY <1>7 DEF WorkerCompletes, ProcessAlive
  <2>2. lease' \in [Steps -> NewestLease]
    BY <1>1, <1>3, <1>7, <2>1, LeaseTables DEF WorkerCompletes, LeaseStatus
  <2>3. QED BY <1>6, <1>7, <2>2 DEF WorkerCompletes
<1>8. CASE WorkerStops(t)  BY <1>2, <1>6, <1>8 DEF WorkerStops
<1>9. CASE WorkerFails(t)
  <2>1. ProcessAlive(t)  BY <1>9 DEF WorkerFails, ProcessAlive
  <2>2. lease' \in [Steps -> NewestLease]
    BY <1>1, <1>3, <1>9, <2>1, LeaseTables DEF WorkerFails
  <2>3. QED BY <1>6, <1>9, <2>2 DEF WorkerFails
<1>. QED BY <1>4, <1>5, <1>7, <1>8, <1>9 DEF WorkerStep

\* What happens to a lease or to a claim without either of them.
LEMMA OtherStepHolds ==
  ASSUME IInv,
         \/ \E s \in Steps : StepEvent(s)
         \/ \E l \in LeaseIds : ClaimExpires(l)
         \/ UNCHANGED vars
  PROVE  IInv' /\ Slots' \subseteq Slots
<1>1. TypeOK  BY DEF IInv
<1>2. /\ lease \in [Steps -> NewestLease] /\ run \in [LeaseIds -> RunRow]
      /\ attempt \in [Attempts -> Attempt] /\ scan \in [Supervisors -> Item]
  BY <1>1 DEF TypeOK
<1>3. ASSUME NEW s \in Steps, StepEvent(s)  PROVE IInv' /\ Slots' \subseteq Slots
  <2>1. lease' \in [Steps -> NewestLease]
    BY <1>1, <1>3, LeaseTables
    DEF StepEvent, Interrupt, AdminFreeze, Regrant, RequestChanges, LeaseStatus
  <2>2. UNCHANGED <<run, attempt, scan>>
    BY <1>3 DEF StepEvent, Interrupt, AdminFreeze, Regrant, RequestChanges
  <2>3. QED BY <1>2, <2>1, <2>2, WindingDown
<1>4. ASSUME NEW l \in LeaseIds, ClaimExpires(l)  PROVE IInv' /\ Slots' \subseteq Slots
  <2> DEFINE row == [run[l] EXCEPT !.fresh = FALSE]
  <2>1. /\ row \in RunRow /\ row.token = run[l].token /\ row.pid = run[l].pid
        /\ ~row.fresh /\ row.launches = run[l].launches
        /\ row.continuations = run[l].continuations /\ row.begun = run[l].begun
    BY <1>2 DEF RunRow
  <2> HIDE DEF row
  <2>2. run' = [run EXCEPT ![l] = row] /\ UNCHANGED <<lease, attempt, scan>>
    BY <1>4 DEF ClaimExpires, row
  <2>3. run' \in [LeaseIds -> RunRow]
        /\ \A k \in LeaseIds : run'[k] = run[k] \/ Wound(k)
    BY <1>2, <2>1, <2>2 DEF Wound
  <2>4. QED BY <1>2, <2>2, <2>3, WindingDown
<1>5. CASE UNCHANGED vars
  BY <1>2, <1>5, WindingDown DEF vars
<1>. QED BY <1>3, <1>4, <1>5

\* Every step keeps the invariant.
LEMMA StepHolds == IInv /\ [Next]_vars => IInv' /\ SlotsGrow
<1> SUFFICES ASSUME IInv, [Next]_vars  PROVE IInv' /\ SlotsGrow
  OBVIOUS
<1>1. ASSUME NEW p \in Supervisors, ScanStep(p)  PROVE IInv' /\ SlotsGrow
  BY <1>1, ScanStepHolds
<1>2. ASSUME NEW p \in Supervisors, SupervisorCrash(p)  PROVE IInv' /\ SlotsGrow
  BY <1>2, CrashEnds DEF SlotsGrow
<1>3. ASSUME NEW t \in Attempts, AttemptStep(t) \/ WorkerStep(t)
      PROVE  IInv' /\ SlotsGrow
  BY <1>3, AttemptStepHolds, WorkerStepHolds DEF SlotsGrow
<1>4. CASE \/ \E s \in Steps : StepEvent(s)
           \/ \E l \in LeaseIds : ClaimExpires(l)
           \/ UNCHANGED vars
  BY <1>4, OtherStepHolds DEF SlotsGrow
<1>. QED BY <1>1, <1>2, <1>3, <1>4 DEF Next

\* Run rows, attempts and scans agree with each other at all times.
THEOREM InvariantHolds == Spec => []IInv
<1>1. Init => IInv  BY InitHolds
<1>2. IInv /\ [Next]_vars => IInv'  BY StepHolds
<1>. QED BY <1>1, <1>2, PTL DEF Spec

\* The tables of leases, rows, attempts and scans keep their types.
THEOREM TypeHolds == Spec => []TypeOK
BY InvariantHolds, PTL DEF IInv

\* However supervisors crash, claims expire and launches are confirmed late, a
\* process that works owns the row of its lease.
THEOREM WorkersOwnTheirRuns == Spec => []WorkerOwnsItsRun
<1>1. IInv => WorkerOwnsItsRun  BY DEF IInv, AttemptOK, WorkerOwnsItsRun, Working
<1>. QED BY <1>1, InvariantHolds, PTL

\* A lease is worked on at most 1 + MaxContinuations times.
THEOREM StartsBounded == Spec => []StartsAreBounded
<1>1. IInv => StartsAreBounded
  <2> SUFFICES ASSUME IInv, NEW l \in LeaseIds
               PROVE  run[l].begun <= 1 + MaxContinuations
    BY DEF StartsAreBounded
  <2>1. run[l] \in RunRow /\ CountOK(l)  BY DEF IInv, TypeOK
  <2>2. /\ run[l].begun \in Nat /\ run[l].launches \in Nat /\ MaxContinuations \in Nat
        /\ run[l].launches <= MaxContinuations + 1
    BY <2>1, ExecutorAssumption DEF RunRow
  <2>3. run[l].begun <= run[l].launches  BY <2>1 DEF CountOK
  <2>4. QED BY <2>2, <2>3
<1>. QED BY <1>1, InvariantHolds, PTL

\* No supervisor ever has two active workers of one step.
THEOREM OneActive == Spec => []OneActivePerStep
<1>1. IInv => OneActivePerStep
  BY DEF IInv, OneHeldPerStep, OneActivePerStep, Active, Held
<1>. QED BY <1>1, InvariantHolds, PTL

-----------------------------------------------------------------------------
(* The lease of a step *)

\* What the owner of the step may see happen to it.
OwnerStep(s) == [Ownership(s)!Next]_(Ownership(s)!vars)

\* Any change of a step's lease is one the lease tables offer.
LEMMA LeaseStepOwned ==
  ASSUME IInv, NEW s \in Steps,
         \/ lease'[s] = lease[s]
         \/ /\ lease[s].status \in {"active", "interrupted"}
            /\ lease'[s] = [version |-> lease[s].version, status |-> "frozen"]
         \/ /\ lease[s].status \in {"active", "interrupted"}
            /\ lease'[s] = [version |-> lease[s].version, status |-> "active"]
         \/ /\ lease[s].status = "active"
            /\ lease'[s].status \in {"interrupted", "review"}
            /\ lease'[s].version = lease[s].version
         \/ /\ lease[s].status = "review"
            /\ lease'[s] = [version |-> lease[s].version, status |-> "none"]
         \/ /\ lease[s].status \in {"none", "frozen", "interrupted"}
            /\ lease'[s] = [version |-> lease[s].version + 1, status |-> "active"]
  PROVE  OwnerStep(s)
BY DEF OwnerStep, Ownership!Next, Ownership!vars, Ownership!Grant, Ownership!TakeOver,
  Ownership!Move, Ownership!Pause, Ownership!Resume, Ownership!Freeze,
  Ownership!Submit, Ownership!Return, Ownership!Accept, Phase

\* What moving a lease leaves of each lease.
LEMMA MovedLease ==
  ASSUME TypeOK, NEW s \in Steps, NEW st, NEW r \in Steps
  PROVE  Moved(s, st)[r] = IF r = s THEN [version |-> lease[s].version, status |-> st]
                                    ELSE lease[r]
<1>1. lease \in [Steps -> NewestLease] /\ lease[s] \in NewestLease  BY DEF TypeOK
<1>2. [lease[s] EXCEPT !.status = st] = [version |-> lease[s].version, status |-> st]
  BY <1>1 DEF NewestLease
<1>3. Moved(s, st) = [lease EXCEPT ![s] = [lease[s] EXCEPT !.status = st]]
  BY DEF Moved
<1>. QED BY <1>1, <1>2, <1>3

\* What freezing a step and granting it leave.
LEMMA FrozenOrGranted ==
  ASSUME TypeOK, NEW s \in Steps, NEW r \in Steps
  PROVE  /\ \/ Frozen(s)[r] = lease[r]
            \/ /\ lease[r].status \in {"active", "interrupted"}
               /\ Frozen(s)[r] = [version |-> lease[r].version, status |-> "frozen"]
         /\ Granted(s)[r] = IF r = s THEN [version |-> lease[s].version + 1,
                                           status |-> "active"] ELSE lease[r]
<1>1. Moved(s, "frozen")[r] = IF r = s THEN [version |-> lease[s].version,
                                             status |-> "frozen"] ELSE lease[r]
  BY MovedLease
<1>2. \/ Frozen(s)[r] = lease[r]
      \/ /\ lease[r].status \in {"active", "interrupted"}
         /\ Frozen(s)[r] = [version |-> lease[r].version, status |-> "frozen"]
  BY <1>1 DEF Frozen
<1>3. Granted(s)[r] = IF r = s THEN [version |-> lease[s].version + 1,
                                     status |-> "active"] ELSE lease[r]
  BY DEF Granted, TypeOK
<1>. QED BY <1>2, <1>3

\* Every step of the executor is one the owner of a step's lease may take.
LEMMA NextOwned ==
  ASSUME IInv, [Next]_vars, NEW r \in Steps
  PROVE  OwnerStep(r)
<1>1. TypeOK  BY DEF IInv
<1>2. CASE lease' = lease  BY <1>2, LeaseStepOwned
<1>3. ASSUME NEW s \in Steps, lease' = Frozen(s)
      PROVE  OwnerStep(r)
  BY <1>1, <1>3, FrozenOrGranted, LeaseStepOwned
<1>4. ASSUME NEW s \in Steps, NEW st, lease' = Moved(s, st),
             \/ lease[s].status \in {"active", "interrupted"} /\ st = "active"
             \/ lease[s].status = "active" /\ st \in {"interrupted", "review"}
             \/ lease[s].status = "review" /\ st = "none"
      PROVE  OwnerStep(r)
  <2>1. Moved(s, st)[r] = IF r = s THEN [version |-> lease[s].version, status |-> st]
                                   ELSE lease[r]
    BY <1>1, MovedLease
  <2>2. CASE r # s  BY <1>4, <2>1, <2>2, LeaseStepOwned
  <2>3. CASE r = s
    <3>1. lease'[r] = [version |-> lease[r].version, status |-> st]
      BY <1>4, <2>1, <2>3
    <3>2. lease'[r].version = lease[r].version /\ lease'[r].status = st  BY <3>1
    <3>3. QED BY <1>4, <2>3, <3>1, <3>2, LeaseStepOwned
  <2>4. QED BY <2>2, <2>3
<1>5. ASSUME NEW s \in Steps, lease' = Granted(s),
             lease[s].status \in {"none", "frozen", "interrupted"}
      PROVE  OwnerStep(r)
  <2>1. Granted(s)[r] = IF r = s THEN [version |-> lease[s].version + 1,
                                       status |-> "active"] ELSE lease[r]
    BY <1>1, FrozenOrGranted
  <2>2. CASE r # s  BY <1>5, <2>1, <2>2, LeaseStepOwned
  <2>3. CASE r = s  BY <1>5, <2>1, <2>3, LeaseStepOwned
  <2>4. QED BY <2>2, <2>3
<1>6. ASSUME NEW s \in Steps, StepEvent(s)
      PROVE  OwnerStep(r)
  <2>1. CASE AdminFreeze(s)  BY <1>3, <2>1 DEF AdminFreeze
  <2>2. CASE Interrupt(s) \/ RequestChanges(s)
    BY <1>4, <2>2 DEF Interrupt, RequestChanges
  <2>3. CASE Regrant(s)  BY <1>5, <2>3 DEF Regrant
  <2>4. QED BY <1>6, <2>1, <2>2, <2>3 DEF StepEvent
<1>7. ASSUME NEW p \in Supervisors, ScanStep(p)
      PROVE  OwnerStep(r)
  <2>1. scan[p].stage # "idle" => scan[p].step \in Steps  BY DEF IInv, ScanOK
  <2>2. CASE ConfigMissing(p) \/ RetryExhausted(p)
    BY <1>2, <1>3, <2>1, <2>2 DEF ConfigMissing, RetryExhausted
  <2>3. CASE TakeCandidate(p)
    BY <1>2, <1>5, <2>1, <2>3 DEF TakeCandidate
  <2>4. CASE SkipCandidate(p) \/ ClaimRefused(p)
    BY <1>2, <2>4 DEF SkipCandidate, ClaimRefused
  <2>5. CASE \E s \in Steps : ReadCandidate(p, s)
    BY <1>2, <2>5 DEF ReadCandidate
  <2>6. CASE \E t \in Attempts : ClaimExecution(p, t)
    BY <1>2, <2>6 DEF ClaimExecution
  <2>7. QED BY <1>7, <2>2, <2>3, <2>4, <2>5, <2>6 DEF ScanStep
<1>8. ASSUME NEW t \in Attempts, AttemptStep(t)
      PROVE  OwnerStep(r)
  <2>1. attempt[t].phase = "claimed" => attempt[t].step \in Steps
    BY DEF IInv, AttemptOK, Held
  <2>2. CASE PrepareLease(t)
    BY <1>4, <2>1, <2>2 DEF PrepareLease
  <2>3. CASE PrepareFreezes(t)  BY <1>3, <2>1, <2>3 DEF PrepareFreezes
  <2>4. CASE PrepareFails(t) \/ LaunchFails(t) \/ Launch(t)
    BY <1>2, <2>4 DEF PrepareFails, LaunchFails, Launch
  <2>5. CASE ConfirmLaunch(t) \/ ConfirmFails(t) \/ Wait(t)
    BY <1>2, <2>5 DEF ConfirmLaunch, ConfirmFails, Wait
  <2>6. QED BY <1>8, <2>2, <2>3, <2>4, <2>5 DEF AttemptStep
<1>9. ASSUME NEW t \in Attempts, WorkerStep(t)
      PROVE  OwnerStep(r)
  <2>1. attempt[t].proc = "working" => attempt[t].step \in Steps
    BY DEF IInv, AttemptOK, ProcessAlive
  <2>2. CASE WorkerCompletes(t)
    <3>1. /\ attempt[t].step \in Steps /\ lease[attempt[t].step].status = "active"
          /\ lease' = Moved(attempt[t].step, "review")
      BY <2>1, <2>2 DEF WorkerCompletes
    <3>2. QED BY <1>4, <3>1
  <2>3. CASE WorkerFails(t)  BY <1>3, <2>1, <2>3 DEF WorkerFails
  <2>4. CASE StartRun(t) \/ WorkerDies(t) \/ WorkerStops(t)
    BY <1>2, <2>4 DEF StartRun, WorkerDies, WorkerStops
  <2>5. QED BY <1>9, <2>2, <2>3, <2>4 DEF WorkerStep
<1>10. CASE \/ \E p \in Supervisors : SupervisorCrash(p)
            \/ \E l \in LeaseIds : ClaimExpires(l)
            \/ UNCHANGED vars
  BY <1>2, <1>10 DEF SupervisorCrash, ClaimExpires, vars
<1>11. CASE \E s \in Steps : StepEvent(s)  BY <1>6, <1>11
<1>12. CASE \E p \in Supervisors : ScanStep(p)  BY <1>7, <1>12
<1>13. CASE \E t \in Attempts : AttemptStep(t) \/ WorkerStep(t)
  BY <1>8, <1>9, <1>13
<1>. QED BY <1>10, <1>11, <1>12, <1>13 DEF Next

\* Supervisors and workers of any age never revive a lease that has ended.
THEOREM OwnershipKept == Spec => KeepsOwnership
<1>1. Init => \A s \in Steps : Ownership(s)!Init
  BY DEF Init, Ownership!Init, Phase
<1>2. IInv /\ [Next]_vars => \A s \in Steps : [Ownership(s)!Next]_(Ownership(s)!vars)
  BY NextOwned DEF OwnerStep
<1>. QED BY <1>1, <1>2, InvariantHolds, PTL DEF Spec, KeepsOwnership

-----------------------------------------------------------------------------
(* Capacity *)

\* A set that misses at most one element of another is at most one smaller.
LEMMA OneMore ==
  ASSUME NEW S, IsFiniteSet(S), NEW x, NEW T, T \subseteq S \cup {x},
         NEW n \in Nat, Cardinality(S) < n
  PROVE  Cardinality(T) <= n
<1>1. Cardinality(S) \in Nat  BY FS_CardinalityType
<1>2. IsFiniteSet(S \cup {x}) /\ Cardinality(S \cup {x}) <= Cardinality(S) + 1
  <2>1. /\ IsFiniteSet(S \cup {x})
        /\ Cardinality(S \cup {x}) = IF x \in S THEN Cardinality(S)
                                                 ELSE Cardinality(S) + 1
    BY FS_AddElement
  <2>2. QED BY <1>1, <2>1
<1>3. Cardinality(T) <= Cardinality(S \cup {x}) /\ IsFiniteSet(T)
  BY <1>2, FS_Subset
<1>4. Cardinality(S \cup {x}) \in Nat /\ Cardinality(T) \in Nat
  BY <1>2, <1>3, FS_CardinalityType
<1>. QED BY <1>1, <1>2, <1>3, <1>4

\* There are finitely many leases, so the provers may count some of them.
LEMMA LeasesFinite == \A S \in SUBSET LeaseIds : IsFiniteSet(S)
<1>1. IsFiniteSet(Versions)  BY ExecutorAssumption, FS_Interval DEF Versions
<1>2. IsFiniteSet(LeaseIds)  BY <1>1, ExecutorAssumption, FS_Product DEF LeaseIds
<1>. QED BY <1>2, FS_Subset

\* The first claim has all the room, and every other claim found enough.
LEMMA CapacityHolds ==
  /\ Init => CapOK
  /\ IInv /\ CapOK /\ [Next]_vars => CapOK'
<1>1. ASSUME Init  PROVE CapOK
  <2>1. Slots = {}  BY <1>1, InitHolds
  <2>2. \A s \in Steps : {l \in Slots : AgentOf[l[1]] = AgentOf[s]} = {}  BY <2>1
  <2>3. Cardinality({}) = 0  BY FS_EmptySet
  <2>4. QED BY <2>1, <2>2, <2>3, ExecutorAssumption DEF CapOK
<1>2. ASSUME IInv, CapOK, [Next]_vars  PROVE CapOK'
  <2>1. SlotsGrow  BY <1>2, StepHolds
  <2>2. Slots \subseteq LeaseIds  BY DEF Slots
  <2>3. ASSUME NEW U \in SUBSET Slots, NEW T \in SUBSET U, NEW n \in Nat,
               Cardinality(U) <= n
        PROVE  Cardinality(T) <= n
    <3>1. IsFiniteSet(U)  BY <2>2, LeasesFinite
    <3>2. IsFiniteSet(T) /\ Cardinality(T) <= Cardinality(U)  BY <3>1, FS_Subset
    <3>3. Cardinality(T) \in Nat /\ Cardinality(U) \in Nat
      BY <3>1, <3>2, FS_CardinalityType
    <3>4. QED BY <2>3, <3>2, <3>3
  <2>4. CASE Slots' \subseteq Slots
    <3>1. Cardinality(Slots') <= GlobalLimit
      BY <1>2, <2>3, <2>4, ExecutorAssumption DEF CapOK
    <3>2. ASSUME NEW s \in Steps
          PROVE  Cardinality({k \in Slots' : AgentOf[k[1]] = AgentOf[s]}) <= AgentLimit
      <4> DEFINE U == {k \in Slots : AgentOf[k[1]] = AgentOf[s]}
                 T == {k \in Slots' : AgentOf[k[1]] = AgentOf[s]}
      <4>1. Cardinality(U) <= AgentLimit  BY <1>2 DEF CapOK
      <4>2. U \in SUBSET Slots /\ T \in SUBSET U  BY <2>4
      <4> HIDE DEF U, T
      <4>3. Cardinality(T) <= AgentLimit
        BY <2>3, <4>1, <4>2, ExecutorAssumption
      <4>4. QED BY <4>3 DEF T
    <3>3. QED BY <3>1, <3>2 DEF CapOK
  <2>5. ASSUME NEW l \in LeaseIds, CapacityAvailable(l), Slots' \subseteq Slots \cup {l}
        PROVE  CapOK'
    <3> DEFINE others == {k \in LeaseIds \ {l} : StillOwned(run[k])}
    <3>1. /\ Cardinality(others) < GlobalLimit
          /\ Cardinality({k \in others : AgentOf[k[1]] = AgentOf[l[1]]}) < AgentLimit
      BY <2>5 DEF CapacityAvailable
    <3>2. Slots \subseteq others \cup {l} /\ others \subseteq LeaseIds
      BY DEF Slots
    <3> HIDE DEF others
    <3>3. Cardinality(Slots') <= GlobalLimit
      <4>1. Slots' \subseteq others \cup {l} /\ IsFiniteSet(others)
        BY <2>5, <3>2, LeasesFinite
      <4>2. QED BY <3>1, <4>1, OneMore, ExecutorAssumption
    <3>4. ASSUME NEW s \in Steps
          PROVE  Cardinality({k \in Slots' : AgentOf[k[1]] = AgentOf[s]}) <= AgentLimit
      <4> DEFINE T == {k \in Slots' : AgentOf[k[1]] = AgentOf[s]}
                 U == {k \in Slots : AgentOf[k[1]] = AgentOf[s]}
                 O == {k \in others : AgentOf[k[1]] = AgentOf[l[1]]}
      <4>1. CASE AgentOf[s] = AgentOf[l[1]]
        <5>1. T \subseteq O \cup {l}  BY <2>5, <3>2, <4>1
        <5>2. IsFiniteSet(O) /\ Cardinality(O) < AgentLimit
          BY <3>1, <3>2, LeasesFinite
        <5> HIDE DEF T, O
        <5>3. Cardinality(T) <= AgentLimit
          BY <5>1, <5>2, OneMore, ExecutorAssumption
        <5>4. QED BY <5>3 DEF T
      <4>2. CASE AgentOf[s] # AgentOf[l[1]]
        <5>1. U \in SUBSET Slots /\ T \in SUBSET U  BY <2>5, <4>2
        <5>2. Cardinality(U) <= AgentLimit  BY <1>2 DEF CapOK
        <5> HIDE DEF T, U
        <5>3. Cardinality(T) <= AgentLimit
          BY <2>3, <5>1, <5>2, ExecutorAssumption
        <5>4. QED BY <5>3 DEF T
      <4>3. QED BY <4>1, <4>2
    <3>5. QED BY <3>3, <3>4 DEF CapOK
  <2>6. QED BY <2>1, <2>4, <2>5 DEF SlotsGrow
<1>. QED BY <1>1, <1>2

\* Different workers occupy the slots of different leases.
LEMMA WorkersTakeSlots ==
  ASSUME IInv, NEW P, P \subseteq {t \in Working : ~attempt[t].late},
         NEW S, S \subseteq Slots, \A t \in P : LeaseOf(t) \in S,
         NEW n \in Nat, Cardinality(S) <= n
  PROVE  Cardinality(P) <= n
<1> DEFINE f == [t \in P |-> LeaseOf(t)]
<1>1. \A t \in P : run[LeaseOf(t)].token = t
  BY DEF IInv, AttemptOK, Working
<1>2. f \in [P -> S] /\ \A t \in P : f[t] = LeaseOf(t)  OBVIOUS
<1>3. \A t, u \in P : f[t] = f[u] => t = u  BY <1>1, <1>2
<1>4. f \in Injection(P, S)  BY <1>2, <1>3 DEF Injection, IsInjective
<1>5. S \in SUBSET LeaseIds  BY DEF Slots
<1>6. IsFiniteSet(S)  BY <1>5, LeasesFinite
<1> HIDE DEF f
<1>7. IsFiniteSet(P) /\ Cardinality(P) <= Cardinality(S)
  BY <1>4, <1>6, FS_Injection
<1>8. Cardinality(P) \in Nat /\ Cardinality(S) \in Nat
  BY <1>6, <1>7, FS_CardinalityType
<1>. QED BY <1>7, <1>8

\* Across all supervisors no more workers work than the limits allow, unless
\* they were confirmed after their claim had expired.
THEOREM LimitsHold == Spec => []WorkersWithinLimits
<1>1. IInv /\ CapOK => WorkersWithinLimits
  <2> SUFFICES ASSUME IInv, CapOK  PROVE WorkersWithinLimits
    OBVIOUS
  <2> DEFINE prompt == {t \in Working : ~attempt[t].late}
  <2>1. \A t \in prompt : LeaseOf(t) \in Slots /\ LeaseOf(t)[1] = attempt[t].step
    <3> TAKE t \in prompt
    <3>1. t \in Attempts /\ attempt[t].proc = "working" /\ ~attempt[t].late /\ t # 0
      BY DEF Working, Attempts
    <3>2. AttemptOK(t) /\ ProcessAlive(t)  BY <3>1 DEF IInv, ProcessAlive
    <3>3. LeaseOf(t) \in LeaseIds /\ run[LeaseOf(t)].token = t /\ run[LeaseOf(t)].pid
      BY <3>1, <3>2 DEF AttemptOK, LeaseOf, LeaseIds
    <3>4. QED BY <3>1, <3>2, <3>3 DEF Slots, StillOwned, LeaseOf
  <2>2. Cardinality(prompt) <= GlobalLimit
    <3>1. Cardinality(Slots) <= GlobalLimit  BY DEF CapOK
    <3>2. QED BY <2>1, <3>1, WorkersTakeSlots, ExecutorAssumption
  <2>3. ASSUME NEW s \in Steps
        PROVE  Cardinality({t \in prompt : AgentOf[attempt[t].step] = AgentOf[s]})
                 <= AgentLimit
    <3> DEFINE P == {t \in prompt : AgentOf[attempt[t].step] = AgentOf[s]}
               S == {l \in Slots : AgentOf[l[1]] = AgentOf[s]}
    <3>1. P \subseteq {t \in Working : ~attempt[t].late} /\ S \subseteq Slots
      OBVIOUS
    <3>2. \A t \in P : LeaseOf(t) \in S  BY <2>1
    <3>3. Cardinality(S) <= AgentLimit  BY DEF CapOK
    <3> HIDE DEF P, S
    <3>4. Cardinality(P) <= AgentLimit
      BY <3>1, <3>2, <3>3, WorkersTakeSlots, ExecutorAssumption
    <3>5. QED BY <3>4 DEF P
  <2>4. QED BY <2>2, <2>3 DEF WorkersWithinLimits
<1>2. Init => CapOK  BY CapacityHolds
<1>3. IInv /\ CapOK /\ [Next]_vars => CapOK'  BY CapacityHolds
<1>. QED BY <1>1, <1>2, <1>3, InvariantHolds, PTL DEF Spec

=============================================================================
