--------------------------- MODULE Watches_proofs ---------------------------
(***************************************************************************)
(* For any number of watches, reactive passes and slots, with failing      *)
(* statements and crashes: a watch fires once per episode, and only after  *)
(* MinConsecutive breached checks in a row.                                *)
(***************************************************************************)
EXTENDS Watches, OnCall, Counting, TLAPS

-----------------------------------------------------------------------------
(* The on-call agent.                                                      *)
TaskRows == [pc : {"idle", "running", "failed", "lookup", "commented", "claiming", "creating",
                   "linking", "filed", "skipped"},
             key : AlertKeys \cup {"none"}, fp : GroupIds \cup {NoGroup}]

OnCallTypes ==
  /\ ocNow \in Nat /\ ocDay \in Nat /\ ocToday \in 0..MaxPerDay
  /\ ocLastRun \in [AlertKeys -> Int]
  /\ ocTask \in [Filers -> TaskRows]
  /\ ocRow \in [GroupIds -> {Gone, Unfiled} \cup Filers]
  /\ ocIssues \subseteq Filers
  /\ ocRuns \in [Filers -> {<<>>} \cup (AlertKeys \X Nat)]

Ran == {a \in Filers : ocRuns[a] # <<>>}
DayOf(a) == ocRuns[a][2] \div DayLength
RunsOn(d) == {b \in Ran : DayOf(b) = d}

BudgetInv ==
  /\ ocDay <= Today
  /\ \A a \in Ran :
       /\ ocTask[a].pc # "idle" /\ DayOf(a) <= ocDay
       /\ ocRuns[a][2] <= ocLastRun[ocRuns[a][1]]
  /\ \A d \in Nat : Cardinality(RunsOn(d)) <= MaxPerDay
  /\ Cardinality(RunsOn(ocDay)) <= ocToday
  /\ \A a, b \in Ran : a # b /\ ocRuns[a][1] = ocRuns[b][1] =>
       ocRuns[a][2] - ocRuns[b][2] >= Cooldown \/ ocRuns[b][2] - ocRuns[a][2] >= Cooldown

IssueInv(g) ==
  g \notin ocShared =>
    /\ ocRow[g] \in {Unfiled} \cup Filers
    /\ \A a, b \in Filing(g) : a = b
    /\ ocRow[g] = Unfiled => \A a \in ocIssues : ocTask[a].fp = g => ocTask[a].pc = "linking"
    /\ ocRow[g] \in Filers =>
         /\ Filing(g) = {} /\ ocRow[g] \in ocIssues /\ ocTask[ocRow[g]].fp = g
         /\ \A a \in ocIssues : ocTask[a].fp = g => a = ocRow[g]

IssuesInv ==
  /\ \A g \in GroupIds : ocRow[g] \in {Gone, Unfiled} \cup ocIssues
  /\ \A a \in ocIssues : ocTask[a].pc \in {"linking", "filed", "failed"}
  /\ \A a \in Filers : ocTask[a].pc = "linking" => a \in ocIssues /\ ocTask[a].fp # NoGroup
  /\ \A g \in GroupIds : IssueInv(g)

OnCallInv == OnCallTypes /\ BudgetInv /\ IssuesInv

(* The day of an hour never goes back.                                     *)
LEMMA LaterDay ==
  ASSUME NEW n \in Nat
  PROVE n \div DayLength \in Nat /\ n \div DayLength <= (n + 1) \div DayLength
<1>1. DayLength \in Nat /\ DayLength > 0
  BY OnCallLimits
<1> QED BY <1>1

(* A run that was started has an alert key, an hour and a day.             *)
LEMMA EarlierRun ==
  ASSUME OnCallTypes, NEW a \in Ran
  PROVE /\ a \in Filers /\ ocRuns[a] \in AlertKeys \X Nat
        /\ ocRuns[a][1] \in AlertKeys /\ ocRuns[a][2] \in Nat
        /\ DayOf(a) \in Nat /\ ocLastRun[ocRuns[a][1]] \in Int
<1>1. a \in Filers /\ ocRuns[a] \in AlertKeys \X Nat
  BY DEF OnCallTypes, Ran
<1>2. ocRuns[a][1] \in AlertKeys /\ ocRuns[a][2] \in Nat
  BY <1>1
<1>3. DayOf(a) \in Nat
  BY <1>2, LaterDay DEF DayOf
<1> QED BY <1>1, <1>2, <1>3 DEF OnCallTypes

(* The runs started are finitely many.                                     *)
LEMMA RanFinite ==
  ASSUME CountingFacts, NEW S, S \subseteq Ran
  PROVE IsFiniteSet(S) /\ Cardinality(S) \in Nat
<1>1. IsFiniteSet(Filers)
  BY OnCallLimits DEF Filers, CountingFacts, RangesCount
<1>2. S \subseteq Filers
  BY DEF Ran
<1> QED BY <1>1, <1>2 DEF CountingFacts, PartsCount

(* The invariant of the on-call agent holds before the first alert.        *)
LEMMA OnCallStart == CountingFacts /\ OnCallInit => OnCallInv
<1> SUFFICES ASSUME CountingFacts, OnCallInit PROVE OnCallInv
  OBVIOUS
<1> USE DEF OnCallInit
<1>0. OnCallTypes
  <2>1. Idle \in TaskRows
    BY DEF Idle, TaskRows
  <2> QED BY <2>1, OnCallLimits DEF OnCallTypes
<1>1. Ran = {}
  BY DEF Ran
<1>2. \A d : RunsOn(d) = {}
  BY <1>1 DEF RunsOn
<1>3. Cardinality({}) = 0
  BY DEF CountingFacts, EmptyCounts
<1>4. Today \in Nat
  BY LaterDay DEF Today
<1>5. BudgetInv
  <2>1. \A d : Cardinality(RunsOn(d)) = 0
    BY <1>2, <1>3, Zenon
  <2>2. ocDay <= Today /\ 0 <= MaxPerDay /\ ocToday = 0
    BY <1>4, OnCallLimits
  <2>3. \A d \in Nat : Cardinality(RunsOn(d)) <= MaxPerDay
    BY <2>1, <2>2
  <2>4. Cardinality(RunsOn(ocDay)) <= ocToday
    BY <2>1, <2>2
  <2> QED BY <1>1, <2>2, <2>3, <2>4, Zenon DEF BudgetInv
<1>6. \A a \in Filers : ocTask[a].pc = "idle"
  BY DEF Idle
<1>7. \A g : Filing(g) = {}
  BY <1>6 DEF Filing
<1>8. IssuesInv
  <2>1. \A g \in GroupIds : ocRow[g] = Unfiled /\ Unfiled \notin Filers
    BY DEF Unfiled, Filers
  <2>2. \A g \in GroupIds : IssueInv(g)
    BY <2>1, <1>7 DEF IssueInv
  <2> QED BY <2>1, <2>2, <1>6 DEF IssuesInv
<1> QED BY <1>0, <1>5, <1>8 DEF OnCallInv

\* Bookkeeping of the budget survives every step that leaves it alone.
BudgetSame == UNCHANGED <<ocDay, ocToday, ocLastRun, ocRuns>>

(* A step without a run and without the clock keeps the budget.            *)
LEMMA BudgetKept ==
  ASSUME BudgetInv, BudgetSame, ocNow' = ocNow,
         \A a \in Filers : ocTask[a].pc # "idle" => ocTask'[a].pc # "idle"
  PROVE BudgetInv'
<1>1. Ran' = Ran /\ Today' = Today
  BY DEF BudgetSame, Ran, Today
<1>2. \A a : DayOf(a)' = DayOf(a)
  BY DEF BudgetSame, DayOf
<1>3. \A d : RunsOn(d)' = RunsOn(d)
  BY <1>1, <1>2 DEF RunsOn
<1>4. Ran \subseteq Filers
  BY DEF Ran
<1> QED BY <1>1, <1>2, <1>3, <1>4 DEF BudgetInv, BudgetSame

(* An hour passing keeps the budget.                                       *)
LEMMA HourBudget ==
  ASSUME OnCallTypes, BudgetInv, Hour
  PROVE OnCallTypes' /\ BudgetInv'
<1>0. ocNow' = ocNow + 1 /\ BudgetSame /\ UNCHANGED <<ocTask, ocRow, ocIssues>>
  BY DEF Hour, BudgetSame
<1>1. OnCallTypes'
  BY <1>0 DEF OnCallTypes, BudgetSame
<1>2. Ran' = Ran
  BY <1>0 DEF BudgetSame, Ran
<1>3. \A a : DayOf(a)' = DayOf(a)
  BY <1>0 DEF BudgetSame, DayOf
<1>4. \A d : RunsOn(d)' = RunsOn(d)
  BY <1>2, <1>3 DEF RunsOn
<1>5. ocDay' <= Today'
  <2>1. Today <= Today' /\ Today \in Nat /\ Today' \in Nat
    BY Zenon, <1>0, <1>1, LaterDay DEF OnCallTypes, Today
  <2> QED BY <2>1, <1>0 DEF BudgetInv, OnCallTypes, BudgetSame
<1> QED BY <1>0, <1>1, <1>2, <1>3, <1>4, <1>5 DEF BudgetInv, BudgetSame

(* A claim, granted or refused by the cooldown or the budget, keeps both.  *)
LEMMA ClaimBudget ==
  ASSUME CountingFacts, OnCallTypes, BudgetInv, NEW a \in Filers, NEW k \in AlertKeys,
         NEW g \in GroupIds \cup {NoGroup},
         ocTask[a].pc = "idle", claim(a, k, g), ocDay' = Today, ocNow' = ocNow,
         UNCHANGED <<ocRow, ocIssues>>
  PROVE /\ OnCallTypes' /\ BudgetInv'
        /\ \E to \in {"running", "skipped"} :
             ocTask' = [ocTask EXCEPT ![a] = [pc |-> to, key |-> k, fp |-> g]]
<1>0. /\ ocNow \in Nat /\ ocDay \in Nat /\ ocToday \in 0..MaxPerDay /\ MaxPerDay \in Nat
      /\ Today \in Nat /\ ocDay <= Today /\ Today' = Today
  BY OnCallLimits, LaterDay DEF OnCallTypes, BudgetInv, Today
<1>1. RunsToday \in 0..MaxPerDay
  BY <1>0 DEF RunsToday
<1>2. a \notin Ran
  BY DEF BudgetInv
<1>3. Cardinality(RunsOn(Today)) <= RunsToday
  <2>1. CASE ocDay = Today
    BY <2>1 DEF RunsToday, BudgetInv
  <2>2. CASE ocDay # Today
    <3>1. ASSUME NEW b \in Ran PROVE DayOf(b) # Today
      <4>1. DayOf(b) \in Nat /\ DayOf(b) <= ocDay
        BY EarlierRun DEF BudgetInv
      <4> QED BY <4>1, <2>2, <1>0
    <3>2. RunsOn(Today) = {}
      BY <3>1 DEF RunsOn
    <3> QED BY <3>2, <2>2 DEF RunsToday, CountingFacts, EmptyCounts
  <2> QED BY <2>1, <2>2
<1>4. CASE RunsToday < MaxPerDay /\ Cool(ocLastRun, k)
  <2>0. /\ ocTask' = [ocTask EXCEPT ![a] = [pc |-> "running", key |-> k, fp |-> g]]
        /\ ocLastRun' = [ocLastRun EXCEPT ![k] = ocNow]
        /\ ocToday' = RunsToday + 1
        /\ ocRuns' = [ocRuns EXCEPT ![a] = <<k, ocNow>>]
    BY <1>4 DEF claim
  <2>1. OnCallTypes'
    <3>1. [pc |-> "running", key |-> k, fp |-> g] \in TaskRows
      BY DEF TaskRows
    <3>2. ocTask' \in [Filers -> TaskRows]
      BY <3>1, <2>0 DEF OnCallTypes
    <3>3. ocToday' \in 0..MaxPerDay
      BY <2>0, <1>1, <1>4, <1>0
    <3>4. ocLastRun' \in [AlertKeys -> Int]
      BY <2>0, <1>0 DEF OnCallTypes
    <3>5. ocRuns' \in [Filers -> {<<>>} \cup (AlertKeys \X Nat)]
      BY <2>0, <1>0 DEF OnCallTypes
    <3> QED BY <3>2, <3>3, <3>4, <3>5, <1>0 DEF OnCallTypes
  <2>2. /\ ocRuns'[a] = <<k, ocNow>> /\ \A b \in Filers \ {a} : ocRuns'[b] = ocRuns[b]
        /\ ocLastRun'[k] = ocNow /\ \A j \in AlertKeys \ {k} : ocLastRun'[j] = ocLastRun[j]
    BY Zenon, <2>0 DEF OnCallTypes
  <2>3. Ran' = Ran \cup {a}
    <3>1. <<k, ocNow>> # <<>>
      OBVIOUS
    <3> QED BY <3>1, <2>2 DEF Ran
  <2>4. Ran \subseteq Filers \ {a}
    BY <1>2 DEF Ran
  <2>5. DayOf(a)' = Today /\ \A b \in Ran : DayOf(b)' = DayOf(b)
    BY <2>2, <2>4 DEF DayOf, Today
  <2>6. RunsOn(Today)' = RunsOn(Today) \cup {a} /\ \A d : d # Today => RunsOn(d)' = RunsOn(d)
    BY <2>3, <2>5, <1>2, <1>0 DEF RunsOn
  <2>7. /\ Cardinality(RunsOn(Today) \cup {a}) <= RunsToday + 1
        /\ Cardinality(RunsOn(Today) \cup {a}) \in Nat
    <3>1. IsFiniteSet(RunsOn(Today)) /\ Cardinality(RunsOn(Today)) \in Nat
      BY RanFinite DEF RunsOn
    <3>2. a \notin RunsOn(Today)
      BY <1>2 DEF RunsOn
    <3>3. Cardinality(RunsOn(Today) \cup {a}) = Cardinality(RunsOn(Today)) + 1
      BY <3>1, <3>2 DEF CountingFacts, AddingCounts
    <3> QED BY <3>1, <3>3, <1>3, <1>1
  <2>8. \A b \in Ran : ocRuns[b][1] = k => ocNow - ocRuns[b][2] >= Cooldown
    <3> SUFFICES ASSUME NEW b \in Ran, ocRuns[b][1] = k PROVE ocNow - ocRuns[b][2] >= Cooldown
      BY Zenon
    <3>1. ocRuns[b][2] \in Nat /\ ocRuns[b][2] <= ocLastRun[k] /\ ocLastRun[k] \in Int
      BY EarlierRun DEF BudgetInv
    <3>2. ocNow - ocLastRun[k] >= Cooldown
      BY <3>1, <1>4 DEF Cool
    <3> QED BY <3>1, <3>2, <1>0, OnCallLimits
  <2>9. /\ ocDay' <= Today'
        /\ \A d \in Nat : Cardinality(RunsOn(d)') <= MaxPerDay
        /\ Cardinality(RunsOn(ocDay)') <= ocToday'
    <3>1. Cardinality(RunsOn(Today) \cup {a}) <= MaxPerDay
      BY <2>7, <1>4, <1>1, <1>0
    <3>2. ASSUME NEW d \in Nat PROVE Cardinality(RunsOn(d)') <= MaxPerDay
      <4>1. CASE d = Today
        <5>1. RunsOn(d)' = RunsOn(Today) \cup {a}
          BY Zenon, <4>1, <2>6, <1>0 DEF RunsOn
        <5> QED BY Zenon, <5>1, <3>1
      <4>2. CASE d # Today
        <5>1. RunsOn(d)' = RunsOn(d)
          BY <4>2, <2>6
        <5> QED BY Zenon, <5>1 DEF BudgetInv
      <4> QED BY <4>1, <4>2
    <3>3. RunsOn(ocDay)' = RunsOn(Today) \cup {a}
      BY Zenon, <2>6, <1>0 DEF RunsOn
    <3> QED BY <3>2, <3>3, <2>7, <2>0, <1>0
  <2>10. ASSUME NEW b \in Ran'
         PROVE /\ ocTask'[b].pc # "idle" /\ DayOf(b)' <= ocDay'
               /\ ocRuns'[b][2] <= ocLastRun'[ocRuns'[b][1]]
    <3>1. CASE b = a
      BY <3>1, <2>0, <2>2, <2>5, <1>0 DEF OnCallTypes
    <3>2. CASE b # a
      <4>1. b \in Ran /\ b \in Filers /\ ocRuns'[b] = ocRuns[b] /\ ocTask'[b] = ocTask[b]
        BY <3>2, <2>0, <2>2, <2>3, <2>4, <2>10 DEF OnCallTypes
      <4>2. DayOf(b) <= ocDay /\ DayOf(b) \in Nat /\ DayOf(b)' = DayOf(b)
        BY Zenon, <4>1, <2>5, EarlierRun DEF BudgetInv
      <4>3. ocRuns[b][2] <= ocLastRun'[ocRuns[b][1]]
        <5>1. /\ ocRuns[b][1] \in AlertKeys /\ ocRuns[b][2] \in Nat
              /\ ocRuns[b][2] <= ocLastRun[ocRuns[b][1]]
          BY Zenon, <4>1, EarlierRun DEF BudgetInv
        <5>2. CASE ocRuns[b][1] = k
          <6>1. ocNow - ocRuns[b][2] >= Cooldown
            BY Zenon, <5>2, <4>1, <2>8
          <6> QED BY <6>1, <5>1, <5>2, <2>2, <1>0, OnCallLimits
        <5>3. CASE ocRuns[b][1] # k
          BY Zenon, <5>1, <5>3, <2>2
        <5> QED BY Zenon, <5>2, <5>3
      <4> QED BY <4>1, <4>2, <4>3, <1>0 DEF BudgetInv
    <3> QED BY Zenon, <3>1, <3>2
  <2>11. ASSUME NEW b \in Ran', NEW c \in Ran', b # c, ocRuns'[b][1] = ocRuns'[c][1]
         PROVE ocRuns'[b][2] - ocRuns'[c][2] >= Cooldown \/ ocRuns'[c][2] - ocRuns'[b][2] >= Cooldown
    <3>1. CASE b = a
      <4>1. c \in Ran /\ ocRuns'[c] = ocRuns[c] /\ ocRuns'[b] = <<k, ocNow>>
        BY Zenon, <3>1, <2>11, <2>2, <2>3, <2>4
      <4> QED BY <4>1, <2>8, <2>11
    <3>2. CASE c = a
      <4>1. b \in Ran /\ ocRuns'[b] = ocRuns[b] /\ ocRuns'[c] = <<k, ocNow>>
        BY <3>2, <2>11, <2>2, <2>3, <2>4
      <4> QED BY <4>1, <2>8, <2>11
    <3>3. CASE b # a /\ c # a
      <4>1. b \in Ran /\ ocRuns'[b] = ocRuns[b] /\ c \in Ran /\ ocRuns'[c] = ocRuns[c]
        BY Zenon, <3>3, <2>11, <2>2, <2>3, <2>4
      <4> QED BY Zenon, <4>1, <2>11 DEF BudgetInv
    <3> QED BY <3>1, <3>2, <3>3
  <2>12. BudgetInv'
    BY <2>9, <2>10, <2>11 DEF BudgetInv
  <2> QED BY <2>0, <2>1, <2>12
<1>5. CASE ~(RunsToday < MaxPerDay /\ Cool(ocLastRun, k))
  <2>0. /\ ocTask' = [ocTask EXCEPT ![a] = [pc |-> "skipped", key |-> k, fp |-> g]]
        /\ ocToday' = RunsToday /\ UNCHANGED <<ocLastRun, ocRuns>>
    BY Zenon, <1>5 DEF claim
  <2>1. OnCallTypes'
    <3>1. [pc |-> "skipped", key |-> k, fp |-> g] \in TaskRows
      BY DEF TaskRows
    <3>2. ocTask' \in [Filers -> TaskRows]
      BY Zenon, <3>1, <2>0 DEF OnCallTypes
    <3> QED BY Zenon, <3>2, <2>0, <1>0, <1>1 DEF OnCallTypes
  <2>2. Ran' = Ran
    BY <2>0 DEF Ran
  <2>3. \A b : DayOf(b)' = DayOf(b)
    BY <2>0 DEF DayOf
  <2>4. \A d : RunsOn(d)' = RunsOn(d)
    BY <2>2, <2>3 DEF RunsOn
  <2>5. RunsOn(ocDay)' = RunsOn(Today)
    BY Zenon, <2>2, <2>3, <1>0 DEF RunsOn
  <2>6. \A b \in Ran : ocTask'[b].pc # "idle" /\ DayOf(b)' <= ocDay'
    <3> SUFFICES ASSUME NEW b \in Ran PROVE ocTask'[b].pc # "idle" /\ DayOf(b)' <= ocDay'
      OBVIOUS
    <3>1. b \in Filers /\ ocTask'[b] = ocTask[b]
      BY Zenon, <2>0, <1>2 DEF Ran, OnCallTypes
    <3>2. DayOf(b) <= ocDay /\ DayOf(b) \in Nat
      BY Zenon, EarlierRun DEF BudgetInv
    <3> QED BY <3>1, <3>2, <2>3, <1>0 DEF BudgetInv
  <2>7. BudgetInv'
    BY <2>0, <2>2, <2>4, <2>5, <2>6, <1>0, <1>3 DEF BudgetInv
  <2> QED BY <2>0, <2>1, <2>7
<1> QED BY <1>4, <1>5

\* An alert goes on to another point of its run.
Advances(a, to) ==
  /\ ocTask' = [ocTask EXCEPT ![a].pc = to]
  /\ to # "idle" /\ [ocTask[a] EXCEPT !.pc = to] \in TaskRows

(* One alert moving on leaves the others where they are.                   *)
LEMMA Advanced ==
  ASSUME OnCallTypes, NEW a \in Filers, NEW to, Advances(a, to)
  PROVE /\ ocTask' \in [Filers -> TaskRows]
        /\ ocTask'[a].pc = to /\ ocTask'[a].fp = ocTask[a].fp
        /\ \A b \in Filers \ {a} : ocTask'[b] = ocTask[b]
        /\ \A b \in Filers : ocTask'[b].fp = ocTask[b].fp
        /\ \A b \in Filers : ocTask[b].pc # "idle" => ocTask'[b].pc # "idle"
<1>1. ocTask' = [ocTask EXCEPT ![a] = [ocTask[a] EXCEPT !.pc = to]]
  BY DEF Advances
<1>2. ocTask[a] \in TaskRows
  BY DEF OnCallTypes
<1>3. [ocTask[a] EXCEPT !.pc = to].pc = to /\ [ocTask[a] EXCEPT !.pc = to].fp = ocTask[a].fp
  BY <1>2 DEF TaskRows
<1> DEFINE new == [ocTask[a] EXCEPT !.pc = to]
<1>4. new \in TaskRows /\ new.pc = to /\ new.fp = ocTask[a].fp /\ to # "idle"
  BY <1>3 DEF Advances
<1>5. ocTask' = [ocTask EXCEPT ![a] = new]
  BY <1>1
<1> HIDE DEF new
<1>6. /\ ocTask' \in [Filers -> TaskRows] /\ ocTask'[a] = new
      /\ \A b \in Filers \ {a} : ocTask'[b] = ocTask[b]
  BY <1>4, <1>5 DEF OnCallTypes
<1>7. ASSUME NEW b \in Filers PROVE /\ ocTask'[b].fp = ocTask[b].fp
                                    /\ ocTask[b].pc # "idle" => ocTask'[b].pc # "idle"
  <2>1. CASE b = a
    BY Zenon, <2>1, <1>4, <1>6
  <2>2. CASE b # a
    BY <2>2, <1>6
  <2> QED BY Zenon, <2>1, <2>2
<1> QED BY <1>4, <1>6, <1>7

(* A step of an alert from one stage to the next.                          *)
LEMMA MovesOn ==
  ASSUME OnCallTypes, NEW a \in Filers, NEW from,
         NEW to \in {"running", "failed", "lookup", "commented", "claiming", "creating",
                     "linking", "filed", "skipped"},
         Moves(a, from, to)
  PROVE ocTask[a].pc = from /\ Advances(a, to)
<1>1. ocTask[a] \in TaskRows
  BY DEF OnCallTypes
<1>2. [ocTask[a] EXCEPT !.pc = to] \in TaskRows
  BY Zenon, <1>1 DEF TaskRows
<1> QED BY <1>2 DEF Moves, Advances

\* What a step leaves of the groups it is not about.
Kept(g) ==
  /\ ocRow'[g] = ocRow[g] /\ (g \in ocShared <=> g \in ocShared')
  /\ Filing(g)' = Filing(g)
  /\ \A b : (b \in ocIssues' /\ ocTask'[b].fp = g) <=> (b \in ocIssues /\ ocTask[b].fp = g)
  /\ \A b \in ocIssues : ocTask[b].fp = g => ocTask'[b].pc = ocTask[b].pc

(* What no step touches of a group stays true of its issue.                *)
LEMMA GroupKept ==
  ASSUME NEW g \in GroupIds, Kept(g), IssueInv(g)
  PROVE IssueInv(g)'
<1>1. /\ \A b : (b \in ocIssues' /\ ocTask'[b].fp = g) <=> (b \in ocIssues /\ ocTask[b].fp = g)
      /\ \A b \in ocIssues : ocTask[b].fp = g => ocTask'[b].pc = ocTask[b].pc
  BY DEF Kept
<1>2. ocRow'[g] = ocRow[g] /\ (g \in ocShared <=> g \in ocShared') /\ Filing(g)' = Filing(g)
  BY DEF Kept
<1> QED BY Zenon, <1>1, <1>2 DEF IssueInv

\* A step of alert a that concerns at most the group of its evidence.
StepOf(a, to) ==
  /\ Advances(a, to) /\ BudgetSame /\ ocNow' = ocNow
  /\ ocRow' \in [GroupIds -> {Gone, Unfiled} \cup Filers]
  /\ ocIssues' \in {ocIssues, ocIssues \cup {a}}
  /\ \A h \in GroupIds : h # ocTask[a].fp =>
       ocRow'[h] = ocRow[h] /\ (h \in ocShared <=> h \in ocShared')
  /\ \A h \in GroupIds : ocRow'[h] \in {Gone, Unfiled} \cup ocIssues'
  /\ a \in ocIssues' => to \in {"linking", "filed", "failed"}
  /\ to = "linking" => a \in ocIssues' /\ ocTask[a].fp # NoGroup

(* A step of one alert needs looking at for its own group only.            *)
LEMMA AlertStep ==
  ASSUME OnCallInv, NEW a \in Filers, NEW to, StepOf(a, to),
         \A g \in GroupIds : g = ocTask[a].fp => IssueInv(g)'
  PROVE OnCallInv'
<1>0. OnCallTypes /\ BudgetInv /\ IssuesInv /\ Advances(a, to) /\ ocIssues \subseteq Filers
  BY Zenon DEF OnCallInv, StepOf, OnCallTypes
<1>4. /\ ocTask' \in [Filers -> TaskRows]
      /\ ocTask'[a].pc = to /\ ocTask'[a].fp = ocTask[a].fp
      /\ \A b \in Filers \ {a} : ocTask'[b] = ocTask[b]
      /\ \A b \in Filers : ocTask'[b].fp = ocTask[b].fp
      /\ \A b \in Filers : ocTask[b].pc # "idle" => ocTask'[b].pc # "idle"
  BY <1>0, Advanced
<1>5. ocIssues' \in {ocIssues, ocIssues \cup {a}}
  BY DEF StepOf
<1>6. OnCallTypes'
  BY Zenon, <1>0, <1>4, <1>5 DEF OnCallTypes, BudgetSame, StepOf
<1>7. BudgetInv'
  BY Zenon, <1>0, <1>4, BudgetKept DEF StepOf
<1>8. ASSUME NEW h \in GroupIds, h # ocTask[a].fp PROVE IssueInv(h)'
  <2>1. ocRow'[h] = ocRow[h] /\ (h \in ocShared <=> h \in ocShared')
    BY Zenon, <1>8 DEF StepOf
  <2>2. Filing(h)' = Filing(h)
    BY Zenon, <1>4, <1>8 DEF Filing
  <2>3. \A b : (b \in ocIssues' /\ ocTask'[b].fp = h) <=> (b \in ocIssues /\ ocTask[b].fp = h)
    BY Zenon, <1>0, <1>4, <1>5, <1>8
  <2>4. \A b \in ocIssues : ocTask[b].fp = h => ocTask'[b].pc = ocTask[b].pc
    BY Zenon, <1>0, <1>4, <1>8
  <2>5. Kept(h)
    BY <2>1, <2>2, <2>3, <2>4 DEF Kept
  <2> QED BY Zenon, <2>5, <1>0, GroupKept DEF IssuesInv
<1>9. \A h \in GroupIds : IssueInv(h)'
  <2> SUFFICES ASSUME NEW h \in GroupIds PROVE IssueInv(h)'
    OBVIOUS
  <2>1. CASE h = ocTask[a].fp
    BY <2>1
  <2>2. CASE h # ocTask[a].fp
    BY Zenon, <2>2, <1>8
  <2> QED BY <2>1, <2>2
<1>10. \A b \in ocIssues' : ocTask'[b].pc \in {"linking", "filed", "failed"}
  BY Zenon, <1>0, <1>4, <1>5 DEF IssuesInv, StepOf
<1>11. \A b \in Filers : ocTask'[b].pc = "linking" => b \in ocIssues' /\ ocTask'[b].fp # NoGroup
  BY Zenon, <1>0, <1>4, <1>5 DEF IssuesInv, StepOf
<1>12. IssuesInv'
  BY <1>9, <1>10, <1>11 DEF IssuesInv, StepOf
<1> QED BY <1>6, <1>7, <1>12 DEF OnCallInv

(* Starting, or skipping, a run keeps the invariant.                       *)
LEMMA RunAgentStep ==
  ASSUME CountingFacts, OnCallInv, NEW a \in Filers, RunAgent(a)
  PROVE OnCallInv'
<1>0. /\ OnCallTypes /\ BudgetInv /\ IssuesInv /\ ocTask[a].pc = "idle"
      /\ UNCHANGED <<ocNow, ocRow, ocIssues, ocShared>> /\ ocDay' = Today
      /\ ocIssues \subseteq Filers
  BY Zenon DEF OnCallInv, RunAgent, OnCallTypes
<1>1. PICK k \in AlertKeys, g \in GroupIds \cup {NoGroup} : claim(a, k, g)
  BY Zenon DEF RunAgent
<1>2. /\ OnCallTypes' /\ BudgetInv'
      /\ \E to \in {"running", "skipped"} :
           ocTask' = [ocTask EXCEPT ![a] = [pc |-> to, key |-> k, fp |-> g]]
  BY <1>0, <1>1, ClaimBudget
<1>3. PICK to \in {"running", "skipped"} :
        ocTask' = [ocTask EXCEPT ![a] = [pc |-> to, key |-> k, fp |-> g]]
  BY Zenon, <1>2
<1>4. /\ \A b \in Filers \ {a} : ocTask'[b] = ocTask[b]
      /\ ocTask'[a].pc = to
  BY <1>0, <1>3 DEF OnCallTypes
<1>5. a \notin ocIssues
  BY Zenon, <1>0 DEF IssuesInv
<1>6. ASSUME NEW h \in GroupIds PROVE IssueInv(h)'
  <2>1. Filing(h)' = Filing(h)
    BY <1>0, <1>4 DEF Filing
  <2>2. /\ \A b : (b \in ocIssues' /\ ocTask'[b].fp = h) <=> (b \in ocIssues /\ ocTask[b].fp = h)
        /\ \A b \in ocIssues : ocTask[b].fp = h => ocTask'[b].pc = ocTask[b].pc
    BY Zenon, <1>0, <1>4, <1>5
  <2>3. Kept(h)
    BY Zenon, <2>1, <2>2, <1>0 DEF Kept
  <2> QED BY <2>3, <1>0, GroupKept DEF IssuesInv
<1>7. \A b \in ocIssues' : ocTask'[b].pc \in {"linking", "filed", "failed"}
  BY Zenon, <1>0, <1>4, <1>5 DEF IssuesInv
<1>8. \A b \in Filers : ocTask'[b].pc = "linking" => b \in ocIssues' /\ ocTask'[b].fp # NoGroup
  BY Zenon, <1>0, <1>4 DEF IssuesInv
<1>9. \A h \in GroupIds : ocRow'[h] \in {Gone, Unfiled} \cup ocIssues'
  BY Zenon, <1>0 DEF IssuesInv
<1>10. IssuesInv'
  BY <1>6, <1>7, <1>8, <1>9 DEF IssuesInv
<1> QED BY Zenon, <1>2, <1>10 DEF OnCallInv

(* A run that ends or fails keeps the invariant.                           *)
LEMMA AgentEndsStep ==
  ASSUME OnCallInv, NEW a \in Filers, AgentEnds(a)
  PROVE OnCallInv'
<1>0. /\ BudgetSame /\ UNCHANGED <<ocNow, ocRow, ocIssues, ocShared>>
      /\ OnCallTypes /\ BudgetInv /\ IssuesInv /\ ocIssues \subseteq Filers
  BY DEF AgentEnds, BudgetSame, OnCallInv, OnCallTypes
<1>1. PICK to \in {"failed", "lookup"} : Moves(a, "running", to)
  BY Zenon DEF AgentEnds
<1>2. ocTask[a].pc = "running" /\ Advances(a, to)
  BY <1>0, <1>1, MovesOn
<1>3. /\ ocTask'[a].pc = to /\ ocTask'[a].fp = ocTask[a].fp
      /\ \A b \in Filers \ {a} : ocTask'[b] = ocTask[b]
  BY Zenon, <1>0, <1>2, Advanced
<1>4. a \notin ocIssues
  BY <1>0, <1>2 DEF IssuesInv
<1>5. StepOf(a, to)
  BY Zenon, <1>0, <1>2, <1>4 DEF StepOf, OnCallTypes, IssuesInv
<1>6. ASSUME NEW g \in GroupIds PROVE IssueInv(g)'
  <2>1. Filing(g)' = Filing(g)
    BY Zenon, <1>2, <1>3 DEF Filing
  <2>2. /\ \A b : (b \in ocIssues' /\ ocTask'[b].fp = g) <=> (b \in ocIssues /\ ocTask[b].fp = g)
        /\ \A b \in ocIssues : ocTask[b].fp = g => ocTask'[b].pc = ocTask[b].pc
    BY Zenon, <1>0, <1>3, <1>4
  <2>3. Kept(g)
    BY <2>1, <2>2, <1>0 DEF Kept
  <2> QED BY <2>3, <1>0, GroupKept DEF IssuesInv
<1> QED BY Zenon, <1>5, <1>6, AlertStep

(* Looking up the issue of a group keeps the invariant.                    *)
LEMMA LookUpStep ==
  ASSUME OnCallInv, NEW a \in Filers, LookUp(a)
  PROVE OnCallInv'
<1>0. /\ BudgetSame /\ UNCHANGED <<ocNow, ocRow, ocIssues>>
      /\ OnCallTypes /\ BudgetInv /\ IssuesInv /\ ocIssues \subseteq Filers
  BY Zenon DEF LookUp, BudgetSame, OnCallInv, OnCallTypes
<1>1. PICK to \in {"commented", "claiming", "failed"} : Moves(a, "lookup", to)
  BY Zenon DEF LookUp
<1>2. ocTask[a].pc = "lookup" /\ Advances(a, to)
  BY <1>0, <1>1, MovesOn
<1>3. /\ ocTask'[a].pc = to /\ ocTask'[a].fp = ocTask[a].fp
      /\ \A b \in Filers \ {a} : ocTask'[b] = ocTask[b]
  BY Zenon, <1>0, <1>2, Advanced
<1>4. a \notin ocIssues
  BY Zenon, <1>0, <1>2 DEF IssuesInv
<1>5. ocShared' \in {ocShared, ocShared \cup {ocTask[a].fp}}
  BY Zenon DEF LookUp
<1>6. StepOf(a, to)
  BY <1>0, <1>2, <1>4, <1>5 DEF StepOf, OnCallTypes, IssuesInv
<1>7. ASSUME NEW g \in GroupIds, g = ocTask[a].fp PROVE IssueInv(g)'
  <2>0. /\ \A b : (b \in ocIssues' /\ ocTask'[b].fp = g) <=> (b \in ocIssues /\ ocTask[b].fp = g)
        /\ \A b \in ocIssues : ocTask[b].fp = g => ocTask'[b].pc = ocTask[b].pc
    BY Zenon, <1>0, <1>3, <1>4
  <2>1. CASE to # "claiming"
    <3>1. Filing(g)' = Filing(g)
      BY Zenon, <1>2, <1>3, <2>1 DEF Filing
    <3>2. ocShared' = ocShared
      BY Zenon, <1>3, <2>1 DEF LookUp
    <3>3. Kept(g)
      BY Zenon, <2>0, <3>1, <3>2, <1>0 DEF Kept
    <3> QED BY <3>3, <1>0, GroupKept DEF IssuesInv
  <2>2. CASE to = "claiming"
    <3> SUFFICES ASSUME g \notin ocShared' PROVE IssueInv(g)'
      BY DEF IssueInv
    <3>1. g # NoGroup
      BY Zenon, OnCallLimits
    <3>2. g \notin ocShared /\ Filing(g) = {} /\ ocRow[g] # Gone
      BY Zenon, <1>3, <1>7, <2>2, <3>1 DEF LookUp
    <3>3. ocRow[g] \notin Filers
      <4>1. ~Moves(a, "lookup", "commented")
        <5>1. "commented" # "claiming"
          OBVIOUS
        <5> QED BY <5>1, <1>0, <1>3, <2>2, MovesOn, Advanced
      <4> QED BY Zenon, <4>1, <3>1, <1>7 DEF LookUp
    <3>4. ocRow'[g] = Unfiled /\ Unfiled \notin Filers
      BY Zenon, <3>2, <3>3, <1>0 DEF OnCallTypes, Unfiled, Filers
    <3>5. Filing(g)' = {a}
      BY Zenon, <1>3, <1>7, <2>2, <3>2 DEF Filing
    <3>6. \A b \in ocIssues' : ocTask'[b].fp = g => ocTask'[b].pc = "linking"
      BY <2>0, <3>2, <3>4, <1>0 DEF IssuesInv, IssueInv
    <3> QED BY Zenon, <3>4, <3>5, <3>6 DEF IssueInv
  <2> QED BY Zenon, <2>1, <2>2
<1> QED BY Zenon, <1>6, <1>7, AlertStep

(* Claiming the filing of an issue keeps the invariant.                    *)
LEMMA ClaimFileStep ==
  ASSUME OnCallInv, NEW a \in Filers, ClaimFile(a)
  PROVE OnCallInv'
<1>0. /\ BudgetSame /\ UNCHANGED <<ocNow, ocRow, ocIssues, ocShared>>
      /\ OnCallTypes /\ BudgetInv /\ IssuesInv /\ ocIssues \subseteq Filers
  BY Zenon DEF ClaimFile, BudgetSame, OnCallInv, OnCallTypes
<1>1. PICK to \in {"creating", "skipped"} : Moves(a, "claiming", to)
  BY DEF ClaimFile
<1>2. ocTask[a].pc = "claiming" /\ Advances(a, to)
  BY Zenon, <1>0, <1>1, MovesOn
<1>3. /\ ocTask'[a].pc = to /\ ocTask'[a].fp = ocTask[a].fp
      /\ \A b \in Filers \ {a} : ocTask'[b] = ocTask[b]
  BY Zenon, <1>0, <1>2, Advanced
<1>4. a \notin ocIssues
  BY <1>0, <1>2 DEF IssuesInv
<1>5. StepOf(a, to)
  BY Zenon, <1>0, <1>2, <1>4 DEF StepOf, OnCallTypes, IssuesInv
<1>6. ASSUME NEW g \in GroupIds, g = ocTask[a].fp PROVE IssueInv(g)'
  <2>1. a \in Filing(g) /\ Filing(g)' \subseteq Filing(g)
    BY Zenon, <1>2, <1>3, <1>6 DEF Filing
  <2>2. /\ \A b : (b \in ocIssues' /\ ocTask'[b].fp = g) <=> (b \in ocIssues /\ ocTask[b].fp = g)
        /\ \A b \in ocIssues : ocTask[b].fp = g => ocTask'[b].pc = ocTask[b].pc
    BY Zenon, <1>0, <1>3, <1>4
  <2>3. IssueInv(g)
    BY <1>0 DEF IssuesInv
  <2> QED BY Zenon, <2>1, <2>2, <2>3, <1>0 DEF IssueInv
<1> QED BY Zenon, <1>5, <1>6, AlertStep

(* Creating the issue, which may fail, keeps the invariant.                *)
LEMMA CreateIssueStep ==
  ASSUME OnCallInv, NEW a \in Filers, CreateIssue(a)
  PROVE OnCallInv'
<1>0. /\ BudgetSame /\ UNCHANGED <<ocNow, ocRow, ocShared>>
      /\ OnCallTypes /\ BudgetInv /\ IssuesInv /\ ocIssues \subseteq Filers
  BY DEF CreateIssue, BudgetSame, OnCallInv, OnCallTypes
<1>1. PICK to \in {"filed", "linking", "failed"} :
        /\ Moves(a, "creating", to)
        /\ \/ /\ to = IF ocTask[a].fp = NoGroup THEN "filed" ELSE "linking"
              /\ ocIssues' = ocIssues \cup {a}
           \/ to = "failed" /\ ocIssues' = ocIssues
  BY DEF CreateIssue
<1>2. ocTask[a].pc = "creating" /\ Advances(a, to)
  BY Zenon, <1>0, <1>1, MovesOn
<1>3. /\ ocTask'[a].pc = to /\ ocTask'[a].fp = ocTask[a].fp
      /\ \A b \in Filers \ {a} : ocTask'[b] = ocTask[b]
  BY Zenon, <1>0, <1>2, Advanced
<1>4. a \notin ocIssues
  BY <1>0, <1>2 DEF IssuesInv
<1>5. StepOf(a, to)
  BY Zenon, <1>0, <1>1, <1>2, <1>4 DEF StepOf, OnCallTypes, IssuesInv
<1>6. ASSUME NEW g \in GroupIds, g = ocTask[a].fp PROVE IssueInv(g)'
  <2> SUFFICES ASSUME g \notin ocShared' PROVE IssueInv(g)'
    BY Zenon DEF IssueInv
  <2>1. a \in Filing(g) /\ Filing(g)' \subseteq Filing(g)
    BY Zenon, <1>2, <1>3, <1>6 DEF Filing
  <2>2. g # NoGroup /\ g \notin ocShared /\ IssueInv(g)
    BY Zenon, <1>0, OnCallLimits DEF IssuesInv
  <2>3. ocRow[g] \notin Filers /\ ocRow[g] = Unfiled
    BY <2>1, <2>2 DEF IssueInv
  <2>4. ASSUME NEW b \in ocIssues', ocTask'[b].fp = g PROVE ocTask'[b].pc = "linking"
    <3>1. CASE b = a
      BY Zenon, <3>1, <2>2, <2>4, <1>1, <1>3, <1>4, <1>6
    <3>2. CASE b # a
      BY <3>2, <2>2, <2>3, <2>4, <1>0, <1>1, <1>3 DEF IssueInv
    <3> QED BY Zenon, <3>1, <3>2
  <2> QED BY Zenon, <2>1, <2>2, <2>3, <2>4, <1>0 DEF IssueInv
<1> QED BY Zenon, <1>5, <1>6, AlertStep

(* Saving the link of a created issue, which may fail, keeps the           *)
(* invariant.                                                              *)
LEMMA SetIssueURLStep ==
  ASSUME OnCallInv, NEW a \in Filers, SetIssueURL(a)
  PROVE OnCallInv'
<1>0. /\ BudgetSame /\ UNCHANGED <<ocNow, ocIssues>>
      /\ OnCallTypes /\ BudgetInv /\ IssuesInv /\ ocIssues \subseteq Filers
      /\ ocTask[a].pc = "linking"
  BY Zenon DEF SetIssueURL, BudgetSame, OnCallInv, OnCallTypes
<1> DEFINE g == ocTask[a].fp
<1>1. PICK to \in {"filed", "failed"} : /\ Moves(a, "linking", to)
                                        /\ \/ to = "filed" /\ Link(a, g)
                                           \/ to = "failed" /\ ocRow' = ocRow
  BY DEF SetIssueURL
<1>2. Advances(a, to)
  BY Zenon, <1>0, <1>1, MovesOn
<1>3. /\ ocTask'[a].pc = to /\ ocTask'[a].fp = ocTask[a].fp
      /\ \A b \in Filers \ {a} : ocTask'[b] = ocTask[b]
  BY Zenon, <1>0, <1>2, Advanced
<1>4. a \in ocIssues /\ g \in GroupIds /\ IssueInv(g)
  BY Zenon, <1>0 DEF IssuesInv, OnCallTypes, TaskRows
<1>5. /\ \A h \in GroupIds : h # g => ocRow'[h] = ocRow[h]
      /\ ocRow'[g] = ocRow[g] \/ (ocRow[g] = Unfiled /\ ocRow'[g] = a /\ to = "filed")
      /\ ocRow' \in [GroupIds -> {Gone, Unfiled} \cup Filers]
      /\ \A h \in GroupIds : ocRow'[h] \in {Gone, Unfiled} \cup ocIssues
  BY Zenon, <1>0, <1>1, <1>4 DEF Link, OnCallTypes, IssuesInv
<1>6. ocShared' = IF ocRow'[g] \in Filers THEN ocShared ELSE ocShared \cup {g}
  BY Zenon DEF SetIssueURL
<1>7. StepOf(a, to)
  BY <1>0, <1>1, <1>2, <1>5, <1>6 DEF StepOf
<1>8. ASSUME NEW h \in GroupIds, h = ocTask[a].fp PROVE IssueInv(h)'
  <2> SUFFICES ASSUME h \notin ocShared' PROVE IssueInv(h)'
    BY Zenon DEF IssueInv
  <2>1. ocRow'[h] \in Filers /\ h \notin ocShared /\ IssueInv(h)
    BY <1>4, <1>6, <1>8
  <2>2. a \in Filing(h)
    BY Zenon, <1>0, <1>8 DEF Filing
  <2>3. ocRow[h] = Unfiled /\ ocRow'[h] = a /\ to = "filed" /\ Unfiled \notin Filers
    BY <2>1, <2>2, <1>5, <1>8 DEF IssueInv, Unfiled, Filers
  <2>4. Filing(h)' = {}
    <3>1. ASSUME NEW b \in Filing(h)' PROVE FALSE
      <4>1. b # a
        BY Zenon, <3>1, <1>3, <2>3 DEF Filing
      <4>2. b \in Filing(h)
        BY <3>1, <4>1, <1>3 DEF Filing
      <4> QED BY <4>1, <4>2, <2>1, <2>2 DEF IssueInv
    <3> QED BY Zenon, <3>1
  <2>5. \A b \in ocIssues' : ocTask'[b].fp = h => b = a
    <3> SUFFICES ASSUME NEW b \in ocIssues, ocTask'[b].fp = h, b # a PROVE FALSE
      BY Zenon, <1>0
    <3>1. b \in Filers /\ ocTask[b].fp = h /\ ocTask[b].pc = "linking"
      BY <1>0, <1>3, <2>1, <2>3 DEF IssueInv
    <3>2. b \in Filing(h)
      BY Zenon, <3>1 DEF Filing
    <3> QED BY Zenon, <3>2, <2>1, <2>2 DEF IssueInv
  <2>6. ocTask'[a].fp = h /\ a \in ocIssues' /\ a # Unfiled
    BY <1>0, <1>3, <1>4, <1>8, <2>3
  <2> QED BY Zenon, <2>1, <2>3, <2>4, <2>5, <2>6 DEF IssueInv
<1> QED BY Zenon, <1>7, <1>8, AlertStep

\* A step in which no alert moves.
LEMMA GroupChangesStep ==
  ASSUME OnCallInv, NEW g \in GroupIds, GroupChanges(g)
  PROVE OnCallInv'
<1>0. /\ BudgetSame /\ UNCHANGED <<ocNow, ocIssues, ocTask>> /\ ocShared' = ocShared \cup {g}
      /\ ocRow' = [ocRow EXCEPT ![g] = IF @ = Gone THEN Unfiled ELSE Gone]
      /\ OnCallTypes /\ BudgetInv /\ IssuesInv
  BY DEF GroupChanges, BudgetSame, OnCallInv
<1>1. /\ OnCallTypes' /\ \A h \in GroupIds : h # g => ocRow'[h] = ocRow[h]
      /\ ocRow'[g] \in {Gone, Unfiled}
  BY <1>0 DEF OnCallTypes, BudgetSame
<1>2. BudgetInv'
  BY <1>0, BudgetKept
<1>3. ASSUME NEW h \in GroupIds PROVE IssueInv(h)'
  <2>1. CASE h = g
    BY Zenon, <2>1, <1>0 DEF IssueInv
  <2>2. CASE h # g
    <3>1. Filing(h)' = Filing(h)
      BY <1>0 DEF Filing
    <3>2. Kept(h)
      BY Zenon, <3>1, <2>2, <1>0, <1>1 DEF Kept
    <3> QED BY <3>2, <1>0, GroupKept DEF IssuesInv
  <2> QED BY Zenon, <2>1, <2>2
<1>4. \A h \in GroupIds : ocRow'[h] \in {Gone, Unfiled} \cup ocIssues'
  BY Zenon, <1>0, <1>1 DEF IssuesInv
<1>5. IssuesInv'
  BY <1>0, <1>3, <1>4 DEF IssuesInv
<1> QED BY <1>1, <1>2, <1>5 DEF OnCallInv

(* An hour passing keeps the invariant.                                    *)
LEMMA HourStep ==
  ASSUME OnCallInv, Hour
  PROVE OnCallInv'
<1>0. /\ UNCHANGED <<ocRow, ocIssues, ocTask, ocShared>>
      /\ OnCallTypes /\ BudgetInv /\ IssuesInv
  BY DEF Hour, OnCallInv
<1>1. OnCallTypes' /\ BudgetInv'
  BY <1>0, HourBudget
<1>2. \A g : Filing(g)' = Filing(g)
  BY Zenon, <1>0 DEF Filing
<1>3. IssuesInv'
  BY <1>0, <1>2 DEF IssuesInv, IssueInv
<1> QED BY <1>1, <1>3 DEF OnCallInv

\* Every step keeps the invariant.
LEMMA OnCallStep == CountingFacts /\ OnCallInv /\ [OnCallNext]_onCallVars => OnCallInv'
<1> SUFFICES ASSUME CountingFacts, OnCallInv, [OnCallNext]_onCallVars PROVE OnCallInv'
  OBVIOUS
<1>1. ASSUME NEW g \in GroupIds, GroupChanges(g) PROVE OnCallInv'
  BY <1>1, GroupChangesStep
<1>2. ASSUME NEW a \in Filers,
             \/ RunAgent(a) \/ AgentEnds(a) \/ LookUp(a) \/ ClaimFile(a)
             \/ CreateIssue(a) \/ SetIssueURL(a)
      PROVE OnCallInv'
  BY <1>2, RunAgentStep, AgentEndsStep, LookUpStep, ClaimFileStep, CreateIssueStep, SetIssueURLStep
<1>3. CASE UNCHANGED onCallVars
  <2>1. OnCallTypes /\ BudgetInv /\ IssuesInv /\ BudgetSame
        /\ UNCHANGED <<ocNow, ocRow, ocIssues, ocTask, ocShared>>
    BY Zenon, <1>3 DEF OnCallInv, onCallVars, BudgetSame
  <2>2. \A g : Filing(g)' = Filing(g)
    BY Zenon, <2>1 DEF Filing
  <2>3. IssuesInv'
    BY <2>1, <2>2 DEF IssuesInv, IssueInv
  <2>4. OnCallTypes'
    BY <2>1 DEF OnCallTypes, BudgetSame
  <2>5. BudgetInv'
    BY <2>1, BudgetKept
  <2> QED BY <2>3, <2>4, <2>5 DEF OnCallInv
<1> QED BY <1>1, <1>2, <1>3, HourStep DEF OnCallNext

(* The cooldown and the daily budget follow from the invariant.            *)
LEMMA BudgetHolds == OnCallInv => OnCallTypeOK /\ AgentBudget
<1> SUFFICES ASSUME OnCallInv PROVE OnCallTypeOK /\ AgentBudget
  OBVIOUS
<1>1. OnCallTypes /\ BudgetInv /\ IssuesInv
  BY DEF OnCallInv
<1>2. OnCallTypeOK
  BY Zenon, <1>1 DEF OnCallTypeOK, OnCallTypes, IssuesInv
<1>3. ASSUME NEW a \in Ran PROVE Cardinality({b \in Ran : DayOf(b) = DayOf(a)}) <= MaxPerDay
  <2>1. DayOf(a) \in Nat
    BY Zenon, <1>1, EarlierRun
  <2> QED BY <2>1, <1>1 DEF BudgetInv, RunsOn
<1>4. ASSUME NEW a \in Ran, NEW b \in Ran \ {a}, ocRuns[a][1] = ocRuns[b][1]
      PROVE ocRuns[a][2] - ocRuns[b][2] >= Cooldown \/ ocRuns[b][2] - ocRuns[a][2] >= Cooldown
  BY <1>1, <1>4 DEF BudgetInv
<1>5. AgentBudget
  BY <1>3, <1>4, Zenon DEF AgentBudget, Ran, DayOf
<1> QED BY <1>2, <1>5

(* One issue per group, unless a concurrent lookup shared it, follows      *)
(* from the invariant.                                                     *)
LEMMA IssueHolds == CountingFacts /\ OnCallTypes /\ IssuesInv => \A g \in GroupIds : OneIssue(g)
<1> SUFFICES ASSUME CountingFacts, OnCallTypes, IssuesInv, NEW g \in GroupIds, g \notin ocShared
             PROVE OneIssue(g)
  BY DEF OneIssue
<1> DEFINE made == {a \in ocIssues : ocTask[a].fp = g}
<1>1. IssueInv(g) /\ ocIssues \subseteq Filers
  BY Zenon DEF IssuesInv, OnCallTypes
<1>2. ocRow[g] \in Filers => made = {ocRow[g]}
  BY <1>1 DEF IssueInv
<1>3. \A a, b \in made : a = b
  <2> SUFFICES ASSUME NEW a \in made, NEW b \in made PROVE a = b
    OBVIOUS
  <2>1. CASE ocRow[g] \in Filers
    BY <2>1, <1>2
  <2>2. CASE ocRow[g] \notin Filers
    <3>1. a \in Filing(g) /\ b \in Filing(g)
      BY <2>2, <1>1 DEF IssueInv, Filing
    <3> QED BY Zenon, <3>1, <1>1 DEF IssueInv
  <2> QED BY <2>1, <2>2
<1>4. Cardinality(made) <= 1
  <2>1. CASE made = {}
    <3>1. Cardinality({}) = 0
      BY Zenon DEF CountingFacts, EmptyCounts
    <3>2. Cardinality(made) = 0
      BY <2>1, <3>1, Zenon
    <3> QED BY <3>2
  <2>2. CASE made # {}
    <3>1. PICK a : a \in made
      BY <2>2
    <3>2. made = {a}
      BY <3>1, <1>3
    <3>3. Cardinality({a}) = 1
      BY Zenon DEF CountingFacts, OneCounts
    <3>4. Cardinality(made) = 1
      BY <3>2, <3>3, Zenon
    <3> QED BY <3>4
  <2> QED BY <2>1, <2>2
<1> QED BY <1>2, <1>4 DEF OneIssue

\* A link is only ever replaced by the loss of its row.
LEMMA LinkStays ==
  ASSUME OnCallInv, [OnCallNext]_onCallVars, NEW g \in GroupIds, ocRow[g] \in Filers
  PROVE ocRow'[g] \in {ocRow[g], Gone}
<1>0. ocRow[g] # Unfiled /\ ocRow[g] # Gone /\ OnCallTypes
  BY DEF Unfiled, Gone, Filers, OnCallInv
<1>1. ASSUME NEW h \in GroupIds, GroupChanges(h) PROVE ocRow'[g] \in {ocRow[g], Gone}
  BY <1>0, <1>1 DEF GroupChanges, OnCallTypes
<1>2. ASSUME NEW a \in Filers, SetIssueURL(a) PROVE ocRow'[g] \in {ocRow[g], Gone}
  <2>1. ocTask[a].pc = "linking" /\ IssuesInv /\ OnCallTypes
    BY Zenon, <1>2 DEF SetIssueURL, OnCallInv
  <2>2. ocTask[a].fp \in GroupIds
    BY Zenon, <2>1 DEF IssuesInv, OnCallTypes, TaskRows
  <2>3. ocRow' = ocRow \/ Link(a, ocTask[a].fp)
    BY Zenon, <1>2 DEF SetIssueURL
  <2> QED BY Zenon, <2>2, <2>3, <1>0 DEF Link, OnCallTypes
<1>3. ASSUME NEW a \in Filers,
             RunAgent(a) \/ AgentEnds(a) \/ LookUp(a) \/ ClaimFile(a) \/ CreateIssue(a)
      PROVE ocRow' = ocRow
  BY Zenon, <1>3 DEF RunAgent, AgentEnds, LookUp, ClaimFile, CreateIssue
<1>4. CASE Hour \/ UNCHANGED onCallVars
  BY <1>4 DEF Hour, onCallVars
<1> QED BY <1>1, <1>2, <1>3, <1>4 DEF OnCallNext

\* What every step of the on-call agent does, whatever its limits are.
LEMMA OnCallSteps ==
  CountingFacts /\ OnCallInv /\ [OnCallNext]_onCallVars => OnCallTypeOK' /\ AgentBudget' /\ OneIssuePerGroup
<1> SUFFICES ASSUME CountingFacts, OnCallInv, [OnCallNext]_onCallVars
             PROVE OnCallTypeOK' /\ AgentBudget' /\ OneIssuePerGroup
  OBVIOUS
<1>1. OnCallInv'
  BY OnCallStep
<1>2. OnCallTypeOK' /\ AgentBudget'
  BY <1>1, BudgetHolds, PTL
<1>3. \A g \in GroupIds : OneIssue(g)'
  <2>1. OnCallTypes' /\ IssuesInv'
    BY <1>1 DEF OnCallInv
  <2>2. (\A g \in GroupIds : OneIssue(g))'
    BY <2>1, IssueHolds, PTL
  <2> QED BY <2>2
<1>4. OneIssuePerGroup
  BY <1>3, LinkStays DEF OneIssuePerGroup
<1> QED BY <1>2, <1>4

-----------------------------------------------------------------------------
(* The watches.                                                            *)
Evaluating == {"measure", "trigger"}

(* An evaluator past CreateRun works on a watch, and the keyed mutex lets  *)
(* one evaluator at a time evaluate it.                                    *)
CurInv ==
    /\ \A p \in Evaluators : pc[p] \notin {"idle", "list", "sweep", "eval"} => cur[p] \in Watches
    /\ \A p \in Evaluators : pc[p] \in Evaluating => wstatus[cur[p]] # "none"
    /\ \A p, q \in Evaluators :
          p # q /\ pc[p] \in Evaluating /\ pc[q] \in Evaluating => cur[p] # cur[q]

(* What an evaluator has read still tells whether the watch has fired.     *)
ReadInv ==
    \A p \in Evaluators :
       /\ pc[p] \in Evaluating /\ snap[p].status # "triggered" => wstatus[cur[p]] # "triggered"
       /\ pc[p] = "trigger" => snap[p].status # "triggered"

(* The stored counter and the one that was read are no greater than the    *)
(* number of breached checks in a row; a check fires on enough of them.    *)
StreakInv ==
    /\ \A w \in Watches : breaches[w] <= streak[w]
    /\ \A p \in Evaluators : pc[p] \in Evaluating /\ cur[p] \in WatchRows =>
          /\ snap[p].breaches <= streak[cur[p]]
          /\ pc[p] = "trigger" => streak[cur[p]] >= MinConsecutive

WatchInv == WatchTypeOK /\ CurInv /\ ReadInv /\ StreakInv

-----------------------------------------------------------------------------
Labels == {"idle", "list", "sweep", "resolve", "eval", "lock", "measure", "trigger", "alert",
           "deliver"}
Slots  == {"sched", "stream"}
Snaps  == [status : WatchStatuses, breaches : 0 .. MaxBreaches]

(* The invariant of the watches holds when none exists.                    *)
LEMMA WatchInitInv == WatchInit => WatchInv
<1> SUFFICES ASSUME WatchInit PROVE WatchInv
  OBVIOUS
<1>1. MaxBreaches \in Nat /\ 0 \in 0 .. MaxBreaches /\ 0 \in 0 .. NotifySlots
  BY WatchConstants DEF MaxBreaches
<1>2. WatchTypeOK
  BY <1>1 DEF WatchInit, WatchTypeOK, WatchStatuses
<1>3. CurInv /\ ReadInv
  BY Zenon DEF WatchInit, CurInv, ReadInv, Evaluating
<1>4. StreakInv
  BY DEF WatchInit, StreakInv, Evaluating
<1> QED
  BY <1>2, <1>3, <1>4 DEF WatchInv

(* Types: the steps of an evaluator on the watch it works on, then the     *)
(* others.                                                                 *)
LEMMA EvalTypes ==
  ASSUME WatchTypeOK, CurInv, NEW p \in Evaluators, Evaluate(p)
  PROVE  WatchTypeOK'
<1>0. /\ wstatus \in [Watches -> WatchStatuses] /\ pc \in [Evaluators -> Labels]
      /\ breaches \in [Watches -> 0 .. MaxBreaches] /\ age \in [Watches -> 0 .. 2]
      /\ cur \in [Evaluators -> Watches \cup {0}] /\ snap \in [Evaluators -> Snaps]
      /\ todo \in [Evaluators -> SUBSET Watches] /\ alerts \subseteq Watches
      /\ inflight \in [Slots -> 0 .. NotifySlots] /\ streak \in [Watches -> 0 .. MaxBreaches]
  BY DEF WatchTypeOK, Labels, Slots, Snaps
<1>1. MaxBreaches \in Nat /\ NotifySlots \in Nat
  BY WatchConstants DEF MaxBreaches
<1>2. pc[p] \in {"lock", "measure", "trigger", "alert", "deliver"} => cur[p] \in Watches
  BY Zenon DEF CurInv
<1>3. /\ snap[p].breaches \in 0 .. MaxBreaches /\ snap[p].status \in WatchStatuses
      /\ \A w \in Watches : wstatus[w] \in WatchStatuses /\ breaches[w] \in 0 .. MaxBreaches
                            /\ streak[w] \in 0 .. MaxBreaches
  BY Zenon, <1>0 DEF Snaps
<1>4. [status |-> "none", breaches |-> 0] \in Snaps
  BY <1>1 DEF Snaps, WatchStatuses
<1>f. ForgetWatch(p) => cur' \in [Evaluators -> Watches \cup {0}] /\ snap' \in [Evaluators -> Snaps]
  <2>1. ASSUME NEW none, none \in Snaps, snap' = [snap EXCEPT ![p] = none]
        PROVE  snap' \in [Evaluators -> Snaps]
    BY Zenon, <1>0, <2>1
  <2> QED
    BY <1>0, <1>4, <2>1 DEF ForgetWatch
<1>g. \A l \in Labels : Goto(p, l) => pc' \in [Evaluators -> Labels]
  BY <1>0 DEF Goto
<1>u. ASSUME NEW w \in Watches, NEW n \in 0 .. MaxBreaches, UpdateAfterCheck(w, n)
      PROVE  breaches' \in [Watches -> 0 .. MaxBreaches] /\ age' \in [Watches -> 0 .. 2]
  BY <1>0, <1>u DEF UpdateAfterCheck
<1>s. ASSUME NEW w, NEW st \in WatchStatuses, UpdateStatus(w, st)
      PROVE  wstatus' \in [Watches -> WatchStatuses]
  BY Zenon, <1>0, <1>s DEF UpdateStatus
<1>l. /\ "eval" \in Labels /\ "lock" \in Labels /\ "measure" \in Labels /\ "trigger" \in Labels
      /\ "alert" \in Labels /\ "deliver" \in Labels /\ "idle" \in Labels
  BY Zenon DEF Labels
<1>5. ASSUME NEW w \in Watches, CreateRun(p, w) PROVE WatchTypeOK'
  <2>1. /\ pc' \in [Evaluators -> Labels] /\ cur' \in [Evaluators -> Watches \cup {0}]
        /\ todo' \in [Evaluators -> SUBSET Watches]
    BY Zenon, <1>0, <1>5, <1>g, <1>l DEF CreateRun
  <2> QED
    BY Zenon, <1>0, <1>5, <2>1 DEF CreateRun, WatchTypeOK, wtable, Labels, Slots, Snaps
<1>6. CASE Read(p)
  <2>1. pc' \in [Evaluators -> Labels]
    BY Zenon, <1>6, <1>g, <1>l DEF Read
  <2>2. snap' \in [Evaluators -> Snaps] /\ cur' \in [Evaluators -> Watches \cup {0}]
    <3>1. CASE ForgetWatch(p)
      BY Zenon, <3>1, <1>f
    <3>2. CASE /\ snap' = [snap EXCEPT ![p] = [status |-> wstatus[cur[p]],
                                               breaches |-> breaches[cur[p]]]]
               /\ UNCHANGED cur
      <4>1. [status |-> wstatus[cur[p]], breaches |-> breaches[cur[p]]] \in Snaps
        BY Zenon, <1>2, <1>3, <1>6 DEF Snaps, Read
      <4>2. ASSUME NEW r, r \in Snaps, snap' = [snap EXCEPT ![p] = r]
            PROVE  snap' \in [Evaluators -> Snaps]
        BY <1>0, <4>2
      <4> QED
        BY Zenon, <1>0, <3>2, <4>1, <4>2
    <3> QED
      BY Zenon, <1>6, <3>1, <3>2 DEF Read
  <2> QED
    BY <1>0, <1>6, <2>1, <2>2 DEF Read, WatchTypeOK, wtable, Labels, Slots, Snaps
<1>7. CASE FailedCheck(p)
  <2>1. pc' \in [Evaluators -> Labels]
    BY Zenon, <1>7, <1>g, <1>l DEF FailedCheck
  <2>2. snap' \in [Evaluators -> Snaps] /\ cur' \in [Evaluators -> Watches \cup {0}]
    BY Zenon, <1>7, <1>f DEF FailedCheck
  <2>3. breaches' \in [Watches -> 0 .. MaxBreaches] /\ age' \in [Watches -> 0 .. 2]
    <3>1. cur[p] \in Watches
      BY Zenon, <1>2, <1>7 DEF FailedCheck
    <3> QED
      BY <1>0, <1>3, <1>7, <3>1, <1>u DEF FailedCheck
  <2> QED
    BY <1>0, <1>7, <2>1, <2>2, <2>3 DEF FailedCheck, WatchTypeOK, Labels, Slots, Snaps
<1>8. CASE Invalid(p)
  <2>1. pc' \in [Evaluators -> Labels]
    BY Zenon, <1>8, <1>g, <1>l DEF Invalid
  <2>2. snap' \in [Evaluators -> Snaps] /\ cur' \in [Evaluators -> Watches \cup {0}]
    BY Zenon, <1>8, <1>f DEF Invalid
  <2>3. wstatus' \in [Watches -> WatchStatuses]
    BY Zenon, <1>8, <1>s DEF Invalid, WatchStatuses
  <2> QED
    BY <1>0, <1>8, <2>1, <2>2, <2>3 DEF Invalid, WatchTypeOK, Labels, Slots, Snaps
<1>9. CASE Trigger(p)
  <2>1. pc' \in [Evaluators -> Labels]
    BY Zenon, <1>9, <1>g, <1>l DEF Trigger
  <2>2. wstatus' \in [Watches -> WatchStatuses]
    BY Zenon, <1>9, <1>s DEF Trigger, WatchStatuses
  <2> QED
    BY <1>0, <1>9, <2>1, <2>2 DEF Trigger, WatchTypeOK, Labels, Slots, Snaps
<1>10. CASE CreateAlert(p)
  <2>1. pc' \in [Evaluators -> Labels] /\ alerts' \subseteq Watches
    BY Zenon, <1>0, <1>2, <1>10, <1>g, <1>l DEF CreateAlert
  <2>2. snap' \in [Evaluators -> Snaps] /\ cur' \in [Evaluators -> Watches \cup {0}]
    BY Zenon, <1>0, <1>10, <1>f DEF CreateAlert
  <2> QED
    BY Zenon, <1>0, <1>10, <2>1, <2>2 DEF CreateAlert, WatchTypeOK, wtable, Labels, Slots, Snaps
<1>11. CASE Deliver(p)
  <2>1. pc' \in [Evaluators -> Labels]
    BY Zenon, <1>11, <1>g, <1>l DEF Deliver
  <2>2. snap' \in [Evaluators -> Snaps] /\ cur' \in [Evaluators -> Watches \cup {0}]
    BY Zenon, <1>11, <1>f DEF Deliver
  <2>3. Dispatch(p) => inflight' \in [Slots -> 0 .. NotifySlots]
    <3>1. Dispatcher(p) \in Slots
      BY Zenon DEF Dispatcher, Slots
    <3> QED
      BY <1>0, <1>1, <3>1 DEF Dispatch
  <2> QED
    BY <1>0, <1>11, <2>1, <2>2, <2>3 DEF Deliver, WatchTypeOK, wtable, Labels, Slots, Snaps
<1>12. ASSUME NEW b \in BOOLEAN, CheckWatch(p, b) PROVE WatchTypeOK'
  <2>0. cur[p] \in Watches
    BY <1>2, <1>12 DEF CheckWatch
  <2>1. pc' \in [Evaluators -> Labels]
    BY Zenon, <1>12, <1>g, <1>l DEF CheckWatch
  <2>2. snap' \in [Evaluators -> Snaps] /\ cur' \in [Evaluators -> Watches \cup {0}]
    BY Zenon, <1>0, <1>12, <1>f DEF CheckWatch
  <2>3. breaches' \in [Watches -> 0 .. MaxBreaches] /\ age' \in [Watches -> 0 .. 2]
    <3> DEFINE n == IF ~b THEN 0
                    ELSE IF snap[p].breaches < MaxBreaches THEN snap[p].breaches + 1
                    ELSE MaxBreaches
    <3>1. n \in 0 .. MaxBreaches
      BY <1>1, <1>3
    <3>2. UpdateAfterCheck(cur[p], n)
      BY Zenon, <1>12 DEF CheckWatch
    <3> HIDE DEF n
    <3> QED
      BY Zenon, <1>u, <2>0, <3>1, <3>2
  <2>4. streak' \in [Watches -> 0 .. MaxBreaches]
    <3> DEFINE n == IF ~b THEN 0 ELSE IF streak[cur[p]] < MaxBreaches THEN streak[cur[p]] + 1
                    ELSE streak[cur[p]]
    <3>1. n \in 0 .. MaxBreaches
      BY <1>1, <1>3, <2>0
    <3>2. streak' = [streak EXCEPT ![cur[p]] = n]
      BY Zenon, <1>12 DEF CheckWatch
    <3> HIDE DEF n
    <3> QED
      BY Zenon, <1>0, <3>1, <3>2
  <2> QED
    BY Zenon, <1>0, <1>12, <2>1, <2>2, <2>3, <2>4 DEF CheckWatch, WatchTypeOK, Labels, Slots, Snaps
<1>13. CASE EndPass(p)
  <2>1. pc' \in [Evaluators -> Labels]
    BY Zenon, <1>13, <1>g, <1>l DEF EndPass
  <2> QED
    BY Zenon, <1>0, <1>13, <2>1 DEF EndPass, WatchTypeOK, wtable, Labels, Slots, Snaps
<1> QED
  BY Zenon, <1>5, <1>6, <1>7, <1>8, <1>9, <1>10, <1>11, <1>12, <1>13 DEF Evaluate

(* The sweep keeps the types.                                              *)
LEMMA SweepTypes ==
  ASSUME WatchTypeOK, CurInv, Sweep
  PROVE  WatchTypeOK'
<1>0. /\ wstatus \in [Watches -> WatchStatuses] /\ pc \in [Evaluators -> Labels]
      /\ cur \in [Evaluators -> Watches \cup {0}] /\ snap \in [Evaluators -> Snaps]
      /\ todo \in [Evaluators -> SUBSET Watches] /\ "sched" \in Evaluators
  BY Zenon DEF WatchTypeOK, Labels, Slots, Snaps, Evaluators
<1>f. ForgetWatch("sched") =>
             cur' \in [Evaluators -> Watches \cup {0}] /\ snap' \in [Evaluators -> Snaps]
  <2>1. [status |-> "none", breaches |-> 0] \in Snaps
    BY WatchConstants DEF Snaps, WatchStatuses, MaxBreaches
  <2>2. ASSUME NEW none, none \in Snaps, snap' = [snap EXCEPT !["sched"] = none]
        PROVE  snap' \in [Evaluators -> Snaps]
    BY <1>0, <2>2
  <2> QED
    BY <1>0, <2>1, <2>2 DEF ForgetWatch
<1>g. \A l \in Labels : Goto("sched", l) => pc' \in [Evaluators -> Labels]
  BY <1>0 DEF Goto
<1>s. ASSUME NEW w, NEW st \in WatchStatuses, UpdateStatus(w, st)
      PROVE  wstatus' \in [Watches -> WatchStatuses]
  BY Zenon, <1>0, <1>s DEF UpdateStatus
<1>l. /\ "eval" \in Labels /\ "list" \in Labels /\ "sweep" \in Labels /\ "resolve" \in Labels
      /\ "idle" \in Labels
  BY Zenon DEF Labels
<1>1. CASE Tick
  <2>1. pc' \in [Evaluators -> Labels]
    BY <1>1, <1>g, <1>l DEF Tick
  <2>2. wstatus' \in [Watches -> WatchStatuses]
    BY Zenon, <1>0, <1>1 DEF Tick, WatchStatuses
  <2> QED
    BY Zenon, <1>1, <2>1, <2>2 DEF Tick, WatchTypeOK, Labels
<1>2. CASE ListTriggered
  <2>1. pc' \in [Evaluators -> Labels]
    BY <1>2, <1>g, <1>l DEF ListTriggered
  <2>2. NewestFew(With("triggered")) \in SUBSET Watches
    BY Zenon DEF NewestFew, With
  <2>3. todo' \in [Evaluators -> SUBSET Watches]
    BY <1>0, <1>2, <2>2 DEF ListTriggered
  <2>4. doomed' \subseteq Watches
    BY Zenon, <1>0, <1>2, <2>3 DEF ListTriggered
  <2> QED
    BY Zenon, <1>2, <2>1, <2>3, <2>4 DEF ListTriggered, WatchTypeOK, wtable, Labels
<1>3. CASE Resolve
  <2>1. pc' \in [Evaluators -> Labels]
    BY <1>3, <1>g, <1>l DEF Resolve
  <2>2. wstatus' \in [Watches -> WatchStatuses]
    BY Zenon, <1>0, <1>3, <1>s DEF Resolve, WatchStatuses
  <2> QED
    BY Zenon, <1>3, <1>f, <2>1, <2>2 DEF Resolve, WatchTypeOK, Labels, Snaps
<1>4. CASE GetDueWatches
  <2>1. pc' \in [Evaluators -> Labels]
    BY <1>4, <1>g, <1>l DEF GetDueWatches
  <2>2. todo' \in [Evaluators -> SUBSET Watches]
    BY Zenon, <1>0, <1>4 DEF GetDueWatches, With
  <2> QED
    BY Zenon, <1>4, <2>1, <2>2 DEF GetDueWatches, WatchTypeOK, wtable, Labels
<1>5. CASE Abandon
  <2>1. pc' \in [Evaluators -> Labels]
    BY <1>5, <1>g, <1>l DEF Abandon
  <2>2. todo' \in [Evaluators -> SUBSET Watches]
    BY Zenon, <1>0, <1>5 DEF Abandon
  <2> QED
    BY <1>5, <2>1, <2>2 DEF Abandon, WatchTypeOK, wtable, Labels
<1>6. ASSUME NEW w \in Watches, ExpireTriggered(w) PROVE WatchTypeOK'
  <2>1. todo' \in [Evaluators -> SUBSET Watches]
    BY <1>0, <1>6 DEF ExpireTriggered
  <2>2. wstatus' \in [Watches -> WatchStatuses]
    BY Zenon, <1>0, <1>6, <1>s DEF ExpireTriggered, WatchStatuses
  <2> QED
    BY Zenon, <1>6, <2>1, <2>2 DEF ExpireTriggered, WatchTypeOK
<1>7. ASSUME NEW w \in Watches, NEW b \in BOOLEAN, CheckAutoResolve(w, b) PROVE WatchTypeOK'
  <2>1. todo' \in [Evaluators -> SUBSET Watches]
    BY Zenon, <1>0, <1>7 DEF CheckAutoResolve
  <2>2. pc' \in [Evaluators -> Labels] /\ cur' \in [Evaluators -> Watches \cup {0}]
    BY Zenon, <1>0, <1>7, <1>g, <1>l DEF CheckAutoResolve
  <2> QED
    BY Zenon, <1>7, <2>1, <2>2 DEF CheckAutoResolve, WatchTypeOK, wtable, Labels
<1> QED
  BY Zenon, <1>1, <1>2, <1>3, <1>4, <1>5, <1>6, <1>7 DEF Sweep

(* Every step of the watcher keeps the types.                              *)
LEMMA WatchTypeStep == WatchTypeOK /\ CurInv /\ [WatchNext]_watchVars => WatchTypeOK'
<1> SUFFICES ASSUME WatchTypeOK, CurInv, [WatchNext]_watchVars PROVE WatchTypeOK'
  BY Zenon
<1>0. /\ wstatus \in [Watches -> WatchStatuses] /\ pc \in [Evaluators -> Labels]
      /\ breaches \in [Watches -> 0 .. MaxBreaches] /\ age \in [Watches -> 0 .. 2]
      /\ past \in [Watches -> BOOLEAN] /\ todo \in [Evaluators -> SUBSET Watches]
      /\ inflight \in [Slots -> 0 .. NotifySlots] /\ streak \in [Watches -> 0 .. MaxBreaches]
      /\ MaxBreaches \in Nat /\ NotifySlots \in Nat
  BY WatchConstants DEF WatchTypeOK, Labels, Slots, Snaps, MaxBreaches
<1>1. ASSUME NEW w \in Watches, Create(w) PROVE WatchTypeOK'
  <2>1. wstatus' \in [Watches -> WatchStatuses] /\ age' \in [Watches -> 0 .. 2]
    BY <1>0, <1>1 DEF Create, WatchStatuses
  <2> QED
    BY Zenon, <1>1, <2>1 DEF Create, evals, WatchTypeOK
<1>2. ASSUME NEW w \in Watches, Delete(w) PROVE WatchTypeOK'
  <2>1. wstatus' \in [Watches -> WatchStatuses] /\ past' \in [Watches -> BOOLEAN]
    BY Zenon, <1>0, <1>2 DEF Delete, WatchStatuses
  <2>2. age' \in [Watches -> 0 .. 2] /\ breaches' \in [Watches -> 0 .. MaxBreaches]
        /\ streak' \in [Watches -> 0 .. MaxBreaches]
    BY <1>0, <1>2 DEF Delete
  <2> QED
    BY Zenon, <1>2, <2>1, <2>2 DEF Delete, evals, WatchTypeOK
<1>3. ASSUME NEW w \in Watches, Age(w) \/ Expiry(w) PROVE WatchTypeOK'
  <2>1. CASE Age(w)
    <3>1. PICK n \in 0 .. 2 : n = age[w] + 1
      BY <1>0, <2>1 DEF Age
    <3>2. age' = [age EXCEPT ![w] = n]
      BY <2>1, <3>1 DEF Age
    <3>3. age' \in [Watches -> 0 .. 2]
      BY Zenon, <1>0, <3>2
    <3> QED
      BY <2>1, <3>3 DEF Age, evals, WatchTypeOK
  <2>2. CASE Expiry(w)
    <3>1. past' \in [Watches -> BOOLEAN]
      BY <1>0, <2>2, Zenon DEF Expiry
    <3> QED
      BY <2>2, <3>1 DEF Expiry, evals, WatchTypeOK
  <2> QED
    BY Zenon, <1>3, <2>1, <2>2
<1>4. ASSUME NEW p \in Evaluators, Evaluate(p) PROVE WatchTypeOK'
  BY <1>4, EvalTypes
<1>5. CASE Sweep
  BY Zenon, <1>5, SweepTypes
<1>6. ASSUME NEW s \in Streams, OnLogsReceived(s) PROVE WatchTypeOK'
  <2>1. todo' \in [Evaluators -> SUBSET Watches] /\ pc' \in [Evaluators -> Labels]
    BY Zenon, <1>0, <1>6 DEF OnLogsReceived, Goto, With, Labels
  <2> QED
    BY <1>6, <2>1 DEF OnLogsReceived, wtable, WatchTypeOK, Labels
<1>7. ASSUME NEW d \in Slots, Notified(d) PROVE WatchTypeOK'
  <2>1. PICK n \in 0 .. NotifySlots : n = inflight[d] - 1
    BY <1>0, <1>7 DEF Notified
  <2>2. inflight' = [inflight EXCEPT ![d] = n]
    BY <1>7, <2>1 DEF Notified
  <2>3. inflight' \in [Slots -> 0 .. NotifySlots]
    BY Zenon, <1>0, <2>2
  <2> QED
    BY <1>7, <2>3 DEF Notified, wtable, evals, WatchTypeOK, Slots
<1>8. CASE Shutdown \/ WatcherStopped \/ WatcherStart
  BY Zenon, <1>8 DEF Shutdown, WatcherStopped, WatcherStart, wtable, evals, WatchTypeOK
<1>9. CASE WatcherCrash
  <2>1. /\ pc' \in [Evaluators -> Labels] /\ cur' \in [Evaluators -> Watches \cup {0}]
        /\ todo' \in [Evaluators -> SUBSET Watches] /\ inflight' \in [Slots -> 0 .. NotifySlots]
    BY <1>0, <1>9 DEF WatcherCrash, Labels, Slots
  <2>2. snap' \in [Evaluators -> Snaps]
    BY <1>0, <1>9 DEF WatcherCrash, Snaps, WatchStatuses
  <2> QED
    BY Zenon, <1>9, <2>1, <2>2 DEF WatcherCrash, wtable, WatchTypeOK, Labels, Slots, Snaps
<1>10. CASE UNCHANGED watchVars
  BY <1>10 DEF watchVars, wtable, evals, WatchTypeOK
<1> QED
  BY <1>1, <1>2, <1>3, <1>4, <1>5, <1>6, <1>7, <1>8, <1>9, <1>10 DEF WatchNext, Slots

-----------------------------------------------------------------------------
(* Most steps let no evaluator into an evaluation, and change nothing that *)
(* one inside relies on.                                                   *)
Moved ==
    /\ \A q \in Evaluators : pc'[q] \in Evaluating =>
          pc[q] = pc'[q] /\ cur'[q] = cur[q] /\ snap'[q] = snap[q]
    /\ \A q \in Evaluators :
          pc'[q] \notin {"idle", "list", "sweep", "eval"} => cur'[q] \in Watches
Marked ==
    /\ \A w \in Watches : wstatus[w] # "none" => wstatus'[w] # "none"
    /\ \A w \in Watches : wstatus[w] = "deleted" => wstatus'[w] = "deleted"
    /\ \A q \in Evaluators : pc'[q] \in Evaluating /\ wstatus'[cur[q]] = "triggered"
                                => wstatus[cur[q]] = "triggered"
BreachesCounted ==
            /\ \A w \in Watches : breaches'[w] <= streak'[w]
            /\ \A q \in Evaluators : pc'[q] \in Evaluating /\ cur[q] \in WatchRows'
                                        => streak'[cur[q]] = streak[cur[q]]

(* A step that starts no evaluation and only ends or forgets others keeps  *)
(* what the evaluations rest on.                                           *)
LEMMA QuietStep ==
  ASSUME WatchInv, Moved, Marked, BreachesCounted
  PROVE  CurInv' /\ ReadInv' /\ StreakInv'
<1>0. \A q \in Evaluators : pc'[q] \in Evaluating =>
        /\ pc[q] = pc'[q] /\ pc[q] \in Evaluating /\ cur'[q] = cur[q] /\ snap'[q] = snap[q]
        /\ cur[q] \in Watches /\ wstatus[cur[q]] # "none"
  BY Zenon DEF Moved, WatchInv, CurInv, Evaluating
<1>1. CurInv'
  <2>1. \A q \in Evaluators : pc'[q] \in Evaluating => wstatus'[cur'[q]] # "none"
    BY Zenon, <1>0 DEF Marked
  <2>2. \A p, q \in Evaluators :
          p # q /\ pc'[p] \in Evaluating /\ pc'[q] \in Evaluating => cur'[p] # cur'[q]
    BY <1>0 DEF WatchInv, CurInv
  <2> QED
    BY <2>1, <2>2 DEF Moved, CurInv
<1>2. ReadInv'
  BY <1>0 DEF WatchInv, ReadInv, Marked, Evaluating
<1>3. \A q \in Evaluators : pc'[q] \in Evaluating /\ cur[q] \in WatchRows' => cur[q] \in WatchRows
  BY Zenon, <1>0 DEF WatchRows, Marked
<1>4. StreakInv'
  BY <1>0, <1>3 DEF WatchInv, StreakInv, BreachesCounted
<1> QED
  BY <1>1, <1>2, <1>4

(* The lock and the read of the row.                                       *)
LEMMA ReadStep ==
  ASSUME WatchInv, NEW p \in Evaluators, Read(p)
  PROVE  CurInv' /\ ReadInv' /\ StreakInv'
<1>0. /\ pc \in [Evaluators -> Labels] /\ cur \in [Evaluators -> Watches \cup {0}]
      /\ snap \in [Evaluators -> Snaps] /\ pc[p] = "lock" /\ cur[p] \in Watches
      /\ wstatus' = wstatus /\ streak' = streak /\ breaches' = breaches
  BY Zenon DEF WatchInv, WatchTypeOK, CurInv, Read, wtable, Labels, Snaps
<1>1. CASE Goto(p, "eval") /\ ForgetWatch(p)
  <2>1. Moved
    BY Zenon, <1>0, <1>1 DEF Moved, Goto, ForgetWatch, Evaluating, WatchInv, CurInv
  <2>2. Marked /\ BreachesCounted
    BY <1>0 DEF Marked, BreachesCounted, WatchInv, StreakInv
  <2> QED
    BY <2>1, <2>2, QuietStep
<1>2. CASE /\ Working /\ cur[p] \in WatchRows /\ Goto(p, "measure") /\ UNCHANGED cur
           /\ snap' = [snap EXCEPT ![p] = [status |-> wstatus[cur[p]],
                                           breaches |-> breaches[cur[p]]]]
  <2>1. /\ pc' = [pc EXCEPT ![p] = "measure"] /\ cur' = cur
        /\ snap'[p].status = wstatus[cur[p]] /\ snap'[p].breaches = breaches[cur[p]]
        /\ \A q \in Evaluators \ {p} : snap'[q] = snap[q] /\ pc'[q] = pc[q]
        /\ pc'[p] = "measure" /\ WatchRows' = WatchRows
    BY Zenon, <1>0, <1>2 DEF Goto, WatchRows
  <2>2. \A q \in Evaluators : pc[q] \in Evaluating => cur[q] # cur[p]
    BY DEF Read, WatchLocked, Evaluating
  <2>3. wstatus[cur[p]] # "none"
    BY Zenon, <1>2 DEF WatchRows
  <2>4. CurInv'
    BY Zenon, <1>0, <2>1, <2>2, <2>3 DEF WatchInv, CurInv, Evaluating
  <2>5. ReadInv'
    BY Zenon, <1>0, <2>1 DEF WatchInv, ReadInv, Evaluating
  <2>6. StreakInv'
    <3>1. breaches[cur[p]] <= streak[cur[p]]
      BY <1>0 DEF WatchInv, StreakInv
    <3>2. \A q \in Evaluators : pc'[q] \in Evaluating /\ cur'[q] \in WatchRows' =>
            /\ snap'[q].breaches <= streak'[cur'[q]]
            /\ pc'[q] = "trigger" => streak'[cur'[q]] >= MinConsecutive
      BY Zenon, <1>0, <2>1, <3>1 DEF WatchInv, StreakInv, Evaluating
    <3> QED
      BY Zenon, <1>0, <3>2 DEF WatchInv, StreakInv
  <2> QED
    BY Zenon, <2>4, <2>5, <2>6
<1> QED
  BY Zenon, <1>1, <1>2 DEF Read

(* A check stores its counter, and goes on to fire or not.                 *)
LEMMA CheckStep ==
  ASSUME WatchInv, NEW p \in Evaluators, NEW b \in BOOLEAN, CheckWatch(p, b)
  PROVE  CurInv' /\ ReadInv' /\ StreakInv'
<1> DEFINE n == IF ~b THEN 0
                ELSE IF snap[p].breaches < MaxBreaches THEN snap[p].breaches + 1
                ELSE MaxBreaches
           m == IF ~b THEN 0 ELSE IF streak[cur[p]] < MaxBreaches THEN streak[cur[p]] + 1
                ELSE streak[cur[p]]
<1>0. /\ pc \in [Evaluators -> Labels] /\ cur \in [Evaluators -> Watches \cup {0}]
      /\ snap \in [Evaluators -> Snaps] /\ pc[p] = "measure" /\ cur[p] \in WatchRows
      /\ breaches \in [Watches -> 0 .. MaxBreaches] /\ streak \in [Watches -> 0 .. MaxBreaches]
      /\ wstatus' = wstatus
  BY DEF WatchInv, WatchTypeOK, CheckWatch, Labels, Snaps
<1>1. /\ cur[p] \in Watches /\ snap[p].breaches \in 0 .. MaxBreaches
      /\ streak[cur[p]] \in 0 .. MaxBreaches /\ MaxBreaches \in Nat /\ MinConsecutive \in Nat
      /\ snap[p].breaches <= streak[cur[p]]
  <2>1. MaxBreaches \in Nat /\ MinConsecutive \in Nat
    BY WatchConstants DEF MaxBreaches
  <2>2. cur[p] \in Watches
    BY <1>0 DEF WatchRows
  <2>3. snap[p].breaches \in 0 .. MaxBreaches /\ streak[cur[p]] \in 0 .. MaxBreaches
    BY Zenon, <1>0, <2>2 DEF Snaps
  <2>4. snap[p].breaches <= streak[cur[p]]
    BY <1>0 DEF WatchInv, StreakInv, Evaluating
  <2> QED
    BY Zenon, <2>1, <2>2, <2>3, <2>4
<1>2. n <= m /\ n \in 0 .. MaxBreaches /\ m \in 0 .. MaxBreaches
  <2>1. CASE b
    BY <1>1, <2>1
  <2>2. CASE ~b
    BY <1>1, <2>2
  <2> QED
    BY Zenon, <2>1, <2>2
<1>3. breaches' = [breaches EXCEPT ![cur[p]] = n] /\ streak' = [streak EXCEPT ![cur[p]] = m]
  BY Zenon DEF CheckWatch, UpdateAfterCheck
<1>4. \/ Goto(p, "trigger") /\ UNCHANGED <<cur, snap>> /\ b /\ Fires(p, n)
      \/ Goto(p, "eval") /\ ForgetWatch(p)
  BY Zenon DEF CheckWatch
<1> HIDE DEF n, m
<1>5. \A w \in Watches : breaches'[w] <= streak'[w]
  BY Zenon, <1>0, <1>2, <1>3 DEF WatchInv, StreakInv
<1>6. \A q \in Evaluators \ {p} : pc[q] \in Evaluating =>
        cur[q] # cur[p] /\ cur[q] \in Watches /\ streak'[cur[q]] = streak[cur[q]]
  BY <1>0, <1>3 DEF WatchInv, CurInv, Evaluating
<1>7. WatchRows' = WatchRows
  BY <1>0 DEF WatchRows
<1>8. CASE Goto(p, "eval") /\ ForgetWatch(p)
  <2>1. Moved
    BY <1>0, <1>8 DEF Moved, Goto, ForgetWatch, Evaluating, WatchInv, CurInv
  <2>2. Marked
    BY Zenon, <1>0 DEF Marked
  <2>3. BreachesCounted
    BY <1>0, <1>5, <1>6, <1>8 DEF BreachesCounted, Goto, Evaluating
  <2> QED
    BY Zenon, <2>1, <2>2, <2>3, QuietStep
<1>9. CASE Goto(p, "trigger") /\ UNCHANGED <<cur, snap>> /\ b /\ Fires(p, n)
  <2>1. /\ pc' = [pc EXCEPT ![p] = "trigger"] /\ cur' = cur /\ snap' = snap
        /\ snap[p].status # "triggered" /\ n >= MinConsecutive
    BY Zenon, <1>9 DEF Goto, Fires
  <2>2. CurInv'
    BY Zenon, <1>0, <1>1, <2>1 DEF WatchInv, CurInv, Evaluating
  <2>3. ReadInv'
    BY <1>0, <2>1 DEF WatchInv, ReadInv, Evaluating
  <2>4. streak'[cur[p]] = m /\ m >= MinConsecutive /\ snap[p].breaches <= m
    <3>1. streak'[cur[p]] = m
      BY Zenon, <1>0, <1>1, <1>3
    <3>2. m >= MinConsecutive
      BY <1>1, <1>2, <2>1
    <3>3. snap[p].breaches <= m
      BY <1>1, <1>9 DEF m
    <3> QED
      BY Zenon, <3>1, <3>2, <3>3
  <2>5. \A q \in Evaluators : pc'[q] \in Evaluating /\ cur[q] \in WatchRows =>
          /\ snap[q].breaches <= streak'[cur[q]]
          /\ pc'[q] = "trigger" => streak'[cur[q]] >= MinConsecutive
    BY Zenon, <1>0, <1>6, <2>1, <2>4 DEF WatchInv, StreakInv, Evaluating
  <2>6. StreakInv'
    BY Zenon, <1>5, <1>7, <2>1, <2>5 DEF StreakInv
  <2> QED
    BY <2>2, <2>3, <2>6
<1> QED
  BY Zenon, <1>4, <1>8, <1>9

(* The other steps of an evaluation.                                       *)
LEMMA EvalStep ==
  ASSUME WatchInv, NEW p \in Evaluators, Evaluate(p)
  PROVE  CurInv' /\ ReadInv' /\ StreakInv'
<1>0. /\ pc \in [Evaluators -> Labels] /\ cur \in [Evaluators -> Watches \cup {0}]
      /\ snap \in [Evaluators -> Snaps] /\ wstatus \in [Watches -> WatchStatuses]
      /\ breaches \in [Watches -> 0 .. MaxBreaches]
      /\ \A w \in Watches : breaches[w] <= streak[w]
      /\ \A q \in Evaluators : pc[q] \notin {"idle", "list", "sweep", "eval"} => cur[q] \in Watches
  BY Zenon DEF WatchInv, WatchTypeOK, CurInv, StreakInv, Labels, Snaps
<1>n. Goto(p, "eval") /\ ForgetWatch(p) => Moved
  BY <1>0 DEF Moved, Goto, ForgetWatch, Evaluating
<1>s. \A w : \A st \in {"expired", "triggered"} : UpdateStatus(w, st) =>
        /\ \A v \in Watches : /\ wstatus[v] # "none" => wstatus'[v] # "none"
                              /\ wstatus[v] = "deleted" => wstatus'[v] = "deleted"
                              /\ v # w => wstatus'[v] = wstatus[v]
        /\ st = "expired" => \A v \in Watches : wstatus'[v] = "triggered" => wstatus[v] = "triggered"
  BY Zenon, <1>0 DEF UpdateStatus, WatchRows
<1>q. wstatus' = wstatus /\ breaches' = breaches /\ streak' = streak => Marked /\ BreachesCounted
  BY <1>0 DEF Marked, BreachesCounted
<1>1. ASSUME NEW w \in Watches, CreateRun(p, w) PROVE CurInv' /\ ReadInv' /\ StreakInv'
  <2>1. Moved
    BY <1>0, <1>1 DEF CreateRun, Moved, Goto, Evaluating
  <2>2. Marked /\ BreachesCounted
    BY <1>1, <1>q DEF CreateRun, wtable
  <2> QED
    BY Zenon, <2>1, <2>2, QuietStep
<1>2. CASE FailedCheck(p)
  <2>1. Moved /\ pc[p] \in Evaluating /\ cur[p] \in Watches
    BY <1>0, <1>2, <1>n DEF FailedCheck, Evaluating
  <2>2. Marked
    BY Zenon, <1>2 DEF FailedCheck, Marked
  <2>3. BreachesCounted
    <3>1. cur[p] \in WatchRows => snap[p].breaches <= streak[cur[p]]
      BY Zenon, <2>1 DEF WatchInv, StreakInv
    <3>2. CASE UNCHANGED <<breaches, age>>
      BY Zenon, <1>0, <1>2, <3>2 DEF FailedCheck, BreachesCounted
    <3>3. CASE Working /\ cur[p] \in WatchRows /\ UpdateAfterCheck(cur[p], snap[p].breaches)
      BY <1>0, <1>2, <3>1, <3>3 DEF FailedCheck, BreachesCounted, UpdateAfterCheck
    <3> QED
      BY Zenon, <1>2, <3>2, <3>3 DEF FailedCheck
  <2> QED
    BY Zenon, <2>1, <2>2, <2>3, QuietStep
<1>3. CASE Invalid(p)
  <2>1. Moved /\ cur[p] \in Watches
    BY Zenon, <1>0, <1>3, <1>n DEF Invalid
  <2>2. BreachesCounted
    BY Zenon, <1>0, <1>3 DEF Invalid, BreachesCounted
  <2>3. UpdateStatus(cur[p], "expired")
    BY Zenon, <1>3 DEF Invalid
  <2>4. \A q \in Evaluators : pc'[q] \in Evaluating => cur[q] \in Watches
    BY Zenon, <1>0, <2>1 DEF Moved, Evaluating
  <2>5. Marked
    BY <1>s, <2>3, <2>4 DEF Marked
  <2> QED
    BY Zenon, <2>1, <2>2, <2>5, QuietStep
<1>4. CASE Trigger(p)
  <2>1. /\ pc' = [pc EXCEPT ![p] = "alert"] /\ cur' = cur /\ snap' = snap
        /\ breaches' = breaches /\ streak' = streak /\ pc[p] = "trigger"
    BY Zenon, <1>4 DEF Trigger, Goto
  <2>2. Moved /\ cur[p] \in Watches
    BY Zenon, <1>0, <2>1 DEF Moved, Evaluating
  <2>3. BreachesCounted
    BY <1>0, <2>1 DEF BreachesCounted
  <2>4. UpdateStatus(cur[p], "triggered")
    BY Zenon, <1>4 DEF Trigger
  <2>5. \A q \in Evaluators : pc'[q] \in Evaluating => cur[q] \in Watches /\ cur[q] # cur[p]
    BY <1>0, <2>1 DEF WatchInv, CurInv, Evaluating
  <2>6. Marked
    BY Zenon, <1>s, <2>4, <2>5 DEF Marked
  <2> QED
    BY <2>2, <2>3, <2>6, QuietStep
<1>5. CASE CreateAlert(p)
  <2>1. CASE Goto(p, "deliver") /\ UNCHANGED <<cur, snap>>
    <3>1. Moved
      BY <1>0, <1>5, <2>1 DEF CreateAlert, Moved, Goto, Evaluating
    <3> QED
      BY Zenon, <1>5, <1>q, <3>1, QuietStep DEF CreateAlert, wtable
  <2>2. CASE Goto(p, "eval") /\ ForgetWatch(p)
    BY Zenon, <1>5, <1>n, <1>q, <2>2, QuietStep DEF CreateAlert, wtable
  <2> QED
    BY Zenon, <1>5, <2>1, <2>2 DEF CreateAlert
<1>6. CASE Deliver(p)
  BY Zenon, <1>6, <1>n, <1>q, QuietStep DEF Deliver, wtable
<1>7. CASE EndPass(p)
  <2>1. Moved
    BY <1>0, <1>7 DEF EndPass, Moved, Goto, Evaluating
  <2> QED
    BY Zenon, <1>7, <1>q, <2>1, QuietStep DEF EndPass, wtable
<1> QED
  BY Zenon, <1>1, <1>2, <1>3, <1>4, <1>5, <1>6, <1>7, ReadStep, CheckStep DEF Evaluate

(* The scheduler's sweep: it takes no lock and lets no watch fire.         *)
LEMMA SweepStep ==
  ASSUME WatchInv, Sweep
  PROVE  CurInv' /\ ReadInv' /\ StreakInv'
<1>0. /\ pc \in [Evaluators -> Labels] /\ cur \in [Evaluators -> Watches \cup {0}]
      /\ snap \in [Evaluators -> Snaps] /\ wstatus \in [Watches -> WatchStatuses]
      /\ \A w \in Watches : breaches[w] <= streak[w]
      /\ \A q \in Evaluators : pc[q] \notin {"idle", "list", "sweep", "eval"} => cur[q] \in Watches
      /\ "sched" \in Evaluators
  BY DEF WatchInv, WatchTypeOK, CurInv, StreakInv, Labels, Snaps, Evaluators
<1>1. BreachesCounted
  BY Zenon, <1>0 DEF Sweep, Tick, ListTriggered, Resolve, GetDueWatches, Abandon, ExpireTriggered,
              CheckAutoResolve, BreachesCounted, wtable
<1>2. Moved
  <2>1. CASE Tick \/ ListTriggered \/ GetDueWatches \/ Abandon
    BY Zenon, <1>0, <2>1 DEF Tick, ListTriggered, GetDueWatches, Abandon, Moved, Goto, Evaluating
  <2>2. CASE Resolve
    BY Zenon, <1>0, <2>2 DEF Resolve, Moved, Goto, ForgetWatch, Evaluating
  <2>3. ASSUME NEW w \in Watches, ExpireTriggered(w) PROVE Moved
    BY Zenon, <1>0, <2>3 DEF ExpireTriggered, Moved, Evaluating
  <2>4. ASSUME NEW w \in Watches, NEW b \in BOOLEAN, CheckAutoResolve(w, b) PROVE Moved
    BY Zenon, <1>0, <2>4 DEF CheckAutoResolve, Moved, Goto, Evaluating
  <2> QED
    BY Zenon, <2>1, <2>2, <2>3, <2>4 DEF Sweep
<1>3. \A v \in Watches : /\ wstatus[v] # "none" => wstatus'[v] # "none"
                         /\ wstatus[v] = "deleted" => wstatus'[v] = "deleted"
                         /\ wstatus'[v] = "triggered" => wstatus[v] = "triggered"
  <2>1. CASE Tick
    BY Zenon, <1>0, <2>1 DEF Tick
  <2>2. CASE ListTriggered \/ GetDueWatches \/ Abandon
    BY Zenon, <2>2 DEF ListTriggered, GetDueWatches, Abandon, wtable
  <2>3. CASE Resolve
    BY Zenon, <1>0, <2>3 DEF Resolve, UpdateStatus, WatchRows
  <2>4. ASSUME NEW w \in Watches, ExpireTriggered(w)
        PROVE  \A v \in Watches : /\ wstatus[v] # "none" => wstatus'[v] # "none"
                                  /\ wstatus[v] = "deleted" => wstatus'[v] = "deleted"
                                  /\ wstatus'[v] = "triggered" => wstatus[v] = "triggered"
    BY <1>0, <2>4 DEF ExpireTriggered, UpdateStatus, WatchRows
  <2>5. ASSUME NEW w \in Watches, NEW b \in BOOLEAN, CheckAutoResolve(w, b)
        PROVE  wstatus' = wstatus
    BY Zenon, <2>5 DEF CheckAutoResolve, wtable
  <2> QED
    BY Zenon, <2>1, <2>2, <2>3, <2>4, <2>5 DEF Sweep
<1>4. Marked
  <2>1. \A q \in Evaluators : pc'[q] \in Evaluating => cur[q] \in Watches
    BY Zenon, <1>0, <1>2 DEF Moved, Evaluating
  <2> QED
    BY Zenon, <1>3, <2>1 DEF Marked
<1> QED
  BY Zenon, <1>1, <1>2, <1>4, QuietStep

(* Every step of the watcher keeps its invariant.                          *)
LEMMA WatchStep == WatchInv /\ [WatchNext]_watchVars => WatchInv'
<1> SUFFICES ASSUME WatchInv, [WatchNext]_watchVars PROVE WatchInv'
  BY Zenon
<1>0. /\ pc \in [Evaluators -> Labels] /\ wstatus \in [Watches -> WatchStatuses]
      /\ breaches \in [Watches -> 0 .. MaxBreaches] /\ streak \in [Watches -> 0 .. MaxBreaches]
      /\ \A w \in Watches : breaches[w] <= streak[w]
      /\ \A q \in Evaluators : pc[q] \notin {"idle", "list", "sweep", "eval"} => cur[q] \in Watches
      /\ \A q \in Evaluators : pc[q] \in Evaluating => wstatus[cur[q]] # "none"
  BY DEF WatchInv, WatchTypeOK, CurInv, StreakInv, Labels
<1>1. WatchTypeOK'
  BY WatchTypeStep DEF WatchInv
<1> SUFFICES CurInv' /\ ReadInv' /\ StreakInv'
  BY <1>1 DEF WatchInv
<1>e. evals' = evals => Moved
  BY Zenon, <1>0 DEF evals, Moved, Evaluating
<1>q. wstatus' = wstatus /\ breaches' = breaches /\ streak' = streak => Marked /\ BreachesCounted
  BY <1>0 DEF Marked, BreachesCounted
<1>2. ASSUME NEW w \in Watches, Create(w) PROVE CurInv' /\ ReadInv' /\ StreakInv'
  <2>1. Moved
    BY <1>2, <1>e DEF Create
  <2>2. \A q \in Evaluators : pc'[q] \in Evaluating => cur[q] \in Watches
    BY Zenon, <1>0, <2>1 DEF Moved, Evaluating
  <2>3. Marked
    BY Zenon, <1>0, <1>2, <2>2 DEF Create, Marked
  <2>4. BreachesCounted
    BY <1>0, <1>2 DEF Create, BreachesCounted
  <2> QED
    BY <2>1, <2>3, <2>4, QuietStep
<1>3. ASSUME NEW w \in Watches, Delete(w) PROVE CurInv' /\ ReadInv' /\ StreakInv'
  <2>1. Moved
    BY Zenon, <1>3, <1>e DEF Delete
  <2>2. \A q \in Evaluators : pc'[q] \in Evaluating => cur[q] \in Watches
    BY Zenon, <1>0, <2>1 DEF Moved, Evaluating
  <2>3. Marked
    BY Zenon, <1>0, <1>3, <2>2 DEF Delete, Marked
  <2>4. \A v \in Watches : breaches'[v] <= streak'[v]
    BY <1>0, <1>3 DEF Delete
  <2>5. \A v \in WatchRows' : streak'[v] = streak[v]
    BY <1>0, <1>3 DEF Delete, WatchRows
  <2> QED
    BY Zenon, <2>1, <2>3, <2>4, <2>5, QuietStep DEF BreachesCounted
<1>4. ASSUME NEW w \in Watches, Age(w) \/ Expiry(w) PROVE CurInv' /\ ReadInv' /\ StreakInv'
  <2>1. evals' = evals /\ wstatus' = wstatus /\ breaches' = breaches /\ streak' = streak
    BY Zenon, <1>4 DEF Age, Expiry
  <2> QED
    BY Zenon, <1>e, <1>q, <2>1, QuietStep
<1>5. ASSUME NEW s \in Streams, OnLogsReceived(s) PROVE CurInv' /\ ReadInv' /\ StreakInv'
  <2>1. Moved
    BY Zenon, <1>0, <1>5 DEF OnLogsReceived, Goto, Moved, Evaluating
  <2>2. wstatus' = wstatus /\ breaches' = breaches /\ streak' = streak
    BY Zenon, <1>5 DEF OnLogsReceived, wtable
  <2> QED
    BY Zenon, <1>q, <2>1, <2>2, QuietStep
<1>6. ASSUME NEW d \in {"sched", "stream"}, Notified(d) PROVE CurInv' /\ ReadInv' /\ StreakInv'
  <2>1. evals' = evals /\ wstatus' = wstatus /\ breaches' = breaches /\ streak' = streak
    BY Zenon, <1>6 DEF Notified, wtable
  <2> QED
    BY Zenon, <1>e, <1>q, <2>1, QuietStep
<1>7. CASE Shutdown \/ WatcherStopped \/ WatcherStart
  <2>1. evals' = evals /\ wstatus' = wstatus /\ breaches' = breaches /\ streak' = streak
    BY Zenon, <1>7 DEF Shutdown, WatcherStopped, WatcherStart, wtable
  <2> QED
    BY <1>e, <1>q, <2>1, QuietStep
<1>8. CASE WatcherCrash
  <2>1. Moved
    BY Zenon, <1>8 DEF WatcherCrash, Moved, Evaluating
  <2> QED
    BY Zenon, <1>8, <1>q, <2>1, QuietStep DEF WatcherCrash, wtable
<1>9. CASE UNCHANGED watchVars
  BY <1>9, <1>e, <1>q, QuietStep DEF watchVars, wtable
<1> QED
  BY <1>2, <1>3, <1>4, <1>5, <1>6, <1>7, <1>8, <1>9, EvalStep, SweepStep DEF WatchNext

-----------------------------------------------------------------------------
(* The inductive invariant holds.                                          *)
THEOREM WatchInvariance == WatchSpec => []WatchInv
BY WatchInitInv, WatchStep, PTL DEF WatchSpec

(* Types: the breach counter, the deliveries under way and the rest of the *)
(* engine's state stay in range, whatever the number of passes.            *)
THEOREM WatchTypeCorrect == WatchSpec => []WatchTypeOK
<1>1. WatchInv => WatchTypeOK
  BY Zenon DEF WatchInv
<1> QED
  BY <1>1, WatchInvariance, PTL

(* Scheduler and reactive passes never both fire on one episode: whoever   *)
(* has decided to fire holds the keyed mutex of a watch that is not        *)
(* triggered (Evaluate, evaluateLocked).                                   *)
THEOREM OneFiring == WatchSpec => []FiresOnce
<1>1. WatchInv => FiresOnce
  BY DEF WatchInv, ReadInv, FiresOnce, Evaluating
<1> QED
  BY <1>1, WatchInvariance, PTL

(* A watch goes to "triggered" only after MinConsecutive breached checks   *)
(* in a row, although a failed check puts the counter back to what was     *)
(* read (recordFailedCheck).                                               *)
THEOREM BreachesSuffice == WatchSpec => EnoughBreaches
<1> DEFINE Late == \A w \in Watches : wstatus[w] # "triggered" /\ wstatus'[w] = "triggered"
                                         => streak[w] >= MinConsecutive
<1>1. WatchInv /\ [WatchNext]_watchVars => [Late]_watchVars
  <2> SUFFICES ASSUME WatchInv, WatchNext, NEW w \in Watches,
                      wstatus[w] # "triggered", wstatus'[w] = "triggered"
               PROVE  streak[w] >= MinConsecutive
    BY Zenon
  <2>0. wstatus \in [Watches -> WatchStatuses]
    BY Zenon DEF WatchInv, WatchTypeOK
  <2>1. ASSUME NEW p \in Evaluators, Trigger(p) PROVE streak[w] >= MinConsecutive
    <3>1. cur[p] \in WatchRows /\ pc[p] = "trigger" /\ UpdateStatus(cur[p], "triggered")
      BY Zenon, <2>1 DEF Trigger
    <3>2. w = cur[p]
      BY <2>0, <3>1 DEF UpdateStatus
    <3> QED
      BY Zenon, <3>1, <3>2 DEF WatchInv, StreakInv, Evaluating
  <2>2. ASSUME NEW p \in Evaluators, Evaluate(p), ~Trigger(p) PROVE FALSE
    BY Zenon, <2>0, <2>2 DEF Evaluate, CreateRun, Read, FailedCheck, Invalid, CreateAlert, Deliver, CheckWatch,
                      EndPass, UpdateStatus, wtable
  <2>3. ~Sweep
    BY Zenon, <2>0 DEF Sweep, Tick, ListTriggered, Resolve, GetDueWatches, Abandon, ExpireTriggered,
                CheckAutoResolve, UpdateStatus, wtable
  <2>4. ASSUME NEW v \in Watches, Create(v) \/ Delete(v) \/ Age(v) \/ Expiry(v) PROVE FALSE
    BY <2>0, <2>4 DEF Create, Delete, Age, Expiry
  <2>5. ASSUME \/ \E s \in Streams : OnLogsReceived(s)
               \/ \E d \in {"sched", "stream"} : Notified(d)
               \/ Shutdown \/ WatcherStopped \/ WatcherCrash \/ WatcherStart
        PROVE  FALSE
    BY Zenon, <2>5 DEF OnLogsReceived, Notified, Shutdown, WatcherStopped, WatcherCrash, WatcherStart, wtable
  <2> QED
    BY <2>1, <2>2, <2>3, <2>4, <2>5 DEF WatchNext
<1> QED
  BY <1>1, WatchInvariance, PTL DEF WatchSpec, EnoughBreaches

=============================================================================
