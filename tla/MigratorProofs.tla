--------------------------- MODULE MigratorProofs ---------------------------
(***************************************************************************)
(* Theorems about Migrator, for every set of runners and migrations, every *)
(* build, number of statements and number of calls.                        *)
(***************************************************************************)
EXTENDS Migrator, SequenceTheorems, WellFoundedInduction, TLAPS

Phases == {"up", "down", "drop", "uninstall"}
Places == {"idle", "install", "list", "loop", "body", "tables", "dropping", "uninstall"}

\* One runner's step.
Step(r) ==
    \/ \E o \in Operations, fs \in Builds, n \in StepChoices : Start(r, o, fs, n)
    \/ Install(r) \/ List(r) \/ EndLoop(r) \/ Body(r) \/ Record(r)
    \/ \E m \in Migrations : Begin(r, m)
    \/ ListTables(r) \/ Drop(r) \/ EndDrop(r) \/ Uninstall(r) \/ Stop(r)

\* A runner that is at work has a phase to end; the rows have a youngest.
BusyInv == \A r \in Runners : pc[r] # "idle" => phases[r] # <<>>
BoundInv == \E k \in Nat : \A m \in Migrations : appliedAt[m] <= k

TypeInv == TypeOK /\ BusyInv /\ BoundInv

LEMMA NextIsStep == Next <=> \E r \in Runners : Step(r)
BY DEF Next, Step

(***************************************************************************)
(* Youngest is a natural number and an upper bound.                        *)
(***************************************************************************)
LEMMA LeastElement ==
    ASSUME NEW T \in SUBSET Nat, T # {}
    PROVE  \E k \in T : \A j \in T : k <= j
<1> DEFINE R == OpToRel(<, Nat)
<1>1. IsWellFoundedOn(R, Nat)
  BY NatLessThanWellFounded
<1>2. \A x, y \in Nat : <<x, y>> \in R <=> x < y
  BY DEF OpToRel
<1> HIDE DEF R
<1>3. PICK k \in T : \A j \in T : ~ (<<j, k>> \in R)
  BY <1>1, WFMin
<1>4. \A j \in T : k <= j
  <2> SUFFICES ASSUME NEW j \in T PROVE k <= j
    OBVIOUS
  <2>1. j \in Nat /\ k \in Nat /\ <<j, k>> \notin R
    BY <1>3
  <2>2. ~ (j < k)
    BY <1>2, <2>1
  <2> QED BY <2>1, <2>2
<1> QED BY <1>4

LEMMA YoungestIsBound ==
    ASSUME TypeOK, BoundInv
    PROVE  Youngest \in Nat /\ \A m \in Migrations : appliedAt[m] <= Youngest
<1> DEFINE Bounds == {k \in Nat : \A m \in Migrations : appliedAt[m] <= k}
<1> DEFINE Ranks == {appliedAt[m] : m \in Migrations}
<1>1. PICK k \in Bounds : \A j \in Bounds : k <= j
  <2>1. Bounds \in SUBSET Nat /\ Bounds # {}
    BY DEF BoundInv
  <2> HIDE DEF Bounds
  <2> QED BY <2>1, LeastElement
<1>2. k \in Ranks
  <2> SUFFICES ASSUME k \notin Ranks PROVE FALSE
    OBVIOUS
  <2>1. \A m \in Migrations : appliedAt[m] \in Nat /\ appliedAt[m] < k
    BY <1>1 DEF TypeOK
  <2>2. k - 1 \in Bounds
    BY <1>1, <2>1, MigratorAssumption
  <2> QED BY <1>1, <2>2
<1>3. \A m \in Migrations : appliedAt[m] <= k
  BY <1>1
<1>4. Youngest \in Ranks /\ \A m \in Migrations : appliedAt[m] <= Youngest
  BY <1>2, <1>3 DEF Youngest
<1> QED BY <1>4 DEF TypeOK

(***************************************************************************)
(* The operations' phases and their ends.                                  *)
(***************************************************************************)
LEMMA PhasesTyped ==
    ASSUME NEW o \in Operations
    PROVE  PhasesOf[o] \in Seq(Phases) /\ PhasesOf[o] # <<>>
<1>1. o \in {"up", "down", "refresh", "reset", "fresh", "uninstall"}
  BY MigratorAssumption
<1>2. /\ PhasesOf["up"] = <<"up">> /\ PhasesOf["down"] = <<"down">>
      /\ PhasesOf["refresh"] = <<"down", "up">> /\ PhasesOf["reset"] = <<"down", "uninstall">>
      /\ PhasesOf["fresh"] = <<"drop", "up">> /\ PhasesOf["uninstall"] = <<"uninstall">>
  BY DEF PhasesOf
<1>3. PhasesOf[o] \in {<<"up">>, <<"down">>, <<"down", "up">>, <<"down", "uninstall">>,
                       <<"drop", "up">>, <<"uninstall">>}
  BY <1>1, <1>2
<1> HIDE DEF PhasesOf
<1>4. \A a \in Phases : <<a>> \in Seq(Phases) /\ <<a>> # <<>>
  OBVIOUS
<1>5. \A a, b \in Phases : <<a, b>> \in Seq(Phases) /\ <<a, b>> # <<>>
  OBVIOUS
<1>6. {"up", "down", "drop", "uninstall"} = Phases
  BY DEF Phases
<1> QED BY <1>3, <1>4, <1>5, <1>6

LEMMA EndPhaseTyped ==
    ASSUME TypeOK, BusyInv, NEW r \in Runners, pc[r] # "idle", EndPhase(r)
    PROVE  /\ phases' \in [Runners -> Seq(Phases)]
           /\ pc' \in [Runners -> Places]
           /\ answer' \in [Runners -> {"none", "ok", "failed"}]
           /\ BusyInv'
<1>1. phases \in [Runners -> Seq(Phases)] /\ phases[r] # <<>>
  BY DEF TypeOK, BusyInv, Phases
<1>2. Tail(phases[r]) \in Seq(Phases)
  BY <1>1
<1>3. phases' \in [Runners -> Seq(Phases)]
  BY <1>1, <1>2 DEF EndPhase
<1>4. CASE Tail(phases[r]) = <<>>
  BY <1>3, <1>4 DEF EndPhase, Goto, TypeOK, BusyInv, Places
<1>5. CASE Tail(phases[r]) # <<>>
  BY <1>1, <1>3, <1>5 DEF EndPhase, Goto, Entry, TypeOK, BusyInv, Places
<1> QED BY <1>4, <1>5

(***************************************************************************)
(* Type correctness.                                                       *)
(***************************************************************************)
LEMMA FilesTyped ==
    ASSUME NEW fs \in Seq(Migrations)
    PROVE  FileSet(fs) \subseteq Migrations
BY DEF FileSet

LEMMA NextPartTyped ==
    ASSUME TypeOK, NEW r \in Runners, work[r] < Parts
    PROVE  NextPart(r) \in Part /\ work[r] + 1 \in 0 .. Parts
<1>1. work[r] \in 0 .. Parts
  BY DEF TypeOK
<1>2. Parts \in Nat
  BY MigratorAssumption
<1>3. NextPart(r) = work[r] + 1 \/ NextPart(r) = Parts - work[r]
  BY DEF NextPart
<1> QED BY <1>1, <1>2, <1>3 DEF Part

LEMMA RowTyped ==
    ASSUME TypeOK, BoundInv, NEW r \in Runners, NEW m \in Migrations, RecordRow(r, m)
    PROVE  appliedAt' \in [Migrations -> Nat] /\ BoundInv'
<1>1. Youngest \in Nat /\ \A n \in Migrations : appliedAt[n] <= Youngest
  BY YoungestIsBound
<1>2. appliedAt' \in [Migrations -> Nat]
  BY <1>1 DEF RecordRow, TypeOK
<1>3. \A n \in Migrations : appliedAt'[n] <= Youngest + 1
  BY <1>1 DEF RecordRow, TypeOK
<1>4. Youngest + 1 \in Nat
  BY <1>1
<1> QED BY <1>2, <1>3, <1>4 DEF BoundInv

LEMMA InitTyped == Init => TypeInv
<1> SUFFICES ASSUME Init PROVE TypeInv
  OBVIOUS
<1>1. effect \in [Migrations -> [Part -> Int]]
  BY DEF Init, Undone
<1>2. cur \in [Runners -> Migrations]
  BY MigratorAssumption DEF Init
<1>3. table \in BOOLEAN
  BY DEF Init
<1>4. /\ appliedAt \in [Migrations -> Nat]
      /\ pc \in [Runners -> {"idle", "install", "list", "loop", "body", "tables",
                              "dropping", "uninstall"}]
      /\ op \in [Runners -> Operations \cup {"none"}]
      /\ answer \in [Runners -> {"none", "ok", "failed"}]
      /\ calls \in [Runners -> Nat] /\ torn \in SUBSET Migrations
  BY DEF Init
<1>5. /\ phases \in [Runners -> Seq({"up", "down", "drop", "uninstall"})]
      /\ files \in [Runners -> Seq(Migrations)]
  BY DEF Init
<1>6. /\ steps \in [Runners -> Nat \cup {NoLimit}]
      /\ todo \in [Runners -> SUBSET Migrations]
      /\ work \in [Runners -> 0 .. Parts] /\ drops \in [Runners -> SUBSET Tables]
  BY MigratorAssumption DEF Init
<1>7. BusyInv /\ BoundInv
  BY DEF Init, BusyInv, BoundInv
<1> QED BY <1>1, <1>2, <1>3, <1>4, <1>5, <1>6, <1>7 DEF TypeOK, TypeInv

LEMMA TypedStep ==
    ASSUME TypeInv, NEW r \in Runners, Step(r)
    PROVE  TypeInv'
<1> USE DEF TypeInv, Goto, database, runner
<1>1. ASSUME NEW o \in Operations, NEW fs \in Builds, NEW n \in StepChoices, Start(r, o, fs, n)
      PROVE  TypeInv'
  <2>1. PhasesOf[o] \in Seq(Phases) /\ PhasesOf[o] # <<>>
    BY PhasesTyped
  <2>2. fs \in Seq(Migrations) /\ n \in Nat \cup {NoLimit}
    BY MigratorAssumption
  <2>3. Entry(Head(PhasesOf[o])) \in Places
    BY DEF Entry, Places
  <2>4. TypeOK'
    BY <1>1, <2>1, <2>2, <2>3 DEF Start, TypeOK, Phases, Places
  <2>5. BusyInv' /\ BoundInv'
    BY <1>1, <2>1 DEF Start, BusyInv, BoundInv, TypeOK
  <2> QED BY <2>4, <2>5
<1>2. CASE Install(r)
  <2>1. table' \in BOOLEAN
    BY <1>2 DEF Install
  <2>2. TypeOK'
    BY <1>2, <2>1 DEF Install, TypeOK
  <2> QED BY <1>2, <2>2 DEF Install, BusyInv, BoundInv, TypeOK
<1>3. CASE List(r)
  <2>1. FileSet(files[r]) \subseteq Migrations
    BY FilesTyped DEF TypeOK
  <2>2. TypeOK'
    BY <1>3, <2>1 DEF List, TypeOK, Recorded
  <2> QED BY <1>3, <2>2 DEF List, BusyInv, BoundInv, TypeOK
<1>4. ASSUME NEW m \in Migrations, Begin(r, m)
      PROVE  TypeInv'
  <2>1. steps' \in [Runners -> Nat \cup {NoLimit}]
    BY <1>4 DEF Begin, TypeOK, NoLimit
  <2>2. TypeOK'
    BY <1>4, <2>1, MigratorAssumption DEF Begin, TypeOK
  <2> QED BY <1>4, <2>2 DEF Begin, BusyInv, BoundInv, TypeOK
<1>5. CASE EndLoop(r)
  <2>1. /\ phases' \in [Runners -> Seq(Phases)] /\ pc' \in [Runners -> Places]
        /\ answer' \in [Runners -> {"none", "ok", "failed"}] /\ BusyInv'
    BY <1>5, EndPhaseTyped DEF EndLoop
  <2> QED BY <1>5, <2>1 DEF EndLoop, BoundInv, TypeOK, Phases, Places
<1>6. CASE Body(r)
  <2>1. NextPart(r) \in Part /\ work[r] + 1 \in 0 .. Parts /\ cur[r] \in Migrations
    BY <1>6, NextPartTyped DEF Body, TypeOK
  <2>2. Sign(r) \in Int
    BY DEF Sign
  <2>3. effect' \in [Migrations -> [Part -> Int]]
    BY <1>6, <2>1, <2>2 DEF Body, TypeOK
  <2>4. TypeOK'
    BY <1>6, <2>1, <2>3 DEF Body, TypeOK
  <2> QED BY <1>6, <2>4 DEF Body, BusyInv, BoundInv
<1>7. CASE Record(r)
  <2>1. cur[r] \in Migrations /\ RecordRow(r, cur[r])
    BY <1>7 DEF Record, TypeOK
  <2>2. appliedAt' \in [Migrations -> Nat] /\ BoundInv'
    BY <2>1, RowTyped
  <2>3. effect' \in [Migrations -> [Part -> Int]]
    BY <1>7, <2>1 DEF Record, Committed, Sign, TypeOK
  <2>4. TypeOK'
    BY <1>7, <2>2, <2>3 DEF Record, TypeOK
  <2> QED BY <1>7, <2>2, <2>4 DEF Record, BusyInv, TypeOK
<1>8. CASE ListTables(r)
  <2>1. Visible \subseteq Tables
    BY DEF Visible, Tables
  <2> QED BY <1>8, <2>1 DEF ListTables, TypeOK, BusyInv, BoundInv
<1>9. CASE Drop(r)
  <2>1. PICK S \in SUBSET Tables : DropTables(r, S)
    BY <1>9 DEF Drop, TypeOK
  <2>2. effect' \in [Migrations -> [Part -> Int]]
    BY <2>1 DEF DropTables, TypeOK, Undone
  <2>3. table' \in BOOLEAN
    BY <2>1 DEF DropTables, TypeOK
  <2>4. appliedAt' \in [Migrations -> Nat] /\ BoundInv'
    BY <2>1 DEF DropTables, TypeOK, BoundInv
  <2>5. drops' \in [Runners -> SUBSET Tables]
    BY <2>1 DEF DropTables, TypeOK
  <2>6. TypeOK'
    BY <1>9, <2>2, <2>3, <2>4, <2>5 DEF Drop, TypeOK
  <2> QED BY <1>9, <2>4, <2>6 DEF Drop, BusyInv
<1>10. CASE EndDrop(r)
  <2>1. /\ phases' \in [Runners -> Seq(Phases)] /\ pc' \in [Runners -> Places]
        /\ answer' \in [Runners -> {"none", "ok", "failed"}] /\ BusyInv'
    BY <1>10, EndPhaseTyped DEF EndDrop
  <2> QED BY <1>10, <2>1 DEF EndDrop, BoundInv, TypeOK, Phases, Places
<1>11. CASE Uninstall(r)
  <2>1. /\ phases' \in [Runners -> Seq(Phases)] /\ pc' \in [Runners -> Places]
        /\ answer' \in [Runners -> {"none", "ok", "failed"}] /\ BusyInv'
    BY <1>11, EndPhaseTyped DEF Uninstall
  <2>2. table' \in BOOLEAN
    BY <1>11 DEF Uninstall
  <2>3. BoundInv'
    BY <1>11 DEF Uninstall, BoundInv
  <2> QED BY <1>11, <2>1, <2>2, <2>3 DEF Uninstall, TypeOK, Phases, Places
<1>12. CASE Stop(r)
  <2>1. torn' \in SUBSET Migrations
    BY <1>12 DEF Stop, TypeOK
  <2>2. TypeOK'
    BY <1>12, <2>1, MigratorAssumption DEF Stop, TypeOK
  <2> QED BY <1>12, <2>2 DEF Stop, BusyInv, BoundInv, TypeOK
<1> QED BY <1>1, <1>2, <1>3, <1>4, <1>5, <1>6, <1>7, <1>8, <1>9, <1>10, <1>11, <1>12 DEF Step

LEMMA TypeStutter ==
    ASSUME TypeInv, UNCHANGED vars
    PROVE  TypeInv'
BY DEF TypeInv, TypeOK, BusyInv, BoundInv, vars

LEMMA TypeInvariant == Spec => []TypeInv
<1>1. TypeInv /\ [Next]_vars => TypeInv'
  BY NextIsStep, TypedStep, TypeStutter
<1> QED BY InitTyped, <1>1, PTL DEF Spec

\* Every variable keeps its type, whatever the runners are asked for.
THEOREM TypeCorrect == Spec => []TypeOK
<1>1. TypeInv => TypeOK
  BY DEF TypeInv
<1> QED BY TypeInvariant, <1>1, PTL

(***************************************************************************)
(* Transactional migrations.  The operations that remove rows with their   *)
(* table are left out, and so is down for a migration whose statements do  *)
(* not notice that they were undone already.                               *)
(***************************************************************************)
Orderly ==
    /\ Operations \subseteq {"up", "down", "refresh"}
    /\ Transactional \subseteq Strict \/ Operations \subseteq {"up"}

\* Which phases there are.
UpDownInv ==
    \A r \in Runners :
       /\ pc[r] \notin {"tables", "dropping", "uninstall"}
       /\ phases[r] \in {<<>>, <<"up">>, <<"down">>, <<"down", "up">>}
       /\ Operations \subseteq {"up"} => phases[r] \in {<<>>, <<"up">>}

\* One open transaction has worked on a migration; one that undoes it found it
\* applied, and nobody can have removed its row since.
LockInv ==
    \A q, r \in Runners, m \in Migrations : Holds(q, m) /\ Holds(r, m) => q = r
UndoInv ==
    \A r \in Runners : Holds(r, cur[r]) /\ Phase(r) # "up" => cur[r] \in Recorded

AtomicInv == TypeInv /\ UpDownInv /\ LockInv /\ UndoInv /\ TxnAtomic

LEMMA PhasesUpDown ==
    ASSUME Orderly, NEW o \in Operations
    PROVE  /\ PhasesOf[o] \in {<<"up">>, <<"down">>, <<"down", "up">>}
           /\ Operations \subseteq {"up"} => PhasesOf[o] = <<"up">>
           /\ Entry(Head(PhasesOf[o])) = "install"
<1>1. PhasesOf["up"] = <<"up">> /\ PhasesOf["down"] = <<"down">>
      /\ PhasesOf["refresh"] = <<"down", "up">>
  BY DEF PhasesOf
<1>2. o \in {"up", "down", "refresh"}
  BY DEF Orderly
<1>3. \A s \in {<<"up">>, <<"down">>, <<"down", "up">>} : Head(s) # "uninstall"
  OBVIOUS
<1> QED BY <1>1, <1>2, <1>3 DEF Entry

LEMMA EndPhaseUpDown ==
    ASSUME TypeInv, UpDownInv, NEW r \in Runners, pc[r] # "idle", EndPhase(r)
    PROVE  /\ UpDownInv'
           /\ pc' \in [Runners -> Places] /\ pc'[r] # "body"
           /\ \A q \in Runners : q # r => pc'[q] = pc[q] /\ phases'[q] = phases[q]
<1>1. /\ phases \in [Runners -> Seq(Phases)] /\ phases[r] # <<>>
      /\ pc \in [Runners -> Places]
  BY DEF TypeInv, TypeOK, BusyInv, Phases, Places
<1>2. /\ Tail(phases[r]) \in {<<>>, <<"up">>}
      /\ Tail(phases[r]) # <<>> => Entry(Head(Tail(phases[r]))) = "install"
  <2>1. Tail(<<"up">>) = <<>> /\ Tail(<<"down">>) = <<>> /\ Tail(<<"down", "up">>) = <<"up">>
    OBVIOUS
  <2>2. Tail(phases[r]) \in {<<>>, <<"up">>}
    BY <1>1, <2>1 DEF UpDownInv
  <2>3. Entry(Head(<<"up">>)) = "install"
    BY DEF Entry
  <2> QED BY <2>2, <2>3
<1>3. phases' = [phases EXCEPT ![r] = Tail(phases[r])]
  BY DEF EndPhase
<1>4. pc' = [pc EXCEPT ![r] = "idle"] \/ pc' = [pc EXCEPT ![r] = "install"]
  BY <1>2 DEF EndPhase, Goto
<1>5. UpDownInv'
  BY <1>1, <1>2, <1>3, <1>4 DEF UpDownInv, Places
<1> QED BY <1>1, <1>3, <1>4, <1>5 DEF Places

\* What a step that leaves the database and every open transaction alone keeps.
LEMMA QuietStep ==
    ASSUME AtomicInv,
           TypeInv', UpDownInv', UNCHANGED <<appliedAt, effect>>,
           \A q \in Runners, m \in Migrations : Holds(q, m)' => Holds(q, m),
           \A q \in Runners : Holds(q, cur[q])' => phases'[q] = phases[q] /\ cur'[q] = cur[q]
    PROVE  AtomicInv'
<1>1. LockInv'
  BY DEF AtomicInv, LockInv
<1>2. Recorded' = Recorded /\ TxnAtomic'
  BY DEF AtomicInv, TxnAtomic, Consistent, Recorded
<1>3. UndoInv'
  <2> SUFFICES ASSUME NEW q \in Runners, Holds(q, cur[q])', Phase(q)' # "up"
               PROVE  cur'[q] \in Recorded'
    BY DEF UndoInv
  <2>1. cur'[q] = cur[q] /\ phases'[q] = phases[q] /\ cur[q] \in Migrations
    BY DEF AtomicInv, TypeInv, TypeOK
  <2>2. Holds(q, cur[q])
    BY <2>1
  <2>3. Phase(q) # "up"
    BY <2>1 DEF Phase
  <2> QED BY <1>2, <2>1, <2>2, <2>3 DEF AtomicInv, UndoInv
<1> QED BY <1>1, <1>2, <1>3 DEF AtomicInv

LEMMA OtherStep ==
    ASSUME Orderly, AtomicInv, NEW r \in Runners, Step(r), ~Body(r), ~Record(r)
    PROVE  AtomicInv'
<1>1. TypeInv' /\ TypeInv
  BY TypedStep DEF AtomicInv
<1> USE DEF Goto, database, runner, InTxn, Holds
<1>2. ASSUME NEW o \in Operations, NEW fs \in Builds, NEW n \in StepChoices, Start(r, o, fs, n)
      PROVE  AtomicInv'
  <2>1. /\ PhasesOf[o] \in {<<"up">>, <<"down">>, <<"down", "up">>}
        /\ Operations \subseteq {"up"} => PhasesOf[o] = <<"up">>
        /\ Entry(Head(PhasesOf[o])) = "install"
    BY PhasesUpDown
  <2>2. /\ phases' = [phases EXCEPT ![r] = PhasesOf[o]] /\ pc' = [pc EXCEPT ![r] = "install"]
        /\ phases \in [Runners -> Seq(Phases)] /\ pc \in [Runners -> Places]
    BY <1>1, <1>2, <2>1 DEF Start, TypeInv, TypeOK, Phases, Places
  <2>3. UpDownInv'
    <3> SUFFICES ASSUME NEW q \in Runners
                 PROVE  /\ pc'[q] \notin {"tables", "dropping", "uninstall"}
                        /\ phases'[q] \in {<<>>, <<"up">>, <<"down">>, <<"down", "up">>}
                        /\ Operations \subseteq {"up"} => phases'[q] \in {<<>>, <<"up">>}
      BY DEF UpDownInv
    <3>1. CASE q = r
      BY <2>1, <2>2, <3>1
    <3>2. CASE q # r
      BY <2>2, <3>2 DEF AtomicInv, UpDownInv
    <3> QED BY <3>1, <3>2
  <2> QED BY <1>1, <1>2, <2>2, <2>3, QuietStep DEF Start, TypeInv, TypeOK
<1>3. CASE Install(r)
  <2>1. Phase(r) # "drop"
    BY <1>1, <1>3 DEF Install, AtomicInv, UpDownInv, BusyInv, TypeInv, Phase
  <2>2. UpDownInv'
    BY <1>1, <1>3, <2>1 DEF Install, AtomicInv, UpDownInv, TypeInv, TypeOK
  <2> QED BY <1>1, <1>3, <2>1, <2>2, QuietStep DEF Install, TypeInv, TypeOK
<1>4. CASE List(r)
  <2>1. UpDownInv'
    BY <1>1, <1>4 DEF List, AtomicInv, UpDownInv, TypeInv, TypeOK
  <2> QED BY <1>1, <1>4, <2>1, QuietStep DEF List, TypeInv, TypeOK
<1>5. ASSUME NEW m \in Migrations, Begin(r, m)
      PROVE  AtomicInv'
  <2>1. UpDownInv'
    BY <1>1, <1>5 DEF Begin, AtomicInv, UpDownInv, TypeInv, TypeOK
  <2> QED BY <1>1, <1>5, <2>1, QuietStep DEF Begin, TypeInv, TypeOK
<1>6. CASE EndLoop(r)
  <2>1. /\ UpDownInv' /\ pc'[r] # "body"
        /\ \A q \in Runners : q # r => pc'[q] = pc[q] /\ phases'[q] = phases[q]
    BY <1>6, EndPhaseUpDown DEF EndLoop, AtomicInv
  <2> QED BY <1>1, <1>6, <2>1, QuietStep DEF EndLoop, TypeInv, TypeOK
<1>7. CASE Stop(r)
  <2>1. UpDownInv'
    BY <1>1, <1>7 DEF Stop, AtomicInv, UpDownInv, TypeInv, TypeOK
  <2> QED BY <1>1, <1>7, <2>1, QuietStep DEF Stop, TypeInv, TypeOK
<1>8. ~ListTables(r) /\ ~Drop(r) /\ ~EndDrop(r) /\ ~Uninstall(r)
  BY DEF AtomicInv, UpDownInv, ListTables, Drop, EndDrop, Uninstall
<1> QED BY <1>2, <1>3, <1>4, <1>5, <1>6, <1>7, <1>8 DEF Step

\* A statement inside a transaction: the first one of a down finds its effect,
\* which only an applied migration has.
LEMMA BodyStep ==
    ASSUME Orderly, AtomicInv, NEW r \in Runners, Body(r), TypeInv'
    PROVE  AtomicInv'
<1> DEFINE m == cur[r]
<1>1. /\ TypeInv /\ m \in Migrations /\ NextPart(r) \in Part
      /\ pc[r] = "body" /\ pc' = pc /\ cur' = cur /\ phases' = phases
      /\ appliedAt' = appliedAt /\ work' = [work EXCEPT ![r] = @ + 1]
      /\ Accepted(r, m, NextPart(r))
  BY NextPartTyped DEF AtomicInv, TypeInv, TypeOK, Body
<1>2. UpDownInv'
  BY <1>1 DEF AtomicInv, UpDownInv
<1>3. \A q \in Runners, n \in Migrations :
         Holds(q, n)' => Holds(q, n) \/ (q = r /\ n = m)
  BY <1>1 DEF Holds, InTxn, TypeInv, TypeOK
<1>4. LockInv'
  <2>1. \A q \in Runners : q # r => ~Holds(q, m)
    BY <1>1 DEF Accepted, Locked
  <2> QED BY <1>3, <2>1 DEF AtomicInv, LockInv
<1>5. Recorded' = Recorded
  BY <1>1 DEF Recorded
<1>6. TxnAtomic'
  <2> SUFFICES ASSUME NEW n \in Transactional PROVE Consistent(n)'
    BY DEF TxnAtomic
  <2>1. effect'[n] = effect[n]
    BY <1>1, MigratorAssumption DEF Body, TypeInv, TypeOK
  <2>2. Consistent(n)
    BY DEF AtomicInv, TxnAtomic
  <2> QED BY <1>5, <2>1, <2>2 DEF Consistent, Done, Undone
<1>7. m \in Transactional /\ Phase(r) # "up" => m \in Recorded
  <2> SUFFICES ASSUME m \in Transactional, Phase(r) # "up" PROVE m \in Recorded
    OBVIOUS
  <2>1. ~(Operations \subseteq {"up"})
    BY <1>1 DEF AtomicInv, UpDownInv, BusyInv, TypeInv, Phase
  <2>2. m \in Strict
    BY <2>1 DEF Orderly
  <2>3. effect[m][NextPart(r)] = 1
    BY <1>1, <2>2 DEF Accepted
  <2>4. Consistent(m)
    BY DEF AtomicInv, TxnAtomic
  <2> QED BY <1>1, <2>3, <2>4 DEF Consistent, Undone
<1>8. UndoInv'
  <2> SUFFICES ASSUME NEW q \in Runners, Holds(q, cur[q])', Phase(q)' # "up"
               PROVE  cur'[q] \in Recorded'
    BY DEF UndoInv
  <2>1. cur[q] \in Migrations /\ Phase(q) # "up"
    BY <1>1 DEF Phase, TypeInv, TypeOK
  <2>2. CASE q = r
    BY <1>1, <1>5, <1>7, <2>1, <2>2 DEF Holds, InTxn
  <2>3. CASE q # r
    BY <1>1, <1>3, <1>5, <2>1, <2>3 DEF AtomicInv, UndoInv
  <2> QED BY <2>2, <2>3
<1> QED BY <1>2, <1>4, <1>6, <1>8 DEF AtomicInv

\* The record and the commit: the migration changes from undone to done with its
\* row, or back.
LEMMA RecordStep ==
    ASSUME Orderly, AtomicInv, NEW r \in Runners, Record(r), TypeInv'
    PROVE  AtomicInv'
<1> PICK m \in Migrations : m = cur[r]
  BY DEF AtomicInv, TypeInv, TypeOK
<1>1. /\ TypeInv
      /\ pc[r] = "body" /\ pc' = [pc EXCEPT ![r] = "loop"] /\ work[r] = Parts
      /\ UNCHANGED <<cur, phases, work>>
      /\ ~Locked(r, m) /\ RecordRow(r, m) /\ effect' = Committed(r, m)
  BY DEF AtomicInv, TypeInv, TypeOK, Record, Goto, runner
<1>2. UpDownInv'
  BY <1>1 DEF AtomicInv, UpDownInv, TypeInv, TypeOK
<1>3. \A q \in Runners, n \in Migrations : Holds(q, n)' => Holds(q, n) /\ q # r /\ n # m
  BY <1>1 DEF Holds, InTxn, Locked, TypeInv, TypeOK
<1>4. LockInv'
  BY <1>3 DEF AtomicInv, LockInv
<1>5. Youngest \in Nat
  BY <1>1, YoungestIsBound DEF TypeInv
<1>6. \A n \in Migrations : n # m => appliedAt'[n] = appliedAt[n] /\ effect'[n] = effect[n]
  BY <1>1 DEF RecordRow, Committed, TypeInv, TypeOK
<1>7. \A n \in Migrations : n # m => (n \in Recorded' <=> n \in Recorded)
  BY <1>6 DEF Recorded
<1>8. UndoInv'
  <2> SUFFICES ASSUME NEW q \in Runners, Holds(q, cur[q])', Phase(q)' # "up"
               PROVE  cur'[q] \in Recorded'
    BY DEF UndoInv
  <2>1. cur'[q] = cur[q] /\ cur[q] \in Migrations /\ Phase(q) # "up"
    BY <1>1 DEF Phase, TypeInv, TypeOK
  <2>2. Holds(q, cur[q]) /\ cur[q] # m
    BY <1>3, <2>1
  <2>3. cur[q] \in Recorded
    BY <2>1, <2>2 DEF AtomicInv, UndoInv
  <2> QED BY <1>7, <2>1, <2>2, <2>3
<1>9. m \in Transactional => Consistent(m)'
  <2> SUFFICES ASSUME m \in Transactional PROVE Consistent(m)'
    OBVIOUS
  <2>1. Holds(r, m) /\ Consistent(m)
    BY <1>1, MigratorAssumption DEF Holds, InTxn, AtomicInv, TxnAtomic
  <2>2. effect[m] \in [Part -> Int] /\ effect'[m] = [p \in Part |-> effect[m][p] + Sign(r)]
    BY <1>1 DEF Committed, TypeInv, TypeOK
  <2>3. CASE Phase(r) = "up"
    <3>1. m \notin Recorded /\ effect[m] = Undone(m)
      BY <1>1, <2>1, <2>3 DEF RecordRow, Consistent
    <3>2. effect'[m] = Done(m)
      BY <2>2, <2>3, <3>1 DEF Done, Undone, Sign
    <3>3. appliedAt'[m] # 0
      BY <1>1, <1>5, <2>3 DEF RecordRow, TypeInv, TypeOK
    <3>4. m \in Recorded'
      BY <1>1, <3>3 DEF Recorded
    <3> QED BY <3>2, <3>4 DEF Consistent, Done
  <2>4. CASE Phase(r) # "up"
    <3>1. m \in Recorded /\ effect[m] = Done(m)
      BY <2>1, <2>4 DEF AtomicInv, UndoInv, Consistent
    <3>2. effect'[m] = Undone(m)
      BY <2>2, <2>4, <3>1 DEF Done, Undone, Sign
    <3>3. m \notin Recorded'
      BY <1>1, <2>4 DEF RecordRow, Recorded, TypeInv, TypeOK
    <3> QED BY <3>2, <3>3 DEF Consistent, Undone
  <2> QED BY <2>3, <2>4
<1>10. TxnAtomic'
  <2> SUFFICES ASSUME NEW n \in Transactional PROVE Consistent(n)'
    BY DEF TxnAtomic
  <2>1. CASE n = m
    BY <1>9, <2>1
  <2>2. CASE n # m
    <3>1. n \in Migrations /\ Consistent(n)
      BY MigratorAssumption DEF AtomicInv, TxnAtomic
    <3> QED BY <1>6, <1>7, <2>2, <3>1 DEF Consistent, Done, Undone
  <2> QED BY <2>1, <2>2
<1> QED BY <1>2, <1>4, <1>8, <1>10 DEF AtomicInv

LEMMA AtomicInitially == Init => AtomicInv
<1> SUFFICES ASSUME Init PROVE AtomicInv
  OBVIOUS
<1>1. TypeInv
  BY InitTyped
<1>2. UpDownInv /\ LockInv /\ UndoInv
  BY DEF Init, UpDownInv, LockInv, UndoInv, Holds, InTxn
<1>3. TxnAtomic
  BY MigratorAssumption DEF Init, TxnAtomic, Consistent, Recorded, Undone
<1> QED BY <1>1, <1>2, <1>3 DEF AtomicInv

LEMMA AtomicStutter ==
    ASSUME AtomicInv, UNCHANGED vars
    PROVE  AtomicInv'
<1>1. TypeInv'
  BY TypeStutter DEF AtomicInv
<1>2. UpDownInv' /\ LockInv' /\ UndoInv'
  BY DEF vars, AtomicInv, UpDownInv, LockInv, UndoInv, Holds, InTxn, Phase, Recorded
<1>3. TxnAtomic'
  BY DEF vars, AtomicInv, TxnAtomic, Consistent, Recorded, Done, Undone
<1> QED BY <1>1, <1>2, <1>3 DEF AtomicInv

\* A migration that runs in a transaction is recorded exactly when all of its
\* statements took effect once, for every number of runners that apply, undo and
\* refresh side by side and stop anywhere.
THEOREM TransactionalIsAtomic == Orderly => (Spec => []TxnAtomic)
<1> SUFFICES ASSUME Orderly PROVE Spec => []TxnAtomic
  OBVIOUS
<1>1. ASSUME AtomicInv, [Next]_vars PROVE AtomicInv'
  <2>1. CASE Next
    <3>1. PICK r \in Runners : Step(r)
      BY <2>1, NextIsStep
    <3>2. TypeInv'
      BY <1>1, <3>1, TypedStep DEF AtomicInv
    <3> QED BY <1>1, <3>1, <3>2, BodyStep, RecordStep, OtherStep
  <2> QED BY <1>1, <2>1, AtomicStutter
<1>2. AtomicInv => TxnAtomic
  BY DEF AtomicInv
<1> QED BY AtomicInitially, <1>1, <1>2, PTL DEF Spec

(***************************************************************************)
(* A team: only up runs side by side, all other operations run next to     *)
(* nobody.  Nothing is asked of the migrations or of the operations.       *)
(***************************************************************************)
UpsOverlap == Overlapping \subseteq {"up"}

Busy(r) == pc[r] # "idle"

\* What is left of an operation, and where its phases take place.
Left == [up |-> {<<"up">>}, down |-> {<<"down">>}, refresh |-> {<<"down", "up">>, <<"up">>},
         reset |-> {<<"down", "uninstall">>, <<"uninstall">>},
         fresh |-> {<<"drop", "up">>, <<"up">>}, uninstall |-> {<<"uninstall">>}]
PlacesOf == [up |-> {"install", "list", "loop", "body"},
             down |-> {"install", "list", "loop", "body"},
             drop |-> {"install", "tables", "dropping"}, uninstall |-> {"uninstall"}]

PhaseInv ==
    \A r \in Runners : Busy(r) =>
       /\ op[r] \in Operations /\ files[r] \in Builds
       /\ phases[r] \in Left[op[r]]
       /\ pc[r] \in PlacesOf[Phase(r)]

AloneInv ==
    \A q, r \in Runners : q # r /\ Busy(q) /\ Busy(r) => op[q] = "up" /\ op[r] = "up"

CtrlInv == TypeInv /\ PhaseInv /\ AloneInv

LEMMA LeftIs ==
    ASSUME NEW o \in Operations, NEW s \in Left[o]
    PROVE  /\ o = "up" => s = <<"up">>
           /\ o = "down" => s = <<"down">>
           /\ o = "refresh" => s \in {<<"down", "up">>, <<"up">>}
           /\ o = "reset" => s \in {<<"down", "uninstall">>, <<"uninstall">>}
           /\ o = "fresh" => s \in {<<"drop", "up">>, <<"up">>}
           /\ o = "uninstall" => s = <<"uninstall">>
           /\ o \in {"up", "down", "refresh", "reset", "fresh", "uninstall"}
BY MigratorAssumption DEF Left

LEMMA TailIsLeft ==
    ASSUME NEW o \in Operations, NEW s \in Left[o]
    PROVE  /\ Head(s) \in Phases
           /\ o = "up" => Head(s) = "up"
           /\ o = "fresh" => Head(s) \in {"drop", "up"}
           /\ Head(s) = "drop" => o = "fresh" /\ Tail(s) = <<"up">>
           /\ Head(s) = "up" => Tail(s) = <<>>
           /\ Head(s) = "uninstall" => Tail(s) = <<>> /\ o \in {"reset", "uninstall"}
           /\ Tail(s) # <<>> => /\ Tail(s) \in Left[o]
                                /\ Entry(Head(Tail(s))) \in PlacesOf[Head(Tail(s))]
                                /\ Entry(Head(Tail(s))) \in {"install", "uninstall"}
<1>1. Tail(<<"up">>) = <<>> /\ Tail(<<"down">>) = <<>> /\ Tail(<<"uninstall">>) = <<>>
  OBVIOUS
<1>2. /\ Head(<<"up">>) = "up" /\ Head(<<"down">>) = "down"
      /\ Head(<<"uninstall">>) = "uninstall"
      /\ Head(<<"down", "up">>) = "down" /\ Head(<<"drop", "up">>) = "drop"
      /\ Head(<<"down", "uninstall">>) = "down"
      /\ Tail(<<"down", "up">>) = <<"up">> /\ Tail(<<"drop", "up">>) = <<"up">>
      /\ Tail(<<"down", "uninstall">>) = <<"uninstall">>
  OBVIOUS
<1>3. /\ Left["refresh"] = {<<"down", "up">>, <<"up">>}
      /\ Left["reset"] = {<<"down", "uninstall">>, <<"uninstall">>}
      /\ Left["fresh"] = {<<"drop", "up">>, <<"up">>}
  BY DEF Left
<1>4. /\ Entry("up") = "install" /\ Entry("uninstall") = "uninstall"
      /\ "install" \in PlacesOf["up"] /\ "uninstall" \in PlacesOf["uninstall"]
  BY DEF Entry, PlacesOf
<1>5. /\ o = "up" => s = <<"up">>
      /\ o = "down" => s = <<"down">>
      /\ o = "refresh" => s \in {<<"down", "up">>, <<"up">>}
      /\ o = "reset" => s \in {<<"down", "uninstall">>, <<"uninstall">>}
      /\ o = "fresh" => s \in {<<"drop", "up">>, <<"up">>}
      /\ o = "uninstall" => s = <<"uninstall">>
      /\ o \in {"up", "down", "refresh", "reset", "fresh", "uninstall"}
  BY LeftIs
<1> QED BY <1>1, <1>2, <1>3, <1>4, <1>5 DEF Phases

LEMMA PhasesAreLeft ==
    ASSUME NEW o \in Operations
    PROVE  /\ PhasesOf[o] \in Left[o]
           /\ Entry(Head(PhasesOf[o])) \in PlacesOf[Head(PhasesOf[o])]
           /\ Entry(Head(PhasesOf[o])) \in {"install", "uninstall"}
           /\ o = "fresh" => Head(PhasesOf[o]) = "drop"
<1>1. o \in {"up", "down", "refresh", "reset", "fresh", "uninstall"}
  BY MigratorAssumption
<1>2. PhasesOf[o] \in Left[o]
  BY <1>1 DEF PhasesOf, Left
<1>3. o = "fresh" => PhasesOf[o] = <<"drop", "up">>
  BY DEF PhasesOf
<1>4. Head(PhasesOf[o]) \in {"up", "down", "drop", "uninstall"}
  BY <1>2, TailIsLeft DEF Phases
<1>5. \A a \in {"up", "down", "drop", "uninstall"} :
          Entry(a) \in PlacesOf[a] /\ Entry(a) \in {"install", "uninstall"}
  BY DEF Entry, PlacesOf
<1>6. o = "fresh" => Head(PhasesOf[o]) = "drop"
  BY <1>3
<1> QED BY <1>2, <1>4, <1>5, <1>6

\* Where a runner is tells which phase it is in.
LEMMA PhaseAt ==
    ASSUME CtrlInv, NEW r \in Runners, Busy(r)
    PROVE  /\ Phase(r) \in Phases
           /\ pc[r] \in {"list", "loop", "body"} => Phase(r) \in {"up", "down"}
           /\ pc[r] \in {"tables", "dropping"} => Phase(r) = "drop"
           /\ pc[r] = "uninstall" => Phase(r) = "uninstall"
           /\ pc[r] = "install" => Phase(r) # "uninstall"
           /\ Phase(r) = "drop" => op[r] = "fresh" /\ Tail(phases[r]) = <<"up">>
           /\ Phase(r) = "up" => Tail(phases[r]) = <<>>
           /\ Phase(r) = "uninstall" => Tail(phases[r]) = <<>> /\ op[r] \in {"reset", "uninstall"}
           /\ op[r] = "up" => Phase(r) = "up"
           /\ op[r] = "fresh" => Phase(r) \in {"drop", "up"}
<1>1. op[r] \in Operations /\ phases[r] \in Left[op[r]] /\ pc[r] \in PlacesOf[Phase(r)]
  BY DEF CtrlInv, PhaseInv
<1>2. /\ Phase(r) \in Phases
      /\ Phase(r) = "drop" => op[r] = "fresh" /\ Tail(phases[r]) = <<"up">>
      /\ Phase(r) = "up" => Tail(phases[r]) = <<>>
      /\ Phase(r) = "uninstall" => Tail(phases[r]) = <<>> /\ op[r] \in {"reset", "uninstall"}
      /\ op[r] = "up" => Phase(r) = "up"
      /\ op[r] = "fresh" => Phase(r) \in {"drop", "up"}
  BY <1>1, TailIsLeft DEF Phase
<1>3. /\ PlacesOf["up"] = {"install", "list", "loop", "body"}
      /\ PlacesOf["down"] = {"install", "list", "loop", "body"}
      /\ PlacesOf["drop"] = {"install", "tables", "dropping"}
      /\ PlacesOf["uninstall"] = {"uninstall"}
  BY DEF PlacesOf
<1> QED BY <1>1, <1>2, <1>3 DEF Phases

\* A runner's step leaves the others where they are.
LEMMA OthersKeep ==
    ASSUME TypeOK, NEW r \in Runners, Step(r), NEW q \in Runners, q # r
    PROVE  /\ pc'[q] = pc[q] /\ op'[q] = op[q] /\ phases'[q] = phases[q]
           /\ files'[q] = files[q] /\ todo'[q] = todo[q] /\ cur'[q] = cur[q]
           /\ work'[q] = work[q] /\ drops'[q] = drops[q] /\ answer'[q] = answer[q]
<1> USE DEF TypeOK, Goto, runner, database
<1>1. ASSUME NEW o \in Operations, NEW fs \in Builds, NEW n \in StepChoices, Start(r, o, fs, n)
      PROVE  /\ pc'[q] = pc[q] /\ op'[q] = op[q] /\ phases'[q] = phases[q]
             /\ files'[q] = files[q] /\ todo'[q] = todo[q] /\ cur'[q] = cur[q]
             /\ work'[q] = work[q] /\ drops'[q] = drops[q] /\ answer'[q] = answer[q]
  BY <1>1 DEF Start
<1>2. ASSUME NEW m \in Migrations, Begin(r, m)
      PROVE  /\ pc'[q] = pc[q] /\ op'[q] = op[q] /\ phases'[q] = phases[q]
             /\ files'[q] = files[q] /\ todo'[q] = todo[q] /\ cur'[q] = cur[q]
             /\ work'[q] = work[q] /\ drops'[q] = drops[q] /\ answer'[q] = answer[q]
  BY <1>2 DEF Begin
<1>3. CASE Install(r) \/ List(r) \/ Body(r) \/ Record(r) \/ ListTables(r)
  BY <1>3 DEF Install, List, Body, Record, ListTables
<1>4. CASE EndLoop(r) \/ EndDrop(r) \/ Uninstall(r)
  BY <1>4 DEF EndLoop, EndDrop, Uninstall, EndPhase
<1>5. CASE Drop(r)
  <2>1. PICK S : DropTables(r, S)
    BY <1>5 DEF Drop
  <2> QED BY <1>5, <2>1 DEF Drop, DropTables
<1>6. CASE Stop(r)
  BY <1>6 DEF Stop
<1> QED BY <1>1, <1>2, <1>3, <1>4, <1>5, <1>6 DEF Step

\* A phase ends: the runner is done, or goes to where its next phase begins.
LEMMA PhaseEnds ==
    ASSUME CtrlInv, NEW r \in Runners, Busy(r), EndPhase(r)
    PROVE  /\ phases' = [phases EXCEPT ![r] = Tail(phases[r])]
           /\ pc'[r] \in {"idle", "install", "uninstall"}
           /\ (pc'[r] = "idle") <=> (Tail(phases[r]) = <<>>)
           /\ Tail(phases[r]) # <<>> =>
                 /\ Tail(phases[r]) \in Left[op[r]]
                 /\ pc'[r] \in PlacesOf[Head(Tail(phases[r]))]
<1>1. pc \in [Runners -> Places] /\ op[r] \in Operations /\ phases[r] \in Left[op[r]]
  BY DEF CtrlInv, TypeInv, TypeOK, PhaseInv, Places
<1>2. Tail(phases[r]) # <<>> =>
         /\ Tail(phases[r]) \in Left[op[r]]
         /\ Entry(Head(Tail(phases[r]))) \in PlacesOf[Head(Tail(phases[r]))]
         /\ Entry(Head(Tail(phases[r]))) \in {"install", "uninstall"}
  BY <1>1, TailIsLeft
<1>3. phases' = [phases EXCEPT ![r] = Tail(phases[r])]
  BY DEF EndPhase
<1>4. CASE Tail(phases[r]) = <<>>
  BY <1>1, <1>3, <1>4 DEF EndPhase, Goto
<1>5. CASE Tail(phases[r]) # <<>>
  <2>1. pc'[r] = Entry(Head(Tail(phases[r])))
    BY <1>1, <1>5 DEF EndPhase, Goto
  <2> QED BY <1>2, <1>3, <1>5, <2>1
<1> QED BY <1>4, <1>5

\* What a step does to its own runner.
LEMMA OwnPhase ==
    ASSUME CtrlInv, TypeInv', NEW r \in Runners, Step(r), Busy(r)'
    PROVE  /\ op'[r] \in Operations /\ files'[r] \in Builds
           /\ phases'[r] \in Left[op'[r]]
           /\ pc'[r] \in PlacesOf[Phase(r)']
<1> USE DEF Goto, runner, database
<1>1. /\ PlacesOf["up"] = {"install", "list", "loop", "body"}
      /\ PlacesOf["down"] = {"install", "list", "loop", "body"}
      /\ PlacesOf["drop"] = {"install", "tables", "dropping"}
      /\ PlacesOf["uninstall"] = {"uninstall"}
  BY DEF PlacesOf
<1>2. TypeInv /\ TypeOK /\ TypeOK'
  BY DEF CtrlInv, TypeInv
<1>3. Busy(r) => /\ op[r] \in Operations /\ files[r] \in Builds /\ phases[r] \in Left[op[r]]
                 /\ pc[r] \in PlacesOf[Phase(r)] /\ Phase(r) \in Phases
  BY PhaseAt DEF CtrlInv, PhaseInv
<1>4. ASSUME NEW o \in Operations, NEW fs \in Builds, NEW n \in StepChoices, Start(r, o, fs, n)
      PROVE  /\ op'[r] \in Operations /\ files'[r] \in Builds
             /\ phases'[r] \in Left[op'[r]] /\ pc'[r] \in PlacesOf[Phase(r)']
  <2>1. phases'[r] = PhasesOf[o] /\ op'[r] = o /\ files'[r] = fs
        /\ pc'[r] = Entry(Head(PhasesOf[o]))
    BY <1>2, <1>4 DEF Start, TypeOK
  <2> QED BY <2>1, PhasesAreLeft DEF Phase
<1>5. ASSUME phases' = phases, op' = op, files' = files, Busy(r),
             pc'[r] \in PlacesOf[Phase(r)]
      PROVE  /\ op'[r] \in Operations /\ files'[r] \in Builds
             /\ phases'[r] \in Left[op'[r]] /\ pc'[r] \in PlacesOf[Phase(r)']
  BY <1>3, <1>5 DEF Phase
<1>6. CASE Install(r)
  <2>1. Busy(r) /\ pc[r] = "install" /\ Phase(r) \in {"up", "down", "drop"}
    BY <1>6, PhaseAt DEF Install, Busy, Phases
  <2>2. pc'[r] = IF Phase(r) = "drop" THEN "tables" ELSE "list"
    BY <1>2, <1>6 DEF Install, TypeOK
  <2> QED BY <1>1, <1>5, <1>6, <2>1, <2>2 DEF Install
<1>7. CASE List(r) \/ Body(r) \/ Record(r)
  <2>1. Busy(r) /\ Phase(r) \in {"up", "down"}
    BY <1>7, PhaseAt DEF List, Body, Record, Busy
  <2>2. pc'[r] \in {"loop", "body"}
    BY <1>2, <1>7 DEF List, Body, Record, TypeOK
  <2> QED BY <1>1, <1>5, <1>7, <2>1, <2>2 DEF List, Body, Record
<1>8. ASSUME NEW m \in Migrations, Begin(r, m)
      PROVE  /\ op'[r] \in Operations /\ files'[r] \in Builds
             /\ phases'[r] \in Left[op'[r]] /\ pc'[r] \in PlacesOf[Phase(r)']
  <2>1. Busy(r) /\ Phase(r) \in {"up", "down"}
    BY <1>8, PhaseAt DEF Begin, Busy
  <2>2. pc'[r] = "body"
    BY <1>2, <1>8 DEF Begin, TypeOK
  <2> QED BY <1>1, <1>5, <1>8, <2>1, <2>2 DEF Begin
<1>9. CASE ListTables(r) \/ Drop(r)
  <2>1. Busy(r) /\ Phase(r) = "drop"
    BY <1>9, PhaseAt DEF ListTables, Drop, Busy
  <2>2. pc'[r] = "dropping"
    BY <1>2, <1>9 DEF ListTables, Drop, TypeOK
  <2> QED BY <1>1, <1>5, <1>9, <2>1, <2>2 DEF ListTables, Drop
<1>10. CASE EndLoop(r) \/ EndDrop(r) \/ Uninstall(r)
  <2>1. Busy(r) /\ EndPhase(r) /\ op' = op /\ files' = files
    BY <1>10 DEF EndLoop, EndDrop, Uninstall, Busy
  <2>2. phases'[r] = Tail(phases[r])
    BY <1>2, <2>1, PhaseEnds DEF TypeOK
  <2>3. Tail(phases[r]) # <<>>
    BY <2>1, PhaseEnds DEF Busy
  <2> QED BY <1>3, <2>1, <2>2, <2>3, PhaseEnds DEF Phase
<1>11. CASE Stop(r)
  BY <1>2, <1>11 DEF Stop, TypeOK, Busy
<1> QED BY <1>4, <1>6, <1>7, <1>8, <1>9, <1>10, <1>11 DEF Step

LEMMA CtrlStep ==
    ASSUME UpsOverlap, CtrlInv, NEW r \in Runners, Step(r)
    PROVE  CtrlInv'
<1>1. TypeInv' /\ TypeInv /\ TypeOK
  BY TypedStep DEF CtrlInv, TypeInv
<1>2. PhaseInv'
  <2> SUFFICES ASSUME NEW q \in Runners, Busy(q)'
               PROVE  /\ op'[q] \in Operations /\ files'[q] \in Builds
                      /\ phases'[q] \in Left[op'[q]] /\ pc'[q] \in PlacesOf[Phase(q)']
    BY DEF PhaseInv
  <2>1. CASE q = r
    BY <1>1, <2>1, OwnPhase
  <2>2. CASE q # r
    BY <1>1, <2>2, OthersKeep DEF CtrlInv, PhaseInv, Busy, Phase
  <2> QED BY <2>1, <2>2
<1>3. ASSUME NEW q \in Runners, q # r, Busy(q), Busy(r)'
      PROVE  op[q] = "up" /\ op'[r] = "up"
  <2>1. CASE Busy(r)
    <3>1. op'[r] = op[r]
      BY <2>1 DEF Step, Start, Install, List, Begin, Body, Record, EndLoop, ListTables, Drop,
                  EndDrop, Uninstall, Stop, runner, Busy
    <3> QED BY <1>3, <2>1, <3>1 DEF CtrlInv, AloneInv
  <2>2. CASE ~Busy(r)
    <3>1. PICK o \in Operations, fs \in Builds, n \in StepChoices : Start(r, o, fs, n)
      BY <2>2 DEF Step, Install, List, Begin, Body, Record, EndLoop, ListTables, Drop,
                  EndDrop, Uninstall, Stop, Busy
    <3>2. o = "up" /\ op[q] = "up" /\ op'[r] = o
      BY <1>1, <1>3, <3>1 DEF Start, MayStart, UpsOverlap, Busy, TypeOK
    <3> QED BY <3>2
  <2> QED BY <2>1, <2>2
<1>4. AloneInv'
  <2> SUFFICES ASSUME NEW p \in Runners, NEW q \in Runners, p # q, Busy(p)', Busy(q)'
               PROVE  op'[p] = "up" /\ op'[q] = "up"
    BY DEF AloneInv
  <2>1. CASE p = r
    BY <1>1, <1>3, <2>1, OthersKeep DEF Busy
  <2>2. CASE q = r
    BY <1>1, <1>3, <2>2, OthersKeep DEF Busy
  <2>3. CASE p # r /\ q # r
    <3>1. Busy(p) /\ Busy(q) /\ op'[p] = op[p] /\ op'[q] = op[q]
      BY <1>1, <2>3, OthersKeep DEF Busy
    <3> QED BY <3>1 DEF CtrlInv, AloneInv
  <2> QED BY <2>1, <2>2, <2>3
<1> QED BY <1>1, <1>2, <1>4 DEF CtrlInv

\* Next to anything but up there is nobody.
LEMMA Alone ==
    ASSUME CtrlInv, NEW r \in Runners, Busy(r), op[r] # "up", NEW q \in Runners, q # r
    PROVE  pc[q] = "idle"
BY DEF CtrlInv, AloneInv, Busy

(***************************************************************************)
(* What a runner read from the table, next to what is there now.           *)
(***************************************************************************)
TableInv == Recorded # {} => table

\* What a runner means to handle still.
Ahead(r) == todo[r] \cup (IF pc[r] = "body" THEN {cur[r]} ELSE {})

ListOK(r) ==
    /\ Ahead(r) \subseteq FileSet(files[r])
    /\ pc[r] = "body" => cur[r] \notin todo[r]
    /\ op[r] # "up" => Recorded \subseteq FileSet(files[r])
    /\ Phase(r) = "up" => FileSet(files[r]) \ Recorded \subseteq Ahead(r)
    /\ Phase(r) = "down" => Recorded = Ahead(r)

\* Up has applied what comes before in the list, down has undone what comes after.
OrderOK(r) ==
    \A n \in Migrations :
       /\ Phase(r) = "up" /\ Before(files[r], n, cur[r]) => n \in Recorded
       /\ Phase(r) = "down" /\ n \in Recorded => ~Before(files[r], cur[r], n)

ListedInv == \A r \in Runners : pc[r] \in {"loop", "body"} => ListOK(r)
OrderInv == \A r \in Runners : pc[r] = "body" => OrderOK(r)

RowsInv == CtrlInv /\ TableInv /\ ListedInv /\ OrderInv

LEMMA RecordedIs ==
    ASSUME TypeInv, NEW r \in Runners, NEW m \in Migrations, RecordRow(r, m)
    PROVE  Recorded' = IF Phase(r) = "up" THEN Recorded \cup {m} ELSE Recorded \ {m}
<1>1. Youngest \in Nat
  BY YoungestIsBound DEF TypeInv
<1>2. appliedAt' = [appliedAt EXCEPT ![m] = IF Phase(r) = "up" THEN Youngest + 1 ELSE 0]
  BY DEF RecordRow
<1>3. appliedAt \in [Migrations -> Nat]
  BY DEF TypeInv, TypeOK
<1>4. CASE Phase(r) = "up"
  <2>1. Youngest + 1 # 0
    BY <1>1
  <2> QED BY <1>2, <1>3, <1>4, <2>1 DEF Recorded
<1>5. CASE Phase(r) # "up"
  BY <1>2, <1>3, <1>5 DEF Recorded
<1> QED BY <1>4, <1>5

\* What steps do to the rows: only Record, Uninstall and Drop change them.
LEMMA RowsStep ==
    ASSUME CtrlInv, NEW r \in Runners, Step(r)
    PROVE  \/ Recorded' = Recorded /\ table' = table
           \/ Install(r) /\ Recorded' = Recorded /\ table' = TRUE
           \/ Record(r) /\ table /\ table' = table /\ Phase(r) = "up" /\ Recorded' = Recorded \cup {cur[r]}
           \/ Record(r) /\ table /\ table' = table /\ Phase(r) # "up" /\ Recorded' = Recorded \ {cur[r]}
           \/ (Uninstall(r) \/ Drop(r)) /\ Recorded' = {} /\ table' = FALSE
<1> USE DEF runner, database
<1>1. CASE \/ \E o \in Operations, fs \in Builds, n \in StepChoices : Start(r, o, fs, n)
           \/ List(r) \/ EndLoop(r) \/ Body(r) \/ (\E m \in Migrations : Begin(r, m))
           \/ ListTables(r) \/ EndDrop(r) \/ Stop(r)
  BY <1>1 DEF Start, List, EndLoop, Body, Begin, ListTables, EndDrop, Stop, Recorded
<1>2. CASE Install(r)
  BY <1>2 DEF Install, Recorded
<1>3. CASE Record(r)
  <2>1. cur[r] \in Migrations /\ RecordRow(r, cur[r]) /\ table' = table /\ table /\ TypeInv
    BY <1>3 DEF Record, RecordRow, CtrlInv, TypeInv, TypeOK
  <2> QED BY <1>3, <2>1, RecordedIs
<1>4. CASE Drop(r)
  <2>1. PICK S : DropTables(r, S)
    BY <1>4 DEF Drop
  <2> QED BY <1>4, <2>1 DEF DropTables, Recorded
<1>5. CASE Uninstall(r)
  BY <1>5 DEF Uninstall, Recorded
<1> QED BY <1>1, <1>2, <1>3, <1>4, <1>5 DEF Step

\* Next to a runner at work, rows are at most added, and only next to an up.
LEMMA RowsBeside ==
    ASSUME CtrlInv, NEW r \in Runners, Step(r), NEW q \in Runners, q # r, Busy(q)
    PROVE  Recorded \subseteq Recorded' /\ (op[q] # "up" => Recorded' = Recorded)
<1>1. CASE Busy(r)
  <2>1. op[q] = "up" /\ op[r] = "up"
    BY <1>1 DEF CtrlInv, AloneInv
  <2>2. Phase(r) = "up"
    BY <1>1, <2>1, PhaseAt
  <2>3. ~Uninstall(r) /\ ~Drop(r)
    BY <1>1, <2>2, PhaseAt DEF Uninstall, Drop, Busy
  <2> QED BY <2>1, <2>2, <2>3, RowsStep
<1>2. CASE ~Busy(r)
  <2>1. ~Install(r) /\ ~Record(r) /\ ~Uninstall(r) /\ ~Drop(r)
    BY <1>2 DEF Install, Record, Uninstall, Drop, Busy
  <2> QED BY <2>1, RowsStep
<1> QED BY <1>1, <1>2

LEMMA TableStep ==
    ASSUME CtrlInv, TableInv, NEW r \in Runners, Step(r)
    PROVE  TableInv'
BY RowsStep DEF TableInv, CtrlInv, TypeInv, TypeOK

\* The runner's own step.
LEMMA ListOwn ==
    ASSUME RowsInv, NEW r \in Runners, Step(r), pc'[r] \in {"loop", "body"}
    PROVE  ListOK(r)' /\ (pc'[r] = "body" => OrderOK(r)')
<1> USE DEF Goto, runner, database
<1>1. TypeOK /\ TypeInv /\ CtrlInv
  BY DEF RowsInv, CtrlInv, TypeInv
<1>2. CASE List(r)
  <2>1. /\ pc[r] = "list" /\ Busy(r) /\ pc'[r] = "loop" /\ Recorded \subseteq FileSet(files[r])
        /\ todo'[r] = IF Phase(r) = "up" THEN FileSet(files[r]) \ Recorded ELSE Recorded
        /\ UNCHANGED <<appliedAt, op, phases, files>>
    BY <1>1, <1>2 DEF List, Busy, TypeOK
  <2>2. Recorded' = Recorded /\ Phase(r)' = Phase(r) /\ Ahead(r)' = todo'[r]
    BY <2>1 DEF Recorded, Phase, Ahead
  <2>3. FileSet(files[r])' = FileSet(files[r])
    BY <2>1 DEF FileSet
  <2> QED BY <2>1, <2>2, <2>3 DEF ListOK
<1>3. ASSUME NEW m \in Migrations, Begin(r, m)
      PROVE  ListOK(r)' /\ (pc'[r] = "body" => OrderOK(r)')
  <2>1. /\ pc[r] = "loop" /\ Busy(r) /\ pc'[r] = "body" /\ IsNext(r, m)
        /\ todo'[r] = todo[r] \ {m} /\ cur'[r] = m
        /\ UNCHANGED <<appliedAt, op, phases, files>>
    BY <1>1, <1>3 DEF Begin, Busy, TypeOK
  <2>2. m \in todo[r] /\ Ahead(r) = todo[r] /\ Ahead(r)' = Ahead(r)
    BY <2>1 DEF IsNext, Ahead
  <2>3. Recorded' = Recorded /\ Phase(r)' = Phase(r)
    BY <2>1 DEF Recorded, Phase
  <2>4. FileSet(files[r])' = FileSet(files[r])
    BY <2>1 DEF FileSet
  <2>5. ListOK(r)
    BY <2>1 DEF RowsInv, ListedInv
  <2>6. ListOK(r)'
    BY <2>1, <2>2, <2>3, <2>4, <2>5 DEF ListOK
  <2>7. OrderOK(r)'
    <3> SUFFICES ASSUME NEW n \in Migrations
                 PROVE  /\ Phase(r) = "up" /\ Before(files[r], n, m) => n \in Recorded
                        /\ Phase(r) = "down" /\ n \in Recorded => ~Before(files[r], m, n)
      BY <2>1, <2>3 DEF OrderOK, Before
    <3>1. ASSUME Phase(r) = "up", Before(files[r], n, m) PROVE n \in Recorded
      <4>1. n \in FileSet(files[r])
        BY <3>1 DEF Before, FileSet
      <4>2. n \notin todo[r]
        BY <2>1, <3>1 DEF IsNext
      <4> QED BY <2>2, <2>5, <3>1, <4>1, <4>2 DEF ListOK
    <3>2. ASSUME Phase(r) = "down", n \in Recorded PROVE ~Before(files[r], m, n)
      BY <2>1, <2>2, <2>5, <3>2 DEF ListOK, IsNext
    <3> QED BY <3>1, <3>2
  <2> QED BY <2>6, <2>7
<1>4. CASE Body(r)
  <2>1. /\ pc[r] = "body" /\ pc'[r] = "body"
        /\ UNCHANGED <<appliedAt, pc, op, phases, files, todo, cur>>
    BY <1>4 DEF Body
  <2>2. Recorded' = Recorded /\ Phase(r)' = Phase(r) /\ Ahead(r)' = Ahead(r)
    BY <2>1 DEF Recorded, Phase, Ahead
  <2>3. FileSet(files[r])' = FileSet(files[r])
    BY <2>1 DEF FileSet
  <2>4. ListOK(r) /\ OrderOK(r)
    BY <2>1 DEF RowsInv, ListedInv, OrderInv
  <2>5. ListOK(r)'
    BY <2>1, <2>2, <2>3, <2>4 DEF ListOK
  <2>6. OrderOK(r)'
    BY <2>1, <2>2, <2>4 DEF OrderOK, Before
  <2> QED BY <2>5, <2>6
<1>5. CASE Record(r)
  <2>1. /\ pc[r] = "body" /\ pc'[r] = "loop" /\ Busy(r)
        /\ UNCHANGED <<op, phases, files, todo, cur>>
    BY <1>1, <1>5 DEF Record, Busy, TypeOK
  <2>2. Recorded' = IF Phase(r) = "up" THEN Recorded \cup {cur[r]} ELSE Recorded \ {cur[r]}
    <3>1. cur[r] \in Migrations /\ RecordRow(r, cur[r])
      BY <1>1, <1>5 DEF Record, TypeOK
    <3> QED BY <1>1, <3>1, RecordedIs
  <2>3. Ahead(r)' = todo[r] /\ Ahead(r) = todo[r] \cup {cur[r]} /\ Phase(r)' = Phase(r)
    BY <2>1 DEF Ahead, Phase
  <2>4. FileSet(files[r])' = FileSet(files[r])
    BY <2>1 DEF FileSet
  <2>5. ListOK(r) /\ cur[r] \notin todo[r]
    BY <2>1 DEF RowsInv, ListedInv, ListOK
  <2>6. cur[r] \in FileSet(files[r])
    BY <2>3, <2>5 DEF ListOK
  <2>7. Phase(r) # "up" => op[r] # "up"
    BY <1>1, <2>1, PhaseAt
  <2> QED BY <2>1, <2>2, <2>3, <2>4, <2>5, <2>6, <2>7 DEF ListOK
<1>6. ~ \E o \in Operations, fs \in Builds, n \in StepChoices : Start(r, o, fs, n)
  <2> SUFFICES ASSUME NEW o \in Operations, NEW fs \in Builds, NEW n \in StepChoices,
                      Start(r, o, fs, n)
               PROVE  FALSE
    OBVIOUS
  <2>1. pc'[r] = Entry(Head(PhasesOf[o]))
    BY <1>1 DEF Start, TypeOK
  <2> QED BY <2>1, PhasesAreLeft
<1>7. ~EndLoop(r) /\ ~EndDrop(r) /\ ~Uninstall(r)
  <2>1. EndLoop(r) \/ EndDrop(r) \/ Uninstall(r) => EndPhase(r) /\ Busy(r)
    BY DEF EndLoop, EndDrop, Uninstall, Busy
  <2> QED BY <1>1, <2>1, PhaseEnds
<1>8. ~Install(r) /\ ~ListTables(r) /\ ~Drop(r) /\ ~Stop(r)
  BY <1>1 DEF Install, ListTables, Drop, Stop, TypeOK
<1> QED BY <1>2, <1>3, <1>4, <1>5, <1>6, <1>7, <1>8 DEF Step

LEMMA ListBeside ==
    ASSUME RowsInv, NEW r \in Runners, Step(r), NEW q \in Runners, q # r,
           pc'[q] \in {"loop", "body"}
    PROVE  ListOK(q)' /\ (pc'[q] = "body" => OrderOK(q)')
<1>1. TypeOK /\ CtrlInv
  BY DEF RowsInv, CtrlInv, TypeInv
<1>2. /\ pc'[q] = pc[q] /\ op'[q] = op[q] /\ phases'[q] = phases[q]
      /\ files'[q] = files[q] /\ todo'[q] = todo[q] /\ cur'[q] = cur[q]
  BY <1>1, OthersKeep
<1>3. Busy(q) /\ ListOK(q) /\ (pc[q] = "body" => OrderOK(q))
  BY <1>2 DEF Busy, RowsInv, ListedInv, OrderInv
<1>4. Recorded \subseteq Recorded' /\ (op[q] # "up" => Recorded' = Recorded)
  BY <1>1, <1>3, RowsBeside
<1>5. Phase(q) = "down" => op[q] # "up"
  BY <1>1, <1>3, PhaseAt
<1>6. Phase(q)' = Phase(q) /\ Ahead(q)' = Ahead(q)
  BY <1>2 DEF Phase, Ahead
<1>7. FileSet(files[q])' = FileSet(files[q])
  BY <1>2 DEF FileSet
<1>8. ListOK(q)'
  BY <1>2, <1>3, <1>4, <1>5, <1>6, <1>7 DEF ListOK
<1>9. pc[q] = "body" => OrderOK(q)'
  BY <1>2, <1>3, <1>4, <1>5, <1>6 DEF OrderOK, Before
<1> QED BY <1>2, <1>8, <1>9

LEMMA RowsKept ==
    ASSUME UpsOverlap, RowsInv, NEW r \in Runners, Step(r)
    PROVE  RowsInv'
<1>1. CtrlInv'
  BY CtrlStep DEF RowsInv
<1>2. TableInv'
  BY TableStep DEF RowsInv
<1>3. ListedInv' /\ OrderInv'
  BY ListOwn, ListBeside DEF ListedInv, OrderInv
<1> QED BY <1>1, <1>2, <1>3 DEF RowsInv

(***************************************************************************)
(* The schema.                                                             *)
(***************************************************************************)
\* Statements of r's migration took effect before it is recorded.
Works(r, m) == pc[r] = "body" /\ cur[r] = m /\ m \notin Transactional /\ work[r] > 0

\* fresh has dropped everything, so what was torn before is so no more.
Restores(r) == Busy(r) /\ op[r] = "fresh" /\ Phase(r) = "up"
Trusted(m) == m \notin torn \/ \E r \in Runners : Restores(r)

UpTo(k) == [p \in Part |-> IF p <= k THEN 1 ELSE 0]

\* How far the only one at work on m is.  An up that finds the migration recorded
\* meanwhile is refused in the end.
Progress(r, m) ==
    IF Phase(r) = "up" THEN m \notin Recorded => effect[m] = UpTo(work[r])
                       ELSE effect[m] = UpTo(Parts - work[r])

EffectOK(m) ==
    /\ (\A r \in Runners : ~Works(r, m)) => Consistent(m)
    /\ \A r \in Runners :
          Works(r, m) /\ (\A q \in Runners : q # r => ~Works(q, m)) => Progress(r, m)

Dropping == \E r \in Runners : pc[r] = "dropping"
EffectInv == ~Dropping => \A m \in Migrations : Trusted(m) => EffectOK(m)

DropOK(r) ==
    /\ \A m \in Migrations : Present(m) => m \in drops[r]
    /\ table => MigrationTable \in drops[r]
    /\ FreshInTxn /\ drops[r] # {} => \A m \in Migrations \ torn : Consistent(m)

DropInv == \A r \in Runners : pc[r] = "dropping" => DropOK(r)

TeamInv == RowsInv /\ EffectInv /\ DropInv

LEMMA UpToEnds ==
    ASSUME NEW m
    PROVE  UpTo(0) = Undone(m) /\ UpTo(Parts) = Done(m)
BY MigratorAssumption DEF UpTo, Undone, Done, Part

LEMMA UpToNext ==
    ASSUME NEW k \in Nat, k < Parts
    PROVE  [UpTo(k) EXCEPT ![k + 1] = @ + 1] = UpTo(k + 1)
<1> DEFINE f == [UpTo(k) EXCEPT ![k + 1] = @ + 1]
<1>1. \A p \in Part : f[p] = UpTo(k + 1)[p]
  <2> SUFFICES ASSUME NEW p \in Part PROVE f[p] = UpTo(k + 1)[p]
    OBVIOUS
  <2>1. p \in Int
    BY DEF Part
  <2>2. CASE p = k + 1
    BY <2>1, <2>2 DEF UpTo
  <2>3. CASE p # k + 1
    BY <2>1, <2>3 DEF UpTo
  <2> QED BY <2>2, <2>3
<1> QED BY <1>1 DEF UpTo

LEMMA UpToPrevious ==
    ASSUME NEW k \in Part
    PROVE  [UpTo(k) EXCEPT ![k] = @ + (-1)] = UpTo(k - 1)
<1> DEFINE f == [UpTo(k) EXCEPT ![k] = @ + (-1)]
<1>1. \A p \in Part : f[p] = UpTo(k - 1)[p]
  <2> SUFFICES ASSUME NEW p \in Part PROVE f[p] = UpTo(k - 1)[p]
    OBVIOUS
  <2>1. p \in Int /\ k \in Int
    BY MigratorAssumption DEF Part
  <2>2. CASE p = k
    BY <2>1, <2>2 DEF UpTo
  <2>3. CASE p # k
    BY <2>1, <2>3 DEF UpTo
  <2> QED BY <2>2, <2>3
<1> QED BY <1>1 DEF UpTo

LEMMA AbsentIsUndone ==
    ASSUME TypeOK, NEW m \in Migrations, ~Present(m)
    PROVE  effect[m] = Undone(m)
BY DEF TypeOK, Present, Undone

\* What a step keeps that touches neither the schema nor the rows of m.
LEMMA EffectSame ==
    ASSUME NEW m \in Migrations, EffectOK(m),
           effect'[m] = effect[m], m \in Recorded' <=> m \in Recorded,
           \A q \in Runners : Works(q, m)' <=> Works(q, m),
           \A q \in Runners : Works(q, m) => work'[q] = work[q] /\ Phase(q)' = Phase(q)
    PROVE  EffectOK(m)'
<1>1. Consistent(m) => Consistent(m)'
  BY DEF Consistent, Done, Undone
<1>2. \A q \in Runners : Works(q, m) /\ Progress(q, m) => Progress(q, m)'
  BY DEF Progress, UpTo
<1> QED BY <1>1, <1>2 DEF EffectOK

\* A statement outside a transaction.
LEMMA BodyEffect ==
    ASSUME TeamInv, NEW r \in Runners, Body(r), NEW m \in Migrations, EffectOK(m)
    PROVE  EffectOK(m)'
<1>1. /\ TypeOK /\ CtrlInv
  BY DEF TeamInv, RowsInv, CtrlInv, TypeInv
<1>2. /\ pc[r] = "body" /\ work[r] < Parts /\ work' = [work EXCEPT ![r] = @ + 1]
      /\ UNCHANGED <<appliedAt, pc, phases, cur>>
  BY DEF Body
<1>3. /\ Recorded' = Recorded
      /\ \A q \in Runners : Phase(q)' = Phase(q)
      /\ \A q \in Runners : q # r => work'[q] = work[q] /\ (Works(q, m)' <=> Works(q, m))
  BY <1>1, <1>2 DEF Recorded, Phase, Works, TypeOK
<1>4. work[r] \in Nat /\ work'[r] = work[r] + 1
  BY <1>1, <1>2 DEF TypeOK
<1>5. CASE m # cur[r]
  <2>1. effect'[m] = effect[m]
    BY <1>1, <1>5 DEF Body, TypeOK
  <2>2. \A q \in Runners : Works(q, m) => q # r
    BY <1>5 DEF Works
  <2>3. ~Works(r, m)' /\ ~Works(r, m)
    BY <1>2, <1>5 DEF Works
  <2> QED BY <1>3, <2>1, <2>2, <2>3, EffectSame
<1>6. CASE m = cur[r] /\ m \in Transactional
  <2>1. effect'[m] = effect[m]
    BY <1>6 DEF Body
  <2>2. \A q \in Runners : ~Works(q, m) /\ ~Works(q, m)'
    BY <1>6 DEF Works
  <2> QED BY <1>3, <2>1, <2>2, EffectSame
<1>7. CASE m = cur[r] /\ m \notin Transactional
  <2>1. Works(r, m)'
    BY <1>2, <1>4, <1>7 DEF Works
  <2>2. CASE \E q \in Runners : q # r /\ Works(q, m)
    BY <1>3, <2>1, <2>2 DEF EffectOK
  <2>3. CASE \A q \in Runners : q # r => ~Works(q, m)
    <3>1. Phase(r) \in {"up", "down"} /\ ListOK(r) /\ Busy(r)
      BY <1>1, <1>2, PhaseAt DEF TeamInv, RowsInv, ListedInv, Busy
    <3>2. Progress(r, m)
      <4>1. CASE Works(r, m)
        BY <2>3, <4>1 DEF EffectOK
      <4>2. CASE ~Works(r, m)
        <5>1. work[r] = 0 /\ Consistent(m)
          BY <1>2, <1>4, <1>7, <2>3, <4>2 DEF Works, EffectOK
        <5>2. Phase(r) = "down" => m \in Recorded
          BY <1>2, <1>7, <3>1 DEF ListOK, Ahead
        <5>3. Parts - 0 = Parts
          BY MigratorAssumption
        <5>4. UpTo(0) = Undone(m) /\ UpTo(Parts) = Done(m)
          BY UpToEnds
        <5> QED BY <3>1, <5>1, <5>2, <5>3, <5>4 DEF Progress, Consistent
      <4> QED BY <4>1, <4>2
    <3>3. effect' = [effect EXCEPT ![m][NextPart(r)] = @ + Sign(r)]
      BY <1>7 DEF Body
    <3>4. effect[m] \in [Part -> Int] /\ NextPart(r) \in Part /\ effect \in [Migrations -> [Part -> Int]]
      BY <1>1, <1>2, NextPartTyped DEF TypeOK
    <3>5. effect'[m] = [effect[m] EXCEPT ![NextPart(r)] = @ + Sign(r)]
      BY <3>3, <3>4
    <3>6. ASSUME Phase(r) = "up", m \notin Recorded
          PROVE  effect'[m] = UpTo(work[r] + 1)
      <4>1. effect[m] = UpTo(work[r]) /\ NextPart(r) = work[r] + 1 /\ Sign(r) = 1
        BY <3>2, <3>6 DEF Progress, NextPart, Sign
      <4> QED BY <1>2, <1>4, <3>5, <4>1, UpToNext
    <3>7. ASSUME Phase(r) = "down"
          PROVE  effect'[m] = UpTo(Parts - (work[r] + 1))
      <4>1. effect[m] = UpTo(Parts - work[r]) /\ NextPart(r) = Parts - work[r] /\ Sign(r) = -1
        BY <3>2, <3>7 DEF Progress, NextPart, Sign
      <4>2. (Parts - work[r]) - 1 = Parts - (work[r] + 1)
        BY <1>4, MigratorAssumption
      <4> QED BY <3>4, <3>5, <4>1, <4>2, UpToPrevious
    <3>8. Progress(r, m)'
      BY <1>3, <1>4, <3>1, <3>6, <3>7 DEF Progress, UpTo, Part
    <3> QED BY <1>3, <2>1, <2>3, <3>8 DEF EffectOK
  <2> QED BY <2>2, <2>3
<1> QED BY <1>5, <1>6, <1>7

\* The record: what the runner did to the schema is whole by then.
LEMMA RecordEffect ==
    ASSUME TeamInv, NEW r \in Runners, Record(r), NEW m \in Migrations, EffectOK(m)
    PROVE  EffectOK(m)'
<1>1. TypeOK /\ CtrlInv /\ TypeInv
  BY DEF TeamInv, RowsInv, CtrlInv, TypeInv
<1>2. /\ pc[r] = "body" /\ pc' = [pc EXCEPT ![r] = "loop"] /\ work[r] = Parts
      /\ UNCHANGED <<phases, cur, work>> /\ effect' = Committed(r, cur[r])
      /\ RecordRow(r, cur[r])
  BY DEF Record, Goto, runner
<1>3. cur[r] \in Migrations /\ Busy(r)
  BY <1>1, <1>2 DEF TypeOK, Busy
<1>4. Recorded' = IF Phase(r) = "up" THEN Recorded \cup {cur[r]} ELSE Recorded \ {cur[r]}
  BY <1>1, <1>2, <1>3, RecordedIs
<1>5. \A q \in Runners : /\ Phase(q)' = Phase(q) /\ work'[q] = work[q]
                         /\ q # r => (Works(q, m)' <=> Works(q, m))
  BY <1>1, <1>2 DEF Phase, Works, TypeOK
<1>6. ~Works(r, m)'
  BY <1>1, <1>2 DEF Works, TypeOK
<1>7. CASE m # cur[r]
  <2>1. effect'[m] = effect[m]
    BY <1>1, <1>2, <1>3, <1>7 DEF Committed, TypeOK
  <2>2. ~Works(r, m)
    BY <1>7 DEF Works
  <2> QED BY <1>4, <1>5, <1>6, <1>7, <2>1, <2>2, EffectSame
<1>8. CASE m = cur[r]
  <2>1. Phase(r) \in {"up", "down"} /\ ListOK(r)
    BY <1>1, <1>2, <1>3, PhaseAt DEF TeamInv, RowsInv, ListedInv
  <2>2. Phase(r) = "up" => m \notin Recorded
    BY <1>2, <1>8 DEF RecordRow
  <2>3. Phase(r) = "down" => m \in Recorded /\ op[r] # "up"
    BY <1>1, <1>2, <1>3, <1>8, <2>1, PhaseAt DEF ListOK, Ahead
  <2>4. UpTo(0) = Undone(m) /\ UpTo(Parts) = Done(m) /\ Done(m)' = Done(m) /\ Undone(m)' = Undone(m)
    BY UpToEnds DEF Done, Undone
  <2>5. CASE m \in Transactional
    <3>1. \A q \in Runners : ~Works(q, m) /\ ~Works(q, m)'
      BY <2>5 DEF Works
    <3>2. Consistent(m)
      BY <3>1 DEF EffectOK
    <3>3. effect[m] \in [Part -> Int] /\ effect'[m] = [p \in Part |-> effect[m][p] + Sign(r)]
      BY <1>1, <1>2, <1>3, <1>8, <2>5 DEF Committed, TypeOK
    <3>4. CASE Phase(r) = "up"
      <4>1. effect'[m] = Done(m)
        BY <2>2, <3>2, <3>3, <3>4 DEF Consistent, Done, Undone, Sign
      <4> QED BY <1>4, <1>8, <2>4, <3>1, <3>4, <4>1 DEF EffectOK, Consistent
    <3>5. CASE Phase(r) = "down"
      <4>1. effect'[m] = Undone(m)
        BY <2>3, <3>2, <3>3, <3>5 DEF Consistent, Done, Undone, Sign
      <4> QED BY <1>4, <1>8, <2>4, <3>1, <3>5, <4>1 DEF EffectOK, Consistent
    <3> QED BY <2>1, <3>4, <3>5
  <2>6. CASE m \notin Transactional
    <3>1. Works(r, m) /\ effect'[m] = effect[m]
      BY <1>2, <1>8, <2>6, MigratorAssumption DEF Works, Committed
    <3>2. CASE \E q \in Runners : q # r /\ Works(q, m)
      <4>1. \A q \in Runners : q # r /\ Works(q, m) => op[q] = "up" /\ op[r] = "up" /\ Phase(q) = "up"
        BY <1>1, <1>3, PhaseAt DEF Works, Busy, CtrlInv, AloneInv
      <4>2. Phase(r) = "up" /\ m \in Recorded'
        BY <1>1, <1>3, <1>4, <1>8, <3>2, <4>1, PhaseAt
      <4>3. \A q \in Runners : Works(q, m)' => Progress(q, m)'
        BY <1>5, <1>6, <4>1, <4>2 DEF Progress
      <4> QED BY <1>5, <3>2, <4>3 DEF EffectOK
    <3>3. CASE \A q \in Runners : q # r => ~Works(q, m)
      <4>1. Progress(r, m) /\ \A q \in Runners : ~Works(q, m)'
        BY <1>5, <1>6, <3>1, <3>3 DEF EffectOK
      <4>2. Parts - Parts = 0
        BY MigratorAssumption
      <4>3. Phase(r) = "up" => effect'[m] = Done(m) /\ m \in Recorded'
        BY <1>2, <1>4, <1>8, <2>2, <2>4, <3>1, <4>1 DEF Progress
      <4>4. Phase(r) = "down" => effect'[m] = Undone(m) /\ m \notin Recorded'
        BY <1>2, <1>4, <1>8, <2>4, <3>1, <4>1, <4>2 DEF Progress
      <4>5. Consistent(m)'
        BY <2>1, <2>4, <4>3, <4>4 DEF Consistent
      <4> QED BY <4>1, <4>5 DEF EffectOK
    <3> QED BY <3>2, <3>3
  <2> QED BY <2>5, <2>6
<1> QED BY <1>7, <1>8

\* Only a fresh that has dropped everything makes what was torn trustworthy.
LEMMA TrustStep ==
    ASSUME CtrlInv, NEW r \in Runners, Step(r), ~EndDrop(r), NEW m \in Migrations, Trusted(m)'
    PROVE  Trusted(m)
<1> USE DEF runner, database, Goto
<1>1. TypeOK
  BY DEF CtrlInv, TypeInv
<1>2. torn \subseteq torn'
  BY DEF Step, Start, Install, List, Begin, EndLoop, Body, Record, ListTables, Drop, EndDrop,
         Uninstall, Stop
<1>3. ASSUME NEW q \in Runners, Restores(q)' PROVE Restores(q)
  <2>1. CASE q # r
    BY <1>1, <1>3, <2>1, OthersKeep DEF Restores, Busy, Phase
  <2>2. CASE q = r
    <3>1. ASSUME NEW o \in Operations, NEW fs \in Builds, NEW n \in StepChoices, Start(r, o, fs, n)
          PROVE  FALSE
      <4>1. phases'[r] = PhasesOf[o] /\ op'[r] = o
        BY <1>1, <3>1 DEF Start, TypeOK
      <4> QED BY <1>3, <2>2, <4>1, PhasesAreLeft DEF Restores, Phase
    <3>2. ASSUME EndLoop(r) \/ Uninstall(r)
          PROVE  FALSE
      <4>1. Busy(r) /\ EndPhase(r) /\ op' = op /\ pc[r] \in {"loop", "uninstall"}
        BY <3>2 DEF EndLoop, Uninstall, Busy
      <4>2. op[r] = "fresh" => Phase(r) = "up"
        BY <4>1, PhaseAt
      <4>3. Tail(phases[r]) = <<>>
        BY <1>3, <2>2, <4>1, <4>2, PhaseAt DEF Restores
      <4> QED BY <1>3, <2>2, <4>1, <4>3, PhaseEnds DEF Restores, Busy
    <3>3. ~Stop(r)
      BY <1>1, <1>3, <2>2 DEF Stop, Restores, Busy, TypeOK
    <3>4. CASE \/ Install(r) \/ List(r) \/ Body(r) \/ Record(r) \/ ListTables(r) \/ Drop(r)
               \/ \E n \in Migrations : Begin(r, n)
      BY <1>3, <2>2, <3>4 DEF Restores, Busy, Phase, Install, List, Body, Record, ListTables,
                              Drop, Begin
    <3> QED BY <3>1, <3>2, <3>3, <3>4 DEF Step
  <2> QED BY <2>1, <2>2
<1> QED BY <1>2, <1>3 DEF Trusted

\* A runner that drops tables is alone, and with its last table nothing is left.
LEMMA DropIsAlone ==
    ASSUME CtrlInv, NEW r \in Runners, pc[r] \in {"tables", "dropping", "uninstall"}
    PROVE  /\ \A q \in Runners : q # r => pc[q] = "idle"
           /\ \A q \in Runners, m \in Migrations : ~Works(q, m)
           /\ ~Restores(r)
<1>1. Busy(r) /\ op[r] # "up" /\ Phase(r) # "up"
  BY PhaseAt DEF Busy
<1>2. \A q \in Runners : q # r => pc[q] = "idle"
  BY <1>1, Alone
<1> QED BY <1>1, <1>2 DEF Works, Restores

LEMMA DroppersAlone ==
    CtrlInv => \A p, d \in Runners : pc[d] = "dropping" /\ p # d => pc[p] = "idle"
BY DropIsAlone

LEMMA NothingLeft ==
    ASSUME TeamInv, NEW r \in Runners, pc[r] = "dropping", drops[r] = {}, NEW m \in Migrations
    PROVE  Consistent(m) /\ effect[m] = Undone(m) /\ Recorded = {} /\ ~table
<1>1. TypeOK /\ TableInv /\ DropOK(r)
  BY DEF TeamInv, RowsInv, CtrlInv, TypeInv, DropInv
<1>2. ~table /\ ~Present(m)
  BY <1>1 DEF DropOK
<1> QED BY <1>1, <1>2, AbsentIsUndone DEF TableInv, Consistent

LEMMA StopEffect ==
    ASSUME TeamInv, CtrlInv', NEW r \in Runners, Stop(r), ~Dropping', NEW m \in Migrations,
           Trusted(m)'
    PROVE  EffectOK(m)'
<1>1. TypeOK /\ CtrlInv
  BY DEF TeamInv, RowsInv, CtrlInv, TypeInv
<1>2. /\ Busy(r) /\ pc' = [pc EXCEPT ![r] = "idle"] /\ work' = [work EXCEPT ![r] = 0]
      /\ torn \subseteq torn'
      /\ pc[r] = "body" /\ ~InTxn(r) /\ work[r] > 0 => cur[r] \in torn'
      /\ pc[r] = "dropping" /\ ~FreshInTxn => torn' = torn \cup Migrations
      /\ UNCHANGED <<table, appliedAt, effect, op, phases, cur>>
  BY DEF Stop, Goto, Busy, database
<1>3. Step(r) /\ ~EndDrop(r)
  BY <1>1 DEF Step, Stop, EndDrop, EndPhase, Goto, TypeOK
<1>4. Trusted(m)
  BY <1>1, <1>3, TrustStep
<1>5. m \notin torn'
  <2> SUFFICES ASSUME m \in torn' PROVE FALSE
    OBVIOUS
  <2>1. PICK q \in Runners : Restores(q)'
    BY DEF Trusted
  <2>2. q # r
    BY <1>1, <1>2, <2>1 DEF Restores, Busy, TypeOK
  <2>3. Restores(q)
    BY <1>1, <1>2, <2>1, <2>2 DEF Restores, Busy, Phase, TypeOK
  <2> QED BY <1>1, <1>2, <2>2, <2>3, Alone DEF Restores, Busy
<1>6. /\ Recorded' = Recorded /\ (Consistent(m) => Consistent(m)')
      /\ ~Works(r, m)'
      /\ \A q \in Runners : Phase(q)' = Phase(q)
      /\ \A q \in Runners : q # r => (Works(q, m)' <=> Works(q, m)) /\ work'[q] = work[q]
  BY <1>1, <1>2 DEF Recorded, Consistent, Works, Phase, TypeOK, Done, Undone
<1>7. CASE pc[r] = "dropping"
  <2>1. \A q \in Runners : ~Works(q, m)'
    BY <1>1, <1>6, <1>7, DropIsAlone
  <2>2. Consistent(m)
    <3>1. CASE drops[r] = {}
      BY <1>7, <3>1, NothingLeft
    <3>2. CASE drops[r] # {}
      BY <1>2, <1>5, <1>7, <3>2 DEF TeamInv, DropInv, DropOK
    <3> QED BY <3>1, <3>2
  <2> QED BY <1>6, <2>1, <2>2 DEF EffectOK
<1>8. CASE pc[r] # "dropping"
  <2>1. ~Dropping
    BY <1>1, <1>2, <1>8 DEF Dropping, TypeOK
  <2>2. EffectOK(m)
    BY <1>4, <2>1 DEF TeamInv, EffectInv
  <2>3. ~Works(r, m)
    BY <1>2, <1>5 DEF Works, InTxn
  <2>4. effect'[m] = effect[m]
    BY <1>2
  <2> QED BY <1>6, <2>2, <2>3, <2>4, EffectSame
<1> QED BY <1>7, <1>8

LEMMA EffectStep ==
    ASSUME UpsOverlap, TeamInv, NEW r \in Runners, Step(r), RowsInv'
    PROVE  EffectInv'
<1> USE DEF Goto, runner, database
<1> SUFFICES ASSUME ~Dropping', NEW m \in Migrations, Trusted(m)' PROVE EffectOK(m)'
  BY DEF EffectInv
<1>1. TypeOK /\ TypeInv /\ CtrlInv /\ CtrlInv' /\ TypeOK'
  BY DEF TeamInv, RowsInv, CtrlInv, TypeInv
<1>2. CASE Stop(r)
  BY <1>1, <1>2, StopEffect
<1>3. CASE EndDrop(r)
  <2>1. pc[r] = "dropping" /\ drops[r] = {} /\ EndPhase(r) /\ UNCHANGED database
    BY <1>3 DEF EndDrop
  <2>2. Consistent(m)
    BY <2>1, NothingLeft
  <2>3. Consistent(m)'
    BY <2>1, <2>2 DEF Consistent, Recorded, Done, Undone
  <2>4. \A q \in Runners : ~Works(q, m)'
    <3>1. pc'[r] # "body"
      BY <1>1, <2>1, PhaseEnds DEF Busy
    <3>2. \A q \in Runners : q # r => pc'[q] = "idle"
      BY <1>1, <2>1, DropIsAlone, OthersKeep
    <3> QED BY <3>1, <3>2 DEF Works
  <2> QED BY <2>3, <2>4 DEF EffectOK
<1>4. CASE Uninstall(r)
  <2>1. pc[r] = "uninstall" /\ EndPhase(r) /\ UNCHANGED effect
        /\ appliedAt' = [n \in Migrations |-> 0]
        /\ torn' = torn \cup {n \in Migrations : Present(n)}
    BY <1>4 DEF Uninstall
  <2>2. \A q \in Runners : q # r => pc'[q] = "idle"
    BY <1>1, <2>1, DropIsAlone, OthersKeep
  <2>3. pc'[r] = "idle"
    BY <1>1, <2>1, PhaseEnds, PhaseAt DEF Busy
  <2>4. \A q \in Runners : ~Works(q, m)' /\ ~Restores(q)'
    BY <2>2, <2>3 DEF Works, Restores, Busy
  <2>5. ~Present(m)
    BY <2>1, <2>4 DEF Trusted
  <2>6. effect'[m] = Undone(m) /\ Recorded' = {}
    BY <1>1, <2>1, <2>5, AbsentIsUndone DEF Recorded
  <2> QED BY <2>4, <2>6 DEF EffectOK, Consistent, Undone
<1>5. ~ListTables(r) /\ ~Drop(r)
  BY <1>1 DEF ListTables, Drop, Dropping, TypeOK
<1>6. ASSUME ~Stop(r), ~EndDrop(r), ~Uninstall(r)
      PROVE  EffectOK(m)'
  <2>1. Trusted(m)
    BY <1>1, <1>6, TrustStep
  <2>2. ~Dropping
    <3> SUFFICES ASSUME NEW q \in Runners, pc[q] = "dropping" PROVE FALSE
      BY DEF Dropping
    <3>1. q = r
      BY <1>1, OthersKeep DEF Dropping
    <3> QED BY <1>5, <1>6, <3>1 DEF Step, Start, Install, List, Begin, Body, Record, EndLoop
  <2>3. EffectOK(m)
    BY <2>1, <2>2 DEF TeamInv, EffectInv
  <2>4. CASE Body(r)
    BY <2>3, <2>4, BodyEffect
  <2>5. CASE Record(r)
    BY <2>3, <2>5, RecordEffect
  <2>6. CASE ~Body(r) /\ ~Record(r)
    <3>1. effect' = effect /\ appliedAt' = appliedAt /\ pc[r] # "body"
      BY <1>5, <1>6, <2>6 DEF Step, Start, Install, List, Begin, EndLoop
    <3>2. pc'[r] = "body" => work'[r] = 0
      <4>1. ASSUME NEW n \in Migrations, Begin(r, n) PROVE work'[r] = 0
        BY <1>1, <4>1 DEF Begin, TypeOK
      <4>2. ASSUME NEW o \in Operations, NEW fs \in Builds, NEW n \in StepChoices, Start(r, o, fs, n)
            PROVE  pc'[r] # "body"
        <5>1. pc'[r] = Entry(Head(PhasesOf[o]))
          BY <1>1, <4>2 DEF Start, TypeOK
        <5> QED BY <5>1, PhasesAreLeft
      <4>3. Install(r) \/ List(r) => pc'[r] # "body"
        BY <1>1 DEF Install, List, TypeOK
      <4>4. EndLoop(r) => pc'[r] # "body"
        BY <1>1, PhaseEnds DEF EndLoop, Busy
      <4> QED BY <1>5, <1>6, <2>6, <4>1, <4>2, <4>3, <4>4 DEF Step
    <3>3. ~Works(r, m) /\ ~Works(r, m)'
      BY <3>1, <3>2 DEF Works
    <3>4. \A q \in Runners : q # r =>
             (Works(q, m)' <=> Works(q, m)) /\ work'[q] = work[q] /\ Phase(q)' = Phase(q)
      BY <1>1, OthersKeep DEF Works, Phase
    <3>5. effect'[m] = effect[m] /\ Recorded' = Recorded
      BY <3>1 DEF Recorded
    <3> QED BY <2>3, <3>3, <3>4, <3>5, EffectSame
  <2> QED BY <2>4, <2>5, <2>6
<1> QED BY <1>2, <1>3, <1>4, <1>6

LEMMA DropStep ==
    ASSUME UpsOverlap, TeamInv, NEW r \in Runners, Step(r), RowsInv'
    PROVE  DropInv'
<1> USE DEF Goto, runner, database
<1> SUFFICES ASSUME NEW q \in Runners, pc'[q] = "dropping" PROVE DropOK(q)'
  BY DEF DropInv
<1>1. TypeOK /\ TypeInv /\ CtrlInv /\ CtrlInv' /\ TypeOK'
  BY DEF TeamInv, RowsInv, CtrlInv, TypeInv
<1>2. \A p \in Runners : p # q => pc'[p] = "idle"
  <2>1. (\A p, d \in Runners : pc[d] = "dropping" /\ p # d => pc[p] = "idle")'
    BY <1>1, DroppersAlone, PTL
  <2> QED BY <2>1
<1>3. CASE q # r
  <2>1. pc[q] = "dropping" /\ pc'[r] = "idle"
    BY <1>1, <1>2, <1>3, OthersKeep
  <2>2. pc[r] = "idle"
    BY <1>1, <1>3, <2>1, DropIsAlone
  <2>3. PICK o \in Operations, fs \in Builds, n \in StepChoices : Start(r, o, fs, n)
    BY <2>2 DEF Step, Install, List, Begin, Body, Record, EndLoop, ListTables, Drop,
                EndDrop, Uninstall, Stop
  <2>4. pc'[r] = Entry(Head(PhasesOf[o]))
    BY <1>1, <2>3 DEF Start, TypeOK
  <2> QED BY <2>1, <2>4, PhasesAreLeft
<1>4. CASE ListTables(r) /\ q = r
  <2>1. /\ pc[r] = "tables" /\ drops'[r] = Visible /\ UNCHANGED database /\ torn' = torn
    BY <1>1, <1>4 DEF ListTables, TypeOK
  <2>2. ~Dropping
    BY <1>1, <2>1, DropIsAlone DEF Dropping
  <2>3. \A m \in Migrations \ torn : Consistent(m)
    BY <1>1, <2>1, <2>2, DropIsAlone DEF TeamInv, EffectInv, Trusted, EffectOK
  <2>4. \A m \in Migrations : Consistent(m) => Consistent(m)'
    BY <2>1 DEF Consistent, Recorded, Done, Undone
  <2>5. \A m \in Migrations : Present(m)' => m \in Visible
    BY <2>1 DEF Present, Visible
  <2>6. table' => MigrationTable \in Visible
    BY <2>1 DEF Visible
  <2> QED BY <1>4, <2>1, <2>3, <2>4, <2>5, <2>6 DEF DropOK
<1>5. CASE Drop(r) /\ q = r
  <2>1. pc[r] = "dropping" /\ torn' = torn
    BY <1>5 DEF Drop
  <2>2. DropOK(r)
    BY <2>1 DEF TeamInv, DropInv
  <2>3. PICK S : DropTables(r, S) /\ (FreshInTxn => S = drops[r])
    BY <1>5, MigratorAssumption DEF Drop
  <2>4. /\ effect' = [m \in Migrations |-> IF m \in S THEN Undone(m) ELSE effect[m]]
        /\ table' => table /\ MigrationTable \notin S
        /\ drops'[r] = drops[r] \ S
    BY <1>1, <2>3 DEF DropTables, TypeOK
  <2>5. \A m \in Migrations : Present(m)' => Present(m) /\ m \notin S
    BY <2>4 DEF Present, Undone
  <2>6. FreshInTxn => drops'[r] = {}
    BY <2>3, <2>4
  <2> QED BY <1>5, <2>2, <2>4, <2>5, <2>6 DEF DropOK
<1>6. q = r => ListTables(r) \/ Drop(r)
  <2> SUFFICES ASSUME q = r, ~ListTables(r), ~Drop(r) PROVE FALSE
    OBVIOUS
  <2>1. ASSUME NEW o \in Operations, NEW fs \in Builds, NEW n \in StepChoices, Start(r, o, fs, n)
        PROVE  FALSE
    <3>1. pc'[r] = Entry(Head(PhasesOf[o]))
      BY <1>1, <2>1 DEF Start, TypeOK
    <3> QED BY <3>1, PhasesAreLeft
  <2>2. ~EndLoop(r) /\ ~EndDrop(r) /\ ~Uninstall(r)
    <3>1. EndLoop(r) \/ EndDrop(r) \/ Uninstall(r) => EndPhase(r) /\ Busy(r)
      BY DEF EndLoop, EndDrop, Uninstall, Busy
    <3> QED BY <1>1, <3>1, PhaseEnds
  <2>3. ~Install(r) /\ ~List(r) /\ ~Body(r) /\ ~Record(r) /\ ~Stop(r)
        /\ ~(\E m \in Migrations : Begin(r, m))
    BY <1>1 DEF Install, List, Body, Record, Stop, Begin, TypeOK
  <2> QED BY <2>1, <2>2, <2>3 DEF Step
<1> QED BY <1>3, <1>4, <1>5, <1>6

LEMMA TeamInitially == Init => TeamInv
<1> SUFFICES ASSUME Init PROVE TeamInv
  OBVIOUS
<1>1. TypeInv
  BY InitTyped
<1>2. \A r \in Runners : pc[r] = "idle"
  BY DEF Init
<1>3. PhaseInv /\ AloneInv /\ ListedInv /\ OrderInv /\ DropInv
  BY <1>2 DEF PhaseInv, AloneInv, ListedInv, OrderInv, DropInv, Busy
<1>4. Recorded = {} /\ \A m \in Migrations : Consistent(m)
  BY DEF Init, Recorded, Consistent, Undone
<1>5. TableInv /\ EffectInv
  BY <1>2, <1>4 DEF TableInv, EffectInv, EffectOK, Works
<1> QED BY <1>1, <1>3, <1>5 DEF TeamInv, RowsInv, CtrlInv

LEMMA TeamStutter ==
    ASSUME TeamInv, UNCHANGED vars
    PROVE  TeamInv'
<1> USE DEF vars
<1>1. TypeInv'
  BY TypeStutter DEF TeamInv, RowsInv, CtrlInv
<1>2. PhaseInv' /\ AloneInv'
  BY DEF TeamInv, RowsInv, CtrlInv, PhaseInv, AloneInv, Busy, Phase
<1>3. Recorded' = Recorded
  BY DEF Recorded
<1>4. TableInv'
  BY <1>3 DEF TeamInv, RowsInv, TableInv
<1>5. ListedInv' /\ OrderInv'
  <2>1. \A r \in Runners : ListOK(r) => ListOK(r)'
    BY <1>3 DEF ListOK, Ahead, Phase, FileSet
  <2>2. \A r \in Runners : OrderOK(r) => OrderOK(r)'
    BY <1>3 DEF OrderOK, Phase, Before
  <2> QED BY <2>1, <2>2 DEF TeamInv, RowsInv, ListedInv, OrderInv
<1>6. EffectInv'
  <2>1. ASSUME NEW m \in Migrations, EffectOK(m) PROVE EffectOK(m)'
    BY <1>3, <2>1, EffectSame DEF Works, Phase
  <2>2. \A m \in Migrations : Trusted(m)' => Trusted(m)
    BY DEF Trusted, Restores, Busy, Phase
  <2> QED BY <2>1, <2>2 DEF TeamInv, EffectInv, Dropping
<1>7. DropInv'
  <2>1. \A m \in Migrations : (Consistent(m) => Consistent(m)') /\ (Present(m)' => Present(m))
    BY <1>3 DEF Consistent, Present, Done, Undone
  <2>2. \A r \in Runners : DropOK(r) => DropOK(r)'
    BY <2>1 DEF DropOK
  <2> QED BY <2>2 DEF TeamInv, DropInv
<1> QED BY <1>1, <1>2, <1>4, <1>5, <1>6, <1>7 DEF TeamInv, RowsInv, CtrlInv

LEMMA TeamStep ==
    ASSUME UpsOverlap, TeamInv, NEW r \in Runners, Step(r)
    PROVE  TeamInv'
<1>1. RowsInv'
  BY RowsKept DEF TeamInv
<1>2. EffectInv' /\ DropInv'
  BY <1>1, EffectStep, DropStep
<1> QED BY <1>1, <1>2 DEF TeamInv

LEMMA AlwaysTeam ==
    ASSUME UpsOverlap
    PROVE  Spec => []TeamInv
<1>1. TeamInv /\ [Next]_vars => TeamInv'
  BY NextIsStep, TeamStep, TeamStutter
<1> QED BY TeamInitially, <1>1, PTL DEF Spec

\* The record and the schema differ only where a runner is at work or one was
\* stopped half way, although up takes no lock: for any number of runners that
\* apply at the same time, migrations of any kind, and all other operations next
\* to nobody.
THEOREM AlwaysAccounted == UpsOverlap => (Spec => []Accounted)
<1> SUFFICES ASSUME UpsOverlap PROVE Spec => []Accounted
  OBVIOUS
<1>1. TeamInv => Accounted
  <2> SUFFICES ASSUME TeamInv, NEW m \in Migrations \ torn,
                      ~ \E r \in Runners : pc[r] = "dropping" \/ (pc[r] = "body" /\ cur[r] = m)
               PROVE  Consistent(m)
    BY DEF Accounted
  <2>1. EffectOK(m) /\ \A r \in Runners : ~Works(r, m)
    BY DEF TeamInv, EffectInv, Dropping, Trusted, Works
  <2> QED BY <2>1 DEF EffectOK
<1> QED BY AlwaysTeam, <1>1, PTL

(***************************************************************************)
(* Builds of one history: a build that has a migration has all that any    *)
(* build puts before it, before it.                                        *)
(***************************************************************************)
OneHistory ==
    \A fs, gs \in Builds : \A m, n \in Migrations :
       Before(gs, n, m) /\ m \in FileSet(fs) => Before(fs, n, m)

LEMMA PrefixStep ==
    ASSUME OneHistory, TeamInv, PrefixKept, NEW r \in Runners, Step(r)
    PROVE  PrefixKept'
<1> SUFFICES ASSUME NEW fs \in Builds, NEW i \in DOMAIN fs, NEW j \in DOMAIN fs,
                    i < j, fs[j] \in Recorded'
             PROVE  fs[i] \in Recorded'
  BY DEF PrefixKept
<1>1. TypeOK /\ CtrlInv
  BY DEF TeamInv, RowsInv, CtrlInv, TypeInv
<1>2. fs[i] \in Migrations /\ fs[j] \in Migrations /\ Before(fs, fs[i], fs[j])
  BY MigratorAssumption DEF Before
<1>3. fs[j] \in Recorded => fs[i] \in Recorded
  BY DEF PrefixKept
<1>4. ASSUME Record(r)
      PROVE  /\ Busy(r) /\ Phase(r) \in {"up", "down"} /\ files[r] \in Builds
             /\ cur[r] \in FileSet(files[r]) /\ cur[r] \in Migrations
             /\ ListOK(r) /\ OrderOK(r)
  <2>1. pc[r] = "body" /\ Busy(r)
    BY <1>4 DEF Record, Busy
  <2>2. ListOK(r) /\ OrderOK(r)
    BY <2>1 DEF TeamInv, RowsInv, ListedInv, OrderInv
  <2>3. cur[r] \in FileSet(files[r])
    BY <2>1, <2>2 DEF ListOK, Ahead
  <2> QED BY <1>1, <2>1, <2>2, <2>3, PhaseAt DEF CtrlInv, PhaseInv, TypeOK
<1>5. CASE Record(r) /\ Phase(r) = "up" /\ Recorded' = Recorded \cup {cur[r]}
  <2>1. CASE fs[j] \in Recorded
    BY <1>3, <1>5, <2>1
  <2>2. CASE fs[j] = cur[r]
    <3>1. Before(files[r], fs[i], cur[r])
      BY <1>2, <1>4, <1>5, <2>2 DEF OneHistory
    <3> QED BY <1>2, <1>4, <1>5, <3>1 DEF OrderOK
  <2> QED BY <1>5, <2>1, <2>2
<1>6. CASE Record(r) /\ Phase(r) # "up" /\ Recorded' = Recorded \ {cur[r]}
  <2>1. fs[j] \in Recorded /\ fs[i] \in Recorded
    BY <1>3, <1>6
  <2>2. Phase(r) = "down" /\ op[r] # "up"
    BY <1>1, <1>4, <1>6, PhaseAt
  <2>3. fs[j] \in FileSet(files[r])
    BY <1>4, <1>6, <2>1, <2>2 DEF ListOK
  <2>4. fs[i] # cur[r]
    <3> SUFFICES ASSUME fs[i] = cur[r] PROVE FALSE
      OBVIOUS
    <3>1. Before(files[r], cur[r], fs[j])
      BY <1>2, <1>4, <1>6, <2>3 DEF OneHistory
    <3> QED BY <1>2, <1>4, <1>6, <2>1, <2>2, <3>1 DEF OrderOK
  <2> QED BY <1>6, <2>1, <2>4
<1>7. CASE Recorded' = Recorded \/ Recorded' = {}
  BY <1>3, <1>7
<1> QED BY <1>1, <1>5, <1>6, <1>7, RowsStep

\* What is recorded is always a prefix of every build's list, whatever is applied
\* side by side, undone or stopped, if the builds are of one history.
THEOREM PrefixAlwaysKept == UpsOverlap /\ OneHistory => (Spec => []PrefixKept)
<1> SUFFICES ASSUME UpsOverlap, OneHistory PROVE Spec => []PrefixKept
  OBVIOUS
<1>1. Init => PrefixKept
  BY DEF Init, PrefixKept, Recorded
<1>2. TeamInv /\ PrefixKept /\ [Next]_vars => PrefixKept'
  <2> SUFFICES ASSUME TeamInv, PrefixKept, [Next]_vars PROVE PrefixKept'
    OBVIOUS
  <2>1. CASE UNCHANGED vars
    BY <2>1 DEF vars, PrefixKept, Recorded
  <2> QED BY <2>1, NextIsStep, PrefixStep
<1> QED BY <1>1, <1>2, AlwaysTeam, PTL DEF Spec

(***************************************************************************)
(* What Ok promises.                                                       *)
(***************************************************************************)
\* A step that ends an operation is its runner's own and ends its last phase.
LEMMA OkIsOwn ==
    ASSUME CtrlInv, NEW r \in Runners, Step(r), NEW q \in Runners, FinishesOk(q)
    PROVE  /\ q = r /\ Busy(r)
           /\ \/ EndLoop(r) /\ Tail(phases[r]) = <<>>
              \/ Uninstall(r) /\ op[r] \in {"reset", "uninstall"}
<1> USE DEF Goto, runner, database
<1>1. TypeOK
  BY DEF CtrlInv, TypeInv
<1>2. q = r /\ Busy(r) /\ pc'[r] = "idle" /\ answer'[r] = "ok"
  BY <1>1, OthersKeep DEF FinishesOk, Busy
<1>3. ~Install(r) /\ ~List(r) /\ ~Body(r) /\ ~Record(r) /\ ~Stop(r) /\ ~ListTables(r)
      /\ ~Drop(r) /\ ~(\E m \in Migrations : Begin(r, m))
      /\ ~(\E o \in Operations, fs \in Builds, n \in StepChoices : Start(r, o, fs, n))
  BY <1>1, <1>2 DEF Start, Install, List, Body, Record, Stop, ListTables, Drop, Begin, TypeOK, Busy
<1>4. EndLoop(r) \/ EndDrop(r) \/ Uninstall(r) => Tail(phases[r]) = <<>>
  BY <1>2, PhaseEnds DEF EndLoop, EndDrop, Uninstall
<1>5. ~EndDrop(r)
  <2>1. EndDrop(r) => Tail(phases[r]) = <<"up">>
    BY <1>2, PhaseAt DEF EndDrop
  <2> QED BY <1>4, <2>1
<1>6. Uninstall(r) => op[r] \in {"reset", "uninstall"}
  BY <1>2, PhaseAt DEF Uninstall
<1> QED BY <1>2, <1>3, <1>4, <1>5, <1>6 DEF Step

LEMMA OkStep ==
    ASSUME TeamInv, NEW r \in Runners, Step(r), NEW q \in Runners, FinishesOk(q)
    PROVE  CASE op[q] = "up"      -> FileSet(files[q]) \subseteq Recorded'
             [] op[q] = "refresh" -> Recorded' = FileSet(files[q])
             [] op[q] = "fresh"   -> /\ Recorded' = FileSet(files[q])
                                     /\ \A m \in Migrations : Consistent(m)'
             [] op[q] = "down"    -> Recorded' = {}
             [] OTHER             -> Recorded' = {} /\ ~table'
<1>1. TypeOK /\ CtrlInv
  BY DEF TeamInv, RowsInv, CtrlInv, TypeInv
<1>2. /\ q = r /\ Busy(r)
      /\ \/ EndLoop(r) /\ Tail(phases[r]) = <<>>
         \/ Uninstall(r) /\ op[r] \in {"reset", "uninstall"}
  BY <1>1, OkIsOwn
<1>3. CASE Uninstall(r) /\ op[r] \in {"reset", "uninstall"}
  <2>1. Recorded' = {} /\ ~table'
    BY <1>3 DEF Uninstall, Recorded
  <2> QED BY <1>2, <1>3, <2>1
<1>4. CASE EndLoop(r) /\ Tail(phases[r]) = <<>>
  <2>1. pc[r] = "loop" /\ todo[r] = {} /\ UNCHANGED database
    BY <1>2, <1>4 DEF EndLoop, FinishesOk, NoLimit
  <2>2. Recorded' = Recorded /\ Ahead(r) = {} /\ ListOK(r)
    BY <2>1 DEF database, Recorded, Ahead, TeamInv, RowsInv, ListedInv
  <2>3. Phase(r) \in {"up", "down"}
    BY <1>1, <1>2, <2>1, PhaseAt
  <2>4. op[r] \in Operations /\ phases[r] \in Left[op[r]]
    BY <1>1, <1>2 DEF CtrlInv, PhaseInv
  <2>5. /\ op[r] \in {"up", "down", "refresh", "fresh"}
        /\ op[r] = "down" => Phase(r) = "down"
        /\ op[r] \in {"up", "refresh", "fresh"} => Phase(r) = "up"
    <3>1. /\ Head(<<"up">>) = "up" /\ Head(<<"down">>) = "down"
          /\ Head(<<"uninstall">>) = "uninstall"
          /\ Tail(<<"down", "up">>) # <<>> /\ Tail(<<"drop", "up">>) # <<>>
          /\ Tail(<<"down", "uninstall">>) # <<>>
      OBVIOUS
    <3> QED BY <1>4, <2>3, <2>4, <3>1, LeftIs DEF Phase
  <2>6. Phase(r) = "up" => FileSet(files[r]) \subseteq Recorded
    BY <2>2 DEF ListOK
  <2>7. Phase(r) = "down" => Recorded = {}
    BY <2>2 DEF ListOK
  <2>8. op[r] # "up" => Recorded \subseteq FileSet(files[r])
    BY <2>2 DEF ListOK
  <2>9. ASSUME op[r] = "fresh", NEW m \in Migrations
        PROVE  Consistent(m)'
    <3>1. \A p \in Runners : p # r => pc[p] = "idle"
      BY <1>1, <1>2, <2>9, Alone
    <3>2. ~Dropping /\ Restores(r) /\ \A p \in Runners : ~Works(p, m)
      BY <1>2, <2>1, <2>5, <2>9, <3>1 DEF Dropping, Restores, Works
    <3>3. Consistent(m)
      BY <3>2 DEF TeamInv, EffectInv, EffectOK, Trusted
    <3> QED BY <2>1, <2>2, <3>3 DEF database, Consistent, Done, Undone
  <2>10. CASE op[r] = "up"
    BY <1>2, <2>2, <2>5, <2>6, <2>10
  <2>11. CASE op[r] = "refresh"
    <3>1. op[q] = "refresh" /\ Recorded' = FileSet(files[q])
      BY <1>2, <2>2, <2>5, <2>6, <2>8, <2>11
    <3> QED BY <3>1
  <2>12. CASE op[r] = "fresh"
    <3>1. Recorded' = FileSet(files[r])
      BY <2>2, <2>5, <2>6, <2>8, <2>12
    <3>2. \A m \in Migrations : Consistent(m)'
      BY <2>9, <2>12
    <3>3. op[q] = "fresh" /\ Recorded' = FileSet(files[q])
      BY <1>2, <2>12, <3>1
    <3> QED BY <3>2, <3>3
  <2>13. CASE op[r] = "down"
    BY <1>2, <2>2, <2>5, <2>7, <2>13
  <2> QED BY <2>5, <2>10, <2>11, <2>12, <2>13
<1> QED BY <1>2, <1>3, <1>4

\* An operation that answers Ok has done what it was asked for: up recorded every
\* file although others applied too, fresh rebuilt even what earlier crashes
\* left half done.
THEOREM OkIsKept == UpsOverlap => (Spec => OkMeansDone)
<1> SUFFICES ASSUME UpsOverlap PROVE Spec => OkMeansDone
  OBVIOUS
<1> DEFINE Promise ==
      \A r \in Runners : FinishesOk(r) =>
          CASE op[r] = "up"      -> FileSet(files[r]) \subseteq Recorded'
            [] op[r] = "refresh" -> Recorded' = FileSet(files[r])
            [] op[r] = "fresh"   -> /\ Recorded' = FileSet(files[r])
                                    /\ \A m \in Migrations : Consistent(m)'
            [] op[r] = "down"    -> Recorded' = {}
            [] OTHER             -> Recorded' = {} /\ ~table'
<1>1. TeamInv /\ [Next]_vars => [Promise]_vars
  <2> SUFFICES ASSUME TeamInv, Next PROVE Promise
    OBVIOUS
  <2>1. PICK r \in Runners : Step(r)
    BY NextIsStep
  <2> QED BY <2>1, OkStep
<1> HIDE DEF Promise
<1>2. Spec => [][Promise]_vars
  BY <1>1, AlwaysTeam, PTL DEF Spec
<1> QED BY <1>2 DEF OkMeansDone, Promise
=============================================================================
