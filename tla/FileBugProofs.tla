---------------------------- MODULE FileBugProofs ----------------------------
(* Theorems about file_bugzilla_bug, for any number of jobs and workers.     *)
EXTENDS FileBug, FiniteSetTheorems, TLAPS

LEMMA TypingStep == TypeOK /\ [Next]_vars => TypeOK'
<1> SUFFICES ASSUME TypeOK, [Next]_vars PROVE TypeOK'
  OBVIOUS
<1> USE DEF TypeOK, Requests, Goto, bugzilla
<1>1. ASSUME NEW j \in Jobs, Start(j) \/ GetTracker(j) \/ Reopen(j) \/ Search(j)
      PROVE  TypeOK'
  BY <1>1 DEF Start, GetTracker, KnowsTracker, Reopen, Search, Open
<1>2. ASSUME NEW j \in Jobs, PostTracker(j) PROVE TypeOK'
  BY <1>2 DEF PostTracker, KnowsTracker
<1>3. ASSUME NEW j \in Jobs, PostBug(j) PROVE TypeOK'
  BY <1>3 DEF PostBug, OpenBug
<1>4. ASSUME NEW j \in Jobs, Put(j) PROVE TypeOK'
  BY <1>4 DEF Put, Update
<1>5. CASE People
  BY <1>5 DEF People, CloseTracker, CloseBug
<1>6. CASE UNCHANGED vars
  BY <1>6 DEF vars
<1> QED BY <1>1, <1>2, <1>3, <1>4, <1>5, <1>6 DEF Next, JobStep

\* The variables of the command keep their types.
THEOREM TypeSafety == Spec => []TypeOK
<1>1. Init => TypeOK
  BY DEF Init, TypeOK
<1> QED BY <1>1, TypingStep, PTL DEF Spec

-----------------------------------------------------------------------------
(* Duplicates.                                                             *)

\* A job about to create a bug for want of one is right, or known to be blind.
PostSeesNone == \A j \in Jobs : pc[j] = "post_bug" /\ j \notin blind => Open = {}

DuplicateInv == PostSeesNone /\ DuplicateIsExplained

LEMMA OpenBugIsExplained ==
  ASSUME TypeOK, DuplicateInv, NEW j \in Jobs, pc[j] = "post_bug", OpenBug(j),
         NEW label \in {"put", "raised"}, Goto(j, label)
  PROVE  DuplicateInv'
<1>1. Open' = Open \cup {j}
  BY DEF TypeOK, OpenBug, Open
<1>2. j \notin blind => Open = {}
  BY DEF DuplicateInv, PostSeesNone
<1>3. blind \subseteq blind'
  BY DEF OpenBug
<1>4. DuplicateIsExplained'
  BY <1>1, <1>2, <1>3 DEF DuplicateInv, DuplicateIsExplained
<1>5. PostSeesNone'
  BY DEF TypeOK, OpenBug, Goto, PostSeesNone
<1> QED BY <1>4, <1>5 DEF DuplicateInv

LEMMA DuplicateStep == TypeOK /\ DuplicateInv /\ [Next]_vars => DuplicateInv'
<1> SUFFICES ASSUME TypeOK, DuplicateInv, [Next]_vars PROVE DuplicateInv'
  OBVIOUS
<1>1. ASSUME UNCHANGED <<bugs, blind>>,
             \A j \in Jobs : pc'[j] = "post_bug" => pc[j] = "post_bug"
      PROVE  DuplicateInv'
  BY <1>1 DEF DuplicateInv, PostSeesNone, DuplicateIsExplained, Open
<1>2. ASSUME NEW j \in Jobs,
             Start(j) \/ GetTracker(j) \/ Reopen(j) \/ PostTracker(j) \/ Put(j)
      PROVE  DuplicateInv'
  BY <1>1, <1>2 DEF Start, GetTracker, Reopen, PostTracker, Put, Update, Goto,
     bugzilla, TypeOK
<1>3. ASSUME NEW j \in Jobs, Search(j) PROVE DuplicateInv'
  BY <1>3 DEF Search, Goto, bugzilla, TypeOK, DuplicateInv, PostSeesNone,
     DuplicateIsExplained, Open
<1>4. ASSUME NEW j \in Jobs, PostBug(j) PROVE DuplicateInv'
  <2>1. CASE OpenBug(j)
    BY <1>4, <2>1, OpenBugIsExplained DEF PostBug
  <2>2. CASE Goto(j, "raised") /\ UNCHANGED <<bugId, bugzilla, blind>>
    BY <1>1, <2>2 DEF Goto, bugzilla, TypeOK
  <2> QED BY <1>4, <2>1, <2>2 DEF PostBug
<1>5. CASE People
  BY <1>5 DEF People, CloseTracker, CloseBug, TypeOK, DuplicateInv, PostSeesNone,
     DuplicateIsExplained, Open
<1>6. CASE UNCHANGED vars
  BY <1>1, <1>6 DEF vars
<1> QED BY <1>2, <1>3, <1>4, <1>5, <1>6 DEF Next, JobStep

\* However many jobs run and whatever fails, a second open bug for the machine
\* comes only from a failed search or from a race between search and POST.
THEOREM DuplicatesAreExplained == Spec => []DuplicateIsExplained
<1>1. Init => DuplicateInv
  BY DEF Init, DuplicateInv, PostSeesNone, DuplicateIsExplained, Open
<1>2. DuplicateInv => DuplicateIsExplained
  BY DEF DuplicateInv
<1> QED BY <1>1, <1>2, DuplicateStep, TypeSafety, PTL DEF Spec

-----------------------------------------------------------------------------
(* One worker, and a Bugzilla that answers.                                *)

Serial == \A j, k \in Jobs : Busy(j) /\ Busy(k) => j = k

LEMMA OneWorkerStartsAlone ==
  ASSUME Workers = 1, Cardinality({k \in Jobs : Busy(k)}) < Workers
  PROVE  \A k \in Jobs : ~Busy(k)
<1> DEFINE B == {k \in Jobs : Busy(k)}
<1>1. IsFiniteSet(B) /\ Cardinality(B) \in Nat
  BY JobsAssumption, FS_Subset, FS_CardinalityType
<1>2. Cardinality(B) = 0
  BY <1>1
<1>3. B = {}
  BY <1>1, <1>2, FS_EmptySet
<1> QED BY <1>3

LEMMA SerialStep ==
  ASSUME Workers = 1, TypeOK, Serial, [Next]_vars
  PROVE  Serial'
<1>1. ASSUME NEW j \in Jobs, Start(j) PROVE Serial'
  BY <1>1, OneWorkerStartsAlone DEF Start, Goto, Serial, Busy, TypeOK
<1>2. ASSUME NEW j \in Jobs, Busy(j), NEW label, Goto(j, label) PROVE Serial'
  BY <1>2 DEF Goto, Serial, Busy, TypeOK
<1>3. ASSUME NEW j \in Jobs,
             GetTracker(j) \/ Reopen(j) \/ PostTracker(j) \/ Search(j) \/ PostBug(j)
               \/ Put(j)
      PROVE  Serial'
  <2>1. Busy(j)
    BY <1>3 DEF GetTracker, Reopen, PostTracker, Search, PostBug, Put, Busy, Requests
  <2>2. \E label : Goto(j, label)
    BY <1>3 DEF GetTracker, Reopen, PostTracker, Search, PostBug, Put
  <2> QED BY <1>2, <2>1, <2>2
<1>4. CASE UNCHANGED pc
  BY <1>4 DEF Serial, Busy
<1> QED BY <1>1, <1>3, <1>4 DEF Next, JobStep, People, CloseTracker, CloseBug, vars

\* No job is ever blind.
LEMMA SightStep ==
  ASSUME ~Faulty, TypeOK, Serial, blind = {}, [Next]_vars
  PROVE  blind' = {}
<1>1. ASSUME NEW j \in Jobs, PostBug(j) PROVE blind' = {}
  <2>1. \A k \in Jobs \ {j} : pc[k] # "post_bug"
    BY <1>1 DEF PostBug, Serial, Busy, Requests
  <2> QED BY <1>1, <2>1 DEF PostBug, OpenBug
<1>2. ASSUME NEW j \in Jobs, JobStep(j), ~PostBug(j) PROVE blind' = {}
  BY <1>2 DEF JobStep, Start, GetTracker, Reopen, PostTracker, Search, Put
<1> QED BY <1>1, <1>2 DEF Next, People, CloseTracker, CloseBug, vars

\* With a single worker and a Bugzilla that answers every request, a machine
\* never has two open reboot bugs, however many jobs give up on it.
THEOREM OneWorkerOneBug == Workers = 1 /\ ~Faulty /\ Spec => []AtMostOneOpenBug
<1> SUFFICES ASSUME Workers = 1, ~Faulty PROVE Spec => []AtMostOneOpenBug
  OBVIOUS
<1>1. Init => Serial /\ blind = {}
  BY DEF Init, Serial, Busy, Requests
<1>2. TypeOK /\ Serial /\ blind = {} /\ [Next]_vars => Serial' /\ (blind = {})'
  BY SerialStep, SightStep
<1>3. blind = {} /\ DuplicateIsExplained => AtMostOneOpenBug
  BY DEF DuplicateIsExplained, AtMostOneOpenBug
<1> QED BY <1>1, <1>2, <1>3, TypeSafety, DuplicatesAreExplained, PTL DEF Spec

-----------------------------------------------------------------------------
(* Several workers, and a Bugzilla that answers.                           *)

Running == {k \in Jobs : Busy(k)}

\* An open bug, or a job about to create one, takes one of the workers' places:
\* a job finds its search empty only while no bug is open, and then the places
\* taken are those of running jobs.
Stakes == Open \cup {k \in Jobs : pc[k] = "post_bug"}

Capacity == Cardinality(Running) <= Workers /\ Cardinality(Stakes) <= Workers

\* The sets that are counted are finite, and smaller ones count less.
LEMMA Countable ==
  ASSUME NEW S \in SUBSET Jobs, NEW T \in SUBSET S
  PROVE  /\ IsFiniteSet(S) /\ Cardinality(S) \in Nat /\ Cardinality(T) \in Nat
         /\ Cardinality(T) <= Cardinality(S)
<1>1. IsFiniteSet(S)
  BY JobsAssumption, FS_Subset
<1>2. IsFiniteSet(T) /\ Cardinality(T) <= Cardinality(S)
  BY <1>1, FS_Subset
<1> QED BY <1>1, <1>2, FS_CardinalityType

LEMMA RunningStep ==
  ASSUME TypeOK, Capacity, [Next]_vars
  PROVE  Cardinality(Running') <= Workers
<1>1. ASSUME NEW j \in Jobs, Start(j) PROVE Cardinality(Running') <= Workers
  <2>1. Running' \subseteq Running \cup {j}
    BY <1>1 DEF Start, Goto, Running, Busy, TypeOK
  <2>2. IsFiniteSet(Running) /\ Cardinality(Running) < Workers /\ Cardinality(Running) \in Nat
    BY <1>1, Countable DEF Start, Running
  <2>3. Cardinality(Running \cup {j}) <= Cardinality(Running) + 1
    BY <2>2, FS_AddElement
  <2>4. Running \cup {j} \in SUBSET Jobs
    BY DEF Running
  <2>5. Cardinality(Running') <= Cardinality(Running \cup {j})
        /\ Cardinality(Running') \in Nat /\ Cardinality(Running \cup {j}) \in Nat
    BY <2>1, <2>4, Countable
  <2> QED BY <2>2, <2>3, <2>5, WorkersAssumption
<1>2. ASSUME Running' \subseteq Running PROVE Cardinality(Running') <= Workers
  <2>1. Running \in SUBSET Jobs
    BY DEF Running
  <2>2. Cardinality(Running') <= Cardinality(Running)
        /\ Cardinality(Running') \in Nat /\ Cardinality(Running) \in Nat
    BY <1>2, <2>1, Countable
  <2> QED BY <2>2, WorkersAssumption DEF Capacity
<1>3. ASSUME NEW j \in Jobs,
             GetTracker(j) \/ Reopen(j) \/ PostTracker(j) \/ Search(j) \/ PostBug(j)
               \/ Put(j)
      PROVE  Running' \subseteq Running
  <2>1. Busy(j)
    BY <1>3 DEF GetTracker, Reopen, PostTracker, Search, PostBug, Put, Busy, Requests
  <2>2. \E label : Goto(j, label)
    BY <1>3 DEF GetTracker, Reopen, PostTracker, Search, PostBug, Put
  <2> QED BY <2>1, <2>2 DEF Goto, Running, Busy, TypeOK
<1>4. CASE UNCHANGED pc
  BY <1>2, <1>4 DEF Running, Busy
<1> QED BY <1>1, <1>2, <1>3, <1>4 DEF Next, JobStep, People, CloseTracker, CloseBug, vars

LEMMA StakesStep ==
  ASSUME ~Faulty, TypeOK, Capacity, [Next]_vars
  PROVE  Cardinality(Stakes') <= Workers
<1>0. Stakes \in SUBSET Jobs /\ Running \in SUBSET Jobs
  BY DEF Stakes, Open, Running
<1>1. ASSUME NEW S \in {Stakes, Running}, Stakes' \subseteq S
      PROVE  Cardinality(Stakes') <= Workers
  <2>1. Cardinality(Stakes') <= Cardinality(S)
        /\ Cardinality(Stakes') \in Nat /\ Cardinality(S) \in Nat
    BY <1>0, <1>1, Countable
  <2> QED BY <1>1, <2>1, WorkersAssumption DEF Capacity
<1>2. ASSUME UNCHANGED bugs,
             \A k \in Jobs : pc'[k] = "post_bug" => pc[k] = "post_bug"
      PROVE  Stakes' \subseteq Stakes
  BY <1>2 DEF Stakes, Open
<1>3. ASSUME NEW j \in Jobs,
             Start(j) \/ GetTracker(j) \/ Reopen(j) \/ PostTracker(j) \/ Put(j)
      PROVE  Stakes' \subseteq Stakes
  BY <1>2, <1>3 DEF Start, GetTracker, Reopen, PostTracker, Put, Update, Goto, bugzilla,
     TypeOK
<1>4. ASSUME NEW j \in Jobs, Search(j)
      PROVE  Stakes' \subseteq Stakes \/ Stakes' \subseteq Running
  <2>1. CASE Goto(j, "put")
    BY <1>2, <1>4, <2>1 DEF Search, Goto, bugzilla, TypeOK
  <2>2. CASE Open = {} /\ Goto(j, "post_bug")
    BY <1>4, <2>2 DEF Search, Goto, bugzilla, TypeOK, Stakes, Open, Running, Busy, Requests
  <2> QED BY <1>4, <2>1, <2>2 DEF Search
<1>5. ASSUME NEW j \in Jobs, PostBug(j) PROVE Stakes' \subseteq Stakes
  <2>1. CASE OpenBug(j) /\ Goto(j, "put")
    BY <1>5, <2>1 DEF PostBug, OpenBug, Goto, TypeOK, Stakes, Open
  <2>2. CASE Goto(j, "raised") /\ UNCHANGED bugzilla
    BY <1>2, <2>2 DEF Goto, bugzilla, TypeOK
  <2> QED BY <1>5, <2>1, <2>2 DEF PostBug
<1>6. ASSUME People PROVE Stakes' \subseteq Stakes
  BY <1>6 DEF People, CloseTracker, CloseBug, TypeOK, Stakes, Open
<1>7. ASSUME UNCHANGED vars PROVE Stakes' \subseteq Stakes
  BY <1>2, <1>7 DEF vars
<1> QED BY <1>1, <1>3, <1>4, <1>5, <1>6, <1>7 DEF Next, JobStep

\* With any number of workers and a Bugzilla that answers every request, the open
\* bugs of a machine are never more than the workers, whatever the number of jobs
\* and whenever people close bugs: OneWorkerOneBug for more than one.
THEOREM DuplicatesAreBounded == ~Faulty /\ Spec => []NoMoreBugsThanWorkers
<1> SUFFICES ASSUME ~Faulty PROVE Spec => []NoMoreBugsThanWorkers
  OBVIOUS
<1>1. Init => Capacity
  <2> SUFFICES ASSUME Init PROVE Capacity
    OBVIOUS
  <2>1. Running = {} /\ Stakes = {}
    BY DEF Init, Running, Stakes, Busy, Open, Requests
  <2> QED BY <2>1, FS_EmptySet, WorkersAssumption DEF Capacity
<1>2. TypeOK /\ Capacity /\ [Next]_vars => Capacity'
  BY RunningStep, StakesStep DEF Capacity
<1>3. Capacity => NoMoreBugsThanWorkers
  <2> SUFFICES ASSUME Capacity PROVE NoMoreBugsThanWorkers
    OBVIOUS
  <2>1. Stakes \in SUBSET Jobs /\ Open \in SUBSET Stakes
    BY DEF Stakes, Open
  <2>2. Cardinality(Open) <= Cardinality(Stakes)
        /\ Cardinality(Open) \in Nat /\ Cardinality(Stakes) \in Nat
    BY <2>1, Countable
  <2> QED BY <2>2, WorkersAssumption DEF Capacity, NoMoreBugsThanWorkers
<1> QED BY <1>1, <1>2, <1>3, TypeSafety, PTL DEF Spec

-----------------------------------------------------------------------------
(* Reports.                                                                *)

\* A bug that a job holds exists, and has the job's report if it is the job's.
HeldBugs ==
  /\ \A j \in Jobs : pc[j] \in {"idle", "get_tracker", "reopen", "post_tracker",
                              "search", "post_bug"} => bugs[j] = "absent"
  /\ \A j \in Jobs : \A b \in bugId[j] : bugs[b] # "absent"
  /\ \A j \in Jobs : pc[j] \in {"put", "filed"} => bugId[j] # {}
  /\ \A j \in Jobs : pc[j] = "put" /\ j \in bugId[j] => j \in reports[j]
  /\ \A j \in Jobs : pc[j] = "filed" =>
       j \in rejected \/ \E b \in bugId[j] : j \in reports[b]

LEMMA HeldBugsStep == TypeOK /\ HeldBugs /\ [Next]_vars => HeldBugs'
<1> SUFFICES ASSUME TypeOK, HeldBugs, [Next]_vars PROVE HeldBugs'
  OBVIOUS
<1> USE DEF TypeOK, HeldBugs, Goto, bugzilla, Requests
<1>1. ASSUME NEW j \in Jobs, Start(j) PROVE HeldBugs'
  BY <1>1 DEF Start
<1>2. ASSUME NEW j \in Jobs, GetTracker(j) \/ Reopen(j) \/ PostTracker(j)
      PROVE  HeldBugs'
  BY <1>2 DEF GetTracker, Reopen, PostTracker
<1>3. ASSUME NEW j \in Jobs, Search(j) PROVE HeldBugs'
  BY <1>3 DEF Search, Open
<1>4. ASSUME NEW j \in Jobs, PostBug(j) PROVE HeldBugs'
  BY <1>4 DEF PostBug, OpenBug
<1>5. ASSUME NEW j \in Jobs, Put(j) PROVE HeldBugs'
  BY <1>5 DEF Put, Update
<1>6. CASE People
  BY <1>6 DEF People, CloseTracker, CloseBug
<1>7. CASE UNCHANGED vars
  BY <1>7 DEF vars
<1> QED BY <1>1, <1>2, <1>3, <1>4, <1>5, <1>6, <1>7 DEF Next, JobStep

\* Whatever fails and however the jobs race, the bug whose address a job returns
\* exists.
THEOREM FiledBugsExist == Spec => []FiledBugExists
<1>1. Init => HeldBugs
  BY DEF Init, HeldBugs
<1>2. TypeOK /\ HeldBugs => FiledBugExists
  BY DEF TypeOK, HeldBugs, FiledBugExists
<1> QED BY <1>1, <1>2, HeldBugsStep, TypeSafety, PTL DEF Spec

\* Likewise, its report is in Bugzilla, or its PUT was rejected.
THEOREM ReportsArrive == Spec => []ReportArrives
<1>1. Init => HeldBugs
  BY DEF Init, HeldBugs
<1>2. HeldBugs => ReportArrives
  BY DEF HeldBugs, ReportArrives
<1> QED BY <1>1, <1>2, HeldBugsStep, TypeSafety, PTL DEF Spec

-----------------------------------------------------------------------------
(* Blocking the tracker.                                                   *)

\* A job holds one bug at most: linking it links all that the job has filed.
LinkInv ==
  /\ \A j \in Jobs : \A b, c \in bugId[j] : b = c
  /\ FiledBugIsLinked

LEMMA LinkStep == TypeOK /\ LinkInv /\ [Next]_vars => LinkInv'
<1> SUFFICES ASSUME TypeOK, LinkInv, [Next]_vars PROVE LinkInv'
  OBVIOUS
<1> USE DEF TypeOK, LinkInv, FiledBugIsLinked, Goto, bugzilla, Requests
<1>1. ASSUME NEW j \in Jobs, Start(j) \/ Search(j) PROVE LinkInv'
  BY <1>1 DEF Start, Search
<1>2. ASSUME NEW j \in Jobs, GetTracker(j) \/ Reopen(j) \/ PostTracker(j)
      PROVE  LinkInv'
  BY <1>2 DEF GetTracker, KnowsTracker, Reopen, PostTracker
<1>3. ASSUME NEW j \in Jobs, PostBug(j) PROVE LinkInv'
  BY <1>3 DEF PostBug, OpenBug
<1>4. ASSUME NEW j \in Jobs, Put(j) PROVE LinkInv'
  BY <1>4 DEF Put, Update
<1>5. CASE People \/ UNCHANGED vars
  BY <1>5 DEF People, CloseTracker, CloseBug, vars
<1> QED BY <1>1, <1>2, <1>3, <1>4, <1>5 DEF Next, JobStep

\* Every bug filed by a job that knew the tracker blocks it, unless the job's PUT
\* was rejected: found or created, and whatever other jobs did in between.
THEOREM FiledBugsAreLinked == Spec => []FiledBugIsLinked
<1>1. Init => LinkInv
  BY DEF Init, LinkInv, FiledBugIsLinked
<1>2. LinkInv => FiledBugIsLinked
  BY DEF LinkInv
<1> QED BY <1>1, <1>2, LinkStep, TypeSafety, PTL DEF Spec
=============================================================================
