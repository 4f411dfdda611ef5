--------------------------- MODULE Services_proofs ---------------------------
(***************************************************************************)
(* The services around the execution, for any number of replicas, clients, *)
(* sessions and tasks: schedules, MCP calls, workspaces, sandboxes, files  *)
(* and streams. A section has the invariant of one service and what        *)
(* follows.                                                                *)
(***************************************************************************)
EXTENDS Deployments, Sandbox, Mcp, Workspace, Files, EventStream,
        FiniteSetTheorems, SequenceTheorems, WellFoundedInduction, TLAPS

-----------------------------------------------------------------------------
(* Numbers and sums.                                                        *)

(* A set of naturals with a member has a least one.                         *)
LEMMA LeastOf ==
  ASSUME NEW S \in SUBSET Nat, S # {}
  PROVE  \E c \in S : \A d \in S : c <= d
<1> DEFINE R == StrictSubsetOrdering(Nat)
           T == {0..c : c \in S}
<1>1. IsWellFoundedOn(R, FiniteSubsetsOf(Nat))
  BY FS_StrictSubsetOrderingWellFounded
<1>2. T \subseteq FiniteSubsetsOf(Nat) /\ T # {}
  <2>1. \A c \in S : IsFiniteSet(0..c) /\ 0..c \subseteq Nat
    BY FS_Interval
  <2> QED
    BY <2>1 DEF FiniteSubsetsOf
<1> HIDE DEF R
<1>3. \E x \in T : \A y \in T : ~(<<y, x>> \in R)
  BY <1>1, <1>2, WFMin
<1>4. PICK c \in S : \A d \in S : ~(<<0..d, 0..c>> \in R)
  BY <1>3
<1>5. \A d \in S : c <= d
  <2> TAKE d \in S
  <2>1. ~(<<0..d, 0..c>> \in R)
    BY <1>4
  <2>2. d < c => 0..d \subseteq 0..c /\ c \in 0..c /\ c \notin 0..d
    OBVIOUS
  <2>3. d < c => <<0..d, 0..c>> \in R
    BY <2>2 DEF R, StrictSubsetOrdering
  <2> QED
    BY <2>1, <2>3
<1> QED
  BY <1>5

(* Of the sets of subsets of a finite set, each has a smallest member.      *)
LEMMA SmallestOf ==
  ASSUME NEW S, IsFiniteSet(S), NEW C \in SUBSET (SUBSET S), C # {}
  PROVE  \E r \in C : \A q \in C : q \subseteq r => q = r
<1> DEFINE R == StrictSubsetOrdering(S)
<1>1. IsWellFoundedOn(R, FiniteSubsetsOf(S))
  BY FS_StrictSubsetOrderingWellFounded
<1>2. C \subseteq FiniteSubsetsOf(S)
  <2>1. \A q \in C : q \subseteq S /\ IsFiniteSet(q)
    BY FS_Subset
  <2> QED
    BY <2>1 DEF FiniteSubsetsOf
<1> HIDE DEF R
<1>3. \E r \in C : \A q \in C : ~(<<q, r>> \in R)
  BY <1>1, <1>2, WFMin
<1>4. PICK r \in C : \A q \in C : ~(<<q, r>> \in R)
  BY <1>3
<1>5. \A q \in C : q \subseteq r => q = r
  <2> TAKE q \in C
  <2>1. q \subseteq r /\ q # r => <<q, r>> \in R
    BY DEF R, StrictSubsetOrdering
  <2> QED
    BY <1>4, <2>1
<1> QED
  BY <1>5

(* The sum that MapThenSumSet computes: over the subsets of S, one chosen   *)
(* member after the other.                                                  *)
Chosen(s) == CHOOSE x \in s : TRUE
IsSum(w, S, f) ==
  f = [s \in SUBSET S |-> IF s = {} THEN 0 ELSE w[Chosen(s)] + f[s \ {Chosen(s)}]]
SumTo(w, S) == CHOOSE f : IsSum(w, S, f)
Total(w, S) == SumTo(w, S)[S]

(* What a sum over S gives to a subset, a sum over the subset gives it.     *)
LEMMA SumsAgree ==
  ASSUME NEW S, IsFiniteSet(S), NEW T \in SUBSET S,
         NEW w, NEW v, \A x \in T : w[x] = v[x],
         NEW f, IsSum(w, S, f), NEW g, IsSum(v, T, g)
  PROVE  \A r \in SUBSET T : f[r] = g[r]
<1> DEFINE Bad == {r \in SUBSET T : f[r] # g[r]}
<1> SUFFICES ASSUME Bad # {} PROVE FALSE
  OBVIOUS
<1>1. Bad \in SUBSET (SUBSET S)
  OBVIOUS
<1> HIDE DEF Bad
<1>2. PICK r \in Bad : \A q \in Bad : q \subseteq r => q = r
  BY <1>1, SmallestOf
<1>3. /\ f[r] = IF r = {} THEN 0 ELSE w[Chosen(r)] + f[r \ {Chosen(r)}]
      /\ g[r] = IF r = {} THEN 0 ELSE v[Chosen(r)] + g[r \ {Chosen(r)}]
  <2>1. r \in SUBSET S /\ r \in SUBSET T
    BY <1>2 DEF Bad
  <2> QED
    BY <2>1 DEF IsSum
<1>4. r # {} /\ f[r] # g[r] /\ r \subseteq T
  BY <1>2, <1>3 DEF Bad
<1>5. Chosen(r) \in r
  BY <1>4 DEF Chosen
<1>6. r \ {Chosen(r)} \notin Bad /\ r \ {Chosen(r)} \in SUBSET T
  BY <1>2, <1>4, <1>5 DEF Bad
<1> QED
  BY <1>3, <1>4, <1>5, <1>6 DEF Bad

(* Sums of the same numbers over one set are the same.                      *)
LEMMA SumsSame ==
  ASSUME NEW S, IsFiniteSet(S), NEW w, NEW v, \A x \in S : w[x] = v[x],
         NEW f, IsSum(w, S, f), NEW g, IsSum(v, S, g)
  PROVE  f[S] = g[S]
<1>1. S \in SUBSET S
  OBVIOUS
<1>2. \A r \in SUBSET S : f[r] = g[r]
  BY <1>1, SumsAgree
<1> QED
  BY <1>1, <1>2

(* There is such a sum over every finite set.                               *)
LEMMA SumExists ==
  ASSUME NEW S, IsFiniteSet(S), NEW w
  PROVE  IsSum(w, S, SumTo(w, S))
<1> DEFINE Has(T) == \E f : IsSum(w, T, f)
           Bad == {T \in SUBSET S : ~Has(T)}
<1>0. \A T : Has(T) => IsSum(w, T, SumTo(w, T))
  BY DEF SumTo
<1> SUFFICES ASSUME Bad # {} PROVE FALSE
  BY <1>0
<1>b. Bad \in SUBSET (SUBSET S)
  OBVIOUS
<1> HIDE DEF Bad
<1>1. PICK T \in Bad : \A q \in Bad : q \subseteq T => q = T
  BY <1>b, SmallestOf
<1>2. \A q \in SUBSET T : q # T => IsSum(w, q, SumTo(w, q)) /\ IsFiniteSet(q)
  BY <1>0, <1>1, FS_Subset DEF Bad
<1> DEFINE rest(s) == s \ {Chosen(s)}
           f == [s \in SUBSET T |-> IF s = {} THEN 0 ELSE w[Chosen(s)] + Total(w, rest(s))]
<1>3. \A s \in SUBSET T : s # {} => /\ Chosen(s) \in s /\ rest(s) \in SUBSET s
                                    /\ rest(s) \in SUBSET T /\ rest(s) # T
  BY DEF Chosen
<1>4. ASSUME NEW s \in SUBSET T, s # {}
      PROVE  f[rest(s)] = Total(w, rest(s))
  <2> DEFINE u == rest(s)
  <2>1. u \in SUBSET T /\ u # T /\ IsSum(w, u, SumTo(w, u)) /\ IsFiniteSet(u)
    BY <1>2, <1>3, <1>4
  <2>2. f[u] = IF u = {} THEN 0 ELSE w[Chosen(u)] + Total(w, rest(u))
    BY <2>1
  <2>3. Total(w, u) = IF u = {} THEN 0 ELSE w[Chosen(u)] + SumTo(w, u)[rest(u)]
    <3> HIDE DEF u
    <3>1. u \in SUBSET u
      OBVIOUS
    <3> QED
      BY <2>1, <3>1 DEF IsSum, Total
  <2>4. u # {} => SumTo(w, u)[rest(u)] = Total(w, rest(u))
    <3> HIDE DEF u
    <3> SUFFICES ASSUME u # {} PROVE SumTo(w, u)[rest(u)] = Total(w, rest(u))
      OBVIOUS
    <3> DEFINE q == rest(u)
    <3>1. q \in SUBSET u /\ q \in SUBSET T /\ q # T
      BY <1>3, <2>1
    <3> HIDE DEF q
    <3>2. IsSum(w, q, SumTo(w, q))
      BY <1>2, <3>1
    <3>3. \A r \in SUBSET q : SumTo(w, u)[r] = SumTo(w, q)[r]
      BY <2>1, <3>1, <3>2, SumsAgree
    <3>4. SumTo(w, u)[q] = SumTo(w, q)[q]
      BY <3>3
    <3> QED
      BY <3>4 DEF Total, q
  <2> HIDE DEF f
  <2> QED
    BY <2>2, <2>3, <2>4
<1>5. f = [s \in SUBSET T |-> IF s = {} THEN 0 ELSE w[Chosen(s)] + f[rest(s)]]
  <2> DEFINE h == [s \in SUBSET T |-> IF s = {} THEN 0 ELSE w[Chosen(s)] + f[rest(s)]]
  <2>1. ASSUME NEW s \in SUBSET T
        PROVE  (IF s = {} THEN 0 ELSE w[Chosen(s)] + Total(w, rest(s)))
               = (IF s = {} THEN 0 ELSE w[Chosen(s)] + f[rest(s)])
    <3> HIDE DEF f, rest
    <3> QED
      BY <1>4, <2>1
  <2> QED
    BY <2>1, Zenon
<1>6. IsSum(w, T, f)
  BY <1>5 DEF IsSum
<1> HIDE DEF f
<1> QED
  BY <1>1, <1>6 DEF Bad

(* A sum is a natural number, and is taken apart at any member.             *)
LEMMA SumStep ==
  ASSUME NEW S, IsFiniteSet(S), NEW w, \A x \in S : w[x] \in Nat
  PROVE  /\ Total(w, {}) = 0 /\ Total(w, S) \in Nat
         /\ \A x \in S : Total(w, S) = w[x] + Total(w, S \ {x})
<1>1. ASSUME NEW T \in SUBSET S
      PROVE  Total(w, T) = IF T = {} THEN 0 ELSE w[Chosen(T)] + Total(w, T \ {Chosen(T)})
  <2> DEFINE q == T \ {Chosen(T)}
  <2>1. IsFiniteSet(T) /\ T \in SUBSET T /\ q \in SUBSET T
    BY FS_Subset
  <2>2. Total(w, T) = IF T = {} THEN 0 ELSE w[Chosen(T)] + SumTo(w, T)[q]
    <3>1. IsSum(w, T, SumTo(w, T))
      BY <2>1, SumExists
    <3> QED
      BY <2>1, <3>1 DEF IsSum, Total
  <2> HIDE DEF q
  <2>3. SumTo(w, T)[q] = SumTo(w, q)[q]
    <3>1. IsFiniteSet(q)
      BY <2>1, FS_Subset
    <3>2. IsSum(w, T, SumTo(w, T)) /\ IsSum(w, q, SumTo(w, q))
      BY <2>1, <3>1, SumExists
    <3>3. \A r \in SUBSET q : SumTo(w, T)[r] = SumTo(w, q)[r]
      BY <2>1, <3>2, SumsAgree
    <3> QED
      BY <3>3
  <2> QED
    BY <2>2, <2>3 DEF q, Total
<1>2. \A T \in SUBSET S : T # {} => Chosen(T) \in T
  BY DEF Chosen
<1>3. \A T \in SUBSET S : Total(w, T) \in Nat
  <2> DEFINE Bad == {T \in SUBSET S : Total(w, T) \notin Nat}
  <2> SUFFICES ASSUME Bad # {} PROVE FALSE
    OBVIOUS
  <2>0. Bad \in SUBSET (SUBSET S)
    OBVIOUS
  <2> HIDE DEF Bad
  <2>1. PICK T \in Bad : \A q \in Bad : q \subseteq T => q = T
    BY <2>0, SmallestOf
  <2>2. T # {} /\ T \in SUBSET S
    <3>1. T \in SUBSET S /\ Total(w, T) \notin Nat
      BY <2>1 DEF Bad
    <3>2. Total(w, {}) = 0
      BY <1>1
    <3> QED
      BY <3>1, <3>2
  <2>3. T \ {Chosen(T)} \notin Bad /\ T \ {Chosen(T)} \in SUBSET S /\ Chosen(T) \in S
    BY <1>2, <2>1, <2>2 DEF Bad
  <2>4. Total(w, T \ {Chosen(T)}) \in Nat /\ w[Chosen(T)] \in Nat
    BY <2>3 DEF Bad
  <2> QED
    BY <1>1, <2>1, <2>2, <2>4 DEF Bad
<1>4. \A T \in SUBSET S : \A x \in T : Total(w, T) = w[x] + Total(w, T \ {x})
  <2> DEFINE Splits(T) == \A x \in T : Total(w, T) = w[x] + Total(w, T \ {x})
             Bad == {T \in SUBSET S : ~Splits(T)}
  <2> SUFFICES ASSUME Bad # {} PROVE FALSE
    OBVIOUS
  <2>0. Bad \in SUBSET (SUBSET S)
    OBVIOUS
  <2> HIDE DEF Bad
  <2>1. PICK T \in Bad : \A q \in Bad : q \subseteq T => q = T
    BY <2>0, SmallestOf
  <2>2. T \in SUBSET S /\ ~Splits(T)
    BY <2>1 DEF Bad
  <2>3. PICK x \in T : Total(w, T) # w[x] + Total(w, T \ {x})
    BY <2>2
  <2>4. \A q \in SUBSET T : q # T => Splits(q)
    BY <2>1, <2>2 DEF Bad
  <2> DEFINE y == Chosen(T)
  <2>5. y \in T /\ Total(w, T) = w[y] + Total(w, T \ {y}) /\ x # y
    BY <1>1, <1>2, <2>2, <2>3
  <2> HIDE DEF y
  <2>6. Total(w, T \ {y}) = w[x] + Total(w, (T \ {y}) \ {x})
    <3>1. Splits(T \ {y}) /\ x \in T \ {y}
      BY <2>4, <2>5
    <3> QED
      BY <3>1
  <2>7. Total(w, T \ {x}) = w[y] + Total(w, (T \ {x}) \ {y})
    <3>1. Splits(T \ {x}) /\ y \in T \ {x}
      BY <2>4, <2>5
    <3> QED
      BY <3>1
  <2>8. (T \ {x}) \ {y} = (T \ {y}) \ {x}
    OBVIOUS
  <2>9. /\ w[x] \in Nat /\ w[y] \in Nat /\ Total(w, (T \ {y}) \ {x}) \in Nat
    BY <1>3, <2>2, <2>5
  <2> DEFINE z == Total(w, (T \ {y}) \ {x})
  <2>10. Total(w, T) = w[y] + (w[x] + z) /\ w[x] + Total(w, T \ {x}) = w[x] + (w[y] + z)
    BY <2>5, <2>6, <2>7, <2>8
  <2> HIDE DEF z
  <2> QED
    BY <2>3, <2>9, <2>10 DEF z
<1> QED
  BY <1>1, <1>3, <1>4

(* A sum over more is no less, and one of the same numbers is the same.     *)
LEMMA SumCompares ==
  ASSUME NEW S, IsFiniteSet(S), NEW w, \A x \in S : w[x] \in Nat, NEW T \in SUBSET S
  PROVE  /\ Total(w, T) \in Nat /\ Total(w, S) \in Nat /\ Total(w, T) <= Total(w, S)
         /\ \A v : (\A x \in T : w[x] = v[x]) => Total(v, T) = Total(w, T)
<1>1. \A U \in SUBSET S : /\ Total(w, U) \in Nat
                          /\ \A x \in U : Total(w, U) = w[x] + Total(w, U \ {x})
  BY SumStep, FS_Subset
<1>2. Total(w, T) <= Total(w, S)
  <2> DEFINE Bad == {U \in SUBSET S : T \subseteq U /\ ~(Total(w, T) <= Total(w, U))}
  <2> SUFFICES ASSUME Bad # {} PROVE FALSE
    OBVIOUS
  <2>0. Bad \in SUBSET (SUBSET S)
    OBVIOUS
  <2> HIDE DEF Bad
  <2>1. PICK U \in Bad : \A q \in Bad : q \subseteq U => q = U
    BY <2>0, SmallestOf
  <2>2. U \in SUBSET S /\ T \subseteq U /\ U # T /\ ~(Total(w, T) <= Total(w, U))
    BY <1>1, <2>1 DEF Bad
  <2>3. PICK x \in U : x \notin T
    BY <2>2
  <2>4. U \ {x} \notin Bad /\ U \ {x} \in SUBSET S /\ T \subseteq U \ {x}
    BY <2>1, <2>2, <2>3 DEF Bad
  <2>5. Total(w, T) <= Total(w, U \ {x})
    BY <2>4 DEF Bad
  <2>6. Total(w, U) = w[x] + Total(w, U \ {x})
    BY <1>1, <2>2
  <2>7. w[x] \in Nat /\ Total(w, U \ {x}) \in Nat /\ Total(w, T) \in Nat
    BY <1>1, <2>2, <2>4
  <2> QED
    BY <2>2, <2>5, <2>6, <2>7
<1>3. ASSUME NEW v, \A x \in T : w[x] = v[x]
      PROVE  Total(v, T) = Total(w, T)
  <2>1. IsFiniteSet(T) /\ T \in SUBSET T
    BY FS_Subset
  <2>2. IsSum(w, T, SumTo(w, T)) /\ IsSum(v, T, SumTo(v, T))
    BY <2>1, SumExists
  <2> QED
    BY <1>3, <2>1, <2>2, SumsSame DEF Total
<1> QED
  BY <1>1, <1>2, <1>3

-----------------------------------------------------------------------------
(* Deployments.                                                             *)

(* The invariant: an occurrence on record is past and before the next one;  *)
(* what a deployment launched last is the one task of it that may run on.   *)
RunRow == [of : Deployed, scheduled : BOOLEAN, at : Moments,
           status : {"launched", "skipped", "failed"}]
ScheduleInv ==
  /\ clock \in 0..Horizon
  /\ deployment \in [Deployed -> [paused : BOOLEAN, next : Moments, version : Nat]]
  /\ runs \in Seq(RunRow) /\ lastTask \in [Deployed -> Nat]
  /\ \A i \in 1..Len(runs) :
       runs[i].scheduled =>
         /\ runs[i].at <= clock
         /\ deployment[runs[i].of].next # Never => runs[i].at < deployment[runs[i].of].next
  /\ OccurrenceOnce
  /\ unfinished \subseteq 1..Len(runs)
  /\ \A i \in unfinished : runs[i].of \in Overlapping \/ lastTask[runs[i].of] = i

(* A run on record names its deployment and a moment.                       *)
LEMMA RunsType ==
  ASSUME ScheduleInv, NEW i \in 1..Len(runs)
  PROVE  runs[i] \in RunRow /\ runs[i].of \in Deployed /\ runs[i].at \in Nat
<1>1. runs \in Seq(RunRow) /\ Horizon \in Nat
  BY DeploymentsAssumption DEF ScheduleInv
<1>2. runs[i] \in RunRow
  BY <1>1
<1>3. runs[i].of \in Deployed /\ runs[i].at \in Moments
  BY <1>2 DEF RunRow
<1> QED
  BY <1>1, <1>2, <1>3 DEF Moments

(* The next occurrence is always later than the moment it is computed at.   *)
LEMMA UpcomingIsLater ==
  ASSUME NEW d \in Deployed, NEW t \in 0..Horizon
  PROVE  Upcoming(d, t) \in Moments /\ (Upcoming(d, t) # Never => Upcoming(d, t) > t)
<1>0. Horizon \in Nat /\ Occurrences[d] \subseteq 1..Horizon
  BY DeploymentsAssumption
<1>1. CASE Occurrences[d] = {}
  BY <1>0, <1>1 DEF Upcoming, Never, Moments
<1>2. CASE Occurrences[d] # {}
  <2> DEFINE After == {o \in Occurrences[d] \cup {Horizon + 1} : o > t}
  <2>1. After \in SUBSET Nat /\ Horizon + 1 \in After
    BY <1>0
  <2>2. PICK o \in After : \A p \in After : o <= p
    BY <2>1, LeastOf
  <2>3. /\ o \in Occurrences[d] \cup {Horizon + 1} /\ o > t
        /\ \A p \in Occurrences[d] : p > t => o <= p
    BY <2>2
  <2>4. /\ Upcoming(d, t) \in Occurrences[d] \cup {Horizon + 1}
        /\ Upcoming(d, t) > t
    BY <1>2, <2>3 DEF Upcoming
  <2> QED
    BY <1>0, <2>4 DEF Moments
<1> QED
  BY <1>1, <1>2

(* Nothing has run when the scheduler starts.                               *)
LEMMA ScheduleStarts == Init => ScheduleInv
<1> SUFFICES ASSUME Init PROVE ScheduleInv
  OBVIOUS
<1>1. /\ clock = 0 /\ runs = <<>> /\ unfinished = {}
      /\ deployment = [d \in Deployed |-> [paused |-> FALSE, next |-> Never, version |-> 0]]
      /\ lastTask = [d \in Deployed |-> 0]
  BY DEF Init, DepInit
<1>2. clock \in 0..Horizon /\ 0 \in Moments
  BY <1>1, DeploymentsAssumption DEF Moments
<1>3. runs \in Seq(RunRow) /\ Len(runs) = 0
  BY <1>1
<1>4. lastTask \in [Deployed -> Nat]
      /\ deployment \in [Deployed -> [paused : BOOLEAN, next : Moments, version : Nat]]
  BY <1>1, <1>2 DEF Never
<1> QED
  BY <1>1, <1>2, <1>3, <1>4 DEF ScheduleInv, OccurrenceOnce

(* A run is recorded, its task launched or not, and what comes next is      *)
(* later (Fire): a scheduled run only at an occurrence that is due.         *)
LEMMA FireKeeps ==
  ASSUME ScheduleInv, NEW d \in Deployed, NEW scheduled \in BOOLEAN, NEW fault \in Faults,
         Fire(d, scheduled, fault), scheduled => IsDue(d)
  PROVE  ScheduleInv'
<1> DEFINE id == Len(runs) + 1
           at == IF scheduled THEN deployment[d].next ELSE Never
           status == RunStatus(d, scheduled, fault)
           row == [of |-> d, scheduled |-> scheduled, status |-> status, at |-> at]
           next == IF ~scheduled THEN deployment[d].next
                   ELSE IF fault = "schedule" THEN Never ELSE Upcoming(d, clock)
<1>0. /\ clock \in 0..Horizon /\ Horizon \in Nat
      /\ deployment \in [Deployed -> [paused : BOOLEAN, next : Moments, version : Nat]]
      /\ runs \in Seq(RunRow) /\ lastTask \in [Deployed -> Nat] /\ Len(runs) \in Nat
      /\ unfinished \subseteq 1..Len(runs)
  BY DeploymentsAssumption DEF ScheduleInv
<1>1. status \in {"launched", "skipped", "failed"}
  BY DEF RunStatus
<1>2. status = "launched" => d \in Overlapping \/ lastTask[d] \notin unfinished
  BY DEF RunStatus
<1>3. /\ Upcoming(d, clock) \in Moments
      /\ Upcoming(d, clock) # Never => Upcoming(d, clock) > clock
  BY <1>0, UpcomingIsLater
<1>4. at \in Moments /\ next \in Moments
  BY <1>0, <1>3 DEF Moments, Never
<1>5. scheduled => at # Never /\ at <= clock
  BY DEF IsDue
<1>6. row \in RunRow
  BY <1>1, <1>4 DEF RunRow
<1>7. /\ runs' = Append(runs, row) /\ clock' = clock
      /\ \A e \in Deployed : deployment'[e].next = IF e = d THEN next ELSE deployment[e].next
      /\ deployment' \in [Deployed -> [paused : BOOLEAN, next : Moments, version : Nat]]
  <2>1. /\ runs' = Append(runs, row) /\ clock' = clock
        /\ deployment' = [deployment EXCEPT
             ![d].next = next,
             ![d].paused = @ \/ (status = "failed" /\ fault # "server")]
    BY DEF Fire
  <2> HIDE DEF next, status
  <2>2. /\ \A e \in Deployed : deployment'[e].next = IF e = d THEN next ELSE deployment[e].next
        /\ deployment' \in [Deployed -> [paused : BOOLEAN, next : Moments, version : Nat]]
    BY <1>0, <1>4, <2>1
  <2> QED
    BY <2>1, <2>2
<1>8. /\ lastTask' = IF status = "launched" THEN [lastTask EXCEPT ![d] = id] ELSE lastTask
      /\ unfinished' = IF status = "launched" THEN unfinished \cup {id} ELSE unfinished
  BY DEF Fire
<1>9. /\ runs' \in Seq(RunRow) /\ Len(runs') = id
      /\ \A i \in 1..Len(runs) : runs'[i] = runs[i]
      /\ runs'[id] = row /\ row.of = d /\ row.at = at /\ row.scheduled = scheduled
  BY <1>0, <1>6, <1>7
<1>a. \A i \in 1..Len(runs) : runs[i] \in RunRow /\ runs[i].of \in Deployed /\ runs[i].at \in Nat
  BY RunsType
<1> HIDE DEF row, next, status, at
<1>b. next # Never => \/ ~scheduled /\ next = deployment[d].next
                      \/ scheduled /\ next > clock
  BY <1>3 DEF next
<1>c. \A i \in 1..Len(runs') :
        runs'[i].scheduled =>
          /\ runs'[i].at <= clock'
          /\ deployment'[runs'[i].of].next # Never => runs'[i].at < deployment'[runs'[i].of].next
  <2> SUFFICES ASSUME NEW i \in 1..Len(runs'), runs'[i].scheduled
               PROVE  /\ runs'[i].at <= clock
                      /\ deployment'[runs'[i].of].next # Never
                           => runs'[i].at < deployment'[runs'[i].of].next
    BY <1>7
  <2>1. CASE i \in 1..Len(runs)
    <3>1. runs'[i] = runs[i] /\ runs[i].of \in Deployed /\ runs[i].at \in Nat
      BY <2>1, <1>9, <1>a
    <3>2. /\ runs[i].at <= clock
          /\ deployment[runs[i].of].next # Never => runs[i].at < deployment[runs[i].of].next
      BY <2>1, <3>1 DEF ScheduleInv
    <3>3. next \in Nat /\ clock \in Nat
      BY <1>0, <1>4 DEF Moments
    <3>4. CASE runs[i].of = d
      <4>1. deployment'[d].next = next
        BY <1>7
      <4> QED
        BY <3>1, <3>2, <3>3, <3>4, <4>1, <1>b
    <3>5. CASE runs[i].of # d
      BY <3>1, <3>2, <3>5, <1>7
    <3> QED
      BY <3>4, <3>5
  <2>2. CASE i = id
    <3>1. runs'[i].at = at /\ runs'[i].of = d /\ scheduled
      BY <2>2, <1>9
    <3>2. next \in Nat /\ clock \in Nat /\ at \in Nat
      BY <1>0, <1>4 DEF Moments
    <3> QED
      BY <3>1, <3>2, <1>5, <1>7, <1>b
  <2> QED
    BY <1>0, <1>9, <2>1, <2>2
<1>d. OccurrenceOnce'
  <2> SUFFICES ASSUME NEW i \in 1..Len(runs'), NEW j \in 1..Len(runs'), i < j,
                      runs'[i].scheduled, runs'[j].scheduled, runs'[i].of = runs'[j].of
               PROVE  runs'[i].at < runs'[j].at
    BY DEF OccurrenceOnce
  <2>1. i \in 1..Len(runs) /\ runs'[i] = runs[i]
    BY <1>0, <1>9
  <2>2. CASE j \in 1..Len(runs)
    BY <2>1, <2>2, <1>9 DEF ScheduleInv, OccurrenceOnce
  <2>3. CASE j = id
    <3>1. runs[i].of = d /\ scheduled /\ runs'[j].at = at
      BY <2>1, <2>3, <1>9
    <3>2. at = deployment[d].next /\ at # Never
      BY <3>1, <1>5 DEF at
    <3> QED
      BY <2>1, <3>1, <3>2 DEF ScheduleInv
  <2> QED
    BY <1>0, <1>9, <2>2, <2>3
<1>e. /\ unfinished' \subseteq 1..Len(runs')
      /\ lastTask' \in [Deployed -> Nat]
      /\ \A i \in unfinished' : runs'[i].of \in Overlapping \/ lastTask'[runs'[i].of] = i
  <2>1. CASE status = "launched"
    <3>1. lastTask' = [lastTask EXCEPT ![d] = id] /\ unfinished' = unfinished \cup {id}
      BY <2>1, <1>8
    <3>2. lastTask' \in [Deployed -> Nat] /\ unfinished' \subseteq 1..Len(runs')
      <4>1. id \in Nat /\ 1..Len(runs) \subseteq 1..id /\ id \in 1..id
        BY <1>0
      <4>2. lastTask' \in [Deployed -> Nat]
        BY <3>1, <4>1, <1>0
      <4> QED
        BY <3>1, <4>1, <4>2, <1>0, <1>9
    <3>3. ASSUME NEW i \in unfinished'
          PROVE  runs'[i].of \in Overlapping \/ lastTask'[runs'[i].of] = i
      <4>1. CASE i = id
        BY <4>1, <3>1, <1>0, <1>9
      <4>2. CASE i \in unfinished
        <5>1. /\ runs'[i] = runs[i] /\ runs[i].of \in Deployed
              /\ runs[i].of \in Overlapping \/ lastTask[runs[i].of] = i
          BY <4>2, <1>0, <1>9, <1>a DEF ScheduleInv
        <5>2. runs[i].of # d \/ d \in Overlapping
          BY <4>2, <5>1, <2>1, <1>2
        <5> QED
          BY <5>1, <5>2, <3>1, <1>0
      <4> QED
        BY <4>1, <4>2, <3>1
    <3> QED
      BY <3>2, <3>3
  <2>2. CASE status # "launched"
    <3>1. lastTask' = lastTask /\ unfinished' = unfinished
      BY <2>2, <1>8
    <3>2. \A i \in unfinished : runs'[i] = runs[i] /\ i \in 1..Len(runs')
      BY <1>0, <1>9
    <3> QED
      BY <3>1, <3>2, <1>0 DEF ScheduleInv
  <2> QED
    BY <2>1, <2>2
<1> QED
  BY <1>0, <1>7, <1>9, <1>c, <1>d, <1>e DEF ScheduleInv

(* A request that computes the next occurrence anew, or only pauses.        *)
LEMMA EditKeeps ==
  ASSUME ScheduleInv, NEW d \in Deployed,
         Create(d) \/ Pause(d) \/ Resume(d) \/ Update(d)
  PROVE  ScheduleInv'
<1>0. /\ clock \in 0..Horizon /\ Horizon \in Nat
      /\ deployment \in [Deployed -> [paused : BOOLEAN, next : Moments, version : Nat]]
      /\ runs \in Seq(RunRow)
  BY DeploymentsAssumption DEF ScheduleInv
<1>1. /\ Upcoming(d, clock) \in Moments
      /\ Upcoming(d, clock) # Never => Upcoming(d, clock) > clock
  BY <1>0, UpcomingIsLater
<1>2. UNCHANGED <<clock, runs, lastTask, unfinished>>
  BY DEF Create, Pause, Resume, Update
<1>3. /\ deployment' \in [Deployed -> [paused : BOOLEAN, next : Moments, version : Nat]]
      /\ \A e \in Deployed : \/ deployment'[e].next = deployment[e].next
                             \/ deployment'[e].next = Upcoming(d, clock)
  <2> DEFINE u == Upcoming(d, clock)
  <2>1. deployment[d].version \in Nat /\ deployment[d].version + 1 \in Nat /\ 1 \in Nat
    BY <1>0
  <2>2. u \in Moments
    BY <1>1
  <2>3. \/ deployment' = [deployment EXCEPT ![d].next = u, ![d].version = 1]
        \/ deployment' = [deployment EXCEPT ![d].paused = TRUE]
        \/ deployment' = [deployment EXCEPT ![d].paused = FALSE, ![d].next = u]
        \/ deployment' = [deployment EXCEPT ![d].next = u, ![d].version = @ + 1]
    BY DEF Create, Pause, Resume, Update
  <2> HIDE DEF u
  <2>4. /\ deployment' \in [Deployed -> [paused : BOOLEAN, next : Moments, version : Nat]]
        /\ \A e \in Deployed : \/ deployment'[e].next = deployment[e].next
                               \/ deployment'[e].next = u
    <3> DEFINE DepRow == [paused : BOOLEAN, next : Moments, version : Nat]
               row == deployment[d]
    <3>1. row \in DepRow
      BY <1>0
    <3>2. /\ [row EXCEPT !.next = u, !.version = 1] \in DepRow
          /\ [row EXCEPT !.paused = TRUE] \in DepRow
          /\ [row EXCEPT !.paused = FALSE, !.next = u] \in DepRow
          /\ [row EXCEPT !.next = u, !.version = row.version + 1] \in DepRow
      BY <3>1, <2>1, <2>2
    <3>3. \E x \in DepRow : /\ deployment' = [deployment EXCEPT ![d] = x]
                         /\ x.next \in {row.next, u}
      BY <3>1, <3>2, <2>3, <1>0
    <3> HIDE DEF row
    <3> QED
      BY <3>1, <3>3, <1>0 DEF row
  <2> QED
    BY <2>4 DEF u
<1>4. \A i \in 1..Len(runs) : runs[i].of \in Deployed /\ runs[i].at \in Nat
  BY RunsType
<1>6. clock \in Nat /\ Upcoming(d, clock) \in Nat
  BY <1>0, <1>1 DEF Moments
<1>5. ASSUME NEW i \in 1..Len(runs), runs[i].scheduled
      PROVE  /\ runs[i].at <= clock
             /\ deployment'[runs[i].of].next # Never => runs[i].at < deployment'[runs[i].of].next
  <2>1. /\ runs[i].at <= clock
        /\ deployment[runs[i].of].next # Never => runs[i].at < deployment[runs[i].of].next
    BY <1>5 DEF ScheduleInv
  <2> QED
    BY <2>1, <1>1, <1>3, <1>4, <1>6
<1> QED
  BY <1>2, <1>3, <1>5 DEF ScheduleInv, OccurrenceOnce

(* What does not touch the runs and the rows of deployments.                *)
LEMMA ScheduleRests ==
  ASSUME ScheduleInv, UNCHANGED <<clock, deployment, runs, lastTask, unfinished>>
  PROVE  ScheduleInv'
BY DEF ScheduleInv, OccurrenceOnce

(* ScheduleInv holds in every state the scheduler and its clients reach.    *)
THEOREM ScheduleInvariance == Spec => []ScheduleInv
<1>1. ScheduleInv /\ [Next]_vars => ScheduleInv'
  <2> SUFFICES ASSUME ScheduleInv, [Next]_vars PROVE ScheduleInv'
    OBVIOUS
  <2>1. CASE UNCHANGED vars
    BY <2>1, ScheduleRests DEF vars, depVars
  <2>2. ASSUME NEW s \in Schedulers, Scan(s) \/ SchedulerFails(s)
        PROVE  ScheduleInv'
    BY <2>2, ScheduleRests DEF Scan, SchedulerFails
  <2>3. ASSUME NEW s \in Schedulers, NEW d \in Deployed, FireScheduled(s, d)
        PROVE  ScheduleInv'
    <3>1. CASE IsDue(d)
      <4>1. PICK fault \in Faults : Fire(d, TRUE, fault)
        BY <2>3, <3>1 DEF FireScheduled
      <4> QED
        BY <3>1, <4>1, FireKeeps
    <3>2. CASE ~IsDue(d)
      BY <2>3, <3>2, ScheduleRests DEF FireScheduled
    <3> QED
      BY <3>1, <3>2
  <2>4. ASSUME NEW r \in Requests, FireManually(r)
        PROVE  ScheduleInv'
    <3>1. PICK fault \in Faults : Fire(BodyOf[r[1]], FALSE, fault)
      BY <2>4 DEF FireManually
    <3>2. BodyOf[r[1]] \in Deployed
      BY ReceiptsAssumption, DeploymentsAssumption DEF Requests
    <3> QED
      BY <3>1, <3>2, FireKeeps
  <2>5. ASSUME NEW d \in Deployed, Create(d) \/ Pause(d) \/ Resume(d) \/ Update(d)
        PROVE  ScheduleInv'
    BY <2>5, EditKeeps
  <2>6. CASE Tick
    <3>1. clock' = clock + 1 /\ clock < Horizon
          /\ UNCHANGED <<deployment, runs, lastTask, unfinished>>
      BY <2>6 DEF Tick
    <3>2. Horizon \in Nat /\ clock \in 0..Horizon /\ clock' \in 0..Horizon
      BY <3>1, DeploymentsAssumption DEF ScheduleInv
    <3>3. \A i \in 1..Len(runs) : runs[i].at \in Nat
      BY RunsType
    <3> QED
      BY <3>1, <3>2, <3>3 DEF ScheduleInv, OccurrenceOnce
  <2>7. ASSUME NEW id \in Announcements, TaskEnds(id)
        PROVE  ScheduleInv'
    <3>1. unfinished' \subseteq unfinished /\ UNCHANGED <<clock, deployment, runs, lastTask>>
      BY <2>7 DEF TaskEnds
    <3> QED
      BY <3>1 DEF ScheduleInv, OccurrenceOnce
  <2>8. CASE UNCHANGED depVars
    BY <2>8, ScheduleRests DEF depVars
  <2> QED
    BY <2>1, <2>2, <2>3, <2>4, <2>5, <2>6, <2>7, <2>8 DEF Next
<1> QED
  BY <1>1, ScheduleStarts, PTL DEF Spec

(* However many schedulers scan the same rows, and whatever is edited and   *)
(* paused meanwhile: an occurrence is recorded once and in order.           *)
THEOREM OccurrencesFireOnce == Spec => []OccurrenceOnce
<1>1. ScheduleInv => OccurrenceOnce
  BY DEF ScheduleInv
<1> QED
  BY <1>1, ScheduleInvariance, PTL

(* A deployment whose policy forbids overlap has one unfinished task.       *)
THEOREM TasksDoNotOverlap == Spec => []NoOverlap
<1>1. ScheduleInv => NoOverlap
  BY DEF ScheduleInv, NoOverlap
<1> QED
  BY <1>1, ScheduleInvariance, PTL

-----------------------------------------------------------------------------
(* MCP calls.                                                               *)

(* The invariant: what the state of a call says of the server's work, and   *)
(* that only a client that is open and has no other call is busy.           *)
McpPcs == {"idle", "lock", "connect", "dispatch", "rejected", "result", "unknown"}
McpRow == [pc : McpPcs, client : Nat, tries : {0, 1}]
InCall(c) == mcpCall[c].pc \in {"connect", "dispatch"}
McpInv ==
  /\ MaxClients \in Nat /\ clients \in 0..MaxClients /\ pooled \in 0..clients
  /\ evicted \union closed \subseteq 1..clients
  /\ session \in [1..MaxClients -> Nat] /\ opened \in Nat
  /\ \A k \in closed : session[k] = 0
  /\ mcpCall \in [McpCalls -> McpRow] /\ toolRan \in [McpCalls -> Nat]
  /\ \A c \in McpCalls :
       /\ mcpCall[c].pc # "idle" => mcpCall[c].client \in 1..clients
       /\ InCall(c) => mcpCall[c].client \notin closed
       /\ mcpCall[c].pc \in {"idle", "lock", "connect", "dispatch", "rejected"} => toolRan[c] = 0
       /\ mcpCall[c].pc = "result" => toolRan[c] = 1
       /\ toolRan[c] <= 1
  /\ \A c, d \in McpCalls :
       InCall(c) /\ InCall(d) /\ mcpCall[c].client = mcpCall[d].client => c = d

(* No call has been made yet.                                               *)
LEMMA McpStarts == McpInit => McpInv
<1> SUFFICES ASSUME McpInit PROVE McpInv
  OBVIOUS
<1>1. MaxClients \in Nat
  BY McpAssumption
<1>2. mcpCall \in [McpCalls -> McpRow]
  BY DEF McpInit, McpRow, McpPcs
<1>3. \A c \in McpCalls : mcpCall[c].pc = "idle" /\ toolRan[c] = 0
  BY DEF McpInit
<1> QED
  BY <1>1, <1>2, <1>3 DEF McpInit, McpInv, InCall

(* The pool: clients come, leave it and are closed once they are not busy.  *)
LEMMA PoolKeeps ==
  ASSUME McpInv, \/ Evict \/ (\E k \in evicted : CloseClient(k))
                 \/ (\E s \in 1..opened : SessionExpires(s))
  PROVE  McpInv'
<1>1. CASE Evict
  <2>1. /\ pooled' = 0 /\ evicted' = evicted \union {pooled} /\ pooled # 0
        /\ UNCHANGED <<clients, closed, session, opened, mcpCall, toolRan>>
    BY <1>1 DEF Evict
  <2>2. evicted' \union closed \subseteq 1..clients /\ pooled' \in 0..clients
    BY <2>1 DEF McpInv
  <2> QED
    BY <2>1, <2>2 DEF McpInv, InCall
<1>2. ASSUME NEW k \in evicted, CloseClient(k)
      PROVE  McpInv'
  <2>1. /\ evicted' = evicted \ {k} /\ closed' = closed \union {k}
        /\ session' = [session EXCEPT ![k] = 0] /\ ~Busy(k)
        /\ UNCHANGED <<pooled, clients, opened, mcpCall, toolRan>>
    BY <1>2 DEF CloseClient
  <2>2. /\ k \in 1..MaxClients /\ evicted' \union closed' \subseteq 1..clients
        /\ session' \in [1..MaxClients -> Nat]
        /\ \A j \in closed' : session'[j] = 0
    BY <2>1 DEF McpInv
  <2>3. \A c \in McpCalls : InCall(c) => mcpCall[c].client \notin closed'
    BY <2>1 DEF McpInv, InCall, Busy
  <2> QED
    BY <2>1, <2>2, <2>3 DEF McpInv, InCall
<1>3. ASSUME NEW s \in 1..opened, SessionExpires(s)
      PROVE  McpInv'
  BY <1>3 DEF SessionExpires, McpInv, InCall
<1> QED
  BY <1>1, <1>2, <1>3

(* A call gets a client, waits for it, and has its protocol session opened. *)
LEMMA CallBegins ==
  ASSUME McpInv, NEW c \in McpCalls, GetClient(c) \/ LockClient(c) \/ Initialize(c)
  PROVE  McpInv'
<1>0. mcpCall[c] \in McpRow /\ mcpCall \in [McpCalls -> McpRow]
  BY DEF McpInv
<1>1. CASE GetClient(c)
  <2>1. /\ pooled' \in 1..clients' /\ clients' \in 0..MaxClients /\ clients <= clients'
        /\ UNCHANGED <<evicted, closed, session, opened, toolRan>> /\ mcpCall[c].pc = "idle"
        /\ mcpCall' = [mcpCall EXCEPT ![c] = [pc |-> "lock", client |-> pooled', tries |-> 0]]
    BY <1>1 DEF GetClient, McpInv
  <2>2. clients \in Nat /\ clients' \in Nat /\ 1..clients \subseteq 1..clients' /\ pooled' \in Nat
    BY <2>1 DEF McpInv
  <2>3. [pc |-> "lock", client |-> pooled', tries |-> 0] \in McpRow
    BY <2>1, <2>2 DEF McpRow, McpPcs
  <2>4. mcpCall' \in [McpCalls -> McpRow]
    BY <1>0, <2>1, <2>3
  <2>5. \A d \in McpCalls : IF d = c THEN mcpCall'[d].pc = "lock" /\ mcpCall'[d].client = pooled'
                                     ELSE mcpCall'[d] = mcpCall[d]
    BY <1>0, <2>1
  <2>6. evicted' \union closed' \subseteq 1..clients' /\ toolRan[c] = 0
    BY <2>1, <2>2 DEF McpInv
  <2> QED
    BY <2>1, <2>2, <2>4, <2>5, <2>6 DEF McpInv, InCall
<1>2. ASSUME NEW answer \in {"connect", "rejected", "dispatch"}, Answer(c, answer),
             mcpCall[c].pc \in {"lock", "connect"}
      PROVE  /\ mcpCall' \in [McpCalls -> McpRow]
             /\ \A d \in McpCalls : IF d = c THEN /\ mcpCall'[d].pc = answer
                                                  /\ mcpCall'[d].client = mcpCall[d].client
                                             ELSE mcpCall'[d] = mcpCall[d]
  <2>1. [mcpCall[c] EXCEPT !.pc = answer] \in McpRow
    BY <1>0 DEF McpRow, McpPcs
  <2> QED
    BY <1>0, <1>2, <2>1 DEF Answer, McpRow
<1>3. CASE LockClient(c)
  <2>1. /\ mcpCall[c].pc = "lock" /\ ~Busy(mcpCall[c].client)
        /\ UNCHANGED <<pooled, clients, evicted, closed, session, opened, toolRan>>
    BY <1>3 DEF LockClient
  <2>2. PICK answer \in {"connect", "rejected"} :
          Answer(c, answer) /\ (answer = "connect" => mcpCall[c].client \notin closed)
    BY <1>3 DEF LockClient
  <2>3. /\ mcpCall' \in [McpCalls -> McpRow]
        /\ \A d \in McpCalls : IF d = c THEN /\ mcpCall'[d].pc = answer
                                             /\ mcpCall'[d].client = mcpCall[d].client
                                        ELSE mcpCall'[d] = mcpCall[d]
    BY <1>2, <2>1, <2>2
  <2>4. \A d \in McpCalls : InCall(d) => mcpCall[d].client # mcpCall[c].client
    BY <2>1 DEF Busy, InCall
  <2>5. \A d \in McpCalls : /\ d # c => (InCall(d)' <=> InCall(d))
                            /\ mcpCall'[d].client = mcpCall[d].client
                            /\ d = c => (InCall(d)' <=> answer = "connect")
    BY <2>3, <2>2 DEF InCall
  <2>6. \A d, e \in McpCalls :
          InCall(d)' /\ InCall(e)' /\ mcpCall'[d].client = mcpCall'[e].client => d = e
    BY <2>4, <2>5 DEF McpInv
  <2>7. \A d \in McpCalls :
          /\ mcpCall'[d].pc # "idle" => mcpCall'[d].client \in 1..clients
          /\ InCall(d)' => mcpCall'[d].client \notin closed
          /\ mcpCall'[d].pc \in {"idle", "lock", "connect", "dispatch", "rejected"} => toolRan[d] = 0
          /\ mcpCall'[d].pc = "result" => toolRan[d] = 1
          /\ toolRan[d] <= 1
    BY <2>1, <2>2, <2>3, <2>5 DEF McpInv
  <2> QED
    BY <2>1, <2>3, <2>6, <2>7 DEF McpInv
<1>4. CASE Initialize(c)
  <2> DEFINE k == mcpCall[c].client
  <2>1. /\ mcpCall[c].pc = "connect" /\ InCall(c) /\ k \in 1..MaxClients /\ k \notin closed
        /\ UNCHANGED <<pooled, clients, evicted, closed, toolRan>>
    BY <1>4 DEF Initialize, McpInv, InCall
  <2>2. PICK answer \in {"dispatch", "rejected"} : Answer(c, answer)
    BY <1>4 DEF Initialize
  <2>3. /\ mcpCall' \in [McpCalls -> McpRow]
        /\ \A d \in McpCalls : IF d = c THEN /\ mcpCall'[d].pc = answer
                                             /\ mcpCall'[d].client = mcpCall[d].client
                                        ELSE mcpCall'[d] = mcpCall[d]
    BY <1>2, <2>1, <2>2
  <2>4. /\ session' \in [1..MaxClients -> Nat] /\ opened' \in Nat
        /\ \A j \in closed : session'[j] = 0
    <3>1. \/ UNCHANGED <<session, opened>>
          \/ opened' = opened + 1 /\ session' = [session EXCEPT ![k] = opened']
      BY <1>4 DEF Initialize
    <3>2. /\ session \in [1..MaxClients -> Nat] /\ opened \in Nat
          /\ closed \subseteq 1..MaxClients /\ \A j \in closed : session[j] = 0
      BY DEF McpInv
    <3>3. opened + 1 \in Nat
      BY <3>2
    <3> HIDE DEF k
    <3> QED
      BY <2>1, <3>1, <3>2, <3>3
  <2> QED
    BY <2>1, <2>2, <2>3, <2>4 DEF McpInv, InCall
<1> QED
  BY <1>1, <1>3, <1>4

(* The request: a call is replayed only after an answer that proves the     *)
(* tool did not run, and is told what happened to it.                       *)
LEMMA CallEnds ==
  ASSUME McpInv, NEW c \in McpCalls, CallTool(c)
  PROVE  McpInv'
<1> DEFINE k == mcpCall[c].client
<1>0. /\ mcpCall[c] \in McpRow /\ mcpCall \in [McpCalls -> McpRow]
      /\ mcpCall[c].pc = "dispatch" /\ mcpCall[c].tries \in {0, 1} /\ InCall(c)
      /\ k \in 1..MaxClients /\ k \notin closed /\ toolRan[c] = 0 /\ toolRan \in [McpCalls -> Nat]
      /\ UNCHANGED <<pooled, clients, evicted, closed, opened>>
  BY DEF CallTool, McpInv, McpRow, InCall
<1>1. PICK answer \in Replies(k) :
        /\ toolRan' = [toolRan EXCEPT ![c] = toolRan[c] + IF answer.ran THEN 1 ELSE 0]
        /\ mcpCall' = [mcpCall EXCEPT ![c] = Classified(c, answer.seen)]
        /\ session' = [session EXCEPT ![k] =
                         IF answer.seen \in {"result", "input"} THEN session[k] ELSE 0]
  BY DEF CallTool
<1>2. /\ answer.seen \in {"expired", "refused", "lost", "result", "input"}
      /\ answer.ran \in BOOLEAN
      /\ answer.seen \in {"expired", "refused"} => ~answer.ran
      /\ answer.seen = "result" => answer.ran
  BY DEF Replies
<1> DEFINE row == Classified(c, answer.seen)
<1>3. /\ row \in McpRow /\ row.client = k
      /\ row.pc \in {"connect", "rejected"} => answer.seen \in {"expired", "refused"}
      /\ row.pc = "result" => answer.seen = "result"
      /\ row.pc \in {"connect", "rejected", "result", "unknown"}
  <2>1. /\ [mcpCall[c] EXCEPT !.pc = "connect", !.tries = 1] \in McpRow
        /\ \A pc \in McpPcs : [mcpCall[c] EXCEPT !.pc = pc] \in McpRow
    BY <1>0 DEF McpRow, McpPcs
  <2>2. CASE answer.seen = "expired"
    BY <1>0, <2>1, <2>2 DEF Classified, McpPcs, McpRow
  <2>3. CASE answer.seen # "expired"
    BY <1>0, <1>2, <2>1, <2>3 DEF Classified, McpPcs, McpRow
  <2> QED
    BY <2>2, <2>3
<1> HIDE DEF row
<1>4. /\ mcpCall' = [mcpCall EXCEPT ![c] = row]
      /\ mcpCall' \in [McpCalls -> McpRow]
      /\ \A d \in McpCalls : mcpCall'[d] = IF d = c THEN row ELSE mcpCall[d]
  BY <1>0, <1>1, <1>3 DEF row
<1>5. /\ toolRan' \in [McpCalls -> Nat]
      /\ \A d \in McpCalls :
           toolRan'[d] = IF d = c THEN (IF answer.ran THEN 1 ELSE 0) ELSE toolRan[d]
  BY <1>0, <1>1
<1>6. /\ session' \in [1..MaxClients -> Nat]
      /\ \A j \in closed : session'[j] = 0
  BY <1>0, <1>1 DEF McpInv
<1>7. \A d \in McpCalls : /\ d # c => (InCall(d)' <=> InCall(d))
                          /\ mcpCall'[d].client = mcpCall[d].client
  BY <1>3, <1>4 DEF InCall
<1>8. \A d, e \in McpCalls :
        InCall(d)' /\ InCall(e)' /\ mcpCall'[d].client = mcpCall'[e].client => d = e
  <2>1. \A d \in McpCalls : InCall(d)' => InCall(d)
    BY <1>0, <1>7
  <2> QED
    BY <2>1, <1>7 DEF McpInv
<1>9. \A d \in McpCalls :
        /\ mcpCall'[d].pc # "idle" => mcpCall'[d].client \in 1..clients
        /\ InCall(d)' => mcpCall'[d].client \notin closed
        /\ mcpCall'[d].pc \in {"idle", "lock", "connect", "dispatch", "rejected"} => toolRan'[d] = 0
        /\ mcpCall'[d].pc = "result" => toolRan'[d] = 1
        /\ toolRan'[d] <= 1
  <2> TAKE d \in McpCalls
  <2>1. CASE d = c
    <3>1. mcpCall'[d] = row /\ toolRan'[d] = IF answer.ran THEN 1 ELSE 0
      BY <2>1, <1>4, <1>5
    <3>2. mcpCall'[d].client = k /\ k \in 1..clients
      BY <3>1, <1>0, <1>3 DEF McpInv
    <3> QED
      BY <3>1, <3>2, <1>0, <1>2, <1>3
  <2>2. CASE d # c
    <3>1. mcpCall'[d] = mcpCall[d] /\ toolRan'[d] = toolRan[d] /\ (InCall(d)' <=> InCall(d))
      BY <2>2, <1>4, <1>5, <1>7
    <3> QED
      BY <3>1 DEF McpInv
  <2> QED
    BY <2>1, <2>2
<1> QED
  BY <1>0, <1>4, <1>5, <1>6, <1>8, <1>9 DEF McpInv

(* McpInv holds in every state the pool and its calls reach.                *)
THEOREM McpInvariance == McpSpec => []McpInv
<1>1. McpInv /\ [McpNext]_mcpVars => McpInv'
  <2> SUFFICES ASSUME McpInv, [McpNext]_mcpVars PROVE McpInv'
    OBVIOUS
  <2>1. CASE UNCHANGED mcpVars
    BY <2>1 DEF mcpVars, McpInv, InCall
  <2> QED
    BY <2>1, PoolKeeps, CallBegins, CallEnds DEF McpNext
<1> QED
  BY <1>1, McpStarts, PTL DEF McpSpec

(* The server never ran the tool of a rejected call, ran that of any call   *)
(* at most once, the replay included, and did run it for a result.          *)
THEOREM RejectionsAreDefinite == McpSpec => []RejectedNeverRan
<1>1. McpInv => RejectedNeverRan
  BY DEF McpInv, RejectedNeverRan
<1> QED
  BY <1>1, McpInvariance, PTL

(* A client runs one call at a time and is closed only between calls; a     *)
(* closed one keeps no protocol session at the server.                      *)
THEOREM ClientsAreExclusive == McpSpec => []McpTypeOK
<1>1. McpInv => McpTypeOK
  <2> SUFFICES ASSUME McpInv PROVE McpTypeOK
    OBVIOUS
  <2>1. {pooled, clients} \subseteq 0..MaxClients
    BY DEF McpInv
  <2> QED
    BY <2>1 DEF McpInv, McpTypeOK, InCall
<1> QED
  BY <1>1, McpInvariance, PTL


-----------------------------------------------------------------------------
(* Workspaces.                                                              *)

(* The invariant: what a preparation has got to is in the container already, *)
(* and so is what the rows of the workspace and of its commands say.        *)
SpaceRow == [root : Roots \cup {NoRoot}, state : {"", "preparing", "ready"}, print : BOOLEAN]
PrepRow ==
  [pc : {"idle", "begin", "ensure", "install", "run", "stage", "work", "error"},
   root : Roots \cup {NoRoot}, print : BOOLEAN,
   todo : SUBSET (Managers \cup Inputs), manager : Managers \cup {NoManager}]
Got(x) ==
  /\ x.pc # "idle" => x.root \in Roots
  /\ x.pc = "ensure" /\ x.print => contents.packages = Managers
  /\ x.pc \in {"install", "run"} => Managers \ x.todo \subseteq contents.packages
  /\ x.pc = "run" => x.manager \in Managers
  /\ x.pc = "stage" => /\ contents.packages = Managers
                       /\ \A i \in Inputs \ x.todo : <<x.root, i>> \in contents.staged
SpaceIsTrue ==
  /\ space \in SpaceRow
  /\ space.print => contents.packages = Managers
  /\ ReadyIsProvisioned
InstallsAreTrue ==
  /\ install \in [Roots -> [Managers -> {"none", "starting", "succeeded", "failed"}]]
  /\ \A r \in Roots, m \in Managers : Installed(r, m) => m \in contents.packages
WorkspaceInv ==
  /\ contents \in [packages : SUBSET Managers, staged : SUBSET (Roots \X Inputs)]
  /\ SpaceIsTrue /\ InstallsAreTrue
  /\ prep \in [Preparers -> PrepRow] /\ \A w \in Preparers : Got(prep[w])

(* No preparation has begun.                                                *)
LEMMA WorkspaceStarts == WorkspaceInit => WorkspaceInv
<1> SUFFICES ASSUME WorkspaceInit PROVE WorkspaceInv
  OBVIOUS
<1>1. SpaceIsTrue
  BY DEF WorkspaceInit, SpaceIsTrue, SpaceRow, ReadyIsProvisioned
<1>2. InstallsAreTrue
  BY DEF WorkspaceInit, InstallsAreTrue, Installed
<1>3. NoPrep \in PrepRow /\ Got(NoPrep)
  BY DEF NoPrep, PrepRow, Got
<1> QED
  BY <1>1, <1>2, <1>3 DEF WorkspaceInit, WorkspaceInv

(* The container only gains, so that what was true of it stays true.        *)
Gains == /\ contents' \in [packages : SUBSET Managers, staged : SUBSET (Roots \X Inputs)]
         /\ contents.packages \subseteq contents'.packages
         /\ contents.staged \subseteq contents'.staged

(* What preparers and installations were promised is still there.           *)
LEMMA GainsKeep ==
  ASSUME WorkspaceInv, Gains
  PROVE  /\ space' = space => SpaceIsTrue'
         /\ install' = install => InstallsAreTrue'
         /\ \A x \in PrepRow : Got(x) => Got(x)'
<1>1. contents.packages = Managers => contents'.packages = Managers
  BY DEF Gains
<1>2. space' = space => SpaceIsTrue'
  BY <1>1 DEF Gains, WorkspaceInv, SpaceIsTrue, ReadyIsProvisioned
<1>3. install' = install => InstallsAreTrue'
  BY DEF Gains, WorkspaceInv, InstallsAreTrue, Installed
<1>4. \A x \in PrepRow : Got(x) => Got(x)'
  BY <1>1 DEF Gains, Got
<1> QED
  BY <1>2, <1>3, <1>4

(* The worker's next row, and what else it wrote, keep the invariant.       *)
LEMMA PreparerMoves ==
  ASSUME WorkspaceInv, Gains, SpaceIsTrue', InstallsAreTrue', NEW w \in Preparers,
         NEW x \in PrepRow, prep' = [prep EXCEPT ![w] = x], Got(x)'
  PROVE  WorkspaceInv'
<1>1. \A v \in Preparers : prep'[v] = IF v = w THEN x ELSE prep[v]
  BY DEF WorkspaceInv
<1>2. prep' \in [Preparers -> PrepRow]
  BY DEF WorkspaceInv
<1>3. \A v \in Preparers : Got(prep[v])'
  <2> TAKE v \in Preparers
  <2>1. CASE v = w
    BY <2>1, <1>1 DEF Got
  <2>2. CASE v # w
    <3>1. prep'[v] = prep[v] /\ prep[v] \in PrepRow /\ Got(prep[v])
      BY <2>2, <1>1 DEF WorkspaceInv
    <3> DEFINE y == prep[v]
    <3>2. PICK z \in PrepRow : z = prep[v]
      BY <3>1
    <3>3. Got(z)'
      BY <3>1, <3>2, GainsKeep
    <3> QED
      BY <3>1, <3>2, <3>3 DEF Got
  <2> QED
    BY <2>1, <2>2
<1> QED
  BY <1>2, <1>3 DEF WorkspaceInv, Gains


(* A step of a preparation: the error paths and the ends leave the worker   *)
(* with nothing to answer for, the others with what they have just seen to. *)
LEMMA PrepareKeeps ==
  ASSUME WorkspaceInv, NEW w \in Preparers, Prepare(w)
  PROVE  WorkspaceInv'
<1> DEFINE p == prep[w]
<1>0. /\ p \in PrepRow /\ prep \in [Preparers -> PrepRow] /\ Got(p)
      /\ contents \in [packages : SUBSET Managers, staged : SUBSET (Roots \X Inputs)]
      /\ SpaceIsTrue /\ InstallsAreTrue
  BY DEF WorkspaceInv
<1>1. UNCHANGED contents => Gains
  BY <1>0 DEF Gains
<1>2. Gains => /\ space' = space => SpaceIsTrue'
               /\ install' = install => InstallsAreTrue'
  BY <1>0, GainsKeep
<1>3. NoPrep \in PrepRow /\ Got(NoPrep)'
  BY DEF NoPrep, PrepRow, Got
<1>4. ASSUME To(w, "error") \/ To(w, "work"), ~Does(w, "idle"),
             Gains, SpaceIsTrue', InstallsAreTrue'
      PROVE  WorkspaceInv'
  <2>1. PICK pc \in {"error", "work"} : To(w, pc)
    BY <1>4
  <2> DEFINE z == [p EXCEPT !.pc = pc]
  <2>2. z \in PrepRow /\ z.pc = pc /\ z.root = p.root /\ p.root \in Roots
    BY <1>0, <1>4 DEF PrepRow, Does, Got
  <2>3. prep' = [prep EXCEPT ![w] = z]
    BY <1>0, <2>1 DEF To
  <2> HIDE DEF z
  <2>p. PICK x \in PrepRow : x = z
    BY <2>2
  <2>4. Got(x)'
    BY <2>p, <2>2 DEF Got
  <2> QED
    BY <2>p, <1>4, <2>2, <2>3, <2>4, PreparerMoves
<1>5. CASE BeginPrepare(w)
  <2>1. Gains /\ InstallsAreTrue' /\ Does(w, "begin")
    BY <1>5, <1>1, <1>2 DEF BeginPrepare
  <2>2. CASE space' = space /\ (To(w, "error") \/ To(w, "work"))
    BY <2>1, <2>2, <1>2, <1>4 DEF Does
  <2>3. CASE /\ space' = [space EXCEPT !.root = Root(w), !.state = "preparing"]
             /\ prep' = [prep EXCEPT ![w].pc = "ensure", ![w].print = space.print]
    <3> DEFINE z == [p EXCEPT !.pc = "ensure", !.print = space.print]
    <3>1. /\ z \in PrepRow /\ z.pc = "ensure" /\ z.root = p.root /\ z.print = space.print
          /\ p.root \in Roots /\ Root(w) \in Roots
      BY <1>0, <2>1 DEF PrepRow, Does, Got, SpaceIsTrue, SpaceRow, Root
    <3>2. prep' = [prep EXCEPT ![w] = z]
      BY <1>0, <2>3
    <3>3. SpaceIsTrue' /\ contents' = contents
      BY <1>0, <1>5, <2>3, <3>1 DEF SpaceIsTrue, SpaceRow, ReadyIsProvisioned, BeginPrepare
    <3> HIDE DEF z
    <3>p. PICK x \in PrepRow : x = z
      BY <3>1
    <3>4. Got(x)'
      BY <3>p, <1>0, <3>1, <3>3 DEF Got, SpaceIsTrue
    <3> QED
      BY <3>p, <2>1, <3>1, <3>2, <3>3, <3>4, PreparerMoves
  <2> QED
    BY <1>5, <2>2, <2>3 DEF BeginPrepare
<1>6. CASE EnsureSandbox(w)
  <2>1. Gains /\ SpaceIsTrue' /\ InstallsAreTrue' /\ Does(w, "ensure") /\ contents' = contents
    BY <1>6, <1>1, <1>2 DEF EnsureSandbox
  <2>2. CASE To(w, "error")
    BY <2>1, <2>2, <1>4 DEF Does
  <2>3. CASE prep' = [prep EXCEPT ![w].pc = IF prep[w].print THEN "stage" ELSE "install",
                                  ![w].todo = IF prep[w].print THEN Inputs ELSE Managers]
    <3> DEFINE pc == IF p.print THEN "stage" ELSE "install"
               todo == IF p.print THEN Inputs ELSE Managers
               z == [p EXCEPT !.pc = pc, !.todo = todo]
    <3>1. pc \in {"stage", "install"} /\ todo \in SUBSET (Managers \cup Inputs)
      OBVIOUS
    <3>2. prep' = [prep EXCEPT ![w] = z]
      BY <1>0, <2>3
    <3> HIDE DEF pc, todo
    <3>3. z \in PrepRow /\ z.pc = pc /\ z.root = p.root /\ z.todo = todo /\ p.root \in Roots
      BY <1>0, <2>1, <3>1 DEF PrepRow, Does, Got
    <3> HIDE DEF z
    <3>p. PICK x \in PrepRow : x = z
      BY <3>3
    <3>4. Got(x)'
      BY <3>p, <1>0, <2>1, <3>1, <3>3 DEF Got, pc, todo, Does
    <3> QED
      BY <3>p, <2>1, <3>2, <3>3, <3>4, PreparerMoves
  <2> QED
    BY <1>6, <2>2, <2>3 DEF EnsureSandbox
<1>7. ASSUME NEW m \in Managers, InstallPackages(w, m)
      PROVE  WorkspaceInv'
  <2>1. /\ Gains /\ SpaceIsTrue' /\ Does(w, "install") /\ contents' = contents /\ m \in p.todo
        /\ p.root \in Roots /\ Root(w) = p.root /\ Managers \ p.todo \subseteq contents.packages
    BY <1>0, <1>7, <1>1, <1>2 DEF InstallPackages, Got, Does, Root
  <2>2. CASE /\ install' = [install EXCEPT ![Root(w)][m] = "starting"]
             /\ prep' = [prep EXCEPT ![w].pc = "run", ![w].manager = m]
    <3> DEFINE z == [p EXCEPT !.pc = "run", !.manager = m]
    <3>1. /\ z \in PrepRow /\ z.pc = "run" /\ z.root = p.root /\ z.todo = p.todo /\ z.manager = m
      BY <1>0 DEF PrepRow
    <3>2. prep' = [prep EXCEPT ![w] = z]
      BY <1>0, <2>2
    <3>3. InstallsAreTrue'
      BY <1>0, <2>1, <2>2 DEF InstallsAreTrue, Installed
    <3> HIDE DEF z
    <3>p. PICK x \in PrepRow : x = z
      BY <3>1
    <3>4. Got(x)'
      BY <3>p, <2>1, <3>1 DEF Got
    <3> QED
      BY <3>p, <2>1, <3>1, <3>2, <3>3, <3>4, PreparerMoves
  <2>3. CASE /\ Installed(Root(w), m) /\ UNCHANGED install
             /\ prep' = [prep EXCEPT ![w].todo = @ \ {m}]
    <3> DEFINE z == [p EXCEPT !.todo = p.todo \ {m}]
    <3>1. /\ z \in PrepRow /\ z.pc = "install" /\ z.root = p.root /\ z.todo = p.todo \ {m}
      BY <1>0, <2>1 DEF PrepRow, Does
    <3>2. prep' = [prep EXCEPT ![w] = z]
      BY <1>0, <2>3
    <3>3. InstallsAreTrue' /\ m \in contents.packages
      BY <1>0, <1>2, <2>1, <2>3 DEF InstallsAreTrue
    <3> HIDE DEF z
    <3>p. PICK x \in PrepRow : x = z
      BY <3>1
    <3>4. Got(x)'
      BY <3>p, <2>1, <3>1, <3>3 DEF Got
    <3> QED
      BY <3>p, <2>1, <3>1, <3>2, <3>3, <3>4, PreparerMoves
  <2>4. CASE To(w, "error") /\ UNCHANGED install
    BY <2>1, <2>4, <1>2, <1>4 DEF Does
  <2> QED
    BY <1>7, <2>2, <2>3, <2>4 DEF InstallPackages
<1>8. CASE InstallEnds(w)
  <2> DEFINE m == p.manager
  <2>1. /\ Does(w, "run") /\ m \in Managers /\ space' = space
        /\ p.root \in Roots /\ Root(w) = p.root /\ Managers \ p.todo \subseteq contents.packages
    BY <1>0, <1>8 DEF InstallEnds, Got, Does, Root
  <2>2. contents' = [contents EXCEPT !.packages = @ \cup {m}] => Gains /\ m \in contents'.packages
    BY <1>0, <2>1 DEF Gains
  <2>3. CASE /\ contents' = [contents EXCEPT !.packages = @ \cup {m}]
             /\ install' = [install EXCEPT ![Root(w)][m] = "succeeded"]
             /\ prep' = [prep EXCEPT ![w].pc = "install", ![w].todo = @ \ {m}]
    <3> DEFINE z == [p EXCEPT !.pc = "install", !.todo = p.todo \ {m}]
    <3>0. Gains /\ m \in contents'.packages /\ contents.packages \subseteq contents'.packages
      BY <2>2, <2>3 DEF Gains
    <3>1. /\ z \in PrepRow /\ z.pc = "install" /\ z.root = p.root /\ z.todo = p.todo \ {m}
      BY <1>0 DEF PrepRow
    <3>2. prep' = [prep EXCEPT ![w] = z]
      BY <1>0, <2>3
    <3> HIDE DEF z, m
    <3>p. PICK x \in PrepRow : x = z
      BY <3>1
    <3>3. InstallsAreTrue'
      BY <1>0, <2>1, <2>3, <3>0 DEF InstallsAreTrue, Installed
    <3>4. Got(x)'
      BY <3>p, <2>1, <3>0, <3>1 DEF Got
    <3> QED
      BY <3>p, <1>2, <2>1, <3>0, <3>1, <3>2, <3>3, <3>4, PreparerMoves
  <2>4. CASE /\ To(w, "error") /\ UNCHANGED contents
             /\ install' = [install EXCEPT ![Root(w)][m] = "failed"]
    <3>1. InstallsAreTrue'
      BY <1>0, <2>1, <2>4 DEF InstallsAreTrue, Installed
    <3> QED
      BY <1>1, <1>2, <1>4, <2>1, <2>4, <3>1 DEF Does
  <2>5. CASE /\ To(w, "error") /\ UNCHANGED install
             /\ \/ contents' = [contents EXCEPT !.packages = @ \cup {m}]
                \/ UNCHANGED contents
    BY <1>1, <1>2, <1>4, <2>1, <2>2, <2>5 DEF Does
  <2> QED
    BY <1>8, <2>3, <2>4, <2>5 DEF InstallEnds
<1>9. CASE RecordPackages(w)
  <2>1. /\ Gains /\ InstallsAreTrue' /\ Does(w, "install") /\ contents' = contents
        /\ p.todo = {} /\ p.root \in Roots /\ contents.packages = Managers
    BY <1>0, <1>9, <1>1, <1>2 DEF RecordPackages, Got, Does
  <2> DEFINE z == [p EXCEPT !.pc = "stage", !.print = TRUE, !.todo = Inputs]
  <2>2. z \in PrepRow /\ z.pc = "stage" /\ z.root = p.root /\ z.todo = Inputs
    BY <1>0 DEF PrepRow
  <2>3. prep' = [prep EXCEPT ![w] = z] /\ space' = [space EXCEPT !.print = TRUE]
    BY <1>0, <1>9 DEF RecordPackages
  <2>4. SpaceIsTrue'
    BY <1>0, <2>1, <2>3 DEF SpaceIsTrue, SpaceRow, ReadyIsProvisioned
  <2> HIDE DEF z
  <2>p. PICK x \in PrepRow : x = z
    BY <2>2
  <2>5. Got(x)'
    BY <2>p, <2>1, <2>2 DEF Got
  <2> QED
    BY <2>p, <2>1, <2>2, <2>3, <2>4, <2>5, PreparerMoves
<1>10. ASSUME NEW i \in Inputs, StageInput(w, i)
       PROVE  WorkspaceInv'
  <2>1. /\ Does(w, "stage") /\ space' = space /\ install' = install
        /\ p.root \in Roots /\ Root(w) = p.root /\ contents.packages = Managers
        /\ \A j \in Inputs \ p.todo : <<p.root, j>> \in contents.staged
    BY <1>0, <1>10 DEF StageInput, Got, Does, Root
  <2>2. CASE To(w, "error") /\ UNCHANGED contents
    BY <1>1, <1>2, <1>4, <2>1, <2>2 DEF Does
  <2>3. CASE /\ contents' = [contents EXCEPT !.staged = @ \cup {<<Root(w), i>>}]
             /\ prep' = [prep EXCEPT ![w].todo = @ \ {i}]
    <3> DEFINE z == [p EXCEPT !.todo = p.todo \ {i}]
    <3>0. /\ Gains /\ contents'.packages = Managers
          /\ contents'.staged = contents.staged \cup {<<p.root, i>>}
      BY <1>0, <2>1, <2>3 DEF Gains
    <3>1. /\ z \in PrepRow /\ z.pc = "stage" /\ z.root = p.root /\ z.todo = p.todo \ {i}
      BY <1>0, <2>1 DEF PrepRow, Does
    <3>2. prep' = [prep EXCEPT ![w] = z]
      BY <1>0, <2>3
    <3> HIDE DEF z
    <3>p. PICK x \in PrepRow : x = z
      BY <3>1
    <3>4. Got(x)'
      BY <3>p, <2>1, <3>0, <3>1 DEF Got
    <3> QED
      BY <3>p, <1>2, <2>1, <3>0, <3>1, <3>2, <3>4, PreparerMoves
  <2> QED
    BY <1>10, <2>2, <2>3 DEF StageInput
<1>11. CASE SaveReady(w)
  <2>1. /\ Gains /\ InstallsAreTrue' /\ Does(w, "stage") /\ contents' = contents
        /\ p.todo = {} /\ p.root \in Roots /\ Root(w) = p.root /\ contents.packages = Managers
        /\ \A i \in Inputs : <<p.root, i>> \in contents.staged
        /\ space' = [root |-> p.root, state |-> "ready", print |-> p.print] /\ To(w, "work")
    BY <1>0, <1>11, <1>1, <1>2 DEF SaveReady, Got, Does, Root
  <2>2. p.print \in BOOLEAN
    BY <1>0 DEF PrepRow
  <2>3. SpaceIsTrue'
    BY <2>1, <2>2 DEF SpaceIsTrue, SpaceRow, ReadyIsProvisioned
  <2> QED
    BY <1>4, <2>1, <2>3 DEF Does
<1>12. CASE GiveUpPrepare(w) \/ WorkEnds(w)
  <2>1. /\ prep' = [prep EXCEPT ![w] = NoPrep] /\ UNCHANGED <<space, install, contents>>
    BY <1>12 DEF GiveUpPrepare, WorkEnds
  <2> QED
    BY <1>1, <1>2, <1>3, <2>1, PreparerMoves
<1> QED
  BY <1>5, <1>6, <1>7, <1>8, <1>9, <1>10, <1>11, <1>12 DEF Prepare

(* Claims, deaths, requests and retention.                                  *)
LEMMA WorkspaceKeeps ==
  ASSUME WorkspaceInv, WorkspaceNext
  PROVE  WorkspaceInv'
<1>0. Gains \/ contents' # contents
  BY DEF WorkspaceInv, Gains
<1>1. ASSUME NEW w \in Preparers, NEW r \in Roots, ClaimRoot(w, r)
      PROVE  WorkspaceInv'
  <2> DEFINE x == [NoPrep EXCEPT !.pc = "begin", !.root = r]
  <2>1. x \in PrepRow /\ Got(x)'
    BY DEF NoPrep, PrepRow, Got
  <2>2. prep' = [prep EXCEPT ![w] = x] /\ UNCHANGED <<space, install, contents>>
    BY <1>1 DEF ClaimRoot
  <2> HIDE DEF x
  <2> QED
    BY <1>0, <2>1, <2>2, GainsKeep, PreparerMoves
<1>2. ASSUME NEW w \in Preparers, PreparerDies(w)
      PROVE  WorkspaceInv'
  <2>1. NoPrep \in PrepRow /\ Got(NoPrep)'
    BY DEF NoPrep, PrepRow, Got
  <2>2. prep' = [prep EXCEPT ![w] = NoPrep] /\ UNCHANGED <<space, install, contents>>
    BY <1>2 DEF PreparerDies
  <2> QED
    BY <1>0, <2>1, <2>2, GainsKeep, PreparerMoves
<1>3. ASSUME NEW r \in Roots, ClaimLapses(r) \/ CancelRoot(r) \/ ReconcileRoot(r)
      PROVE  WorkspaceInv'
  <2>1. /\ UNCHANGED <<prep, install, contents>>
        /\ space' = space \/ (space' = [space EXCEPT !.state = ""])
    BY <1>3 DEF ClaimLapses, CancelRoot, ReconcileRoot
  <2>2. SpaceIsTrue'
    BY <2>1 DEF WorkspaceInv, SpaceIsTrue, SpaceRow, ReadyIsProvisioned
  <2> QED
    BY <2>1, <2>2 DEF WorkspaceInv, InstallsAreTrue, Installed, Got
<1>4. ASSUME NEW r \in Roots, NEW m \in Managers, PruneInstall(r, m)
      PROVE  WorkspaceInv'
  <2>1. /\ UNCHANGED <<space, prep, contents>>
        /\ install' = [install EXCEPT ![r][m] = "none"]
    BY <1>4 DEF PruneInstall
  <2>2. InstallsAreTrue'
    BY <2>1 DEF WorkspaceInv, InstallsAreTrue, Installed
  <2> QED
    BY <2>1, <2>2 DEF WorkspaceInv, SpaceIsTrue, ReadyIsProvisioned, Got
<1> QED
  BY <1>1, <1>2, <1>3, <1>4, PrepareKeeps DEF WorkspaceNext

(* Whatever workers die, lose their claim and go on, or are reconciled in   *)
(* between: a workspace that is ready holds all packages, and the inputs of *)
(* the root it is ready for.                                                *)
THEOREM ReadyWorkspaceIsWhole == WorkspaceSpec => []ReadyIsProvisioned
<1>1. WorkspaceInv /\ [WorkspaceNext]_workspaceVars => WorkspaceInv'
  <2> SUFFICES ASSUME WorkspaceInv, UNCHANGED workspaceVars PROVE WorkspaceInv'
    BY WorkspaceKeeps
  <2> QED
    BY DEF workspaceVars, WorkspaceInv, SpaceIsTrue, InstallsAreTrue, ReadyIsProvisioned,
           Installed, Got
<1>2. WorkspaceInv => ReadyIsProvisioned
  BY DEF WorkspaceInv, SpaceIsTrue
<1> QED
  BY <1>1, <1>2, WorkspaceStarts, PTL DEF WorkspaceSpec


-----------------------------------------------------------------------------
(* Sandboxes. What the processes do for a session, and its commands: an     *)
(* operation carries at most one command and no two of them the same, and   *)
(* a command without a row, or that is still to be run, has not been        *)
(* started. None of it depends on who else works on the session.            *)
BoxPcs == {"idle", "reserve", "load", "inspect", "create", "adopt", "start", "mark",
           "exec", "complete", "kill", "confirm", "release", "stop", "forget", "drop"}
BoxRow == [state : BoxStates, backend : BOOLEAN]
BoxTyped == /\ box \in [Sessions -> BoxRow]
            /\ container \in [Sessions -> {"none", "created", "running"}]
Before == {"reserve", "load", "inspect", "create", "adopt", "start", "mark", "exec"}
Bare == {"release", "stop", "forget", "drop"}
OpRow(s) == [pc : BoxPcs, ran : BOOLEAN, known : BOOLEAN, exec : ExecIds[s] \cup {NoExec},
             then : {"complete", "end"}]
CommandsOK(s, c, e) ==
  /\ c \in [ExecIds[s] -> {"none", "starting", "completed"}] /\ e \in [ExecIds[s] -> Nat]
  /\ \A q \in ExecIds[s] : e[q] <= 1 /\ (c[q] = "none" => e[q] = 0)
OpOK(s, o, c, e) ==
  /\ o \in OpRow(s)
  /\ o.pc = "idle" => o = NoOp
  /\ o.pc \in Bare => o.exec = NoExec
  /\ o.pc = "exec" => o.exec # NoExec
  /\ o.pc \in {"forget", "drop"} => s \in Disposable
  /\ o.exec # NoExec => c[o.exec] # "none" /\ (o.pc \in Before => e[o.exec] = 0)
OpsInv ==
  /\ DOMAIN command = Sessions /\ DOMAIN executed = Sessions
  /\ DOMAIN op = Processes /\ \A p \in Processes : DOMAIN op[p] = Sessions
  /\ \A s \in Sessions :
       /\ CommandsOK(s, command[s], executed[s])
       /\ \A p \in Processes : /\ OpOK(s, op[p][s], command[s], executed[s])
                               /\ op[p][s].pc # "idle" => Works(p, s)
       /\ \A p, r \in Processes :
            op[p][s].exec # NoExec /\ op[p][s].exec = op[r][s].exec => p = r

(* The rows keep their form.                                                *)
Reformed(s) ==
  /\ \/ box' = box \/ box' = [box EXCEPT ![s].backend = TRUE]
     \/ \E x \in BoxStates : box' = [box EXCEPT ![s].state = x]
     \/ \E r \in BoxRow : box' = [box EXCEPT ![s] = r]
  /\ \/ container' = container
     \/ \E k \in {"none", "created", "running"} : container' = [container EXCEPT ![s] = k]
LEMMA ReformedStays ==
  ASSUME BoxTyped, NEW s \in Sessions, Reformed(s) PROVE BoxTyped'
<1>1. container' \in [Sessions -> {"none", "created", "running"}]
  BY DEF Reformed, BoxTyped
<1>2. CASE box' = box \/ box' = [box EXCEPT ![s].backend = TRUE]
  BY <1>1, <1>2 DEF BoxTyped, BoxRow
<1>3. ASSUME NEW x \in BoxStates, box' = [box EXCEPT ![s].state = x] PROVE BoxTyped'
  BY <1>1, <1>3 DEF BoxTyped, BoxRow
<1>4. ASSUME NEW r \in BoxRow, box' = [box EXCEPT ![s] = r] PROVE BoxTyped'
  BY <1>1, <1>4 DEF BoxTyped
<1> QED
  BY <1>2, <1>3, <1>4 DEF Reformed

LEMMA TypedSteps == BoxTyped /\ [BoxNext]_boxVars => BoxTyped'
<1> SUFFICES ASSUME BoxTyped, [BoxNext]_boxVars PROVE BoxTyped'
  OBVIOUS
<1>0. /\ {"stopped", "reserved", "creating", "running"} \subseteq BoxStates
      /\ [state |-> "starting", backend |-> TRUE] \in BoxRow
      /\ [state |-> "absent", backend |-> FALSE] \in BoxRow
  BY DEF BoxStates, BoxRow
<1>1. ASSUME NEW p \in Processes, NEW s \in Sessions, Step(p, s) PROVE BoxTyped'
  <2>1. CASE BeginEnsure(p, s)
    BY <2>1, ReformedStays DEF BeginEnsure, Reformed
  <2>2. CASE EnsureReserves(p, s)
    <3>1. \/ box' = box
          \/ box' = [box EXCEPT ![s].state = "reserved"]
      BY <2>2 DEF EnsureReserves, Becomes, Reserve
    <3>2. container' = container
      BY <2>2 DEF EnsureReserves
    <3> QED
      BY <1>0, <3>1, <3>2, ReformedStays DEF Reformed
  <2>3. CASE EnsureLoads(p, s)
    BY <2>3, ReformedStays DEF EnsureLoads, Reformed
  <2>4. CASE EnsureInspects(p, s)
    <3>1. \/ box' = box
          \/ box' = [box EXCEPT ![s].state = "creating"]
          \/ box' = [box EXCEPT ![s].backend = TRUE]
      BY <2>4 DEF EnsureInspects, Becomes, Reserve
    <3>2. container' = container
      BY <2>4 DEF EnsureInspects
    <3> QED
      BY <1>0, <3>1, <3>2, ReformedStays DEF Reformed
  <2>5. CASE EnsureCreates(p, s)
    <3>1. \/ box' = box
          \/ box' = [box EXCEPT ![s].backend = TRUE]
      BY <2>5 DEF EnsureCreates, Becomes, Reserve
    <3>2. container' = container \/ container' = [container EXCEPT ![s] = "created"]
      BY <2>5 DEF EnsureCreates
    <3> QED
      BY <1>0, <3>1, <3>2, ReformedStays DEF Reformed
  <2>6. CASE EnsureAdopts(p, s)
    <3>1. \/ box' = box
          \/ box' = [box EXCEPT ![s] = [state |-> "starting", backend |-> TRUE]]
      BY <2>6 DEF EnsureAdopts, Becomes, Reserve
    <3>2. container' = container
      BY <2>6 DEF EnsureAdopts
    <3> QED
      BY <1>0, <3>1, <3>2, ReformedStays DEF Reformed
  <2>7. CASE EnsureStarts(p, s)
    <3>1. \/ box' = box
      BY <2>7 DEF EnsureStarts, Becomes, Reserve
    <3>2. container' = container \/ container' = [container EXCEPT ![s] = "running"]
      BY <2>7 DEF EnsureStarts
    <3> QED
      BY <1>0, <3>1, <3>2, ReformedStays DEF Reformed
  <2>8. CASE EnsureMarks(p, s)
    <3>1. \/ box' = box
          \/ box' = [box EXCEPT ![s].state = "running"]
      BY <2>8 DEF EnsureMarks, Becomes, Reserve
    <3>2. container' = container
      BY <2>8 DEF EnsureMarks
    <3> QED
      BY <1>0, <3>1, <3>2, ReformedStays DEF Reformed
  <2>9. CASE ExecRuns(p, s)
    BY <2>9, ReformedStays DEF ExecRuns, Reformed
  <2>10. CASE ExecCompletes(p, s)
    BY <2>10, ReformedStays DEF ExecCompletes, Reformed
  <2>11. CASE Kill(p, s)
    <3>1. \/ box' = box
      BY <2>11 DEF Kill, Becomes, Reserve
    <3>2. container' = container \/ container' = [container EXCEPT ![s] = "created"]
      BY <2>11 DEF Kill
    <3> QED
      BY <1>0, <3>1, <3>2, ReformedStays DEF Reformed
  <2>12. CASE Confirm(p, s)
    <3>1. \/ box' = box
          \/ box' = [box EXCEPT ![s].state = "stopped"]
      BY <2>12 DEF Confirm, Becomes, Reserve
    <3>2. container' = container
      BY <2>12 DEF Confirm
    <3> QED
      BY <1>0, <3>1, <3>2, ReformedStays DEF Reformed
  <2>13. CASE BeginStop(p, s)
    BY <2>13, ReformedStays DEF BeginStop, Reformed
  <2>14. CASE StopReleases(p, s)
    <3>1. \/ box' = box
          \/ box' = [box EXCEPT ![s].state = "stopped"]
      BY <2>14 DEF StopReleases, Becomes, Reserve
    <3>2. container' = container
      BY <2>14 DEF StopReleases
    <3> QED
      BY <1>0, <3>1, <3>2, ReformedStays DEF Reformed
  <2>15. CASE StopInspects(p, s)
    <3>1. \/ box' = box
          \/ box' = [box EXCEPT ![s].state = "stopped"]
      BY <2>15 DEF StopInspects, Becomes, Reserve
    <3>2. container' = container \/ container' = [container EXCEPT ![s] = "created"]
      BY <2>15 DEF StopInspects
    <3> QED
      BY <1>0, <3>1, <3>2, ReformedStays DEF Reformed
  <2>16. CASE BeginDestroy(p, s)
    <3>1. \/ box' = box
      BY <2>16 DEF BeginDestroy, Becomes, Reserve
    <3>2. container' = container \/ container' = [container EXCEPT ![s] = "none"]
      BY <2>16 DEF BeginDestroy
    <3> QED
      BY <1>0, <3>1, <3>2, ReformedStays DEF Reformed
  <2>17. CASE DestroyForgets(p, s)
    BY <2>17, ReformedStays DEF DestroyForgets, Reformed
  <2>18. CASE DestroyDrops(p, s)
    <3>1. \/ box' = box
          \/ box' = [box EXCEPT ![s] = [state |-> "absent", backend |-> FALSE]]
      BY <2>18 DEF DestroyDrops, Becomes, Reserve
    <3>2. container' = container
      BY <2>18 DEF DestroyDrops
    <3> QED
      BY <1>0, <3>1, <3>2, ReformedStays DEF Reformed
  <2>19. CASE \E q \in ExecIds[s] : BeginExec(p, s, q)
    BY <2>19, ReformedStays DEF BeginExec, Reformed
  <2> QED
    BY <1>1, <2>1, <2>2, <2>3, <2>4, <2>5, <2>6, <2>7, <2>8, <2>9, <2>10, <2>11,
       <2>12, <2>13, <2>14, <2>15, <2>16, <2>17, <2>18, <2>19 DEF Step
<1>2. ASSUME NEW s \in Sessions, AdmitClaim(s) \/ ContainerExits(s) \/ ContainerRemoved(s)
      PROVE  BoxTyped'
  <2>1. box' = box \/ box' = [box EXCEPT ![s].state = "reserved"]
    BY <1>2 DEF AdmitClaim, ContainerExits, ContainerRemoved, Reserve, Becomes
  <2>2. \/ container' = container
        \/ container' = [container EXCEPT ![s] = "created"]
        \/ container' = [container EXCEPT ![s] = "none"]
    BY <1>2 DEF AdmitClaim, ContainerExits, ContainerRemoved
  <2> QED
    BY <1>0, <2>1, <2>2, ReformedStays DEF Reformed
<1>3. CASE \/ \E s \in Sessions : \E q \in ExecIds[s] : PruneCommand(s, q)
           \/ \E p \in Processes : ProcessDies(p)
           \/ UNCHANGED boxVars
  <2>1. UNCHANGED <<box, container>>
    BY <1>3 DEF PruneCommand, ProcessDies, boxVars
  <2> QED
    BY <2>1 DEF BoxTyped
<1> QED
  BY <1>1, <1>2, <1>3 DEF BoxNext

(* A process that is idle holds nothing.                                    *)
LEMMA IdleIsOK ==
  ASSUME NEW s, NEW c, NEW e
  PROVE  OpOK(s, NoOp, c, e)
BY DEF OpOK, NoOp, OpRow, BoxPcs, Bare, Before

LEMMA IdleIsRow ==
  ASSUME NEW s PROVE NoOp \in OpRow(s) /\ NoOp.exec = NoExec /\ NoOp.pc = "idle"
BY DEF NoOp, OpRow, BoxPcs

(* A process takes a step for a session.                                    *)
Stepped(p, s) ==
  /\ DOMAIN op' = Processes /\ \A q \in Processes : DOMAIN op'[q] = Sessions
  /\ \A q \in Processes, t \in Sessions : q # p \/ t # s => op'[q][t] = op[q][t]

(* It leaves the commands that others are to run alone.                     *)
LEMMA OpsMove ==
  ASSUME OpsInv, NEW s \in Sessions, NEW p \in Processes, Stepped(p, s), Works(p, s),
         DOMAIN command' = Sessions, DOMAIN executed' = Sessions,
         \A t \in Sessions : t # s => command'[t] = command[t] /\ executed'[t] = executed[t],
         CommandsOK(s, command'[s], executed'[s]),
         OpOK(s, op'[p][s], command'[s], executed'[s]),
         \A r \in Processes : r # p /\ op[r][s].exec # NoExec =>
           /\ op'[p][s].exec # op[r][s].exec
           /\ command'[s][op[r][s].exec] = command[s][op[r][s].exec]
           /\ executed'[s][op[r][s].exec] = executed[s][op[r][s].exec]
  PROVE  OpsInv'
<1>1. ASSUME NEW t \in Sessions, NEW r \in Processes
      PROVE  /\ OpOK(t, op'[r][t], command'[t], executed'[t])
             /\ op'[r][t].pc # "idle" => Works(r, t)
  <2>1. OpOK(t, op[r][t], command[t], executed[t]) /\ (op[r][t].pc # "idle" => Works(r, t))
    BY DEF OpsInv
  <2>2. CASE t # s
    <3>1. op'[r][t] = op[r][t] /\ command'[t] = command[t] /\ executed'[t] = executed[t]
      BY <2>2 DEF Stepped
    <3> QED
      BY <2>1, <3>1
  <2>3. CASE t = s /\ r = p
    BY <2>3
  <2>4. CASE t = s /\ r # p
    <3>1. op'[r][t] = op[r][t]
      BY <2>4 DEF Stepped
    <3> QED
      BY <2>1, <2>4, <3>1 DEF OpOK
  <2> QED
    BY <2>2, <2>3, <2>4
<1>2. ASSUME NEW t \in Sessions PROVE CommandsOK(t, command'[t], executed'[t])
  <2>1. CASE t # s
    <3>1. CommandsOK(t, command[t], executed[t])
      BY DEF OpsInv
    <3> QED
      BY <2>1, <3>1
  <2> QED
    BY <2>1
<1>3. ASSUME NEW t \in Sessions, NEW r \in Processes, NEW q \in Processes,
             op'[r][t].exec # NoExec, op'[r][t].exec = op'[q][t].exec
      PROVE  r = q
  <2>1. op[r][t].exec # NoExec /\ op[r][t].exec = op[q][t].exec => r = q
    BY DEF OpsInv
  <2>2. CASE t # s
    BY <1>3, <2>1, <2>2 DEF Stepped
  <2>3. CASE t = s
    <3>1. \A x \in Processes : x # p => op'[x][s] = op[x][s]
      BY DEF Stepped
    <3> QED
      BY <1>3, <2>1, <2>3, <3>1
  <2> QED
    BY <2>2, <2>3
<1>4. OpsInv' <=>
        /\ DOMAIN command' = Sessions /\ DOMAIN executed' = Sessions
        /\ DOMAIN op' = Processes /\ \A r \in Processes : DOMAIN op'[r] = Sessions
        /\ \A t \in Sessions :
             /\ CommandsOK(t, command'[t], executed'[t])
             /\ \A r \in Processes : /\ OpOK(t, op'[r][t], command'[t], executed'[t])
                                     /\ op'[r][t].pc # "idle" => Works(r, t)
             /\ \A r, q \in Processes :
                  op'[r][t].exec # NoExec /\ op'[r][t].exec = op'[q][t].exec => r = q
  BY DEF OpsInv, CommandsOK, OpOK, Works
<1> QED
  BY <1>1, <1>2, <1>3, <1>4 DEF Stepped

(* What is known of a process before its step.                              *)
LEMMA OpsFacts ==
  ASSUME OpsInv, NEW s \in Sessions, NEW p \in Processes
  PROVE  /\ CommandsOK(s, command[s], executed[s])
         /\ OpOK(s, op[p][s], command[s], executed[s]) /\ op[p][s] \in OpRow(s)
         /\ op[p][s].pc # "idle" => Works(p, s)
         /\ op[p][s].pc = "idle" => op[p][s].exec = NoExec
         /\ \A r \in Processes :
              r # p /\ op[r][s].exec # NoExec => op[p][s].exec # op[r][s].exec
         /\ NoExec \notin ExecIds[s]
         /\ DOMAIN command = Sessions /\ DOMAIN executed = Sessions
         /\ DOMAIN op = Processes /\ \A r \in Processes : DOMAIN op[r] = Sessions
<1>1. OpOK(s, op[p][s], command[s], executed[s])
  BY DEF OpsInv
<1> QED
  BY <1>1, SandboxAssumption DEF OpsInv, OpOK, NoOp

(* A step that starts no command and touches no row of one: the operation   *)
(* ends, goes on with its command, or starts without one.                   *)
Proceeds(s, o, n) ==
  \/ n = NoOp
  \/ /\ n.pc # "idle" /\ n.exec = o.exec /\ (n.pc \in Before => o.exec = NoExec \/ o.pc \in Before)
     /\ n.pc \in Bare => o.exec = NoExec
     /\ n.pc = "exec" => o.exec # NoExec
     /\ n.pc \in {"forget", "drop"} => s \in Disposable
LEMMA QuietKeeps ==
  ASSUME OpsInv, NEW s \in Sessions, NEW p \in Processes, Stepped(p, s), Works(p, s),
         UNCHANGED <<command, executed>>,
         op'[p][s] \in OpRow(s), Proceeds(s, op[p][s], op'[p][s])
  PROVE  OpsInv'
<1>1. /\ CommandsOK(s, command[s], executed[s])
      /\ OpOK(s, op[p][s], command[s], executed[s]) /\ op[p][s] \in OpRow(s)
      /\ \A r \in Processes :
           r # p /\ op[r][s].exec # NoExec => op[p][s].exec # op[r][s].exec
      /\ DOMAIN command = Sessions /\ DOMAIN executed = Sessions
  BY OpsFacts
<1>2. OpOK(s, op'[p][s], command[s], executed[s])
  BY <1>1, IdleIsOK DEF Proceeds, OpOK
<1>3. op'[p][s].exec \in {NoExec, op[p][s].exec}
  BY DEF Proceeds, NoOp
<1>4. \A r \in Processes : r # p /\ op[r][s].exec # NoExec => op'[p][s].exec # op[r][s].exec
  BY <1>1, <1>3
<1>5. command' = command /\ executed' = executed
  OBVIOUS
<1> QED
  BY <1>1, <1>2, <1>4, <1>5, OpsMove

(* Ensure never touches a command's row: it hands its command on.            *)
LEMMA EnsureStepsQuietly ==
  ASSUME BoxTyped, OpsInv, NEW s \in Sessions, NEW p \in Processes,
         \/ BeginEnsure(p, s)
         \/ EnsureReserves(p, s)
         \/ EnsureLoads(p, s)
         \/ EnsureInspects(p, s)
         \/ EnsureCreates(p, s)
         \/ EnsureAdopts(p, s)
         \/ EnsureStarts(p, s)
         \/ EnsureMarks(p, s)
  PROVE  OpsInv'
<1>0. /\ CommandsOK(s, command[s], executed[s])
      /\ OpOK(s, op[p][s], command[s], executed[s]) /\ op[p][s] \in OpRow(s)
      /\ op[p][s].pc # "idle" => Works(p, s)
      /\ op[p][s].pc = "idle" => op[p][s].exec = NoExec
      /\ \A r \in Processes :
           r # p /\ op[r][s].exec # NoExec => op[p][s].exec # op[r][s].exec
      /\ NoExec \notin ExecIds[s]
      /\ DOMAIN command = Sessions /\ DOMAIN executed = Sessions
      /\ DOMAIN op = Processes /\ \A r \in Processes : DOMAIN op[r] = Sessions
  BY OpsFacts
<1> DEFINE o == op[p][s]
<1>b. box[s].backend \in BOOLEAN
  BY DEF BoxTyped, BoxRow
<1>1. CASE BeginEnsure(p, s)
  <2>1. Stepped(p, s) /\ UNCHANGED <<command, executed>>
    BY <1>0, <1>1 DEF BeginEnsure, Stepped, At, Go, End, Becomes, Begin, boxHistory
  <2>2. Works(p, s) /\ o.pc = "idle"
    BY <1>1 DEF BeginEnsure, Begin, At
  <2>3. op'[p][s] = [NoOp EXCEPT !.pc = "reserve"]
    BY <1>0, <1>1 DEF BeginEnsure, At, Go, End, Becomes, Begin, boxHistory
  <2>4. op'[p][s] \in OpRow(s) /\ Proceeds(s, o, op'[p][s])
    <3>1. CASE op'[p][s] = [NoOp EXCEPT !.pc = "reserve"]
      BY <1>0, <2>2, <3>1 DEF OpOK, OpRow, BoxPcs, Before, Bare, Proceeds, NoOp
    <3> QED
      BY <2>3, <3>1
  <2> QED
    BY <2>1, <2>2, <2>4, QuietKeeps
<1>2. CASE EnsureReserves(p, s)
  <2>1. Stepped(p, s) /\ UNCHANGED <<command, executed>>
    BY <1>0, <1>2 DEF EnsureReserves, Stepped, At, Go, End, Becomes, Begin, boxHistory
  <2>2. Works(p, s) /\ o.pc = "reserve"
    BY <1>0, <1>2 DEF EnsureReserves, At
  <2>3. op'[p][s] \in {NoOp,
                       [o EXCEPT !.pc = "load"]}
    BY <1>0, <1>2 DEF EnsureReserves, At, Go, End, Becomes, Begin, boxHistory
  <2>4. op'[p][s] \in OpRow(s) /\ Proceeds(s, o, op'[p][s])
    <3>1. CASE op'[p][s] = NoOp
      BY <3>1, IdleIsRow DEF Proceeds
    <3>2. CASE op'[p][s] = [o EXCEPT !.pc = "load"]
      BY <1>0, <2>2, <3>2 DEF OpOK, OpRow, BoxPcs, Before, Bare, Proceeds, NoOp
    <3> QED
      BY <2>3, <3>1, <3>2
  <2> QED
    BY <2>1, <2>2, <2>4, QuietKeeps
<1>3. CASE EnsureLoads(p, s)
  <2>1. Stepped(p, s) /\ UNCHANGED <<command, executed>>
    BY <1>0, <1>3 DEF EnsureLoads, Stepped, At, Go, End, Becomes, Begin, boxHistory
  <2>2. Works(p, s) /\ o.pc = "load"
    BY <1>0, <1>3 DEF EnsureLoads, At
  <2>3. op'[p][s] = [[[o EXCEPT !.pc = "inspect"] EXCEPT !.ran = box[s].state = "running"] EXCEPT !.known = box[s].backend]
    BY <1>0, <1>3 DEF EnsureLoads, At, Go, End, Becomes, Begin, boxHistory
  <2>4. op'[p][s] \in OpRow(s) /\ Proceeds(s, o, op'[p][s])
    <3>1. CASE op'[p][s] = [[[o EXCEPT !.pc = "inspect"] EXCEPT !.ran = box[s].state = "running"] EXCEPT !.known = box[s].backend]
      BY <1>0, <1>b, <2>2, <3>1 DEF OpOK, OpRow, BoxPcs, Before, Bare, Proceeds, NoOp
    <3> QED
      BY <2>3, <3>1
  <2> QED
    BY <2>1, <2>2, <2>4, QuietKeeps
<1>4. CASE EnsureInspects(p, s)
  <2>1. Stepped(p, s) /\ UNCHANGED <<command, executed>>
    BY <1>0, <1>4 DEF EnsureInspects, Stepped, At, Go, End, Becomes, Begin, boxHistory
  <2>2. Works(p, s) /\ o.pc = "inspect"
    BY <1>0, <1>4 DEF EnsureInspects, At
  <2>3. op'[p][s] \in {NoOp,
                       [o EXCEPT !.pc = "mark"],
                       [o EXCEPT !.pc = "adopt"],
                       [o EXCEPT !.pc = "create"]}
    BY <1>0, <1>4 DEF EnsureInspects, At, Go, End, Becomes, Begin, boxHistory
  <2>4. op'[p][s] \in OpRow(s) /\ Proceeds(s, o, op'[p][s])
    <3>1. CASE op'[p][s] = NoOp
      BY <3>1, IdleIsRow DEF Proceeds
    <3>2. CASE op'[p][s] = [o EXCEPT !.pc = "mark"]
      BY <1>0, <2>2, <3>2 DEF OpOK, OpRow, BoxPcs, Before, Bare, Proceeds, NoOp
    <3>3. CASE op'[p][s] = [o EXCEPT !.pc = "adopt"]
      BY <1>0, <2>2, <3>3 DEF OpOK, OpRow, BoxPcs, Before, Bare, Proceeds, NoOp
    <3>4. CASE op'[p][s] = [o EXCEPT !.pc = "create"]
      BY <1>0, <2>2, <3>4 DEF OpOK, OpRow, BoxPcs, Before, Bare, Proceeds, NoOp
    <3> QED
      BY <2>3, <3>1, <3>2, <3>3, <3>4
  <2> QED
    BY <2>1, <2>2, <2>4, QuietKeeps
<1>5. CASE EnsureCreates(p, s)
  <2>1. Stepped(p, s) /\ UNCHANGED <<command, executed>>
    BY <1>0, <1>5 DEF EnsureCreates, Stepped, At, Go, End, Becomes, Begin, boxHistory
  <2>2. Works(p, s) /\ o.pc = "create"
    BY <1>0, <1>5 DEF EnsureCreates, At
  <2>3. op'[p][s] \in {NoOp,
                       [o EXCEPT !.pc = "mark"],
                       [o EXCEPT !.pc = "adopt"]}
    BY <1>0, <1>5 DEF EnsureCreates, At, Go, End, Becomes, Begin, boxHistory
  <2>4. op'[p][s] \in OpRow(s) /\ Proceeds(s, o, op'[p][s])
    <3>1. CASE op'[p][s] = NoOp
      BY <3>1, IdleIsRow DEF Proceeds
    <3>2. CASE op'[p][s] = [o EXCEPT !.pc = "mark"]
      BY <1>0, <2>2, <3>2 DEF OpOK, OpRow, BoxPcs, Before, Bare, Proceeds, NoOp
    <3>3. CASE op'[p][s] = [o EXCEPT !.pc = "adopt"]
      BY <1>0, <2>2, <3>3 DEF OpOK, OpRow, BoxPcs, Before, Bare, Proceeds, NoOp
    <3> QED
      BY <2>3, <3>1, <3>2, <3>3
  <2> QED
    BY <2>1, <2>2, <2>4, QuietKeeps
<1>6. CASE EnsureAdopts(p, s)
  <2>1. Stepped(p, s) /\ UNCHANGED <<command, executed>>
    BY <1>0, <1>6 DEF EnsureAdopts, Stepped, At, Go, End, Becomes, Begin, boxHistory
  <2>2. Works(p, s) /\ o.pc = "adopt"
    BY <1>0, <1>6 DEF EnsureAdopts, At
  <2>3. op'[p][s] \in {NoOp,
                       [o EXCEPT !.pc = "start"]}
    BY <1>0, <1>6 DEF EnsureAdopts, At, Go, End, Becomes, Begin, boxHistory
  <2>4. op'[p][s] \in OpRow(s) /\ Proceeds(s, o, op'[p][s])
    <3>1. CASE op'[p][s] = NoOp
      BY <3>1, IdleIsRow DEF Proceeds
    <3>2. CASE op'[p][s] = [o EXCEPT !.pc = "start"]
      BY <1>0, <2>2, <3>2 DEF OpOK, OpRow, BoxPcs, Before, Bare, Proceeds, NoOp
    <3> QED
      BY <2>3, <3>1, <3>2
  <2> QED
    BY <2>1, <2>2, <2>4, QuietKeeps
<1>7. CASE EnsureStarts(p, s)
  <2>1. Stepped(p, s) /\ UNCHANGED <<command, executed>>
    BY <1>0, <1>7 DEF EnsureStarts, Stepped, At, Go, End, Becomes, Begin, boxHistory
  <2>2. Works(p, s) /\ o.pc = "start"
    BY <1>0, <1>7 DEF EnsureStarts, At
  <2>3. op'[p][s] \in {NoOp,
                       [o EXCEPT !.pc = "mark"]}
    BY <1>0, <1>7 DEF EnsureStarts, At, Go, End, Becomes, Begin, boxHistory
  <2>4. op'[p][s] \in OpRow(s) /\ Proceeds(s, o, op'[p][s])
    <3>1. CASE op'[p][s] = NoOp
      BY <3>1, IdleIsRow DEF Proceeds
    <3>2. CASE op'[p][s] = [o EXCEPT !.pc = "mark"]
      BY <1>0, <2>2, <3>2 DEF OpOK, OpRow, BoxPcs, Before, Bare, Proceeds, NoOp
    <3> QED
      BY <2>3, <3>1, <3>2
  <2> QED
    BY <2>1, <2>2, <2>4, QuietKeeps
<1>8. CASE EnsureMarks(p, s)
  <2>1. Stepped(p, s) /\ UNCHANGED <<command, executed>>
    BY <1>0, <1>8 DEF EnsureMarks, Stepped, At, Go, End, Becomes, Begin, boxHistory
  <2>2. Works(p, s) /\ o.pc = "mark"
    BY <1>0, <1>8 DEF EnsureMarks, At
  <2>3. IF o.exec = NoExec THEN op'[p][s] = NoOp
        ELSE op'[p][s] = [NoOp EXCEPT !.pc = "exec", !.exec = o.exec]
    BY <1>0, <1>8 DEF EnsureMarks, At, Go, End, Becomes, Begin, boxHistory
  <2>4. op'[p][s] \in OpRow(s) /\ Proceeds(s, o, op'[p][s])
    <3>1. CASE op'[p][s] = NoOp
      BY <3>1, IdleIsRow DEF Proceeds
    <3>2. CASE o.exec # NoExec /\ op'[p][s] = [NoOp EXCEPT !.pc = "exec", !.exec = o.exec]
      BY <1>0, <2>2, <3>2 DEF OpOK, OpRow, BoxPcs, Before, Bare, Proceeds, NoOp
    <3> QED
      BY <2>3, <3>1, <3>2
  <2> QED
    BY <2>1, <2>2, <2>4, QuietKeeps
<1> QED
  BY <1>1, <1>2, <1>3, <1>4, <1>5, <1>6, <1>7, <1>8

(* Nor do Stop, the kill that follows a command, and Destroy around the     *)
(* deletion of the commands.                                                *)
LEMMA StopStepsQuietly ==
  ASSUME BoxTyped, OpsInv, NEW s \in Sessions, NEW p \in Processes,
         \/ Kill(p, s)
         \/ Confirm(p, s)
         \/ BeginStop(p, s)
         \/ StopReleases(p, s)
         \/ StopInspects(p, s)
         \/ BeginDestroy(p, s)
         \/ DestroyDrops(p, s)
  PROVE  OpsInv'
<1>0. /\ CommandsOK(s, command[s], executed[s])
      /\ OpOK(s, op[p][s], command[s], executed[s]) /\ op[p][s] \in OpRow(s)
      /\ op[p][s].pc # "idle" => Works(p, s)
      /\ op[p][s].pc = "idle" => op[p][s].exec = NoExec
      /\ \A r \in Processes :
           r # p /\ op[r][s].exec # NoExec => op[p][s].exec # op[r][s].exec
      /\ NoExec \notin ExecIds[s]
      /\ DOMAIN command = Sessions /\ DOMAIN executed = Sessions
      /\ DOMAIN op = Processes /\ \A r \in Processes : DOMAIN op[r] = Sessions
  BY OpsFacts
<1> DEFINE o == op[p][s]
<1>1. CASE Kill(p, s)
  <2>1. Stepped(p, s) /\ UNCHANGED <<command, executed>>
    BY <1>0, <1>1 DEF Kill, Stepped, At, Go, End, Becomes, Begin, boxHistory
  <2>2. Works(p, s) /\ o.pc = "kill"
    BY <1>0, <1>1 DEF Kill, At
  <2>3. op'[p][s] \in {NoOp,
                       [o EXCEPT !.pc = "confirm"]}
    BY <1>0, <1>1 DEF Kill, At, Go, End, Becomes, Begin, boxHistory
  <2>4. op'[p][s] \in OpRow(s) /\ Proceeds(s, o, op'[p][s])
    <3>1. CASE op'[p][s] = NoOp
      BY <3>1, IdleIsRow DEF Proceeds
    <3>2. CASE op'[p][s] = [o EXCEPT !.pc = "confirm"]
      BY <1>0, <2>2, <3>2 DEF OpOK, OpRow, BoxPcs, Before, Bare, Proceeds, NoOp
    <3> QED
      BY <2>3, <3>1, <3>2
  <2> QED
    BY <2>1, <2>2, <2>4, QuietKeeps
<1>2. CASE Confirm(p, s)
  <2>1. Stepped(p, s) /\ UNCHANGED <<command, executed>>
    BY <1>0, <1>2 DEF Confirm, Stepped, At, Go, End, Becomes, Begin, boxHistory
  <2>2. Works(p, s) /\ o.pc = "confirm"
    BY <1>0, <1>2 DEF Confirm, At
  <2>3. op'[p][s] \in {NoOp,
                       [o EXCEPT !.pc = "complete"]}
    BY <1>0, <1>2 DEF Confirm, At, Go, End, Becomes, Begin, boxHistory
  <2>4. op'[p][s] \in OpRow(s) /\ Proceeds(s, o, op'[p][s])
    <3>1. CASE op'[p][s] = NoOp
      BY <3>1, IdleIsRow DEF Proceeds
    <3>2. CASE op'[p][s] = [o EXCEPT !.pc = "complete"]
      BY <1>0, <2>2, <3>2 DEF OpOK, OpRow, BoxPcs, Before, Bare, Proceeds, NoOp
    <3> QED
      BY <2>3, <3>1, <3>2
  <2> QED
    BY <2>1, <2>2, <2>4, QuietKeeps
<1>3. CASE BeginStop(p, s)
  <2>1. Stepped(p, s) /\ UNCHANGED <<command, executed>>
    BY <1>0, <1>3 DEF BeginStop, Stepped, At, Go, End, Becomes, Begin, boxHistory
  <2>2. Works(p, s) /\ o.pc = "idle"
    BY <1>3 DEF BeginStop, Begin, At
  <2>3. op'[p][s] \in {[NoOp EXCEPT !.pc = "release"],
                       [NoOp EXCEPT !.pc = "stop"]}
    BY <1>0, <1>3 DEF BeginStop, At, Go, End, Becomes, Begin, boxHistory
  <2>4. op'[p][s] \in OpRow(s) /\ Proceeds(s, o, op'[p][s])
    <3>1. CASE op'[p][s] = [NoOp EXCEPT !.pc = "release"]
      BY <1>0, <2>2, <3>1 DEF OpOK, OpRow, BoxPcs, Before, Bare, Proceeds, NoOp
    <3>2. CASE op'[p][s] = [NoOp EXCEPT !.pc = "stop"]
      BY <1>0, <2>2, <3>2 DEF OpOK, OpRow, BoxPcs, Before, Bare, Proceeds, NoOp
    <3> QED
      BY <2>3, <3>1, <3>2
  <2> QED
    BY <2>1, <2>2, <2>4, QuietKeeps
<1>4. CASE StopReleases(p, s)
  <2>1. Stepped(p, s) /\ UNCHANGED <<command, executed>>
    BY <1>0, <1>4 DEF StopReleases, Stepped, At, Go, End, Becomes, Begin, boxHistory
  <2>2. Works(p, s) /\ o.pc = "release"
    BY <1>0, <1>4 DEF StopReleases, At
  <2>3. op'[p][s] = NoOp
    BY <1>0, <1>4 DEF StopReleases, At, Go, End, Becomes, Begin, boxHistory
  <2>4. op'[p][s] \in OpRow(s) /\ Proceeds(s, o, op'[p][s])
    <3>1. CASE op'[p][s] = NoOp
      BY <3>1, IdleIsRow DEF Proceeds
    <3> QED
      BY <2>3, <3>1
  <2> QED
    BY <2>1, <2>2, <2>4, QuietKeeps
<1>5. CASE StopInspects(p, s)
  <2>1. Stepped(p, s) /\ UNCHANGED <<command, executed>>
    BY <1>0, <1>5 DEF StopInspects, Stepped, At, Go, End, Becomes, Begin, boxHistory
  <2>2. Works(p, s) /\ o.pc = "stop"
    BY <1>0, <1>5 DEF StopInspects, At
  <2>3. op'[p][s] \in {NoOp,
                       [o EXCEPT !.pc = "confirm"]}
    BY <1>0, <1>5 DEF StopInspects, At, Go, End, Becomes, Begin, boxHistory
  <2>4. op'[p][s] \in OpRow(s) /\ Proceeds(s, o, op'[p][s])
    <3>1. CASE op'[p][s] = NoOp
      BY <3>1, IdleIsRow DEF Proceeds
    <3>2. CASE op'[p][s] = [o EXCEPT !.pc = "confirm"]
      BY <1>0, <2>2, <3>2 DEF OpOK, OpRow, BoxPcs, Before, Bare, Proceeds, NoOp
    <3> QED
      BY <2>3, <3>1, <3>2
  <2> QED
    BY <2>1, <2>2, <2>4, QuietKeeps
<1>6. CASE BeginDestroy(p, s)
  <2>1. Stepped(p, s) /\ UNCHANGED <<command, executed>>
    BY <1>0, <1>6 DEF BeginDestroy, Stepped, At, Go, End, Becomes, Begin, boxHistory
  <2>2. Works(p, s) /\ o.pc = "idle"
    BY <1>6 DEF BeginDestroy, Begin, At
  <2>3. op'[p][s] = [NoOp EXCEPT !.pc = "forget"]
    BY <1>0, <1>6 DEF BeginDestroy, At, Go, End, Becomes, Begin, boxHistory
  <2>4. op'[p][s] \in OpRow(s) /\ Proceeds(s, o, op'[p][s])
    <3>1. CASE op'[p][s] = [NoOp EXCEPT !.pc = "forget"]
      BY <1>0, <1>6, <2>2, <3>1 DEF OpOK, OpRow, BoxPcs, Before, Bare, Proceeds, NoOp, BeginDestroy
    <3> QED
      BY <2>3, <3>1
  <2> QED
    BY <2>1, <2>2, <2>4, QuietKeeps
<1>7. CASE DestroyDrops(p, s)
  <2>1. Stepped(p, s) /\ UNCHANGED <<command, executed>>
    BY <1>0, <1>7 DEF DestroyDrops, Stepped, At, Go, End, Becomes, Begin, boxHistory
  <2>2. Works(p, s) /\ o.pc = "drop"
    BY <1>0, <1>7 DEF DestroyDrops, At
  <2>3. op'[p][s] = NoOp
    BY <1>0, <1>7 DEF DestroyDrops, At, Go, End, Becomes, Begin, boxHistory
  <2>4. op'[p][s] \in OpRow(s) /\ Proceeds(s, o, op'[p][s])
    <3>1. CASE op'[p][s] = NoOp
      BY <3>1, IdleIsRow DEF Proceeds
    <3> QED
      BY <2>3, <3>1
  <2> QED
    BY <2>1, <2>2, <2>4, QuietKeeps
<1> QED
  BY <1>1, <1>2, <1>3, <1>4, <1>5, <1>6, <1>7

(* Exec: the intent is stored before the command is run, which it is once.  *)
LEMMA ExecSteps ==
  ASSUME OpsInv, NEW s \in Sessions, NEW p \in Processes,
         \/ \E q \in ExecIds[s] : BeginExec(p, s, q)
         \/ ExecRuns(p, s)
         \/ ExecCompletes(p, s)
         \/ DestroyForgets(p, s)
  PROVE  OpsInv'
<1>0. /\ CommandsOK(s, command[s], executed[s])
      /\ OpOK(s, op[p][s], command[s], executed[s]) /\ op[p][s] \in OpRow(s)
      /\ op[p][s].pc # "idle" => Works(p, s)
      /\ op[p][s].pc = "idle" => op[p][s].exec = NoExec
      /\ \A r \in Processes :
           r # p /\ op[r][s].exec # NoExec => op[p][s].exec # op[r][s].exec
      /\ NoExec \notin ExecIds[s]
      /\ DOMAIN command = Sessions /\ DOMAIN executed = Sessions
      /\ DOMAIN op = Processes /\ \A r \in Processes : DOMAIN op[r] = Sessions
  BY OpsFacts
<1> DEFINE o == op[p][s]
<1>a. \A r \in Processes : /\ OpOK(s, op[r][s], command[s], executed[s])
                           /\ op[r][s].pc # "idle" => Works(r, s)
  BY DEF OpsInv
<1>1. ASSUME NEW q \in ExecIds[s], BeginExec(p, s, q) PROVE OpsInv'
  <2>1. /\ Stepped(p, s) /\ Works(p, s)
        /\ op'[p][s] = [NoOp EXCEPT !.pc = "reserve", !.exec = q]
        /\ command' = [command EXCEPT ![s][q] = "starting"] /\ executed' = executed
        /\ command[s][q] = "none"
    BY <1>0, <1>1 DEF BeginExec, Begin, Stepped
  <2>2. /\ command'[s] \in [ExecIds[s] -> {"none", "starting", "completed"}]
        /\ command'[s][q] = "starting"
        /\ \A x \in ExecIds[s] : x # q => command'[s][x] = command[s][x]
        /\ DOMAIN command' = Sessions
        /\ \A t \in Sessions : t # s => command'[t] = command[t]
    BY <1>0, <2>1 DEF CommandsOK
  <2>3. CommandsOK(s, command'[s], executed'[s]) /\ executed[s][q] = 0
    BY <1>0, <2>1, <2>2 DEF CommandsOK
  <2>4. OpOK(s, op'[p][s], command'[s], executed'[s]) /\ op'[p][s].exec = q
    <3>1. op'[p][s] \in OpRow(s) /\ op'[p][s].pc = "reserve" /\ op'[p][s].exec = q
      BY <2>1 DEF NoOp, OpRow, BoxPcs
    <3> QED
      BY <2>1, <2>2, <2>3, <3>1 DEF OpOK, Bare
  <2>5. \A r \in Processes : op[r][s].exec # NoExec =>
          /\ op'[p][s].exec # op[r][s].exec
          /\ command'[s][op[r][s].exec] = command[s][op[r][s].exec]
    BY <1>a, <2>1, <2>2, <2>4 DEF OpOK, OpRow
  <2>6. DOMAIN executed' = Sessions /\ \A t \in Sessions : executed'[t] = executed[t]
    BY <1>0, <2>1
  <2> QED
    <3>1. Stepped(p, s) /\ Works(p, s) /\ DOMAIN command' = Sessions
      BY <2>1, <2>2
    <3>2. \A t \in Sessions : t # s => command'[t] = command[t] /\ executed'[t] = executed[t]
      BY <2>2, <2>6
    <3>3. \A r \in Processes : r # p /\ op[r][s].exec # NoExec =>
            /\ op'[p][s].exec # op[r][s].exec
            /\ command'[s][op[r][s].exec] = command[s][op[r][s].exec]
            /\ executed'[s][op[r][s].exec] = executed[s][op[r][s].exec]
      BY <2>5, <2>6
    <3>4. /\ CommandsOK(s, command'[s], executed'[s])
          /\ OpOK(s, op'[p][s], command'[s], executed'[s])
          /\ DOMAIN executed' = Sessions
      BY <2>3, <2>4, <2>6
    <3> QED
      BY <3>1, <3>2, <3>3, <3>4, OpsMove
<1>2. CASE ExecRuns(p, s)
  <2>0. Works(p, s) /\ o.pc = "exec" /\ command' = command
    BY <1>0, <1>2 DEF ExecRuns, At
  <2>a. End(p, s) => Stepped(p, s)
    BY <1>0 DEF Stepped, End
  <2>b. Go(p, s, "complete") => Stepped(p, s)
    BY <1>0 DEF Stepped, Go
  <2>c. ASSUME NEW then, op' = [op EXCEPT ![p][s].pc = "kill", ![p][s].then = then]
        PROVE  Stepped(p, s)
    BY <1>0, <2>c DEF Stepped
  <2>d. Stepped(p, s)
    BY <1>2, <2>0, <2>a, <2>b, <2>c DEF ExecRuns
  <2>1. /\ Stepped(p, s) /\ Works(p, s) /\ o.pc = "exec" /\ command' = command
    BY <2>0, <2>d
  <2>2. CASE End(p, s) /\ UNCHANGED executed
    <3>1. op'[p][s] = NoOp
      BY <1>0, <2>2 DEF End
    <3> QED
      BY <2>1, <2>2, <3>1, IdleIsRow, QuietKeeps DEF Proceeds
  <2>3. CASE /\ executed' = [executed EXCEPT ![s][op[p][s].exec] = @ + 1]
             /\ \/ Go(p, s, "complete")
                \/ \E then \in {"complete", "end"} :
                     op' = [op EXCEPT ![p][s].pc = "kill", ![p][s].then = then]
    <3> PICK q \in ExecIds[s] : q = o.exec
      BY <1>0, <2>1 DEF OpOK, OpRow
    <3>1. /\ executed'[s] = [executed[s] EXCEPT ![q] = @ + 1] /\ executed[s][q] = 0
          /\ DOMAIN executed' = Sessions
          /\ \A t \in Sessions : t # s => executed'[t] = executed[t]
      BY <1>0, <2>1, <2>3 DEF OpOK, Before
    <3>2. /\ executed'[s] \in [ExecIds[s] -> Nat] /\ executed'[s][q] = 1
          /\ \A x \in ExecIds[s] : x # q => executed'[s][x] = executed[s][x]
      BY <1>0, <3>1 DEF CommandsOK
    <3>3. /\ op'[p][s] \in OpRow(s) /\ op'[p][s].pc \in {"complete", "kill"}
          /\ op'[p][s].exec = q
      <4>1. CASE Go(p, s, "complete")
        <5>1. op'[p][s] = [o EXCEPT !.pc = "complete"]
          BY <1>0, <4>1 DEF Go
        <5> QED
          BY <1>0, <5>1 DEF OpRow, BoxPcs
      <4>2. ASSUME NEW then \in {"complete", "end"},
                   op' = [op EXCEPT ![p][s].pc = "kill", ![p][s].then = then]
            PROVE  op'[p][s] \in OpRow(s) /\ op'[p][s].pc = "kill" /\ op'[p][s].exec = q
        <5>1. op'[p][s] = [[o EXCEPT !.pc = "kill"] EXCEPT !.then = then]
          BY <1>0, <4>2
        <5> QED
          BY <1>0, <5>1 DEF OpRow, BoxPcs
      <4> QED
        BY <2>3, <4>1, <4>2
    <3>4. command[s][q] # "none" /\ q # NoExec
      BY <1>0, <2>1 DEF OpOK
    <3>5. CommandsOK(s, command[s], executed'[s])
      BY <1>0, <3>2, <3>4 DEF CommandsOK
    <3>6. OpOK(s, op'[p][s], command[s], executed'[s])
      BY <3>3, <3>4 DEF OpOK, Bare, Before
    <3>7. \A r \in Processes : r # p /\ op[r][s].exec # NoExec =>
            /\ op'[p][s].exec # op[r][s].exec
            /\ executed'[s][op[r][s].exec] = executed[s][op[r][s].exec]
      BY <1>0, <1>a, <3>2, <3>3 DEF OpOK, OpRow
    <3>8. DOMAIN command' = Sessions /\ \A t \in Sessions : command'[t] = command[t]
      BY <1>0, <2>1
    <3> QED
      <4>1. Stepped(p, s) /\ Works(p, s) /\ DOMAIN executed' = Sessions
        BY <2>1, <3>1
      <4>2. \A t \in Sessions : t # s => command'[t] = command[t] /\ executed'[t] = executed[t]
        BY <3>1, <3>8
      <4>3. CommandsOK(s, command'[s], executed'[s]) /\ OpOK(s, op'[p][s], command'[s], executed'[s])
        BY <3>5, <3>6, <3>8
      <4>4. \A r \in Processes : r # p /\ op[r][s].exec # NoExec =>
              /\ op'[p][s].exec # op[r][s].exec
              /\ command'[s][op[r][s].exec] = command[s][op[r][s].exec]
              /\ executed'[s][op[r][s].exec] = executed[s][op[r][s].exec]
        BY <3>7, <3>8
      <4> QED
        BY <3>8, <4>1, <4>2, <4>3, <4>4, OpsMove
  <2> QED
    BY <1>2, <2>2, <2>3 DEF ExecRuns
<1>3. CASE ExecCompletes(p, s)
  <2>1. /\ Stepped(p, s) /\ Works(p, s) /\ op'[p][s] = NoOp /\ executed' = executed
        /\ command' = [command EXCEPT ![s][o.exec] = "completed"]
    BY <1>0, <1>3 DEF ExecCompletes, Stepped, At, End, boxHistory
  <2>2. /\ DOMAIN command' = Sessions
        /\ \A t \in Sessions : t # s => command'[t] = command[t]
        /\ command'[s] = [command[s] EXCEPT ![o.exec] = "completed"]
    BY <1>0, <2>1
  <2>3. /\ command'[s] \in [ExecIds[s] -> {"none", "starting", "completed"}]
        /\ \A x \in ExecIds[s] : \/ command'[s][x] = command[s][x]
                                 \/ x = o.exec /\ command'[s][x] = "completed"
    BY <1>0, <2>2 DEF CommandsOK
  <2>4. CommandsOK(s, command'[s], executed'[s])
    BY <1>0, <2>1, <2>3 DEF CommandsOK
  <2>5. \A r \in Processes : r # p /\ op[r][s].exec # NoExec =>
          command'[s][op[r][s].exec] = command[s][op[r][s].exec]
    BY <1>0, <1>a, <2>3 DEF OpOK, OpRow
  <2>6. OpOK(s, op'[p][s], command'[s], executed'[s]) /\ op'[p][s].exec = NoExec
    BY <2>1, IdleIsOK, IdleIsRow
  <2> QED
    <3>1. Stepped(p, s) /\ Works(p, s) /\ DOMAIN command' = Sessions /\ DOMAIN executed' = Sessions
      BY <1>0, <2>1, <2>2
    <3>2. \A t \in Sessions : t # s => command'[t] = command[t] /\ executed'[t] = executed[t]
      BY <2>1, <2>2
    <3>3. \A r \in Processes : r # p /\ op[r][s].exec # NoExec =>
            /\ op'[p][s].exec # op[r][s].exec
            /\ command'[s][op[r][s].exec] = command[s][op[r][s].exec]
            /\ executed'[s][op[r][s].exec] = executed[s][op[r][s].exec]
      BY <2>1, <2>5, <2>6
    <3> QED
      BY <2>4, <2>6, <3>1, <3>2, <3>3, OpsMove
<1>4. CASE DestroyForgets(p, s)
  <2>1. /\ Stepped(p, s) /\ Works(p, s) /\ o.pc = "forget" /\ op'[p][s] = [o EXCEPT !.pc = "drop"]
        /\ DOMAIN command' = Sessions /\ DOMAIN executed' = Sessions
        /\ \A t \in Sessions : t # s => command'[t] = command[t] /\ executed'[t] = executed[t]
        /\ command'[s] = [q \in ExecIds[s] |-> "none"] /\ executed'[s] = [q \in ExecIds[s] |-> 0]
    BY <1>0, <1>4 DEF DestroyForgets, Stepped, At, Go
  <2>2. CommandsOK(s, command'[s], executed'[s])
    BY <2>1 DEF CommandsOK
  <2>3. OpOK(s, op'[p][s], command'[s], executed'[s]) /\ op'[p][s].exec = NoExec
    BY <1>0, <2>1 DEF OpOK, OpRow, BoxPcs, Bare
  <2>4. \A r \in Processes : r # p => op[r][s].exec = NoExec
    BY <1>0, <1>a, <2>1 DEF Works, OpOK, NoOp
  <2> QED
    BY <2>1, <2>2, <2>3, <2>4, OpsMove
<1> QED
  BY <1>1, <1>2, <1>3, <1>4

(* A command's row is pruned when nobody runs it; a process that dies        *)
(* forgets what it was at; the rest of the system leaves all of this alone. *)
LEMMA OutsideLeavesOps ==
  ASSUME OpsInv,
         \/ \E s \in Sessions : AdmitClaim(s) \/ ContainerExits(s) \/ ContainerRemoved(s)
         \/ \E s \in Sessions : \E q \in ExecIds[s] : PruneCommand(s, q)
         \/ \E p \in Processes : ProcessDies(p)
         \/ UNCHANGED boxVars
  PROVE  OpsInv'
<1>1. CASE \/ \E s \in Sessions : AdmitClaim(s) \/ ContainerExits(s) \/ ContainerRemoved(s)
           \/ UNCHANGED boxVars
  <2>1. UNCHANGED <<op, command, executed>>
    BY <1>1 DEF AdmitClaim, ContainerExits, ContainerRemoved, boxVars, boxHistory
  <2> QED
    BY <2>1 DEF OpsInv, CommandsOK, OpOK
<1>2. ASSUME NEW s \in Sessions, NEW q \in ExecIds[s], PruneCommand(s, q) PROVE OpsInv'
  <2>1. /\ op' = op /\ \A p \in Processes : op[p][s].exec # q
        /\ DOMAIN command' = Sessions /\ DOMAIN executed' = Sessions
        /\ command'[s] = [command[s] EXCEPT ![q] = "none"]
        /\ executed'[s] = [executed[s] EXCEPT ![q] = 0]
        /\ \A t \in Sessions : t # s => command'[t] = command[t] /\ executed'[t] = executed[t]
    BY <1>2 DEF PruneCommand, OpsInv
  <2>2. CommandsOK(s, command[s], executed[s])
    BY DEF OpsInv
  <2>3. /\ command'[s] \in [ExecIds[s] -> {"none", "starting", "completed"}]
        /\ executed'[s] \in [ExecIds[s] -> Nat]
        /\ command'[s][q] = "none" /\ executed'[s][q] = 0
        /\ \A x \in ExecIds[s] : x # q => /\ command'[s][x] = command[s][x]
                                         /\ executed'[s][x] = executed[s][x]
    BY <2>1, <2>2 DEF CommandsOK
  <2>4. \A t \in Sessions : CommandsOK(t, command'[t], executed'[t])
    <3>1. CommandsOK(s, command'[s], executed'[s])
      BY <2>2, <2>3 DEF CommandsOK
    <3>2. \A t \in Sessions : CommandsOK(t, command[t], executed[t])
      BY DEF OpsInv
    <3> QED
      BY <2>1, <3>1, <3>2
  <2>5. ASSUME NEW t \in Sessions, NEW p \in Processes
        PROVE  /\ OpOK(t, op'[p][t], command'[t], executed'[t])
               /\ op'[p][t].pc # "idle" => Works(p, t)
    <3>1. OpOK(t, op[p][t], command[t], executed[t]) /\ (op[p][t].pc # "idle" => Works(p, t))
      BY DEF OpsInv
    <3>2. t = s => op[p][t].exec \in (ExecIds[s] \cup {NoExec}) \ {q} \/ op[p][t].exec = NoExec
      BY <2>1, <3>1 DEF OpOK, OpRow
    <3>3. CASE t = s
      BY <2>1, <2>3, <3>1, <3>2, <3>3 DEF OpOK
    <3>4. CASE t # s
      BY <2>1, <3>1, <3>4
    <3> QED
      BY <3>3, <3>4
  <2> QED
    BY <2>1, <2>4, <2>5 DEF OpsInv
<1>3. ASSUME NEW p \in Processes, ProcessDies(p) PROVE OpsInv'
  <2>1. /\ UNCHANGED <<command, executed>>
        /\ DOMAIN op' = Processes /\ \A r \in Processes : DOMAIN op'[r] = Sessions
        /\ \A r \in Processes, t \in Sessions : op'[r][t] = IF r = p THEN NoOp ELSE op[r][t]
    BY <1>3 DEF ProcessDies, OpsInv, boxHistory
  <2>2. ASSUME NEW t \in Sessions, NEW r \in Processes
        PROVE  /\ OpOK(t, op'[r][t], command[t], executed[t])
               /\ op'[r][t].pc # "idle" => Works(r, t)
    <3>1. OpOK(t, op[r][t], command[t], executed[t]) /\ (op[r][t].pc # "idle" => Works(r, t))
      BY DEF OpsInv
    <3>2. r = p => OpOK(t, op'[r][t], command[t], executed[t]) /\ op'[r][t].pc = "idle"
      BY <2>1, IdleIsOK, IdleIsRow
    <3>3. r # p => op'[r][t] = op[r][t]
      BY <2>1
    <3> QED
      BY <3>1, <3>2, <3>3
  <2>3. ASSUME NEW t \in Sessions, NEW r \in Processes, NEW q \in Processes,
               op'[r][t].exec # NoExec, op'[r][t].exec = op'[q][t].exec
        PROVE  r = q
    <3>1. r # p /\ q # p
      BY <2>1, <2>3 DEF NoOp
    <3>2. op'[r][t] = op[r][t] /\ op'[q][t] = op[q][t]
      BY <2>1, <3>1
    <3> QED
      BY <2>3, <3>2 DEF OpsInv
  <2>4. \A t \in Sessions : CommandsOK(t, command[t], executed[t])
    BY DEF OpsInv
  <2>5. DOMAIN command = Sessions /\ DOMAIN executed = Sessions
    BY DEF OpsInv
  <2> QED
    BY <2>1, <2>2, <2>3, <2>4, <2>5 DEF OpsInv
<1> QED
  BY <1>1, <1>2, <1>3

(* So it is at the start, and after every step.                             *)
LEMMA OpsStart == BoxInit => OpsInv
<1> SUFFICES ASSUME BoxInit PROVE OpsInv
  OBVIOUS
<1>1. \A s \in Sessions : CommandsOK(s, command[s], executed[s])
  BY DEF BoxInit, CommandsOK
<1>2. ASSUME NEW s \in Sessions, NEW p \in Processes
      PROVE  op[p][s] = NoOp /\ OpOK(s, op[p][s], command[s], executed[s])
  BY IdleIsOK DEF BoxInit
<1>3. NoOp.pc = "idle" /\ NoOp.exec = NoExec
  BY DEF NoOp
<1>4. /\ DOMAIN command = Sessions /\ DOMAIN executed = Sessions
      /\ DOMAIN op = Processes /\ \A p \in Processes : DOMAIN op[p] = Sessions
  BY DEF BoxInit
<1> QED
  BY <1>1, <1>2, <1>3, <1>4 DEF OpsInv
LEMMA OpsKept == BoxTyped /\ OpsInv /\ [BoxNext]_boxVars => OpsInv'
<1> SUFFICES ASSUME BoxTyped, OpsInv, [BoxNext]_boxVars PROVE OpsInv'
  OBVIOUS
<1>1. ASSUME NEW p \in Processes, NEW s \in Sessions, Step(p, s) PROVE OpsInv'
  <2>1. CASE \/ \E q \in ExecIds[s] : BeginExec(p, s, q)
             \/ ExecRuns(p, s) \/ ExecCompletes(p, s) \/ DestroyForgets(p, s)
    BY <2>1, ExecSteps
  <2> QED
    BY <1>1, <2>1, EnsureStepsQuietly, StopStepsQuietly DEF Step
<1> QED
  BY <1>1, OutsideLeavesOps DEF BoxNext

(* A command with a request id is started at most once by the engine,       *)
(* whichever replicas are asked for it and wherever one dies: its intent    *)
(* is stored before, and found by every later attempt (Exec).               *)
THEOREM CommandsStartOnce == BoxSpec => []ExecOnce
<1>1. OpsInv => ExecOnce
  BY DEF OpsInv, CommandsOK, ExecOnce
<1>2. BoxInit => BoxTyped
  BY DEF BoxInit, BoxTyped, BoxRow, BoxStates
<1> QED
  BY <1>1, <1>2, TypedSteps, OpsStart, OpsKept, PTL DEF BoxSpec

(* Capacity. Of a session no two processes have worked on at one time: a    *)
(* running container is held; who goes on to use it has found it held, and  *)
(* who releases or deletes the row has found that nothing runs.             *)
HeldStates == BoxStates \ {"absent", "stopped"}
RunsHeld(b, k) == k = "running" => b.backend /\ b.state \in HeldStates
PlaceOK(pc, b, k) ==
  /\ pc \in {"load", "inspect", "create", "adopt", "start", "mark"} => b.state \in HeldStates
  /\ pc = "start" => b.backend
  /\ pc = "release" => k # "running"
  /\ pc \in {"forget", "drop"} => k = "none"
HeldAlone == Held \ shared
Admitted == Cardinality(HeldAlone) <= MaxRunning /\ MemorySum(HeldAlone) <= MemoryBudget
CapacityInv ==
  /\ \A s \in Sessions \ shared :
       /\ RunsHeld(box[s], container[s])
       /\ \A p \in Processes : PlaceOK(op[p][s].pc, box[s], container[s])
       /\ \A p, r \in Processes : op[p][s].pc # "idle" /\ op[r][s].pc # "idle" => p = r
  /\ Admitted

(* MemorySum is the sum the lemmas above speak of.                          *)
LEMMA MemoryIsTotal ==
  ASSUME NEW S PROVE MemorySum(S) = Total(MemoryOf, S)
BY DEF MemorySum, MapThenSumSet, MapThenFoldSet, Total, SumTo, IsSum, Chosen

(* What fits may be held as well, and what is held may be less.             *)
LEMMA AdmissionKeeps ==
  ASSUME Admitted, NEW s \in Sessions, HeldAlone' \subseteq HeldAlone \cup {s},
         s \in HeldAlone' => s \in HeldAlone \/ Fits(s)
  PROVE  Admitted'
<1>1. /\ HeldAlone \subseteq Sessions /\ IsFiniteSet(Sessions) /\ IsFiniteSet(HeldAlone)
      /\ MaxRunning \in Nat /\ MemoryBudget \in Nat
      /\ \A x \in Sessions : MemoryOf[x] \in Nat
  <2>1. HeldAlone \subseteq Sessions /\ IsFiniteSet(Sessions)
    BY SandboxAssumption DEF HeldAlone, Held
  <2> QED
    BY <2>1, SandboxAssumption, FS_Subset
<1>2. CASE HeldAlone' \subseteq HeldAlone
  <2>1. Cardinality(HeldAlone') <= Cardinality(HeldAlone) /\ Cardinality(HeldAlone') \in Nat
        /\ Cardinality(HeldAlone) \in Nat
    BY <1>1, <1>2, FS_Subset, FS_CardinalityType
  <2>2. /\ Total(MemoryOf, HeldAlone') \in Nat /\ Total(MemoryOf, HeldAlone) \in Nat
        /\ Total(MemoryOf, HeldAlone') <= Total(MemoryOf, HeldAlone)
    <3>1. \A x \in HeldAlone : MemoryOf[x] \in Nat
      BY <1>1
    <3> QED
      BY <1>1, <1>2, <3>1, SumCompares
  <2>3. Admitted' <=> Cardinality(HeldAlone') <= MaxRunning /\ MemorySum(HeldAlone') <= MemoryBudget
    BY DEF Admitted
  <2> QED
    BY <1>1, <2>1, <2>2, <2>3, MemoryIsTotal DEF Admitted
<1>3. CASE s \in HeldAlone' /\ s \notin HeldAlone
  <2> DEFINE more == HeldAlone \cup {s}
  <2>1. /\ IsFiniteSet(more) /\ s \in more /\ more \ {s} = HeldAlone /\ more \subseteq Sessions
        /\ HeldAlone' \subseteq more
    BY <1>1, <1>3, FS_AddElement
  <2>2. Cardinality(more) = Cardinality(HeldAlone) + 1 /\ Cardinality(HeldAlone) \in Nat
    BY <1>1, <1>3, FS_AddElement, FS_CardinalityType
  <2> HIDE DEF more
  <2>3. \A x \in more : MemoryOf[x] \in Nat
    BY <1>1, <2>1
  <2>4. Cardinality(HeldAlone') <= Cardinality(more) /\ Cardinality(HeldAlone') \in Nat
    BY <2>1, FS_Subset, FS_CardinalityType
  <2>5. /\ Total(MemoryOf, HeldAlone') \in Nat /\ Total(MemoryOf, more) \in Nat
        /\ Total(MemoryOf, HeldAlone') <= Total(MemoryOf, more)
    BY <2>1, <2>3, SumCompares
  <2>6. Total(MemoryOf, more) = MemoryOf[s] + Total(MemoryOf, more \ {s})
    BY <2>1, <2>3, SumStep
  <2>7. Total(MemoryOf, HeldAlone) \in Nat
    <3>1. \A x \in HeldAlone : MemoryOf[x] \in Nat
      BY <1>1
    <3> QED
      BY <3>1, <1>1, SumStep
  <2>8. /\ Cardinality(HeldAlone) < MaxRunning
        /\ Total(MemoryOf, HeldAlone) + MemoryOf[s] <= MemoryBudget
    <3>1. Cardinality(Held) < MaxRunning /\ Total(MemoryOf, Held) + MemoryOf[s] <= MemoryBudget
      BY <1>3, MemoryIsTotal DEF Fits
    <3>2. HeldAlone \subseteq Held /\ IsFiniteSet(Held) /\ \A x \in Held : MemoryOf[x] \in Nat
      BY <1>1, FS_Subset DEF HeldAlone, Held
    <3>3. /\ Cardinality(HeldAlone) <= Cardinality(Held)
          /\ Cardinality(HeldAlone) \in Nat /\ Cardinality(Held) \in Nat
      BY <3>2, FS_Subset, FS_CardinalityType
    <3>4. /\ Total(MemoryOf, HeldAlone) <= Total(MemoryOf, Held)
          /\ Total(MemoryOf, HeldAlone) \in Nat /\ Total(MemoryOf, Held) \in Nat
      BY <3>2, SumCompares
    <3>5. MemoryOf[s] \in Nat
      BY <1>1
    <3> QED
      BY <1>1, <3>1, <3>3, <3>4, <3>5
  <2>9. Admitted' <=> Cardinality(HeldAlone') <= MaxRunning /\ MemorySum(HeldAlone') <= MemoryBudget
    BY DEF Admitted
  <2>10. MemoryOf[s] \in Nat
    BY <1>1
  <2>11. Cardinality(HeldAlone') <= MaxRunning
    BY <1>1, <2>2, <2>4, <2>8
  <2>12. Total(MemoryOf, HeldAlone') <= MemoryBudget
    <3>1. Total(MemoryOf, more) = MemoryOf[s] + Total(MemoryOf, HeldAlone)
      BY <2>1, <2>6
    <3>2. Total(MemoryOf, HeldAlone) + MemoryOf[s] <= MemoryBudget
      BY <2>8
    <3> QED
      BY <1>1, <3>1, <3>2, <2>5, <2>7, <2>10
  <2> QED
    BY <2>9, <2>11, <2>12, MemoryIsTotal
<1> QED
  BY <1>2, <1>3

(* A process takes a step for a session. If no other has worked on it then, *)
(* what the step leaves fits together, and is held only if it was admitted. *)
Changes(p, s) ==
  /\ Stepped(p, s) /\ shared \subseteq shared' /\ shared' \subseteq shared \cup {s}
  /\ \A t \in Sessions : t # s => box'[t] = box[t] /\ container'[t] = container[t]
Alone(p, s) == s \notin shared /\ \A r \in Processes : r # p => op[r][s].pc = "idle"
Fitting(p, s) ==
  /\ RunsHeld(box'[s], container'[s]) /\ PlaceOK(op'[p][s].pc, box'[s], container'[s])
  /\ box'[s].state \in HeldStates => s \in Held \/ Fits(s)

LEMMA CapacityMoves ==
  ASSUME BoxTyped, BoxTyped', CapacityInv, NEW s \in Sessions, NEW p \in Processes,
         Changes(p, s), s \notin shared' => Alone(p, s) /\ Fitting(p, s)
  PROVE  CapacityInv'
<1>1. Admitted'
  <2>1. \A t \in Sessions : box[t].state \in BoxStates /\ box'[t].state \in BoxStates
    BY DEF BoxTyped, BoxRow
  <2>2. \A t \in Sessions : t # s => box'[t] = box[t]
    BY DEF Changes
  <2>3. HeldAlone' \subseteq HeldAlone \cup {s}
    BY <2>2 DEF HeldAlone, Held, Changes
  <2>4. s \in HeldAlone' => s \in HeldAlone \/ Fits(s)
    <3> SUFFICES ASSUME s \in HeldAlone' PROVE s \in HeldAlone \/ Fits(s)
      OBVIOUS
    <3>1. s \notin shared' /\ box'[s].state \in HeldStates
      BY <2>1 DEF HeldAlone, Held, HeldStates
    <3>2. s \in Held \/ Fits(s)
      BY <3>1 DEF Fitting
    <3> QED
      BY <3>1, <3>2 DEF Alone, HeldAlone
  <2> QED
    BY <2>3, <2>4, AdmissionKeeps DEF CapacityInv
<1>2. ASSUME NEW t \in Sessions \ shared'
      PROVE  /\ RunsHeld(box'[t], container'[t])
             /\ \A r \in Processes : PlaceOK(op'[r][t].pc, box'[t], container'[t])
             /\ \A q, r \in Processes : op'[q][t].pc # "idle" /\ op'[r][t].pc # "idle" => q = r
  <2>1. CASE t # s
    <3>1. /\ box'[t] = box[t] /\ container'[t] = container[t] /\ t \notin shared
          /\ \A r \in Processes : op'[r][t] = op[r][t]
      BY <1>2, <2>1 DEF Changes, Stepped
    <3> QED
      BY <3>1 DEF CapacityInv
  <2>2. CASE t = s
    <3>1. Alone(p, s) /\ Fitting(p, s)
      BY <1>2, <2>2
    <3>2. \A r \in Processes : r # p => op'[r][s].pc = "idle"
      BY <3>1 DEF Changes, Stepped, Alone
    <3>3. \A r \in Processes : PlaceOK(op'[r][s].pc, box'[s], container'[s])
      BY <3>1, <3>2 DEF Fitting, PlaceOK
    <3> QED
      BY <2>2, <3>1, <3>2, <3>3 DEF Fitting
  <2> QED
    BY <2>1, <2>2
<1>3. CapacityInv' <=>
        /\ \A t \in Sessions \ shared' :
             /\ RunsHeld(box'[t], container'[t])
             /\ \A r \in Processes : PlaceOK(op'[r][t].pc, box'[t], container'[t])
             /\ \A q, r \in Processes : op'[q][t].pc # "idle" /\ op'[r][t].pc # "idle" => q = r
        /\ Admitted'
  BY DEF CapacityInv, RunsHeld, PlaceOK
<1> QED
  BY <1>1, <1>2, <1>3

(* Before a step: who is at work on a session that is not shared is alone.  *)
LEMMA CapacityFacts ==
  ASSUME BoxTyped, OpsInv, CapacityInv, NEW s \in Sessions, NEW p \in Processes
  PROVE  /\ DOMAIN op = Processes /\ \A r \in Processes : DOMAIN op[r] = Sessions
         /\ op[p][s] \in OpRow(s) /\ box[s] \in BoxRow
         /\ container[s] \in {"none", "created", "running"}
         /\ DOMAIN box = Sessions /\ DOMAIN container = Sessions
         /\ s \in Held <=> box[s].state \in HeldStates
         /\ s \notin shared => /\ RunsHeld(box[s], container[s])
                               /\ PlaceOK(op[p][s].pc, box[s], container[s])
                               /\ op[p][s].pc # "idle" => Alone(p, s)
<1>1. op[p][s] \in OpRow(s) /\ DOMAIN op = Processes /\ \A r \in Processes : DOMAIN op[r] = Sessions
  BY DEF OpsInv, OpOK
<1>2. /\ box[s] \in BoxRow /\ container[s] \in {"none", "created", "running"}
      /\ DOMAIN box = Sessions /\ DOMAIN container = Sessions
  BY DEF BoxTyped
<1>3. s \in Held <=> box[s].state \in HeldStates
  BY <1>2 DEF Held, HeldStates, BoxRow
<1>4. s \notin shared => /\ RunsHeld(box[s], container[s])
                         /\ PlaceOK(op[p][s].pc, box[s], container[s])
                         /\ op[p][s].pc # "idle" => Alone(p, s)
  BY DEF CapacityInv, Alone
<1> QED
  BY <1>1, <1>2, <1>3, <1>4

(* Ensure goes on with what is held.                                        *)
LEMMA EnsureHolds ==
  ASSUME BoxTyped, BoxTyped', OpsInv, CapacityInv, NEW s \in Sessions, NEW p \in Processes,
         \/ BeginEnsure(p, s)
         \/ EnsureReserves(p, s)
         \/ EnsureLoads(p, s)
         \/ EnsureInspects(p, s)
         \/ EnsureCreates(p, s)
         \/ EnsureAdopts(p, s)
         \/ EnsureStarts(p, s)
         \/ EnsureMarks(p, s)
  PROVE  CapacityInv'
<1>0. /\ DOMAIN op = Processes /\ \A r \in Processes : DOMAIN op[r] = Sessions
      /\ op[p][s] \in OpRow(s) /\ box[s] \in BoxRow
      /\ container[s] \in {"none", "created", "running"}
      /\ DOMAIN box = Sessions /\ DOMAIN container = Sessions
      /\ s \in Held <=> box[s].state \in HeldStates
      /\ s \notin shared => /\ RunsHeld(box[s], container[s])
                            /\ PlaceOK(op[p][s].pc, box[s], container[s])
                            /\ op[p][s].pc # "idle" => Alone(p, s)
  BY CapacityFacts
<1> DEFINE o == op[p][s]
<1>o. NoOp.pc = "idle" /\ \A x : [o EXCEPT !.pc = x].pc = x
  BY <1>0 DEF NoOp, OpRow
<1>1. CASE BeginEnsure(p, s)
  <2>1. Changes(p, s)
    BY <1>0, <1>1 DEF BeginEnsure, Changes, Stepped, At, Go, End, Becomes, Begin, Reserve, Refused, boxHistory
  <2>2. s \notin shared' => Alone(p, s)
    BY <1>1 DEF BeginEnsure, Begin, At, Alone
  <2>3. /\ op'[p][s].pc = "reserve"
        /\ box'[s] = box[s] /\ container'[s] = container[s]
    BY <1>0, <1>1 DEF BeginEnsure, NoOp, OpRow, At, Go, End, Becomes, Begin, Reserve, Refused, boxHistory
  <2>4. s \notin shared' => Fitting(p, s)
    <3> SUFFICES ASSUME s \notin shared' PROVE Fitting(p, s)
      OBVIOUS
    <3>0. RunsHeld(box[s], container[s]) /\ PlaceOK(o.pc, box[s], container[s])
      BY <1>0, <2>2 DEF Alone
    <3>1. CASE /\ op'[p][s].pc = "reserve"
               /\ box'[s] = box[s] /\ container'[s] = container[s]
      BY <1>0, <3>0, <3>1 DEF Fitting, RunsHeld, PlaceOK, BoxRow, BoxStates, HeldStates
    <3> QED
      BY <2>3, <3>1
  <2> QED
    BY <2>1, <2>2, <2>4, CapacityMoves
<1>2. CASE EnsureReserves(p, s)
  <2>1. Changes(p, s)
    BY <1>0, <1>2 DEF EnsureReserves, Changes, Stepped, At, Go, End, Becomes, Begin, Reserve, Refused, boxHistory
  <2>2. s \notin shared' => Alone(p, s) /\ o.pc = "reserve"
    BY <1>0, <1>2 DEF EnsureReserves, At, boxHistory
  <2>3. \/ /\ s \in Held /\ op'[p][s].pc = "load"
           /\ box'[s] = box[s] /\ container'[s] = container[s]
        \/ /\ Fits(s) /\ op'[p][s].pc = "load"
           /\ box'[s] = [box[s] EXCEPT !.state = "reserved"] /\ container'[s] = container[s]
        \/ /\ op'[p][s].pc = "idle"
           /\ box'[s] = box[s] /\ container'[s] = container[s]
    BY <1>0, <1>2 DEF EnsureReserves, NoOp, OpRow, At, Go, End, Becomes, Begin, Reserve, Refused, boxHistory
  <2>4. s \notin shared' => Fitting(p, s)
    <3> SUFFICES ASSUME s \notin shared' PROVE Fitting(p, s)
      OBVIOUS
    <3>0. RunsHeld(box[s], container[s]) /\ PlaceOK(o.pc, box[s], container[s]) /\ o.pc = "reserve"
      BY <1>0, <2>2 DEF Alone
    <3>1. CASE /\ s \in Held /\ op'[p][s].pc = "load"
               /\ box'[s] = box[s] /\ container'[s] = container[s]
      BY <1>0, <3>0, <3>1 DEF Fitting, RunsHeld, PlaceOK, BoxRow, BoxStates, HeldStates
    <3>2. CASE /\ Fits(s) /\ op'[p][s].pc = "load"
               /\ box'[s] = [box[s] EXCEPT !.state = "reserved"] /\ container'[s] = container[s]
      BY <1>0, <3>0, <3>2 DEF Fitting, RunsHeld, PlaceOK, BoxRow, BoxStates, HeldStates
    <3>3. CASE /\ op'[p][s].pc = "idle"
               /\ box'[s] = box[s] /\ container'[s] = container[s]
      BY <1>0, <3>0, <3>3 DEF Fitting, RunsHeld, PlaceOK, BoxRow, BoxStates, HeldStates
    <3> QED
      BY <2>3, <3>1, <3>2, <3>3
  <2> QED
    BY <2>1, <2>2, <2>4, CapacityMoves
<1>3. CASE EnsureLoads(p, s)
  <2>1. Changes(p, s)
    BY <1>0, <1>3 DEF EnsureLoads, Changes, Stepped, At, Go, End, Becomes, Begin, Reserve, Refused, boxHistory
  <2>2. s \notin shared' => Alone(p, s) /\ o.pc = "load"
    BY <1>0, <1>3 DEF EnsureLoads, At, boxHistory
  <2>3. /\ op'[p][s].pc = "inspect"
        /\ box'[s] = box[s] /\ container'[s] = container[s]
    BY <1>0, <1>3 DEF EnsureLoads, NoOp, OpRow, At, Go, End, Becomes, Begin, Reserve, Refused, boxHistory
  <2>4. s \notin shared' => Fitting(p, s)
    <3> SUFFICES ASSUME s \notin shared' PROVE Fitting(p, s)
      OBVIOUS
    <3>0. RunsHeld(box[s], container[s]) /\ PlaceOK(o.pc, box[s], container[s]) /\ o.pc = "load"
      BY <1>0, <2>2 DEF Alone
    <3>1. CASE /\ op'[p][s].pc = "inspect"
               /\ box'[s] = box[s] /\ container'[s] = container[s]
      BY <1>0, <3>0, <3>1 DEF Fitting, RunsHeld, PlaceOK, BoxRow, BoxStates, HeldStates
    <3> QED
      BY <2>3, <3>1
  <2> QED
    BY <2>1, <2>2, <2>4, CapacityMoves
<1>4. CASE EnsureInspects(p, s)
  <2>1. Changes(p, s)
    BY <1>0, <1>4 DEF EnsureInspects, Changes, Stepped, At, Go, End, Becomes, Begin, Reserve, Refused, boxHistory
  <2>2. s \notin shared' => Alone(p, s) /\ o.pc = "inspect"
    BY <1>0, <1>4 DEF EnsureInspects, At, boxHistory
  <2>3. \/ /\ container[s] = "running" /\ op'[p][s].pc = "mark"
           /\ box'[s] = [box[s] EXCEPT !.backend = TRUE] /\ container'[s] = container[s]
        \/ /\ container[s] = "created" /\ op'[p][s].pc = "adopt"
           /\ box'[s] = box[s] /\ container'[s] = container[s]
        \/ /\ op'[p][s].pc = "idle"
           /\ box'[s] = box[s] /\ container'[s] = container[s]
        \/ /\ container[s] = "none" /\ op'[p][s].pc = "create"
           /\ box'[s] = [box[s] EXCEPT !.state = "creating"] /\ container'[s] = container[s]
    <3>1. CASE container[s] = "running"
      <4>1. op'[p][s] = [o EXCEPT !.pc = "mark"] /\ box' = [box EXCEPT ![s].backend = TRUE]
        BY <1>0, <1>4, <3>1 DEF EnsureInspects, Go
      <4> QED
        BY <1>0, <1>o, <1>4, <3>1, <4>1 DEF EnsureInspects
    <3>2. CASE container[s] = "created"
      <4>1. op'[p][s] = [o EXCEPT !.pc = "adopt"] /\ box' = box
        BY <1>0, <1>4, <3>2 DEF EnsureInspects, Go
      <4> QED
        BY <1>0, <1>o, <1>4, <3>2, <4>1 DEF EnsureInspects
    <3>3. CASE container[s] = "none"
      <4>1. \/ op'[p][s] = NoOp /\ box' = box
            \/ op'[p][s] = [o EXCEPT !.pc = "create"] /\ box' = [box EXCEPT ![s].state = "creating"]
        <5>1. CASE o.known
          BY <1>0, <1>4, <3>3, <5>1 DEF EnsureInspects, End
        <5>2. CASE ~o.known
          BY <1>0, <1>4, <3>3, <5>2 DEF EnsureInspects, Go, Becomes
        <5> QED
          BY <5>1, <5>2
      <4>2. container' = container
        BY <1>4 DEF EnsureInspects
      <4> QED
        BY <1>0, <1>o, <3>3, <4>1, <4>2
    <3> QED
      BY <1>0, <3>1, <3>2, <3>3
  <2>4. s \notin shared' => Fitting(p, s)
    <3> SUFFICES ASSUME s \notin shared' PROVE Fitting(p, s)
      OBVIOUS
    <3>0. RunsHeld(box[s], container[s]) /\ PlaceOK(o.pc, box[s], container[s]) /\ o.pc = "inspect"
      BY <1>0, <2>2 DEF Alone
    <3>1. CASE /\ container[s] = "running" /\ op'[p][s].pc = "mark"
               /\ box'[s] = [box[s] EXCEPT !.backend = TRUE] /\ container'[s] = container[s]
      BY <1>0, <3>0, <3>1 DEF Fitting, RunsHeld, PlaceOK, BoxRow, BoxStates, HeldStates
    <3>2. CASE /\ container[s] = "created" /\ op'[p][s].pc = "adopt"
               /\ box'[s] = box[s] /\ container'[s] = container[s]
      BY <1>0, <3>0, <3>2 DEF Fitting, RunsHeld, PlaceOK, BoxRow, BoxStates, HeldStates
    <3>3. CASE /\ op'[p][s].pc = "idle"
               /\ box'[s] = box[s] /\ container'[s] = container[s]
      BY <1>0, <3>0, <3>3 DEF Fitting, RunsHeld, PlaceOK, BoxRow, BoxStates, HeldStates
    <3>4. CASE /\ container[s] = "none" /\ op'[p][s].pc = "create"
               /\ box'[s] = [box[s] EXCEPT !.state = "creating"] /\ container'[s] = container[s]
      BY <1>0, <3>0, <3>4 DEF Fitting, RunsHeld, PlaceOK, BoxRow, BoxStates, HeldStates
    <3> QED
      BY <2>3, <3>1, <3>2, <3>3, <3>4
  <2> QED
    BY <2>1, <2>2, <2>4, CapacityMoves
<1>5. CASE EnsureCreates(p, s)
  <2>1. Changes(p, s)
    BY <1>0, <1>5 DEF EnsureCreates, Changes, Stepped, At, Go, End, Becomes, Begin, Reserve, Refused, boxHistory
  <2>2. s \notin shared' => Alone(p, s) /\ o.pc = "create"
    BY <1>0, <1>5 DEF EnsureCreates, At, boxHistory
  <2>3. \/ /\ op'[p][s].pc = "adopt"
           /\ box'[s] = box[s] /\ container'[s] = "created"
        \/ /\ container[s] = "running" /\ op'[p][s].pc = "mark"
           /\ box'[s] = [box[s] EXCEPT !.backend = TRUE] /\ container'[s] = container[s]
        \/ /\ op'[p][s].pc = "idle"
           /\ box'[s] = box[s] /\ container'[s] = container[s]
    <3>1. CASE /\ container' = [container EXCEPT ![s] = "created"]
               /\ Go(p, s, "adopt") /\ UNCHANGED box
      <4>1. op'[p][s] = [o EXCEPT !.pc = "adopt"]
        BY <1>0, <3>1 DEF Go
      <4> QED
        BY <1>0, <1>o, <3>1, <4>1
    <3>2. CASE /\ container[s] = "running" /\ box' = [box EXCEPT ![s].backend = TRUE]
               /\ Go(p, s, "mark") /\ UNCHANGED container
      <4>1. op'[p][s] = [o EXCEPT !.pc = "mark"]
        BY <1>0, <3>2 DEF Go
      <4> QED
        BY <1>0, <1>o, <3>2, <4>1
    <3>3. CASE End(p, s) /\ UNCHANGED <<box, container>>
      <4>1. op'[p][s] = NoOp
        BY <1>0, <3>3 DEF End
      <4> QED
        BY <1>o, <3>3, <4>1
    <3> QED
      BY <1>5, <3>1, <3>2, <3>3 DEF EnsureCreates
  <2>4. s \notin shared' => Fitting(p, s)
    <3> SUFFICES ASSUME s \notin shared' PROVE Fitting(p, s)
      OBVIOUS
    <3>0. RunsHeld(box[s], container[s]) /\ PlaceOK(o.pc, box[s], container[s]) /\ o.pc = "create"
      BY <1>0, <2>2 DEF Alone
    <3>1. CASE /\ op'[p][s].pc = "adopt"
               /\ box'[s] = box[s] /\ container'[s] = "created"
      BY <1>0, <3>0, <3>1 DEF Fitting, RunsHeld, PlaceOK, BoxRow, BoxStates, HeldStates
    <3>2. CASE /\ container[s] = "running" /\ op'[p][s].pc = "mark"
               /\ box'[s] = [box[s] EXCEPT !.backend = TRUE] /\ container'[s] = container[s]
      BY <1>0, <3>0, <3>2 DEF Fitting, RunsHeld, PlaceOK, BoxRow, BoxStates, HeldStates
    <3>3. CASE /\ op'[p][s].pc = "idle"
               /\ box'[s] = box[s] /\ container'[s] = container[s]
      BY <1>0, <3>0, <3>3 DEF Fitting, RunsHeld, PlaceOK, BoxRow, BoxStates, HeldStates
    <3> QED
      BY <2>3, <3>1, <3>2, <3>3
  <2> QED
    BY <2>1, <2>2, <2>4, CapacityMoves
<1>6. CASE EnsureAdopts(p, s)
  <2>1. Changes(p, s)
    BY <1>0, <1>6 DEF EnsureAdopts, Changes, Stepped, At, Go, End, Becomes, Begin, Reserve, Refused, boxHistory
  <2>2. s \notin shared' => Alone(p, s) /\ o.pc = "adopt"
    BY <1>0, <1>6 DEF EnsureAdopts, At, boxHistory
  <2>3. \/ /\ op'[p][s].pc = "idle"
           /\ box'[s] = box[s] /\ container'[s] = container[s]
        \/ /\ op'[p][s].pc = "start"
           /\ box'[s] = [state |-> "starting", backend |-> TRUE] /\ container'[s] = container[s]
    <3>1. CASE End(p, s) /\ UNCHANGED box
      <4>1. op'[p][s] = NoOp /\ container' = container
        BY <1>0, <1>6, <3>1 DEF End, EnsureAdopts
      <4> QED
        BY <1>o, <3>1, <4>1
    <3>2. CASE /\ box' = [box EXCEPT ![s] = [state |-> "starting", backend |-> TRUE]]
               /\ Go(p, s, "start")
      <4>1. op'[p][s] = [o EXCEPT !.pc = "start"] /\ container' = container
        BY <1>0, <1>6, <3>2 DEF Go, EnsureAdopts
      <4> QED
        BY <1>0, <1>o, <3>2, <4>1
    <3> QED
      BY <1>6, <3>1, <3>2 DEF EnsureAdopts
  <2>4. s \notin shared' => Fitting(p, s)
    <3> SUFFICES ASSUME s \notin shared' PROVE Fitting(p, s)
      OBVIOUS
    <3>0. RunsHeld(box[s], container[s]) /\ PlaceOK(o.pc, box[s], container[s]) /\ o.pc = "adopt"
      BY <1>0, <2>2 DEF Alone
    <3>1. CASE /\ op'[p][s].pc = "idle"
               /\ box'[s] = box[s] /\ container'[s] = container[s]
      BY <1>0, <3>0, <3>1 DEF Fitting, RunsHeld, PlaceOK, BoxRow, BoxStates, HeldStates
    <3>2. CASE /\ op'[p][s].pc = "start"
               /\ box'[s] = [state |-> "starting", backend |-> TRUE] /\ container'[s] = container[s]
      BY <1>0, <3>0, <3>2 DEF Fitting, RunsHeld, PlaceOK, BoxRow, BoxStates, HeldStates
    <3> QED
      BY <2>3, <3>1, <3>2
  <2> QED
    BY <2>1, <2>2, <2>4, CapacityMoves
<1>7. CASE EnsureStarts(p, s)
  <2>1. Changes(p, s)
    BY <1>0, <1>7 DEF EnsureStarts, Changes, Stepped, At, Go, End, Becomes, Begin, Reserve, Refused, boxHistory
  <2>2. s \notin shared' => Alone(p, s) /\ o.pc = "start"
    BY <1>0, <1>7 DEF EnsureStarts, At, boxHistory
  <2>3. \/ /\ op'[p][s].pc = "mark"
           /\ box'[s] = box[s] /\ container'[s] = "running"
        \/ /\ op'[p][s].pc = "idle"
           /\ box'[s] = box[s] /\ container'[s] = container[s]
    BY <1>0, <1>7 DEF EnsureStarts, NoOp, OpRow, At, Go, End, Becomes, Begin, Reserve, Refused, boxHistory
  <2>4. s \notin shared' => Fitting(p, s)
    <3> SUFFICES ASSUME s \notin shared' PROVE Fitting(p, s)
      OBVIOUS
    <3>0. RunsHeld(box[s], container[s]) /\ PlaceOK(o.pc, box[s], container[s]) /\ o.pc = "start"
      BY <1>0, <2>2 DEF Alone
    <3>1. CASE /\ op'[p][s].pc = "mark"
               /\ box'[s] = box[s] /\ container'[s] = "running"
      BY <1>0, <3>0, <3>1 DEF Fitting, RunsHeld, PlaceOK, BoxRow, BoxStates, HeldStates
    <3>2. CASE /\ op'[p][s].pc = "idle"
               /\ box'[s] = box[s] /\ container'[s] = container[s]
      BY <1>0, <3>0, <3>2 DEF Fitting, RunsHeld, PlaceOK, BoxRow, BoxStates, HeldStates
    <3> QED
      BY <2>3, <3>1, <3>2
  <2> QED
    BY <2>1, <2>2, <2>4, CapacityMoves
<1>8. CASE EnsureMarks(p, s)
  <2>1. Changes(p, s)
    BY <1>0, <1>8 DEF EnsureMarks, Changes, Stepped, At, Go, End, Becomes, Begin, Reserve, Refused, boxHistory
  <2>2. s \notin shared' => Alone(p, s) /\ o.pc = "mark"
    BY <1>0, <1>8 DEF EnsureMarks, At, boxHistory
  <2>3. \/ /\ op'[p][s].pc \in {"idle", "exec"}
           /\ box'[s] = box[s] /\ container'[s] = container[s]
        \/ /\ op'[p][s].pc \in {"idle", "exec"}
           /\ box'[s] = [box[s] EXCEPT !.state = "running"] /\ container'[s] = container[s]
    <3>1. op'[p][s].pc \in {"idle", "exec"}
      <4>1. \/ op'[p][s] = NoOp
            \/ op'[p][s] = [NoOp EXCEPT !.pc = "exec", !.exec = o.exec]
        BY <1>0, <1>8 DEF EnsureMarks, End
      <4>2. \A x : [NoOp EXCEPT !.pc = "exec", !.exec = x].pc = "exec"
        BY DEF NoOp
      <4> QED
        BY <1>o, <4>1, <4>2
    <3>2. /\ box'[s] = box[s] \/ box'[s] = [box[s] EXCEPT !.state = "running"]
          /\ container' = container
      BY <1>0, <1>8 DEF EnsureMarks, Becomes
    <3> QED
      BY <3>1, <3>2
  <2>4. s \notin shared' => Fitting(p, s)
    <3> SUFFICES ASSUME s \notin shared' PROVE Fitting(p, s)
      OBVIOUS
    <3>0. RunsHeld(box[s], container[s]) /\ PlaceOK(o.pc, box[s], container[s]) /\ o.pc = "mark"
      BY <1>0, <2>2 DEF Alone
    <3>1. CASE /\ op'[p][s].pc \in {"idle", "exec"}
               /\ box'[s] = box[s] /\ container'[s] = container[s]
      BY <1>0, <3>0, <3>1 DEF Fitting, RunsHeld, PlaceOK, BoxRow, BoxStates, HeldStates
    <3>2. CASE /\ op'[p][s].pc \in {"idle", "exec"}
               /\ box'[s] = [box[s] EXCEPT !.state = "running"] /\ container'[s] = container[s]
      BY <1>0, <3>0, <3>2 DEF Fitting, RunsHeld, PlaceOK, BoxRow, BoxStates, HeldStates
    <3> QED
      BY <2>3, <3>1, <3>2
  <2> QED
    BY <2>1, <2>2, <2>4, CapacityMoves
<1> QED
  BY <1>1, <1>2, <1>3, <1>4, <1>5, <1>6, <1>7, <1>8

(* A command does not touch the row, unless its container was killed.       *)
LEMMA ExecHolds ==
  ASSUME BoxTyped, BoxTyped', OpsInv, CapacityInv, NEW s \in Sessions, NEW p \in Processes,
         \/ \E q \in ExecIds[s] : BeginExec(p, s, q)
         \/ ExecRuns(p, s)
         \/ ExecCompletes(p, s)
         \/ Kill(p, s)
         \/ Confirm(p, s)
  PROVE  CapacityInv'
<1>0. /\ DOMAIN op = Processes /\ \A r \in Processes : DOMAIN op[r] = Sessions
      /\ op[p][s] \in OpRow(s) /\ box[s] \in BoxRow
      /\ container[s] \in {"none", "created", "running"}
      /\ DOMAIN box = Sessions /\ DOMAIN container = Sessions
      /\ s \in Held <=> box[s].state \in HeldStates
      /\ s \notin shared => /\ RunsHeld(box[s], container[s])
                            /\ PlaceOK(op[p][s].pc, box[s], container[s])
                            /\ op[p][s].pc # "idle" => Alone(p, s)
  BY CapacityFacts
<1> DEFINE o == op[p][s]
<1>o. NoOp.pc = "idle" /\ \A x : [o EXCEPT !.pc = x].pc = x
  BY <1>0 DEF NoOp, OpRow
<1>1. ASSUME NEW q \in ExecIds[s], BeginExec(p, s, q) PROVE CapacityInv'
  <2>1. Changes(p, s)
    BY <1>0, <1>1 DEF BeginExec, Changes, Stepped, At, Go, End, Becomes, Begin, Reserve, Refused, boxHistory
  <2>2. s \notin shared' => Alone(p, s)
    BY <1>1 DEF BeginExec, Begin, At, Alone
  <2>3. /\ op'[p][s].pc = "reserve"
        /\ box'[s] = box[s] /\ container'[s] = container[s]
    BY <1>0, <1>1 DEF BeginExec, NoOp, OpRow, At, Go, End, Becomes, Begin, Reserve, Refused, boxHistory
  <2>4. s \notin shared' => Fitting(p, s)
    <3> SUFFICES ASSUME s \notin shared' PROVE Fitting(p, s)
      OBVIOUS
    <3>0. RunsHeld(box[s], container[s]) /\ PlaceOK(o.pc, box[s], container[s])
      BY <1>0, <2>2 DEF Alone
    <3>1. CASE /\ op'[p][s].pc = "reserve"
               /\ box'[s] = box[s] /\ container'[s] = container[s]
      BY <1>0, <3>0, <3>1 DEF Fitting, RunsHeld, PlaceOK, BoxRow, BoxStates, HeldStates
    <3> QED
      BY <2>3, <3>1
  <2> QED
    BY <2>1, <2>2, <2>4, CapacityMoves
<1>2. CASE ExecRuns(p, s)
  <2>1. Changes(p, s)
    BY <1>0, <1>2 DEF ExecRuns, Changes, Stepped, At, Go, End, Becomes, Begin, Reserve, Refused, boxHistory
  <2>2. s \notin shared' => Alone(p, s) /\ o.pc = "exec"
    BY <1>0, <1>2 DEF ExecRuns, At, boxHistory
  <2>3. /\ op'[p][s].pc \in {"idle", "complete", "kill"}
        /\ box'[s] = box[s] /\ container'[s] = container[s]
    BY <1>0, <1>2 DEF ExecRuns, NoOp, OpRow, At, Go, End, Becomes, Begin, Reserve, Refused, boxHistory
  <2>4. s \notin shared' => Fitting(p, s)
    <3> SUFFICES ASSUME s \notin shared' PROVE Fitting(p, s)
      OBVIOUS
    <3>0. RunsHeld(box[s], container[s]) /\ PlaceOK(o.pc, box[s], container[s]) /\ o.pc = "exec"
      BY <1>0, <2>2 DEF Alone
    <3>1. CASE /\ op'[p][s].pc \in {"idle", "complete", "kill"}
               /\ box'[s] = box[s] /\ container'[s] = container[s]
      BY <1>0, <3>0, <3>1 DEF Fitting, RunsHeld, PlaceOK, BoxRow, BoxStates, HeldStates
    <3> QED
      BY <2>3, <3>1
  <2> QED
    BY <2>1, <2>2, <2>4, CapacityMoves
<1>3. CASE ExecCompletes(p, s)
  <2>1. Changes(p, s)
    BY <1>0, <1>3 DEF ExecCompletes, Changes, Stepped, At, Go, End, Becomes, Begin, Reserve, Refused, boxHistory
  <2>2. s \notin shared' => Alone(p, s) /\ o.pc = "complete"
    BY <1>0, <1>3 DEF ExecCompletes, At, boxHistory
  <2>3. /\ op'[p][s].pc = "idle"
        /\ box'[s] = box[s] /\ container'[s] = container[s]
    BY <1>0, <1>3 DEF ExecCompletes, NoOp, OpRow, At, Go, End, Becomes, Begin, Reserve, Refused, boxHistory
  <2>4. s \notin shared' => Fitting(p, s)
    <3> SUFFICES ASSUME s \notin shared' PROVE Fitting(p, s)
      OBVIOUS
    <3>0. RunsHeld(box[s], container[s]) /\ PlaceOK(o.pc, box[s], container[s]) /\ o.pc = "complete"
      BY <1>0, <2>2 DEF Alone
    <3>1. CASE /\ op'[p][s].pc = "idle"
               /\ box'[s] = box[s] /\ container'[s] = container[s]
      BY <1>0, <3>0, <3>1 DEF Fitting, RunsHeld, PlaceOK, BoxRow, BoxStates, HeldStates
    <3> QED
      BY <2>3, <3>1
  <2> QED
    BY <2>1, <2>2, <2>4, CapacityMoves
<1>4. CASE Kill(p, s)
  <2>1. Changes(p, s)
    BY <1>0, <1>4 DEF Kill, Changes, Stepped, At, Go, End, Becomes, Begin, Reserve, Refused, boxHistory
  <2>2. s \notin shared' => Alone(p, s) /\ o.pc = "kill"
    BY <1>0, <1>4 DEF Kill, At, boxHistory
  <2>3. \/ /\ op'[p][s].pc = "confirm"
           /\ box'[s] = box[s] /\ container'[s] = "created"
        \/ /\ op'[p][s].pc = "idle"
           /\ box'[s] = box[s] /\ container'[s] = container[s]
    BY <1>0, <1>4 DEF Kill, NoOp, OpRow, At, Go, End, Becomes, Begin, Reserve, Refused, boxHistory
  <2>4. s \notin shared' => Fitting(p, s)
    <3> SUFFICES ASSUME s \notin shared' PROVE Fitting(p, s)
      OBVIOUS
    <3>0. RunsHeld(box[s], container[s]) /\ PlaceOK(o.pc, box[s], container[s]) /\ o.pc = "kill"
      BY <1>0, <2>2 DEF Alone
    <3>1. CASE /\ op'[p][s].pc = "confirm"
               /\ box'[s] = box[s] /\ container'[s] = "created"
      BY <1>0, <3>0, <3>1 DEF Fitting, RunsHeld, PlaceOK, BoxRow, BoxStates, HeldStates
    <3>2. CASE /\ op'[p][s].pc = "idle"
               /\ box'[s] = box[s] /\ container'[s] = container[s]
      BY <1>0, <3>0, <3>2 DEF Fitting, RunsHeld, PlaceOK, BoxRow, BoxStates, HeldStates
    <3> QED
      BY <2>3, <3>1, <3>2
  <2> QED
    BY <2>1, <2>2, <2>4, CapacityMoves
<1>5. CASE Confirm(p, s)
  <2>1. Changes(p, s)
    BY <1>0, <1>5 DEF Confirm, Changes, Stepped, At, Go, End, Becomes, Begin, Reserve, Refused, boxHistory
  <2>2. s \notin shared' => Alone(p, s) /\ o.pc = "confirm"
    BY <1>0, <1>5 DEF Confirm, At, boxHistory
  <2>3. \/ /\ container[s] = "created" /\ op'[p][s].pc \in {"idle", "complete"}
           /\ box'[s] = [box[s] EXCEPT !.state = "stopped"] /\ container'[s] = container[s]
        \/ /\ op'[p][s].pc \in {"idle", "complete"}
           /\ box'[s] = box[s] /\ container'[s] = container[s]
    BY <1>0, <1>5 DEF Confirm, NoOp, OpRow, At, Go, End, Becomes, Begin, Reserve, Refused, boxHistory
  <2>4. s \notin shared' => Fitting(p, s)
    <3> SUFFICES ASSUME s \notin shared' PROVE Fitting(p, s)
      OBVIOUS
    <3>0. RunsHeld(box[s], container[s]) /\ PlaceOK(o.pc, box[s], container[s]) /\ o.pc = "confirm"
      BY <1>0, <2>2 DEF Alone
    <3>1. CASE /\ container[s] = "created" /\ op'[p][s].pc \in {"idle", "complete"}
               /\ box'[s] = [box[s] EXCEPT !.state = "stopped"] /\ container'[s] = container[s]
      BY <1>0, <3>0, <3>1 DEF Fitting, RunsHeld, PlaceOK, BoxRow, BoxStates, HeldStates
    <3>2. CASE /\ op'[p][s].pc \in {"idle", "complete"}
               /\ box'[s] = box[s] /\ container'[s] = container[s]
      BY <1>0, <3>0, <3>2 DEF Fitting, RunsHeld, PlaceOK, BoxRow, BoxStates, HeldStates
    <3> QED
      BY <2>3, <3>1, <3>2
  <2> QED
    BY <2>1, <2>2, <2>4, CapacityMoves
<1> QED
  BY <1>1, <1>2, <1>3, <1>4, <1>5

(* Stop and Destroy: what is released does not run.                         *)
LEMMA StopHolds ==
  ASSUME BoxTyped, BoxTyped', OpsInv, CapacityInv, NEW s \in Sessions, NEW p \in Processes,
         \/ BeginStop(p, s)
         \/ StopReleases(p, s)
         \/ StopInspects(p, s)
         \/ BeginDestroy(p, s)
         \/ DestroyForgets(p, s)
         \/ DestroyDrops(p, s)
  PROVE  CapacityInv'
<1>0. /\ DOMAIN op = Processes /\ \A r \in Processes : DOMAIN op[r] = Sessions
      /\ op[p][s] \in OpRow(s) /\ box[s] \in BoxRow
      /\ container[s] \in {"none", "created", "running"}
      /\ DOMAIN box = Sessions /\ DOMAIN container = Sessions
      /\ s \in Held <=> box[s].state \in HeldStates
      /\ s \notin shared => /\ RunsHeld(box[s], container[s])
                            /\ PlaceOK(op[p][s].pc, box[s], container[s])
                            /\ op[p][s].pc # "idle" => Alone(p, s)
  BY CapacityFacts
<1> DEFINE o == op[p][s]
<1>o. NoOp.pc = "idle" /\ \A x : [o EXCEPT !.pc = x].pc = x
  BY <1>0 DEF NoOp, OpRow
<1>1. CASE BeginStop(p, s)
  <2>1. Changes(p, s)
    BY <1>0, <1>1 DEF BeginStop, Changes, Stepped, At, Go, End, Becomes, Begin, Reserve, Refused, boxHistory
  <2>2. s \notin shared' => Alone(p, s)
    BY <1>1 DEF BeginStop, Begin, At, Alone
  <2>3. \/ /\ box[s].state = "reserved" /\ ~box[s].backend /\ op'[p][s].pc = "release"
           /\ box'[s] = box[s] /\ container'[s] = container[s]
        \/ /\ op'[p][s].pc = "stop"
           /\ box'[s] = box[s] /\ container'[s] = container[s]
    BY <1>0, <1>1 DEF BeginStop, NoOp, OpRow, At, Go, End, Becomes, Begin, Reserve, Refused, boxHistory
  <2>4. s \notin shared' => Fitting(p, s)
    <3> SUFFICES ASSUME s \notin shared' PROVE Fitting(p, s)
      OBVIOUS
    <3>0. RunsHeld(box[s], container[s]) /\ PlaceOK(o.pc, box[s], container[s])
      BY <1>0, <2>2 DEF Alone
    <3>1. CASE /\ box[s].state = "reserved" /\ ~box[s].backend /\ op'[p][s].pc = "release"
               /\ box'[s] = box[s] /\ container'[s] = container[s]
      BY <1>0, <3>0, <3>1 DEF Fitting, RunsHeld, PlaceOK, BoxRow, BoxStates, HeldStates
    <3>2. CASE /\ op'[p][s].pc = "stop"
               /\ box'[s] = box[s] /\ container'[s] = container[s]
      BY <1>0, <3>0, <3>2 DEF Fitting, RunsHeld, PlaceOK, BoxRow, BoxStates, HeldStates
    <3> QED
      BY <2>3, <3>1, <3>2
  <2> QED
    BY <2>1, <2>2, <2>4, CapacityMoves
<1>2. CASE StopReleases(p, s)
  <2>1. Changes(p, s)
    BY <1>0, <1>2 DEF StopReleases, Changes, Stepped, At, Go, End, Becomes, Begin, Reserve, Refused, boxHistory
  <2>2. s \notin shared' => Alone(p, s) /\ o.pc = "release"
    BY <1>0, <1>2 DEF StopReleases, At, boxHistory
  <2>3. /\ op'[p][s].pc = "idle"
        /\ box'[s] = [box[s] EXCEPT !.state = "stopped"] /\ container'[s] = container[s]
    BY <1>0, <1>2 DEF StopReleases, NoOp, OpRow, At, Go, End, Becomes, Begin, Reserve, Refused, boxHistory
  <2>4. s \notin shared' => Fitting(p, s)
    <3> SUFFICES ASSUME s \notin shared' PROVE Fitting(p, s)
      OBVIOUS
    <3>0. RunsHeld(box[s], container[s]) /\ PlaceOK(o.pc, box[s], container[s]) /\ o.pc = "release"
      BY <1>0, <2>2 DEF Alone
    <3>1. CASE /\ op'[p][s].pc = "idle"
               /\ box'[s] = [box[s] EXCEPT !.state = "stopped"] /\ container'[s] = container[s]
      BY <1>0, <3>0, <3>1 DEF Fitting, RunsHeld, PlaceOK, BoxRow, BoxStates, HeldStates
    <3> QED
      BY <2>3, <3>1
  <2> QED
    BY <2>1, <2>2, <2>4, CapacityMoves
<1>3. CASE StopInspects(p, s)
  <2>1. Changes(p, s)
    BY <1>0, <1>3 DEF StopInspects, Changes, Stepped, At, Go, End, Becomes, Begin, Reserve, Refused, boxHistory
  <2>2. s \notin shared' => Alone(p, s) /\ o.pc = "stop"
    BY <1>0, <1>3 DEF StopInspects, At, boxHistory
  <2>3. \/ /\ container[s] = "none" /\ op'[p][s].pc = "idle"
           /\ box'[s] = [box[s] EXCEPT !.state = "stopped"] /\ container'[s] = container[s]
        \/ /\ op'[p][s].pc = "confirm"
           /\ box'[s] = box[s] /\ container'[s] = container[s]
        \/ /\ op'[p][s].pc = "confirm"
           /\ box'[s] = box[s] /\ container'[s] = "created"
        \/ /\ op'[p][s].pc = "idle"
           /\ box'[s] = box[s] /\ container'[s] = container[s]
    BY <1>0, <1>3 DEF StopInspects, NoOp, OpRow, At, Go, End, Becomes, Begin, Reserve, Refused, boxHistory
  <2>4. s \notin shared' => Fitting(p, s)
    <3> SUFFICES ASSUME s \notin shared' PROVE Fitting(p, s)
      OBVIOUS
    <3>0. RunsHeld(box[s], container[s]) /\ PlaceOK(o.pc, box[s], container[s]) /\ o.pc = "stop"
      BY <1>0, <2>2 DEF Alone
    <3>1. CASE /\ container[s] = "none" /\ op'[p][s].pc = "idle"
               /\ box'[s] = [box[s] EXCEPT !.state = "stopped"] /\ container'[s] = container[s]
      BY <1>0, <3>0, <3>1 DEF Fitting, RunsHeld, PlaceOK, BoxRow, BoxStates, HeldStates
    <3>2. CASE /\ op'[p][s].pc = "confirm"
               /\ box'[s] = box[s] /\ container'[s] = container[s]
      BY <1>0, <3>0, <3>2 DEF Fitting, RunsHeld, PlaceOK, BoxRow, BoxStates, HeldStates
    <3>3. CASE /\ op'[p][s].pc = "confirm"
               /\ box'[s] = box[s] /\ container'[s] = "created"
      BY <1>0, <3>0, <3>3 DEF Fitting, RunsHeld, PlaceOK, BoxRow, BoxStates, HeldStates
    <3>4. CASE /\ op'[p][s].pc = "idle"
               /\ box'[s] = box[s] /\ container'[s] = container[s]
      BY <1>0, <3>0, <3>4 DEF Fitting, RunsHeld, PlaceOK, BoxRow, BoxStates, HeldStates
    <3> QED
      BY <2>3, <3>1, <3>2, <3>3, <3>4
  <2> QED
    BY <2>1, <2>2, <2>4, CapacityMoves
<1>4. CASE BeginDestroy(p, s)
  <2>1. Changes(p, s)
    BY <1>0, <1>4 DEF BeginDestroy, Changes, Stepped, At, Go, End, Becomes, Begin, Reserve, Refused, boxHistory
  <2>2. s \notin shared' => Alone(p, s)
    BY <1>4 DEF BeginDestroy, Begin, At, Alone
  <2>3. /\ op'[p][s].pc = "forget"
        /\ box'[s] = box[s] /\ container'[s] = "none"
    BY <1>0, <1>4 DEF BeginDestroy, NoOp, OpRow, At, Go, End, Becomes, Begin, Reserve, Refused, boxHistory
  <2>4. s \notin shared' => Fitting(p, s)
    <3> SUFFICES ASSUME s \notin shared' PROVE Fitting(p, s)
      OBVIOUS
    <3>0. RunsHeld(box[s], container[s]) /\ PlaceOK(o.pc, box[s], container[s])
      BY <1>0, <2>2 DEF Alone
    <3>1. CASE /\ op'[p][s].pc = "forget"
               /\ box'[s] = box[s] /\ container'[s] = "none"
      BY <1>0, <3>0, <3>1 DEF Fitting, RunsHeld, PlaceOK, BoxRow, BoxStates, HeldStates
    <3> QED
      BY <2>3, <3>1
  <2> QED
    BY <2>1, <2>2, <2>4, CapacityMoves
<1>5. CASE DestroyForgets(p, s)
  <2>1. Changes(p, s)
    BY <1>0, <1>5 DEF DestroyForgets, Changes, Stepped, At, Go, End, Becomes, Begin, Reserve, Refused, boxHistory
  <2>2. s \notin shared' => Alone(p, s) /\ o.pc = "forget"
    BY <1>0, <1>5 DEF DestroyForgets, At, boxHistory
  <2>3. /\ op'[p][s].pc = "drop"
        /\ box'[s] = box[s] /\ container'[s] = container[s]
    BY <1>0, <1>5 DEF DestroyForgets, NoOp, OpRow, At, Go, End, Becomes, Begin, Reserve, Refused, boxHistory
  <2>4. s \notin shared' => Fitting(p, s)
    <3> SUFFICES ASSUME s \notin shared' PROVE Fitting(p, s)
      OBVIOUS
    <3>0. RunsHeld(box[s], container[s]) /\ PlaceOK(o.pc, box[s], container[s]) /\ o.pc = "forget"
      BY <1>0, <2>2 DEF Alone
    <3>1. CASE /\ op'[p][s].pc = "drop"
               /\ box'[s] = box[s] /\ container'[s] = container[s]
      BY <1>0, <3>0, <3>1 DEF Fitting, RunsHeld, PlaceOK, BoxRow, BoxStates, HeldStates
    <3> QED
      BY <2>3, <3>1
  <2> QED
    BY <2>1, <2>2, <2>4, CapacityMoves
<1>6. CASE DestroyDrops(p, s)
  <2>1. Changes(p, s)
    BY <1>0, <1>6 DEF DestroyDrops, Changes, Stepped, At, Go, End, Becomes, Begin, Reserve, Refused, boxHistory
  <2>2. s \notin shared' => Alone(p, s) /\ o.pc = "drop"
    BY <1>0, <1>6 DEF DestroyDrops, At, boxHistory
  <2>3. /\ op'[p][s].pc = "idle"
        /\ box'[s] = [state |-> "absent", backend |-> FALSE] /\ container'[s] = container[s]
    BY <1>0, <1>6 DEF DestroyDrops, NoOp, OpRow, At, Go, End, Becomes, Begin, Reserve, Refused, boxHistory
  <2>4. s \notin shared' => Fitting(p, s)
    <3> SUFFICES ASSUME s \notin shared' PROVE Fitting(p, s)
      OBVIOUS
    <3>0. RunsHeld(box[s], container[s]) /\ PlaceOK(o.pc, box[s], container[s]) /\ o.pc = "drop"
      BY <1>0, <2>2 DEF Alone
    <3>1. CASE /\ op'[p][s].pc = "idle"
               /\ box'[s] = [state |-> "absent", backend |-> FALSE] /\ container'[s] = container[s]
      BY <1>0, <3>0, <3>1 DEF Fitting, RunsHeld, PlaceOK, BoxRow, BoxStates, HeldStates
    <3> QED
      BY <2>3, <3>1
  <2> QED
    BY <2>1, <2>2, <2>4, CapacityMoves
<1> QED
  BY <1>1, <1>2, <1>3, <1>4, <1>5, <1>6

(* Rows that do not change hold what they held.                             *)
LEMMA AdmittedStays ==
  ASSUME Admitted, UNCHANGED <<box, shared>> PROVE Admitted'
<1>1. HeldAlone' = HeldAlone
  BY DEF HeldAlone, Held
<1>2. Admitted' <=> Cardinality(HeldAlone') <= MaxRunning /\ MemorySum(HeldAlone') <= MemoryBudget
  BY DEF Admitted
<1> QED
  BY <1>1, <1>2 DEF Admitted

(* The steps that no process takes for a session: a claim that reserves, a  *)
(* container that exits or is removed, a command's row pruned, a death.     *)
LEMMA OutsideHolds ==
  ASSUME BoxTyped, BoxTyped', OpsInv, CapacityInv,
         \/ \E s \in Sessions : AdmitClaim(s) \/ ContainerExits(s) \/ ContainerRemoved(s)
         \/ \E s \in Sessions : \E q \in ExecIds[s] : PruneCommand(s, q)
         \/ \E p \in Processes : ProcessDies(p)
         \/ UNCHANGED boxVars
  PROVE  CapacityInv'
<1>1. ASSUME NEW s \in Sessions, AdmitClaim(s) PROVE CapacityInv'
  <2>1. /\ UNCHANGED <<op, container, shared>> /\ Fits(s) /\ s \notin Held
        /\ box' = [box EXCEPT ![s].state = "reserved"]
    BY <1>1 DEF AdmitClaim, Reserve, Becomes, boxHistory
  <2>2. /\ box'[s] = [box[s] EXCEPT !.state = "reserved"] /\ box[s] \in BoxRow
        /\ \A t \in Sessions : t # s => box'[t] = box[t]
    BY <2>1 DEF BoxTyped
  <2>3. box'[s].state \in HeldStates /\ box'[s].backend = box[s].backend
    BY <2>2 DEF BoxRow, HeldStates, BoxStates
  <2>4. Admitted'
    <3>1. HeldAlone' \subseteq HeldAlone \cup {s}
      BY <2>1, <2>2 DEF HeldAlone, Held
    <3> QED
      BY <2>1, <3>1, AdmissionKeeps DEF CapacityInv
  <2>5. ASSUME NEW t \in Sessions \ shared
        PROVE  /\ RunsHeld(box'[t], container[t])
               /\ \A p \in Processes : PlaceOK(op[p][t].pc, box'[t], container[t])
               /\ \A p, r \in Processes : op[p][t].pc # "idle" /\ op[r][t].pc # "idle" => p = r
    <3>1. /\ RunsHeld(box[t], container[t])
          /\ \A p \in Processes : PlaceOK(op[p][t].pc, box[t], container[t])
          /\ \A p, r \in Processes : op[p][t].pc # "idle" /\ op[r][t].pc # "idle" => p = r
      BY DEF CapacityInv
    <3>2. CASE t = s
      BY <2>3, <3>1, <3>2 DEF RunsHeld, PlaceOK
    <3>3. CASE t # s
      BY <2>2, <3>1, <3>3
    <3> QED
      BY <3>2, <3>3
  <2> QED
    BY <2>1, <2>4, <2>5 DEF CapacityInv
<1>2. ASSUME NEW s \in Sessions, ContainerExits(s) \/ ContainerRemoved(s) PROVE CapacityInv'
  <2>1. /\ UNCHANGED <<op, box, shared>> /\ container[s] # "none"
        /\ container'[s] \in {"none", "created"}
        /\ \A t \in Sessions : t # s => container'[t] = container[t]
    BY <1>2 DEF ContainerExits, ContainerRemoved, boxHistory, BoxTyped
  <2>2. Admitted'
    BY <2>1, AdmittedStays DEF CapacityInv
  <2>3. ASSUME NEW t \in Sessions \ shared
        PROVE  /\ RunsHeld(box[t], container'[t])
               /\ \A p \in Processes : PlaceOK(op[p][t].pc, box[t], container'[t])
    <3>1. /\ RunsHeld(box[t], container[t])
          /\ \A p \in Processes : PlaceOK(op[p][t].pc, box[t], container[t])
      BY DEF CapacityInv
    <3>2. CASE t = s
      BY <2>1, <3>1, <3>2 DEF RunsHeld, PlaceOK
    <3>3. CASE t # s
      BY <2>1, <3>1, <3>3
    <3> QED
      BY <3>2, <3>3
  <2> QED
    BY <2>1, <2>2, <2>3 DEF CapacityInv
<1>3. CASE \/ \E s \in Sessions : \E q \in ExecIds[s] : PruneCommand(s, q)
           \/ UNCHANGED boxVars
  <2>1. UNCHANGED <<box, container, op, shared>>
    BY <1>3 DEF PruneCommand, boxVars, boxHistory
  <2>2. Admitted'
    BY <2>1, AdmittedStays DEF CapacityInv
  <2> QED
    BY <2>1, <2>2 DEF CapacityInv
<1>4. ASSUME NEW p \in Processes, ProcessDies(p) PROVE CapacityInv'
  <2>1. /\ UNCHANGED <<box, container, shared>>
        /\ \A r \in Processes, t \in Sessions : op'[r][t] = IF r = p THEN NoOp ELSE op[r][t]
    BY <1>4 DEF ProcessDies, OpsInv, boxHistory
  <2>2. Admitted'
    BY <2>1, AdmittedStays DEF CapacityInv
  <2>3. \A r \in Processes, t \in Sessions : op'[r][t].pc = "idle" \/ op'[r][t].pc = op[r][t].pc
    BY <2>1 DEF NoOp
  <2>4. ASSUME NEW t \in Sessions \ shared
        PROVE  /\ RunsHeld(box[t], container[t])
               /\ \A r \in Processes : PlaceOK(op'[r][t].pc, box[t], container[t])
               /\ \A q, r \in Processes : op'[q][t].pc # "idle" /\ op'[r][t].pc # "idle" => q = r
    <3>1. /\ RunsHeld(box[t], container[t])
          /\ \A r \in Processes : PlaceOK(op[r][t].pc, box[t], container[t])
          /\ \A q, r \in Processes : op[q][t].pc # "idle" /\ op[r][t].pc # "idle" => q = r
      BY DEF CapacityInv
    <3> QED
      BY <2>3, <3>1 DEF PlaceOK
  <2> QED
    BY <2>1, <2>2, <2>4 DEF CapacityInv
<1> QED
  BY <1>1, <1>2, <1>3, <1>4

(* Nothing is held at first, and every step keeps what fits together.       *)
LEMMA CapacityStarts == BoxInit => CapacityInv
<1> SUFFICES ASSUME BoxInit PROVE CapacityInv
  OBVIOUS
<1>1. ASSUME NEW s \in Sessions, NEW p \in Processes
      PROVE  op[p][s].pc = "idle"
  BY DEF BoxInit, NoOp
<1>2. \A s \in Sessions : container[s] = "none"
  BY DEF BoxInit
<1>3. Admitted
  <2>1. HeldAlone = {}
    BY DEF HeldAlone, Held, BoxInit
  <2>2. Cardinality({}) = 0 /\ Total(MemoryOf, {}) = 0
    <3>1. \A x \in {} : MemoryOf[x] \in Nat
      OBVIOUS
    <3> QED
      BY <3>1, FS_EmptySet, SumStep
  <2> QED
    BY <2>1, <2>2, MemoryIsTotal, SandboxAssumption DEF Admitted
<1> QED
  BY <1>1, <1>2, <1>3 DEF CapacityInv, RunsHeld, PlaceOK
LEMMA CapacityKept ==
  BoxTyped /\ BoxTyped' /\ OpsInv /\ CapacityInv /\ [BoxNext]_boxVars => CapacityInv'
<1> SUFFICES ASSUME BoxTyped, BoxTyped', OpsInv, CapacityInv, [BoxNext]_boxVars PROVE CapacityInv'
  OBVIOUS
<1>1. ASSUME NEW p \in Processes, NEW s \in Sessions, Step(p, s) PROVE CapacityInv'
  <2>1. CASE \/ \E q \in ExecIds[s] : BeginExec(p, s, q)
             \/ ExecRuns(p, s) \/ ExecCompletes(p, s) \/ Kill(p, s) \/ Confirm(p, s)
    BY <2>1, ExecHolds
  <2>2. CASE DestroyForgets(p, s)
    BY <2>2, StopHolds
  <2> QED
    BY <1>1, <2>1, <2>2, EnsureHolds, StopHolds DEF Step
<1> QED
  BY <1>1, OutsideHolds DEF BoxNext

(* The containers of the sessions that never had two processes at work at   *)
(* one time stay within the limits, whatever replicas do to the others:     *)
(* what runs of them is held, and what is held of them was admitted with    *)
(* all the rest counted (reserve, Confirm, Stop).                           *)
THEOREM CapacityHolds == BoxSpec => []UnsharedWithinCapacity
<1>1. BoxTyped /\ CapacityInv => UnsharedWithinCapacity
  <2> SUFFICES ASSUME BoxTyped, CapacityInv PROVE UnsharedWithinCapacity
    OBVIOUS
  <2> DEFINE U == Up \ shared
  <2>1. U \subseteq HeldAlone
    <3> SUFFICES ASSUME NEW s \in U PROVE s \in HeldAlone
      OBVIOUS
    <3>1. s \in Sessions \ shared /\ container[s] = "running"
      BY DEF Up
    <3>2. box[s].state \in HeldStates
      BY <3>1 DEF CapacityInv, RunsHeld
    <3> QED
      BY <3>1, <3>2 DEF HeldAlone, Held, HeldStates
  <2> HIDE DEF U
  <2>2. /\ IsFiniteSet(HeldAlone) /\ IsFiniteSet(U) /\ Cardinality(U) <= Cardinality(HeldAlone)
        /\ Cardinality(U) \in Nat /\ Cardinality(HeldAlone) \in Nat
    <3>1. IsFiniteSet(HeldAlone)
      BY SandboxAssumption, FS_Subset DEF HeldAlone, Held
    <3> QED
      BY <2>1, <3>1, FS_Subset, FS_CardinalityType
  <2>3. /\ Total(MemoryOf, U) \in Nat /\ Total(MemoryOf, HeldAlone) \in Nat
        /\ Total(MemoryOf, U) <= Total(MemoryOf, HeldAlone)
    <3>1. \A x \in HeldAlone : MemoryOf[x] \in Nat
      BY SandboxAssumption DEF HeldAlone, Held
    <3> QED
      BY <2>1, <2>2, <3>1, SumCompares
  <2>4. Cardinality(HeldAlone) <= MaxRunning /\ Total(MemoryOf, HeldAlone) <= MemoryBudget
    BY MemoryIsTotal DEF CapacityInv, Admitted
  <2>5. MaxRunning \in Nat /\ MemoryBudget \in Nat
    BY SandboxAssumption
  <2>6. Cardinality(U) <= MaxRunning /\ MemorySum(U) <= MemoryBudget
    BY <2>2, <2>3, <2>4, <2>5, MemoryIsTotal
  <2> QED
    BY <2>6 DEF UnsharedWithinCapacity, CountWithinLimit, MemoryWithinBudget, U
<1>2. BoxInit => BoxTyped
  BY DEF BoxInit, BoxTyped, BoxRow, BoxStates
<1> QED
  BY <1>1, <1>2, TypedSteps, OpsStart, OpsKept, CapacityStarts, CapacityKept, PTL DEF BoxSpec


-----------------------------------------------------------------------------
(* Files.                                                                   *)

Tables == {"files", "skills"}
FileRow == [table : Tables, name : Outputs \union {NoName}, data : Data, deleted : BOOLEAN]
Weights(F) == [i \in 1..Len(F) |-> SizeOf[F[i].data]]
LiveOf(F, table) == {i \in 1..Len(F) : F[i].table = table /\ ~F[i].deleted}
UploadsOf(F, table) == {i \in LiveOf(F, table) : F[i].name = NoName}
KeyRows(F, name, data) ==
  {i \in 1..Len(F) : F[i].table = "files" /\ F[i].name = name /\ F[i].data = data}
UploadBytes(F, table) == Total(Weights(F), UploadsOf(F, table))

(* Bytes, as MapThenSumSet computes it over the rows' contents.             *)
RowSum(F, S, g) ==
  g = [s \in SUBSET S |-> IF s = {} THEN 0
                          ELSE SizeOf[F[Chosen(s)].data] + g[s \ {Chosen(s)}]]
BytesOf(F, S) == (CHOOSE g : RowSum(F, S, g))[S]

(* It is the sum of the rows' weights.                                      *)
LEMMA BytesAre ==
  ASSUME NEW F, NEW S \in SUBSET (1..Len(F)), IsFiniteSet(S)
  PROVE  BytesOf(F, S) = Total(Weights(F), S)
<1> DEFINE w == Weights(F)
<1>1. \A s \in SUBSET S : s # {} => w[Chosen(s)] = SizeOf[F[Chosen(s)].data]
  BY DEF Weights, Chosen
<1>2. ASSUME NEW g PROVE RowSum(F, S, g) <=> IsSum(w, S, g)
  <2> HIDE DEF w
  <2> DEFINE a(s) == IF s = {} THEN 0 ELSE SizeOf[F[Chosen(s)].data] + g[s \ {Chosen(s)}]
             b(s) == IF s = {} THEN 0 ELSE w[Chosen(s)] + g[s \ {Chosen(s)}]
  <2>1. \A s \in SUBSET S : a(s) = b(s)
    BY <1>1
  <2>2. RowSum(F, S, g) <=> g = [s \in SUBSET S |-> a(s)]
    BY DEF RowSum
  <2>3. IsSum(w, S, g) <=> g = [s \in SUBSET S |-> b(s)]
    BY DEF IsSum
  <2> HIDE DEF a, b
  <2>4. [s \in SUBSET S |-> a(s)] = [s \in SUBSET S |-> b(s)]
    BY <2>1
  <2> QED
    BY <2>2, <2>3, <2>4
<1> HIDE DEF w
<1>3. IsSum(w, S, SumTo(w, S))
  BY SumExists
<1>4. RowSum(F, S, SumTo(w, S))
  BY <1>2, <1>3
<1>5. RowSum(F, S, CHOOSE g : RowSum(F, S, g))
  BY <1>4
<1>6. PICK h : h = (CHOOSE g : RowSum(F, S, g))
  OBVIOUS
<1>7. IsSum(w, S, h)
  BY <1>2, <1>5, <1>6
<1>8. h[S] = SumTo(w, S)[S]
  BY <1>3, <1>7, SumsSame
<1> QED
  BY <1>6, <1>8 DEF BytesOf, Total, w

(* The rows of uploads weigh what their contents do, and no more than all   *)
(* that is live.                                                            *)
LEMMA UploadsWeigh ==
  ASSUME NEW F \in Seq(FileRow), NEW table
  PROVE  /\ UploadsOf(F, table) \subseteq LiveOf(F, table) /\ LiveOf(F, table) \subseteq 1..Len(F)
         /\ IsFiniteSet(LiveOf(F, table)) /\ IsFiniteSet(UploadsOf(F, table))
         /\ \A i \in 1..Len(F) : F[i] \in FileRow /\ Weights(F)[i] \in Nat
         /\ UploadBytes(F, table) \in Nat /\ Total(Weights(F), LiveOf(F, table)) \in Nat
         /\ UploadBytes(F, table) <= Total(Weights(F), LiveOf(F, table))
<1>1. UploadsOf(F, table) \subseteq LiveOf(F, table) /\ LiveOf(F, table) \subseteq 1..Len(F)
  BY DEF UploadsOf, LiveOf
<1>2. Len(F) \in Nat /\ IsFiniteSet(1..Len(F))
  BY FS_Interval
<1>3. IsFiniteSet(LiveOf(F, table)) /\ IsFiniteSet(UploadsOf(F, table))
  BY <1>1, <1>2, FS_Subset
<1>4. \A i \in 1..Len(F) : F[i] \in FileRow
  OBVIOUS
<1>5. \A i \in 1..Len(F) : Weights(F)[i] \in Nat
  BY <1>4, FilesAssumption DEF Weights, FileRow
<1>6. \A i \in LiveOf(F, table) : Weights(F)[i] \in Nat
  BY <1>1, <1>5
<1> QED
  BY <1>1, <1>3, <1>4, <1>5, <1>6, SumCompares DEF UploadBytes

(* A new row weighs its content if it is an upload of the table.            *)
LEMMA RowAdded ==
  ASSUME NEW F \in Seq(FileRow), NEW r \in FileRow, NEW table
  PROVE  /\ UploadBytes(Append(F, r), table) \in Nat
         /\ UploadBytes(Append(F, r), table)
              = IF r.table = table /\ ~r.deleted /\ r.name = NoName
                  THEN UploadBytes(F, table) + SizeOf[r.data] ELSE UploadBytes(F, table)
<1> DEFINE G == Append(F, r)
           n == Len(F) + 1
           counts == r.table = table /\ ~r.deleted /\ r.name = NoName
           old == UploadsOf(F, table)
           new == UploadsOf(G, table)
<1>1. /\ G \in Seq(FileRow) /\ Len(G) = n /\ n \notin 1..Len(F) /\ n \in 1..Len(G)
      /\ G[n] = r /\ \A i \in 1..Len(F) : G[i] = F[i] /\ i \in 1..Len(G) /\ i # n
      /\ \A i \in 1..Len(G) : i = n \/ i \in 1..Len(F)
  OBVIOUS
<1> HIDE DEF G, n
<1>2. new = IF counts THEN old \cup {n} ELSE old
  <2>1. \A i \in 1..Len(F) : i \in new <=> i \in old
    BY <1>1 DEF UploadsOf, LiveOf
  <2>2. n \in new <=> counts
    BY <1>1 DEF UploadsOf, LiveOf
  <2>3. new \subseteq 1..Len(G) /\ old \subseteq 1..Len(F)
    BY DEF UploadsOf, LiveOf
  <2> HIDE DEF new, old, counts
  <2>4. \A i : i \in new <=> i \in old \/ (counts /\ i = n)
    BY <1>1, <2>1, <2>2, <2>3
  <2>5. CASE counts
    BY <2>4, <2>5
  <2>6. CASE ~counts
    BY <2>4, <2>6
  <2> QED
    BY <2>5, <2>6
<1>3. /\ IsFiniteSet(new) /\ IsFiniteSet(old) /\ old \subseteq 1..Len(F) /\ new \subseteq 1..Len(G)
      /\ \A i \in old : Weights(F)[i] \in Nat
      /\ \A i \in new : Weights(G)[i] \in Nat
      /\ UploadBytes(G, table) \in Nat /\ UploadBytes(F, table) \in Nat
  BY <1>1, UploadsWeigh
<1>4. \A i \in old : Weights(F)[i] = Weights(G)[i]
  BY <1>1, <1>3 DEF Weights
<1>5. Total(Weights(G), old) = UploadBytes(F, table)
  <2>1. old \in SUBSET old
    OBVIOUS
  <2>2. \A v : (\A x \in old : Weights(F)[x] = v[x]) => Total(v, old) = Total(Weights(F), old)
    BY <1>3, <2>1, SumCompares
  <2> QED
    BY <1>4, <2>2 DEF UploadBytes
<1>6. CASE counts
  <2>1. n \in new /\ new \ {n} = old
    BY <1>1, <1>2, <1>3, <1>6
  <2>2. Total(Weights(G), new) = Weights(G)[n] + Total(Weights(G), new \ {n})
    BY <1>3, <2>1, SumStep
  <2>3. Weights(G)[n] = SizeOf[r.data] /\ SizeOf[r.data] \in Nat
    BY <1>1, FilesAssumption DEF Weights, FileRow
  <2>4. UploadBytes(G, table) = Total(Weights(G), new)
    BY DEF UploadBytes
  <2> HIDE DEF new, old
  <2>5. UploadBytes(G, table) = SizeOf[r.data] + UploadBytes(F, table)
    BY <1>5, <2>1, <2>2, <2>3, <2>4
  <2> QED
    BY <1>3, <1>6, <2>3, <2>5 DEF G
<1>7. CASE ~counts
  <2>1. new = old
    BY <1>2, <1>7
  <2> QED
    BY <1>3, <1>5, <1>7, <2>1 DEF UploadBytes, G
<1> QED
  BY <1>6, <1>7

(* A row is deleted by marking it.                                          *)
Marked(F, k) == [F EXCEPT ![k].deleted = TRUE]

(* It weighs nothing any more, and nothing else of it changes.              *)
LEMMA RowDeleted ==
  ASSUME NEW F \in Seq(FileRow), NEW k \in 1..Len(F), NEW table,
         NEW G, G = Marked(F, k)
  PROVE  /\ G \in Seq(FileRow) /\ Len(G) = Len(F)
         /\ \A i \in 1..Len(F) : G[i].table = F[i].table /\ G[i].name = F[i].name /\ G[i].data = F[i].data
         /\ UploadBytes(G, table) \in Nat /\ UploadBytes(G, table) <= UploadBytes(F, table)
<1> DEFINE old == UploadsOf(F, table)
           new == UploadsOf(G, table)
<1>1. \A i \in 1..Len(F) : F[i] \in FileRow
  OBVIOUS
<1>2. PICK row \in FileRow : row = [F[k] EXCEPT !.deleted = TRUE]
  <2>1. F[k] \in FileRow
    BY <1>1
  <2> QED
    BY <2>1 DEF FileRow
<1>3. G = [F EXCEPT ![k] = row]
  BY <1>2 DEF Marked
<1>4. \A i \in 1..Len(F) : /\ G[i] \in FileRow /\ (~G[i].deleted => ~F[i].deleted)
                           /\ G[i].table = F[i].table /\ G[i].name = F[i].name /\ G[i].data = F[i].data
  <2> SUFFICES ASSUME NEW i \in 1..Len(F)
               PROVE  /\ G[i] \in FileRow /\ (~G[i].deleted => ~F[i].deleted)
                      /\ G[i].table = F[i].table /\ G[i].name = F[i].name /\ G[i].data = F[i].data
    OBVIOUS
  <2>1. CASE i # k
    <3>1. G[i] = F[i]
      BY <1>3, <2>1
    <3> QED
      BY <1>1, <3>1
  <2>2. CASE i = k
    <3>1. G[i] = row
      BY <1>3, <2>2
    <3>2. row.deleted = TRUE /\ row.table = F[k].table /\ row.name = F[k].name /\ row.data = F[k].data
      <4>1. F[k] \in FileRow
        BY <1>1
      <4> QED
        BY <1>2, <4>1 DEF FileRow
    <3> QED
      BY <2>2, <3>1, <3>2
  <2> QED
    BY <2>1, <2>2
<1>5. G \in Seq(FileRow) /\ Len(G) = Len(F)
  BY <1>3
<1>6. /\ IsFiniteSet(new) /\ IsFiniteSet(old) /\ old \subseteq 1..Len(F) /\ new \subseteq 1..Len(G)
      /\ \A i \in old : Weights(F)[i] \in Nat
      /\ UploadBytes(G, table) \in Nat
  BY <1>5, UploadsWeigh
<1>7. new \in SUBSET old
  BY <1>4, <1>5 DEF UploadsOf, LiveOf
<1>8. \A i \in new : Weights(F)[i] = Weights(G)[i]
  BY <1>4, <1>5, <1>6 DEF Weights
<1>9. Total(Weights(F), new) <= Total(Weights(F), old)
      /\ \A v : (\A x \in new : Weights(F)[x] = v[x]) => Total(v, new) = Total(Weights(F), new)
  BY <1>6, <1>7, SumCompares
<1>10. Total(Weights(G), new) <= Total(Weights(F), old)
  BY <1>8, <1>9
<1> QED
  BY <1>4, <1>5, <1>6, <1>10 DEF UploadBytes

(* The invariant: rows have their content, artifacts are there once, and an *)
(* upload that has been admitted fits, under the lock it holds.             *)
UploadRow == [pc : {"idle", "put", "row"}, table : Tables, data : Data \union {NoData}]
PublishRow == [pc : {"idle", "find", "put", "row", "read", "done"},
               name : Outputs \union {NoName}, data : Data \union {NoData}, answer : Nat]
RowsGood(F, st) ==
  /\ F \in Seq(FileRow) /\ st \subseteq Data
  /\ \A i \in 1..Len(F) : F[i].data \in st
  /\ \A i, j \in 1..Len(F) :
       /\ F[i].table = "files" /\ F[j].table = "files" /\ F[i].name # NoName
       /\ F[i].name = F[j].name /\ F[i].data = F[j].data
       => i = j
  /\ \A t \in Tables : UploadBytes(F, t) <= Quota[t]
UploadGood(F, st, o, u, x) ==
  /\ x \in UploadRow
  /\ x.pc # "idle" => /\ o = u /\ x.data \in Data
                      /\ UploadBytes(F, x.table) + SizeOf[x.data] <= Quota[x.table]
  /\ x.pc = "row" => x.data \in st
PublishGood(F, st, x) ==
  /\ x \in PublishRow
  /\ x.pc # "idle" => x.name \in Outputs /\ x.data \in Data
  /\ x.pc = "row" => x.data \in st
  /\ x.pc = "done" => x.answer \in KeyRows(F, x.name, x.data)
FilesInv ==
  /\ RowsGood(files, stored) /\ owner \in Uploaders \union {Unlocked}
  /\ DOMAIN upload = Uploaders /\ DOMAIN publish = Publishers
  /\ \A u \in Uploaders : UploadGood(files, stored, owner, u, upload[u])
  /\ \A w \in Publishers : PublishGood(files, stored, publish[w])

(* Later rows and contents: no lighter upload, no key that is gone.         *)
Later(F, st, G, st2) ==
  /\ F \in Seq(FileRow) /\ G \in Seq(FileRow) /\ st \subseteq st2
  /\ \A n, d : KeyRows(F, n, d) \subseteq KeyRows(G, n, d)

(* An admitted upload fits later as well, if none weighs more.              *)
LEMMA UploadStays ==
  ASSUME NEW F, NEW st, NEW G, NEW st2, Later(F, st, G, st2),
         \A t \in Tables : UploadBytes(G, t) <= UploadBytes(F, t),
         NEW o, NEW u, NEW x, UploadGood(F, st, o, u, x)
  PROVE  UploadGood(G, st2, o, u, x)
<1>1. CASE x.pc = "idle"
  BY <1>1 DEF UploadGood
<1>2. CASE x.pc # "idle"
  <2>1. x.table \in Tables /\ x.data \in Data /\ o = u
    BY <1>2 DEF UploadGood, UploadRow
  <2>2. /\ SizeOf[x.data] \in Nat /\ Quota[x.table] \in Nat
        /\ UploadBytes(F, x.table) \in Nat /\ UploadBytes(G, x.table) \in Nat
        /\ UploadBytes(G, x.table) <= UploadBytes(F, x.table)
    BY <2>1, FilesAssumption, UploadsWeigh DEF Later, Tables
  <2>3. UploadBytes(G, x.table) + SizeOf[x.data] <= Quota[x.table]
    BY <1>2, <2>2 DEF UploadGood
  <2> QED
    BY <2>1, <2>3 DEF UploadGood, Later
<1> QED
  BY <1>1, <1>2

(* A publisher's find is there later.                                       *)
LEMMA PublishStays ==
  ASSUME NEW F, NEW st, NEW G, NEW st2, Later(F, st, G, st2),
         NEW x, PublishGood(F, st, x)
  PROVE  PublishGood(G, st2, x)
BY DEF PublishGood, Later

(* A row is added: an upload that fits, or an artifact with a new key.      *)
LEMMA AddedRows ==
  ASSUME NEW F, NEW st, RowsGood(F, st), NEW r \in FileRow, r.data \in st, ~r.deleted,
         \/ r.name = NoName /\ UploadBytes(F, r.table) + SizeOf[r.data] <= Quota[r.table]
         \/ r.name # NoName /\ KeyRows(F, r.name, r.data) = {}
  PROVE  /\ RowsGood(Append(F, r), st) /\ Later(F, st, Append(F, r), st)
         /\ r.name # NoName => \A t \in Tables : UploadBytes(Append(F, r), t) <= UploadBytes(F, t)
<1> DEFINE G == Append(F, r)
           n == Len(F) + 1
<1>0. F \in Seq(FileRow)
  BY DEF RowsGood
<1>1. /\ G \in Seq(FileRow) /\ Len(G) = n /\ n \notin 1..Len(F) /\ n \in 1..Len(G)
      /\ G[n] = r /\ \A i \in 1..Len(F) : G[i] = F[i] /\ i \in 1..Len(G) /\ i # n
      /\ \A i \in 1..Len(G) : i = n \/ i \in 1..Len(F)
  BY <1>0
<1>2. ASSUME NEW t \in Tables
      PROVE  /\ UploadBytes(G, t) <= Quota[t]
             /\ r.name # NoName => UploadBytes(G, t) <= UploadBytes(F, t)
  <2>1. /\ UploadBytes(G, t) \in Nat /\ UploadBytes(F, t) \in Nat /\ UploadBytes(F, t) <= Quota[t]
        /\ UploadBytes(G, t) = IF r.table = t /\ ~r.deleted /\ r.name = NoName
                                 THEN UploadBytes(F, t) + SizeOf[r.data] ELSE UploadBytes(F, t)
    BY <1>0, RowAdded, UploadsWeigh DEF RowsGood
  <2> HIDE DEF G
  <2> QED
    BY <2>1
<1> HIDE DEF G, n
<1>3. \A i \in 1..Len(G) : G[i].data \in st
  BY <1>1 DEF RowsGood
<1>4. ASSUME NEW i \in 1..Len(G), NEW j \in 1..Len(G),
             G[i].table = "files", G[j].table = "files", G[i].name # NoName,
             G[i].name = G[j].name, G[i].data = G[j].data
      PROVE  i = j
  <2>1. CASE i \in 1..Len(F) /\ j \in 1..Len(F)
    BY <1>1, <1>4, <2>1 DEF RowsGood
  <2>2. CASE i = n /\ j \in 1..Len(F)
    <3>1. j \in KeyRows(F, r.name, r.data) /\ r.name # NoName
      BY <1>1, <1>4, <2>2 DEF KeyRows
    <3> QED
      BY <3>1
  <2>3. CASE j = n /\ i \in 1..Len(F)
    <3>1. i \in KeyRows(F, r.name, r.data) /\ r.name # NoName
      BY <1>1, <1>4, <2>3 DEF KeyRows
    <3> QED
      BY <3>1
  <2> QED
    BY <1>1, <2>1, <2>2, <2>3
<1>5. \A x, d : KeyRows(F, x, d) \subseteq KeyRows(G, x, d)
  BY <1>1 DEF KeyRows
<1>6. RowsGood(G, st)
  BY <1>1, <1>2, <1>3, <1>4 DEF RowsGood
<1> QED
  BY <1>0, <1>1, <1>2, <1>5, <1>6 DEF Later, G

(* The uploads, one at a time under the owner's lock.                       *)
LEMMA UploadKeeps ==
  ASSUME FilesInv, NEW u \in Uploaders,
         \/ UploadBlob(u) \/ CommitUpload(u) \/ UploadFails(u)
         \/ \E table \in Tables, data \in Data : BeginUpload(u, table, data)
  PROVE  FilesInv'
<1>0. /\ RowsGood(files, stored) /\ UploadGood(files, stored, owner, u, upload[u])
      /\ files \in Seq(FileRow) /\ DOMAIN upload = Uploaders /\ publish' = publish
      /\ Unlocked \notin Uploaders
  BY FilesAssumption DEF FilesInv, RowsGood, UploadBlob, CommitUpload, UploadFails, BeginUpload
<1> SUFFICES /\ RowsGood(files', stored') /\ Later(files, stored, files', stored')
             /\ owner' \in Uploaders \union {Unlocked} /\ DOMAIN upload' = Uploaders
             /\ \A v \in Uploaders : UploadGood(files', stored', owner', v, upload'[v])
  <2>1. FilesInv' <=> /\ RowsGood(files', stored') /\ owner' \in Uploaders \union {Unlocked}
                      /\ DOMAIN upload' = Uploaders /\ DOMAIN publish' = Publishers
                      /\ \A v \in Uploaders : UploadGood(files', stored', owner', v, upload'[v])
                      /\ \A w \in Publishers : PublishGood(files', stored', publish'[w])
    BY DEF FilesInv
  <2>2. \A w \in Publishers : PublishGood(files, stored, publish[w])
    BY DEF FilesInv
  <2>3. DOMAIN publish = Publishers
    BY DEF FilesInv
  <2> QED
    BY <1>0, <2>1, <2>2, <2>3, PublishStays
<1>1. Later(files, stored, files, stored)
  BY <1>0 DEF Later
<1>2. \A v \in Uploaders \ {u} : UploadGood(files, stored, owner, v, upload[v])
                                 /\ (owner = u \/ owner = Unlocked => upload[v].pc = "idle")
  BY <1>0 DEF FilesInv, UploadGood
<1>3. UploadGood(files', stored', owner', u, NoUpload)
  BY DEF UploadGood, UploadRow, NoUpload, Tables
<1>4. ASSUME NEW table \in Tables, NEW data \in Data, BeginUpload(u, table, data)
      PROVE  /\ RowsGood(files', stored') /\ Later(files, stored, files', stored')
             /\ owner' \in Uploaders \union {Unlocked} /\ DOMAIN upload' = Uploaders
             /\ \A v \in Uploaders : UploadGood(files', stored', owner', v, upload'[v])
  <2>1. /\ files' = files /\ stored' = stored /\ owner = Unlocked /\ owner' = u
        /\ DOMAIN upload' = Uploaders /\ \A v \in Uploaders \ {u} : upload'[v] = upload[v]
        /\ upload'[u] = [pc |-> "put", table |-> table, data |-> data]
        /\ Bytes(Live(table)) + SizeOf[data] <= Quota[table]
    BY <1>0, <1>4 DEF BeginUpload, LockOwner
  <2>2. Live(table) = LiveOf(files, table)
    BY DEF Live, Rows, LiveOf
  <2>3. Bytes(Live(table)) = BytesOf(files, Live(table))
    BY DEF Bytes, MapThenSumSet, MapThenFoldSet, BytesOf, RowSum, Chosen
  <2>4. BytesOf(files, LiveOf(files, table)) = Total(Weights(files), LiveOf(files, table))
    BY <1>0, UploadsWeigh, BytesAre
  <2>5. /\ UploadBytes(files, table) \in Nat /\ Total(Weights(files), LiveOf(files, table)) \in Nat
        /\ UploadBytes(files, table) <= Total(Weights(files), LiveOf(files, table))
        /\ SizeOf[data] \in Nat /\ Quota[table] \in Nat
    BY <1>0, FilesAssumption, UploadsWeigh DEF Tables
  <2>6. UploadBytes(files, table) + SizeOf[data] <= Quota[table]
    BY <2>1, <2>2, <2>3, <2>4, <2>5
  <2>7. UploadGood(files, stored, u, u, upload'[u])
    BY <2>1, <2>6 DEF UploadGood, UploadRow
  <2>8. \A v \in Uploaders \ {u} : UploadGood(files, stored, u, v, upload[v])
    BY <1>2, <2>1 DEF UploadGood
  <2> QED
    BY <1>0, <1>1, <2>1, <2>7, <2>8
<1>5. CASE UploadBlob(u)
  <2>1. /\ files' = files /\ stored' = stored \union {upload[u].data} /\ owner' = owner
        /\ upload[u].pc = "put" /\ owner = u /\ upload[u].data \in Data
        /\ DOMAIN upload' = Uploaders /\ \A v \in Uploaders \ {u} : upload'[v] = upload[v]
        /\ upload'[u] = [upload[u] EXCEPT !.pc = "row"]
    BY <1>0, <1>5 DEF UploadBlob, UploadGood
  <2>2. RowsGood(files, stored') /\ Later(files, stored, files, stored')
    BY <1>0, <2>1 DEF RowsGood, Later
  <2>3. \A t \in Tables : UploadBytes(files, t) <= UploadBytes(files, t)
    BY <1>0, UploadsWeigh
  <2>4. \A v \in Uploaders : UploadGood(files, stored', owner, v, upload[v])
    BY <2>2, <2>3, UploadStays DEF FilesInv
  <2>5. UploadGood(files, stored', owner, u, upload'[u])
    BY <2>1, <2>4 DEF UploadGood, UploadRow
  <2> QED
    BY <2>1, <2>2, <2>4, <2>5 DEF FilesInv
<1>6. CASE CommitUpload(u)
  <2> DEFINE r == Row(upload[u].table, NoName, upload[u].data)
  <2>1. /\ files' = Append(files, r) /\ stored' = stored /\ owner' = Unlocked
        /\ upload[u].pc = "row" /\ owner = u /\ upload[u].data \in Data /\ upload[u].data \in stored
        /\ UploadBytes(files, upload[u].table) + SizeOf[upload[u].data] <= Quota[upload[u].table]
        /\ upload[u].table \in Tables
        /\ DOMAIN upload' = Uploaders /\ \A v \in Uploaders \ {u} : upload'[v] = upload[v]
        /\ upload'[u] = NoUpload
    BY <1>0, <1>6 DEF CommitUpload, UploadGood, UploadRow
  <2>2. /\ r \in FileRow /\ r.data = upload[u].data /\ r.table = upload[u].table
        /\ r.name = NoName /\ ~r.deleted
    BY <2>1 DEF Row, FileRow
  <2> HIDE DEF r
  <2>3. RowsGood(files', stored') /\ Later(files, stored, files', stored')
    BY <1>0, <2>1, <2>2, AddedRows
  <2>4. \A v \in Uploaders \ {u} : UploadGood(files', stored', owner', v, upload'[v])
    BY <1>2, <2>1 DEF UploadGood
  <2> QED
    BY <1>3, <2>1, <2>3, <2>4
<1>7. CASE UploadFails(u)
  <2>1. /\ files' = files /\ stored' = stored /\ owner' = Unlocked /\ owner = u
        /\ DOMAIN upload' = Uploaders /\ \A v \in Uploaders \ {u} : upload'[v] = upload[v]
        /\ upload'[u] = NoUpload
    BY <1>0, <1>7 DEF UploadFails, UploadGood
  <2>2. \A v \in Uploaders \ {u} : UploadGood(files', stored', owner', v, upload'[v])
    BY <1>2, <2>1 DEF UploadGood
  <2> QED
    BY <1>0, <1>1, <1>3, <2>1, <2>2
<1> QED
  BY <1>4, <1>5, <1>6, <1>7

(* What a publisher does, and a row deleted: no upload weighs more.         *)
LEMMA FilesMove ==
  ASSUME FilesInv, owner' = owner, upload' = upload, RowsGood(files', stored'),
         Later(files, stored, files', stored'),
         \A t \in Tables : UploadBytes(files', t) <= UploadBytes(files, t),
         DOMAIN publish' = Publishers,
         \A v \in Publishers : \/ PublishGood(files', stored', publish'[v])
                               \/ publish'[v] = publish[v]
  PROVE  FilesInv'
<1>1. FilesInv' <=> /\ RowsGood(files', stored') /\ owner' \in Uploaders \union {Unlocked}
                    /\ DOMAIN upload' = Uploaders /\ DOMAIN publish' = Publishers
                    /\ \A v \in Uploaders : UploadGood(files', stored', owner', v, upload'[v])
                    /\ \A v \in Publishers : PublishGood(files', stored', publish'[v])
  BY DEF FilesInv
<1>2. \A v \in Uploaders : UploadGood(files', stored', owner', v, upload'[v])
  <2>1. \A v \in Uploaders : UploadGood(files, stored, owner, v, upload[v])
    BY DEF FilesInv
  <2> QED
    BY <2>1, UploadStays
<1>3. \A v \in Publishers : PublishGood(files', stored', publish[v])
  <2>1. \A v \in Publishers : PublishGood(files, stored, publish[v])
    BY DEF FilesInv
  <2> QED
    BY <2>1, PublishStays
<1> QED
  BY <1>1, <1>2, <1>3 DEF FilesInv

(* The publishers, without a lock.                                          *)
LEMMA PublishKeeps ==
  ASSUME FilesInv, NEW w \in Publishers,
         \/ FindArtifact(w) \/ ArtifactBlob(w) \/ InsertArtifact(w) \/ ReadArtifact(w)
         \/ PublishEnds(w)
         \/ \E name \in Outputs, data \in Data : BeginPublish(w, name, data)
  PROVE  FilesInv'
<1>0. /\ RowsGood(files, stored) /\ PublishGood(files, stored, publish[w])
      /\ files \in Seq(FileRow) /\ DOMAIN publish = Publishers
      /\ owner' = owner /\ upload' = upload /\ NoName \notin Outputs
  BY FilesAssumption DEF FilesInv, RowsGood, FindArtifact, ArtifactBlob, InsertArtifact,
     ReadArtifact, PublishEnds, BeginPublish, NoName
<1>1. Later(files, stored, files, stored)
      /\ \A t \in Tables : UploadBytes(files, t) <= UploadBytes(files, t)
  BY <1>0, UploadsWeigh DEF Later
<1>2. /\ DOMAIN publish' = Publishers
      /\ \A v \in Publishers \ {w} : publish'[v] = publish[v]
  BY <1>0 DEF FindArtifact, ArtifactBlob, InsertArtifact, ReadArtifact, PublishEnds,
     BeginPublish, Publishes
<1>3. \A n, d : SameKey(n, d) = KeyRows(files, n, d)
  BY DEF SameKey, Rows, KeyRows
<1>4. ASSUME NEW pc \in {"find", "put", "row", "read", "done"}, NEW answer \in Nat,
             Publishes(w, pc, answer), publish[w].pc # "idle"
      PROVE  /\ publish'[w] \in PublishRow /\ publish'[w].pc = pc /\ publish'[w].answer = answer
             /\ publish'[w].name = publish[w].name /\ publish'[w].data = publish[w].data
             /\ publish[w].name \in Outputs /\ publish[w].data \in Data
  <2>1. publish'[w] = [[publish[w] EXCEPT !.pc = pc] EXCEPT !.answer = answer]
    BY <1>0, <1>4 DEF Publishes
  <2>2. publish[w] \in PublishRow /\ publish[w].name \in Outputs /\ publish[w].data \in Data
    BY <1>0, <1>4 DEF PublishGood
  <2> QED
    BY <2>1, <2>2 DEF PublishRow
<1>5. ASSUME NEW name \in Outputs, NEW data \in Data, BeginPublish(w, name, data)
      PROVE  FilesInv'
  <2>1. /\ files' = files /\ stored' = stored
        /\ publish'[w] = [pc |-> "find", name |-> name, data |-> data, answer |-> 0]
    BY <1>0, <1>5 DEF BeginPublish
  <2>2. PublishGood(files', stored', publish'[w])
    BY <2>1 DEF PublishGood, PublishRow
  <2> QED
    BY <1>0, <1>1, <1>2, <2>1, <2>2, FilesMove
<1>6. CASE FindArtifact(w) \/ ReadArtifact(w)
  <2>1. files' = files /\ stored' = stored /\ publish[w].pc # "idle"
    BY <1>6 DEF FindArtifact, ReadArtifact
  <2>2. PublishGood(files', stored', publish'[w])
    <3>1. ASSUME NEW i \in SameKey(publish[w].name, publish[w].data), Publishes(w, "done", i)
          PROVE  PublishGood(files, stored, publish'[w])
      <4>1. i \in KeyRows(files, publish[w].name, publish[w].data) /\ i \in Nat
        BY <1>3 DEF KeyRows
      <4>2. /\ publish'[w] \in PublishRow /\ publish'[w].pc = "done" /\ publish'[w].answer = i
            /\ publish'[w].name = publish[w].name /\ publish'[w].data = publish[w].data
            /\ publish[w].name \in Outputs /\ publish[w].data \in Data
        BY <1>4, <2>1, <3>1, <4>1
      <4> QED
        BY <4>1, <4>2 DEF PublishGood
    <3>2. ASSUME Publishes(w, "put", 0)
          PROVE  PublishGood(files, stored, publish'[w])
      <4>1. /\ publish'[w] \in PublishRow /\ publish'[w].pc = "put"
            /\ publish'[w].name = publish[w].name /\ publish'[w].data = publish[w].data
            /\ publish[w].name \in Outputs /\ publish[w].data \in Data
        BY <1>4, <2>1, <3>2
      <4> QED
        BY <4>1 DEF PublishGood
    <3> QED
      BY <1>6, <2>1, <3>1, <3>2 DEF FindArtifact, ReadArtifact
  <2> QED
    BY <1>0, <1>1, <1>2, <2>1, <2>2, FilesMove
<1>7. CASE ArtifactBlob(w)
  <2>1. /\ files' = files /\ stored' = stored \union {publish[w].data}
        /\ publish[w].pc # "idle" /\ Publishes(w, "row", 0)
    BY <1>7 DEF ArtifactBlob
  <2>2. /\ publish'[w] \in PublishRow /\ publish'[w].pc = "row"
        /\ publish'[w].name = publish[w].name /\ publish'[w].data = publish[w].data
        /\ publish[w].name \in Outputs /\ publish[w].data \in Data
    BY <1>4, <2>1
  <2>3. PublishGood(files', stored', publish'[w])
    BY <2>1, <2>2 DEF PublishGood
  <2>4. RowsGood(files', stored') /\ Later(files, stored, files', stored')
    BY <1>0, <2>1, <2>2 DEF RowsGood, Later
  <2> QED
    BY <1>0, <1>1, <1>2, <2>1, <2>3, <2>4, FilesMove
<1>8. CASE InsertArtifact(w)
  <2> DEFINE r == Row("files", publish[w].name, publish[w].data)
  <2>1. /\ stored' = stored /\ publish[w].pc = "row" /\ Publishes(w, "read", 0)
        /\ publish[w].data \in stored
        /\ files' = IF KeyRows(files, publish[w].name, publish[w].data) = {}
                      THEN Append(files, r) ELSE files
    BY <1>0, <1>3, <1>8 DEF InsertArtifact, Inserted, PublishGood
  <2>2. /\ publish'[w] \in PublishRow /\ publish'[w].pc = "read"
        /\ publish'[w].name = publish[w].name /\ publish'[w].data = publish[w].data
        /\ publish[w].name \in Outputs /\ publish[w].data \in Data
    BY <1>4, <2>1
  <2>3. PublishGood(files', stored', publish'[w])
    BY <2>2 DEF PublishGood
  <2>4. /\ r \in FileRow /\ r.data = publish[w].data /\ r.name = publish[w].name
        /\ ~r.deleted /\ r.name # NoName
    BY <1>0, <2>2 DEF Row, FileRow, Tables
  <2> HIDE DEF r
  <2>5. /\ RowsGood(files', stored') /\ Later(files, stored, files', stored')
        /\ \A t \in Tables : UploadBytes(files', t) <= UploadBytes(files, t)
    <3>1. CASE KeyRows(files, publish[w].name, publish[w].data) = {}
      BY <1>0, <2>1, <2>4, <3>1, AddedRows
    <3>2. CASE KeyRows(files, publish[w].name, publish[w].data) # {}
      BY <1>0, <1>1, <2>1, <3>2
    <3> QED
      BY <3>1, <3>2
  <2> QED
    BY <1>0, <1>2, <2>3, <2>5, FilesMove
<1>9. CASE PublishEnds(w)
  <2>1. files' = files /\ stored' = stored /\ publish'[w] = NoPublish
    BY <1>0, <1>9 DEF PublishEnds
  <2>2. PublishGood(files', stored', publish'[w])
    BY <2>1 DEF PublishGood, PublishRow, NoPublish
  <2> QED
    BY <1>0, <1>1, <1>2, <2>1, <2>2, FilesMove
<1> QED
  BY <1>5, <1>6, <1>7, <1>8, <1>9

(* A file is deleted by marking its row: its content and its key stay.      *)
LEMMA DeleteKeeps ==
  ASSUME FilesInv, NEW k \in 1..Len(files), DeleteFile(k)
  PROVE  FilesInv'
<1>0. /\ RowsGood(files, stored) /\ files \in Seq(FileRow) /\ DOMAIN publish = Publishers
      /\ owner' = owner /\ upload' = upload /\ publish' = publish /\ stored' = stored
      /\ files' = Marked(files, k)
  BY DEF FilesInv, RowsGood, DeleteFile, Marked
<1>1. /\ files' \in Seq(FileRow) /\ Len(files') = Len(files)
      /\ \A i \in 1..Len(files) : /\ files'[i].table = files[i].table
                                  /\ files'[i].name = files[i].name /\ files'[i].data = files[i].data
      /\ \A t \in Tables : UploadBytes(files', t) \in Nat /\ UploadBytes(files', t) <= UploadBytes(files, t)
  <2>1. \A t \in Tables :
          /\ files' \in Seq(FileRow) /\ Len(files') = Len(files)
          /\ \A i \in 1..Len(files) :
               /\ files'[i].table = files[i].table
               /\ files'[i].name = files[i].name /\ files'[i].data = files[i].data
          /\ UploadBytes(files', t) \in Nat /\ UploadBytes(files', t) <= UploadBytes(files, t)
    BY <1>0, RowDeleted
  <2> QED
    BY <2>1 DEF Tables
<1>2. Later(files, stored, files', stored')
  BY <1>0, <1>1 DEF Later, KeyRows
<1>3. \A t \in Tables : UploadBytes(files', t) <= Quota[t]
  <2> SUFFICES ASSUME NEW t \in Tables PROVE UploadBytes(files', t) <= Quota[t]
    OBVIOUS
  <2>1. /\ UploadBytes(files, t) \in Nat /\ UploadBytes(files', t) \in Nat /\ Quota[t] \in Nat
        /\ UploadBytes(files', t) <= UploadBytes(files, t) /\ UploadBytes(files, t) <= Quota[t]
    BY <1>0, <1>1, UploadsWeigh, FilesAssumption DEF RowsGood, Tables
  <2> QED
    BY <2>1
<1>4. RowsGood(files', stored')
  <2>1. \A i \in 1..Len(files') : files'[i].data \in stored'
    BY <1>0, <1>1 DEF RowsGood
  <2>2. \A i, j \in 1..Len(files') :
          /\ files'[i].table = "files" /\ files'[j].table = "files" /\ files'[i].name # NoName
          /\ files'[i].name = files'[j].name /\ files'[i].data = files'[j].data
          => i = j
    <3> SUFFICES ASSUME NEW i \in 1..Len(files'), NEW j \in 1..Len(files'),
                        files'[i].table = "files", files'[j].table = "files",
                        files'[i].name # NoName,
                        files'[i].name = files'[j].name, files'[i].data = files'[j].data
                 PROVE  i = j
      OBVIOUS
    <3>1. /\ i \in 1..Len(files) /\ j \in 1..Len(files)
          /\ files[i].table = "files" /\ files[j].table = "files" /\ files[i].name # NoName
          /\ files[i].name = files[j].name /\ files[i].data = files[j].data
      BY <1>1
    <3> QED
      BY <1>0, <3>1 DEF RowsGood
  <2>3. stored' \subseteq Data
    BY <1>0 DEF RowsGood
  <2> QED
    BY <1>1, <1>3, <2>1, <2>2, <2>3 DEF RowsGood
<1> QED
  BY <1>0, <1>1, <1>2, <1>4, FilesMove

(* No rows at first.                                                        *)
LEMMA FilesStart == FilesInit => FilesInv
<1> SUFFICES ASSUME FilesInit PROVE FilesInv
  OBVIOUS
<1>1. /\ files = <<>> /\ files \in Seq(FileRow) /\ stored = {} /\ owner = Unlocked
      /\ DOMAIN upload = Uploaders /\ DOMAIN publish = Publishers
      /\ \A u \in Uploaders : upload[u] = NoUpload
      /\ \A w \in Publishers : publish[w] = NoPublish
  BY DEF FilesInit
<1>2. ASSUME NEW t \in Tables PROVE UploadBytes(files, t) <= Quota[t]
  <2>1. UploadsOf(files, t) = {} /\ Quota[t] \in Nat
    BY <1>1, FilesAssumption DEF UploadsOf, LiveOf, Tables
  <2>2. \A w : Total(w, {}) = 0
    <3> TAKE w
    <3>1. \A x \in {} : w[x] \in Nat
      OBVIOUS
    <3> QED
      BY <3>1, FS_EmptySet, SumStep
  <2> QED
    BY <2>1, <2>2 DEF UploadBytes
<1>3. RowsGood(files, stored)
  BY <1>1, <1>2 DEF RowsGood
<1>4. \A u \in Uploaders : UploadGood(files, stored, owner, u, upload[u])
  BY <1>1 DEF UploadGood, UploadRow, NoUpload, Tables
<1>5. \A w \in Publishers : PublishGood(files, stored, publish[w])
  BY <1>1 DEF PublishGood, PublishRow, NoPublish
<1> QED
  BY <1>1, <1>3, <1>4, <1>5 DEF FilesInv

(* The invariant holds of every behaviour, and rows, contents and           *)
(* transactions stay of their types.                                        *)
THEOREM FilesInvariance == FilesSpec => []FilesInv
<1>1. FilesInv /\ [FilesNext]_fileVars => FilesInv'
  <2> SUFFICES ASSUME FilesInv, [FilesNext]_fileVars PROVE FilesInv'
    OBVIOUS
  <2>1. CASE UNCHANGED fileVars
    BY <2>1 DEF fileVars, FilesInv
  <2>2. CASE FilesNext
    <3>1. ASSUME NEW u \in Uploaders,
                 \/ UploadBlob(u) \/ CommitUpload(u) \/ UploadFails(u)
                 \/ \E table \in {"files", "skills"}, data \in Data : BeginUpload(u, table, data)
          PROVE  FilesInv'
      BY <3>1, UploadKeeps DEF Tables
    <3>2. ASSUME NEW w \in Publishers,
                 \/ FindArtifact(w) \/ ArtifactBlob(w) \/ InsertArtifact(w)
                 \/ ReadArtifact(w) \/ PublishEnds(w)
                 \/ \E name \in Outputs, data \in Data : BeginPublish(w, name, data)
          PROVE  FilesInv'
      BY <3>2, PublishKeeps
    <3> QED
      BY <2>2, <3>1, <3>2, DeleteKeeps DEF FilesNext
  <2> QED
    BY <2>1, <2>2
<1> QED
  BY <1>1, FilesStart, PTL DEF FilesSpec

(* A row has its content, an artifact is one row that all its publishers    *)
(* were told, and concurrent uploads never exceed the quota together (Put,  *)
(* PutArtifact, Create).                                                    *)
THEOREM FilesAreExact == FilesSpec => []FilesExact
<1>1. FilesInv => FilesExact
  <2> SUFFICES ASSUME FilesInv PROVE FilesExact
    OBVIOUS
  <2>1. RowsGood(files, stored) /\ files \in Seq(FileRow)
    BY DEF FilesInv, RowsGood
  <2>2. RowsHaveContent
    BY <2>1 DEF RowsGood, RowsHaveContent
  <2>3. ArtifactsOnce
    <3>1. \A n, d : SameKey(n, d) = KeyRows(files, n, d)
      BY DEF SameKey, Rows, KeyRows
    <3> QED
      BY <2>1, <3>1 DEF FilesInv, RowsGood, PublishGood, ArtifactsOnce, Rows
  <2>4. UploadsWithinQuota
    <3> SUFFICES ASSUME NEW t \in Tables
                 PROVE  Bytes({i \in Live(t) : files[i].name = NoName}) <= Quota[t]
      BY DEF UploadsWithinQuota, Tables
    <3> DEFINE S == {i \in Live(t) : files[i].name = NoName}
    <3>1. S = UploadsOf(files, t)
      BY DEF Live, Rows, LiveOf, UploadsOf
    <3>2. Bytes(S) = BytesOf(files, S)
      BY DEF Bytes, MapThenSumSet, MapThenFoldSet, BytesOf, RowSum, Chosen
    <3> HIDE DEF S
    <3>3. BytesOf(files, S) = Total(Weights(files), S)
      BY <2>1, <3>1, UploadsWeigh, BytesAre
    <3>4. UploadBytes(files, t) <= Quota[t]
      BY <2>1 DEF RowsGood
    <3> QED
      BY <3>1, <3>2, <3>3, <3>4 DEF UploadBytes, S
  <2> QED
    BY <2>2, <2>3, <2>4 DEF FilesExact
<1> QED
  BY <1>1, FilesInvariance, PTL


-----------------------------------------------------------------------------
(* Event streams. A set of events with numbers of their own is listed in    *)
(* one order.                                                               *)
EventRow == [seq : Nat, mine : BOOLEAN, relevant : BOOLEAN]
OneEach(S) == S \subseteq EventRow /\ \A a, b \in S : a.seq = b.seq => a = b
Lists(s, S) ==
  /\ s \in Seq(S) /\ \A x \in S : \E i \in 1..Len(s) : s[i] = x
  /\ \A i, j \in 1..Len(s) : i < j => s[i].seq < s[j].seq

(* Two lists, one after the other.                                          *)
LEMMA ListsJoin ==
  ASSUME NEW S, NEW T, S \subseteq EventRow, T \subseteq EventRow, NEW f, NEW g,
         Lists(f, S), Lists(g, T), \A x \in S, y \in T : x.seq < y.seq
  PROVE  Lists(f \o g, S \cup T)
<1> DEFINE h == f \o g
           n == Len(f)
           m == Len(g)
<1>1. /\ f \in Seq(S) /\ g \in Seq(T) /\ n \in Nat /\ m \in Nat
      /\ \A i \in 1..n : f[i] \in S
      /\ \A i \in 1..m : g[i] \in T
  BY DEF Lists
<1>2. /\ h \in Seq(S \cup T) /\ Len(h) = n + m
      /\ \A i \in 1..n : h[i] = f[i]
      /\ \A i \in 1..m : h[n + i] = g[i]
  <2>1. f \in Seq(S \cup T) /\ g \in Seq(S \cup T)
    BY <1>1
  <2> QED
    BY <1>1, <2>1
<1> HIDE DEF h, n, m
<1>3. \A i \in 1..(n + m) : i \in 1..n \/ (i - n \in 1..m /\ h[i] = g[i - n])
  <2> SUFFICES ASSUME NEW i \in 1..(n + m), i \notin 1..n
               PROVE  i - n \in 1..m /\ h[i] = g[i - n]
    OBVIOUS
  <2>1. i - n \in 1..m /\ n + (i - n) = i
    BY <1>1
  <2> QED
    BY <1>2, <2>1
<1>4. ASSUME NEW x \in S \cup T PROVE \E i \in 1..Len(h) : h[i] = x
  <2>1. CASE x \in S
    <3>1. PICK i \in 1..n : f[i] = x
      BY <2>1 DEF Lists, n
    <3> QED
      BY <1>1, <1>2, <3>1
  <2>2. CASE x \in T
    <3>1. PICK i \in 1..m : g[i] = x
      BY <2>2 DEF Lists, m
    <3>2. n + i \in 1..Len(h)
      BY <1>1, <1>2
    <3> QED
      BY <1>2, <3>1, <3>2
  <2> QED
    BY <2>1, <2>2
<1>5. ASSUME NEW i \in 1..Len(h), NEW j \in 1..Len(h), i < j
      PROVE  h[i].seq < h[j].seq
  <2>1. CASE j \in 1..n
    <3>1. i \in 1..n
      BY <1>1, <1>5, <2>1
    <3> QED
      BY <1>2, <1>5, <2>1, <3>1 DEF Lists, n
  <2>2. CASE i \in 1..n /\ j \notin 1..n
    BY <1>1, <1>2, <1>3, <2>2
  <2>3. CASE i \notin 1..n /\ j \notin 1..n
    <3>1. /\ i - n \in 1..m /\ h[i] = g[i - n] /\ j - n \in 1..m /\ h[j] = g[j - n]
          /\ i - n < j - n
      BY <1>1, <1>2, <1>3, <1>5, <2>3
    <3> QED
      BY <3>1 DEF Lists, m
  <2>4. i \in 1..n \/ j \notin 1..n
    BY <1>1, <1>5
  <2> QED
    BY <2>1, <2>2, <2>3, <2>4
<1> QED
  BY <1>2, <1>4, <1>5 DEF Lists, h

(* No event has the empty list, one event a list of one.                    *)
LEMMA ListsFew ==
  ASSUME NEW x PROVE Lists(<<>>, {}) /\ Lists(<<x>>, {x})
BY DEF Lists

(* There is a list, built from its least event on.                          *)
LEMMA ListExists ==
  ASSUME NEW S, IsFiniteSet(S), OneEach(S)
  PROVE  \E s : Lists(s, S)
<1> DEFINE Bad == {T \in SUBSET S : ~\E s : Lists(s, T)}
<1> SUFFICES ASSUME Bad # {} PROVE FALSE
  OBVIOUS
<1>0. Bad \in SUBSET (SUBSET S)
  OBVIOUS
<1> HIDE DEF Bad
<1>1. PICK T \in Bad : \A q \in Bad : q \subseteq T => q = T
  BY <1>0, SmallestOf
<1>2. T \subseteq S /\ T # {} /\ ~\E s : Lists(s, T)
  BY <1>1, ListsFew DEF Bad
<1>3. PICK m \in T : \A x \in T : m.seq <= x.seq
  <2> DEFINE N == {x.seq : x \in T}
  <2>1. N \in SUBSET Nat /\ N # {}
    BY <1>2 DEF OneEach, EventRow
  <2> HIDE DEF N
  <2>2. PICK c \in N : \A d \in N : c <= d
    BY <2>1, LeastOf
  <2> QED
    BY <2>2 DEF N
<1>4. T \ {m} \notin Bad /\ T \ {m} \subseteq S
  BY <1>1, <1>2, <1>3
<1>5. PICK g : Lists(g, T \ {m})
  BY <1>4 DEF Bad
<1>6. \A x \in {m}, y \in T \ {m} : x.seq < y.seq
  BY <1>2, <1>3 DEF OneEach, EventRow
<1>7. {m} \subseteq EventRow /\ T \ {m} \subseteq EventRow /\ {m} \cup (T \ {m}) = T
  BY <1>2, <1>3 DEF OneEach
<1>8. Lists(<<m>> \o g, {m} \cup (T \ {m}))
  BY <1>5, <1>6, <1>7, ListsFew, ListsJoin
<1> QED
  BY <1>2, <1>7, <1>8

(* A list begins as any other list does.                                    *)
LEMMA ListsBegin ==
  ASSUME NEW S, S \subseteq EventRow, NEW f, NEW g, Lists(f, S), Lists(g, S)
  PROVE  \A i \in 1..Len(f) : i \in 1..Len(g) /\ f[i] = g[i]
<1> DEFINE Bad == {i \in 1..Len(f) : ~(i \in 1..Len(g) /\ f[i] = g[i])}
<1> SUFFICES ASSUME Bad # {} PROVE FALSE
  OBVIOUS
<1>0. /\ Len(f) \in Nat /\ Len(g) \in Nat
      /\ \A i \in 1..Len(f) : f[i] \in S /\ f[i].seq \in Nat
      /\ \A i \in 1..Len(g) : g[i] \in S /\ g[i].seq \in Nat
  <2>1. f \in Seq(S) /\ g \in Seq(S)
    BY DEF Lists
  <2>2. \A x \in S : x.seq \in Nat
    BY DEF EventRow
  <2>3. \A i \in 1..Len(f) : f[i] \in S
    BY <2>1
  <2>4. \A i \in 1..Len(g) : g[i] \in S
    BY <2>1
  <2> QED
    BY <2>1, <2>2, <2>3, <2>4
<1>1. Bad \in SUBSET Nat
  BY <1>0
<1> HIDE DEF Bad
<1>2. PICK i \in Bad : \A j \in Bad : i <= j
  BY <1>1, LeastOf
<1>3. i \in 1..Len(f) /\ ~(i \in 1..Len(g) /\ f[i] = g[i])
  BY <1>2 DEF Bad
<1>4. \A j \in 1..Len(f) : j < i => j \in 1..Len(g) /\ f[j] = g[j]
  BY <1>0, <1>1, <1>2, <1>3 DEF Bad
<1>5. PICK j \in 1..Len(g) : g[j] = f[i]
  BY <1>0, <1>3 DEF Lists
<1>6. ~(j < i)
  <2> SUFFICES ASSUME j < i PROVE FALSE
    OBVIOUS
  <2>1. j \in 1..Len(f) /\ f[j] = f[i]
    BY <1>0, <1>3, <1>4, <1>5
  <2>2. f[j].seq < f[i].seq
    BY <1>3, <2>1 DEF Lists
  <2> QED
    BY <1>0, <1>3, <2>1, <2>2
<1>7. i \in 1..Len(g)
  BY <1>0, <1>3, <1>5, <1>6
<1>8. PICK k \in 1..Len(f) : f[k] = g[i]
  BY <1>0, <1>7 DEF Lists
<1>9. ~(k < i)
  <2> SUFFICES ASSUME k < i PROVE FALSE
    OBVIOUS
  <2>1. k \in 1..Len(g) /\ g[k] = g[i]
    BY <1>0, <1>4, <1>8
  <2>2. g[k].seq < g[i].seq
    BY <1>7, <2>1 DEF Lists
  <2> QED
    BY <1>0, <1>7, <2>1, <2>2
<1>10. f[i].seq <= f[k].seq /\ (i < k => f[i].seq < f[k].seq)
  <2>1. k = i \/ i < k
    BY <1>0, <1>3, <1>8, <1>9
  <2>2. i < k => f[i].seq < f[k].seq
    BY <1>3, <1>8 DEF Lists
  <2>3. f[i].seq \in Nat /\ f[k].seq \in Nat
    BY <1>0, <1>3, <1>8
  <2> QED
    BY <2>1, <2>2, <2>3
<1>11. g[i].seq <= g[j].seq
  <2>1. j = i \/ i < j
    BY <1>0, <1>3, <1>5, <1>6
  <2>2. i < j => g[i].seq < g[j].seq
    BY <1>5, <1>7 DEF Lists
  <2>3. g[i].seq \in Nat /\ g[j].seq \in Nat
    BY <1>0, <1>5, <1>7
  <2> QED
    BY <2>1, <2>2, <2>3
<1>12. ~(i < k)
  BY <1>0, <1>3, <1>5, <1>7, <1>8, <1>10, <1>11
<1>13. k = i
  BY <1>0, <1>3, <1>9, <1>12
<1> QED
  BY <1>3, <1>7, <1>8, <1>13

(* InOrder is the list of its events, and there is no other.                *)
LEMMA InOrderLists ==
  ASSUME NEW S, IsFiniteSet(S), OneEach(S)
  PROVE  Lists(InOrder(S), S) /\ \A s : Lists(s, S) => s = InOrder(S)
<1> DEFINE n == Cardinality(S)
           Sorted(c) == \A i, j \in 1..n : i < j => c[i].seq <= c[j].seq
<1>1. S \subseteq EventRow /\ \A x \in S : x.seq \in Nat
  BY DEF OneEach, EventRow
<1>2. PICK h : Lists(h, S)
  BY ListExists
<1>3. /\ h \in [1..Len(h) -> S] /\ Len(h) \in Nat
      /\ \A i \in 1..Len(h) : h[i] \in S
      /\ \A x \in S : \E i \in 1..Len(h) : h[i] = x
  BY <1>2 DEF Lists
<1>4. h \in Bijection(1..Len(h), S)
  <2>1. \A i, j \in 1..Len(h) : h[i] = h[j] => i = j
    <3> SUFFICES ASSUME NEW i \in 1..Len(h), NEW j \in 1..Len(h), h[i] = h[j], i # j
                 PROVE  FALSE
      OBVIOUS
    <3>1. h[i].seq < h[j].seq \/ h[j].seq < h[i].seq
      BY <1>2, <1>3 DEF Lists
    <3> QED
      BY <1>1, <1>3, <3>1
  <2> QED
    BY <1>3, <2>1 DEF Bijection, Injection, Surjection, IsInjective
<1>5. Len(h) = n /\ n \in Nat
  <2>1. IsFiniteSet(1..Len(h)) /\ Cardinality(1..Len(h)) = Len(h)
    <3>1. IsFiniteSet(1..Len(h))
          /\ Cardinality(1..Len(h)) = IF 1 > Len(h) THEN 0 ELSE Len(h) - 1 + 1
      BY <1>3, FS_Interval
    <3> QED
      BY <1>3, <3>1
  <2> QED
    BY <1>3, <1>4, <2>1, FS_Bijection DEF ExistsBijection
<1>6. h \in Bijection(1..n, S) /\ Sorted(h)
  <2>1. \A i, j \in 1..Len(h) : i < j => h[i].seq <= h[j].seq
    BY <1>1, <1>2, <1>3 DEF Lists
  <2> QED
    BY <1>4, <1>5, <2>1
<1>7. InOrder(S) \in Bijection(1..n, S) /\ Sorted(InOrder(S))
  BY <1>6 DEF InOrder
<1> DEFINE c == InOrder(S)
<1>8. /\ c \in [1..n -> S] /\ \A i, j \in 1..n : c[i] = c[j] => i = j
      /\ \A x \in S : \E i \in 1..n : c[i] = x
      /\ \A i, j \in 1..n : i < j => c[i].seq <= c[j].seq
  BY <1>7 DEF Bijection, Injection, Surjection, IsInjective
<1> HIDE DEF c, n, Sorted
<1>9. c \in Seq(S) /\ Len(c) = n
  BY <1>5, <1>8
<1>10. \A i, j \in 1..n : i < j => c[i].seq < c[j].seq
  <2> SUFFICES ASSUME NEW i \in 1..n, NEW j \in 1..n, i < j PROVE c[i].seq < c[j].seq
    OBVIOUS
  <2>1. c[i] \in S /\ c[j] \in S /\ c[i] # c[j] /\ c[i].seq <= c[j].seq
    BY <1>5, <1>8
  <2> QED
    BY <1>1, <2>1 DEF OneEach
<1>11. Lists(c, S)
  BY <1>8, <1>9, <1>10 DEF Lists
<1>12. ASSUME NEW s, Lists(s, S) PROVE s = c
  <2>1. /\ s \in [1..Len(s) -> S] /\ Len(s) \in Nat
        /\ \A i \in 1..Len(s) : i \in 1..Len(c) /\ s[i] = c[i]
        /\ \A i \in 1..Len(c) : i \in 1..Len(s)
    <3>1. s \in Seq(S)
      BY <1>12 DEF Lists
    <3>2. \A i \in 1..Len(s) : i \in 1..Len(c) /\ s[i] = c[i]
      BY <1>1, <1>11, <1>12, ListsBegin
    <3>3. \A i \in 1..Len(c) : i \in 1..Len(s)
      BY <1>1, <1>11, <1>12, ListsBegin
    <3> QED
      BY <3>1, <3>2, <3>3
  <2>2. Len(s) = Len(c)
    <3>1. Len(s) # 0 => Len(s) \in 1..Len(s)
      BY <2>1
    <3>2. Len(c) # 0 => Len(c) \in 1..Len(c)
      BY <1>5, <1>9
    <3>3. Len(s) # 0 => Len(s) \in 1..Len(c)
      BY <2>1, <3>1
    <3>4. Len(c) # 0 => Len(c) \in 1..Len(s)
      BY <2>1, <3>2
    <3>5. Len(s) \in Nat /\ Len(c) \in Nat
      BY <1>5, <1>9, <2>1
    <3> QED
      BY <3>3, <3>4, <3>5
  <2> QED
    BY <1>8, <1>9, <2>1, <2>2
<1> QED
  BY <1>11, <1>12 DEF c

(* The first events of a list are those up to its last.                     *)
LEMMA ListsPrefix ==
  ASSUME NEW S, S \subseteq EventRow, NEW f, Lists(f, S), NEW m \in 1..Len(f)
  PROVE  Lists(SubSeq(f, 1, m), {x \in S : x.seq <= f[m].seq})
<1> DEFINE P == {x \in S : x.seq <= f[m].seq}
           p == SubSeq(f, 1, m)
<1>0. /\ f \in Seq(S) /\ Len(f) \in Nat /\ m \in Int
      /\ \A i \in 1..Len(f) : f[i] \in S /\ f[i].seq \in Nat
      /\ \A i, j \in 1..Len(f) : i < j => f[i].seq < f[j].seq
  <2>1. f \in Seq(S) /\ \A i, j \in 1..Len(f) : i < j => f[i].seq < f[j].seq
    BY DEF Lists
  <2>2. \A x \in S : x.seq \in Nat
    BY DEF EventRow
  <2>3. Len(f) \in Nat /\ \A i \in 1..Len(f) : f[i] \in S
    BY <2>1
  <2> QED
    BY <2>1, <2>2, <2>3
<1>1. \A i \in 1..m : i \in 1..Len(f) /\ f[i] \in P
  <2> TAKE i \in 1..m
  <2>1. i \in 1..Len(f) /\ (i = m \/ i < m)
    BY <1>0
  <2>2. f[i].seq <= f[m].seq
    BY <1>0, <2>1
  <2> QED
    BY <1>0, <2>1, <2>2
<1>2. /\ p \in Seq(P) /\ Len(p) = m
      /\ \A i \in 1..m : p[i] = f[i]
  <2> HIDE DEF P
  <2>1. /\ SubSeq(f, 1, m) \in Seq(P)
        /\ Len(SubSeq(f, 1, m)) = IF 1 <= m THEN m - 1 + 1 ELSE 0
        /\ \A i \in 1..(m - 1 + 1) : SubSeq(f, 1, m)[i] = f[1 + i - 1]
    BY <1>0, <1>1, SubSeqProperties
  <2> QED
    BY <1>0, <2>1
<1> HIDE DEF p
<1>3. ASSUME NEW x \in P PROVE \E i \in 1..Len(p) : p[i] = x
  <2>1. PICK i \in 1..Len(f) : f[i] = x
    BY <1>3 DEF Lists
  <2>2. ~(m < i)
    BY <1>0, <2>1
  <2>3. i \in 1..m
    BY <1>0, <2>2
  <2> QED
    BY <1>2, <2>1, <2>3
<1>4. ASSUME NEW i \in 1..Len(p), NEW j \in 1..Len(p), i < j PROVE p[i].seq < p[j].seq
  <2>1. i \in 1..m /\ j \in 1..m
    BY <1>2
  <2> QED
    BY <1>0, <1>1, <1>2, <1>4, <2>1
<1> QED
  BY <1>2, <1>3, <1>4 DEF Lists, p

(* The first event of a list is its least, and the rest lists the others.   *)
LEMMA ListsTail ==
  ASSUME NEW S, S \subseteq EventRow, NEW f, Lists(f, S), f # <<>>
  PROVE  /\ Head(f) \in S /\ \A x \in S : Head(f).seq <= x.seq
         /\ Lists(Tail(f), {x \in S : Head(f).seq < x.seq})
<1> DEFINE h == Head(f)
           t == Tail(f)
           R == {x \in S : h.seq < x.seq}
<1>0. /\ f \in Seq(S) /\ Len(f) \in Nat /\ Len(f) # 0 /\ h = f[1]
      /\ \A i \in 1..Len(f) : f[i] \in S /\ f[i].seq \in Nat
      /\ \A i, j \in 1..Len(f) : i < j => f[i].seq < f[j].seq
      /\ \A x \in S : x.seq \in Nat
  <2>1. f \in Seq(S) /\ \A i, j \in 1..Len(f) : i < j => f[i].seq < f[j].seq
    BY DEF Lists
  <2>2. \A x \in S : x.seq \in Nat
    BY DEF EventRow
  <2>3. Len(f) \in Nat /\ Len(f) # 0 /\ h = f[1] /\ \A i \in 1..Len(f) : f[i] \in S
    BY <2>1
  <2> QED
    BY <2>1, <2>2, <2>3
<1>1. \A i \in 1..Len(f) : i = 1 \/ (1 < i /\ h.seq < f[i].seq)
  <2> TAKE i \in 1..Len(f)
  <2>1. 1 \in 1..Len(f) /\ (i = 1 \/ 1 < i)
    BY <1>0
  <2> QED
    BY <1>0, <2>1
<1>2. h \in S /\ \A x \in S : h.seq <= x.seq
  <2>1. 1 \in 1..Len(f)
    BY <1>0
  <2>2. ASSUME NEW x \in S PROVE h.seq <= x.seq
    <3>1. PICK i \in 1..Len(f) : f[i] = x
      BY DEF Lists
    <3>2. h.seq \in Nat /\ x.seq \in Nat
      BY <1>0, <2>1
    <3> QED
      BY <1>0, <1>1, <3>1, <3>2
  <2> QED
    BY <1>0, <2>1, <2>2
<1>3. /\ t \in Seq(S) /\ Len(t) = Len(f) - 1
      /\ \A i \in 1..Len(t) : t[i] = f[i + 1]
  BY <1>0, HeadTailProperties
<1> HIDE DEF t
<1>4. \A i \in 1..Len(t) : i + 1 \in 1..Len(f) /\ t[i] \in R
  <2> TAKE i \in 1..Len(t)
  <2>1. i + 1 \in 1..Len(f) /\ i + 1 # 1
    BY <1>0, <1>3
  <2> QED
    BY <1>0, <1>1, <1>3, <2>1
<1>5. t \in Seq(R)
  <2> HIDE DEF R
  <2>1. Len(t) \in Nat /\ t = [i \in 1..Len(t) |-> t[i]]
    BY <1>3
  <2> QED
    BY <1>4, <2>1
<1>6. ASSUME NEW x \in R PROVE \E i \in 1..Len(t) : t[i] = x
  <2>1. PICK i \in 1..Len(f) : f[i] = x
    BY <1>6 DEF Lists
  <2>2. i # 1
    BY <1>0, <2>1
  <2>3. i - 1 \in 1..Len(t) /\ (i - 1) + 1 = i
    BY <1>0, <1>3, <2>2
  <2> QED
    BY <1>3, <2>1, <2>3
<1>7. ASSUME NEW i \in 1..Len(t), NEW j \in 1..Len(t), i < j PROVE t[i].seq < t[j].seq
  <2>1. i + 1 \in 1..Len(f) /\ j + 1 \in 1..Len(f) /\ i + 1 < j + 1
    BY <1>0, <1>3, <1>7
  <2> QED
    BY <1>0, <1>3, <2>1
<1> QED
  BY <1>2, <1>5, <1>6, <1>7 DEF Lists, t


(* What the transactions, the connection and the reader hold of the log:    *)
(* an open transaction, of which there is one, has counted on from          *)
(* event_seq; what is on the wire lists the events from the cursor to       *)
(* after, and what was delivered those of the task up to the cursor.        *)
TaskRow == [state : {"queued", "running", "waiting", "unknown", "done"}, action : BOOLEAN,
            behind : BOOLEAN]
TxnRow == [open : BOOLEAN, seq : Nat, rows : SUBSET EventRow, task : TaskRow]
Logged(L, n) ==
  OneEach(L) /\ IsFiniteSet(L) /\ \A x \in L : 0 < x.seq /\ x.seq <= n
Span(L, a, b) == {x \in L : a < x.seq /\ x.seq <= b}
OfTask(L, n) == {x \in L : x.mine /\ x.seq <= n}
TxnGood(L, n, t) ==
  t.open => /\ n <= t.seq /\ Logged(L \cup t.rows, t.seq)
            /\ \A x \in t.rows : n < x.seq
WireGood(L, n, s, c) ==
  IF s.open THEN c <= s.after /\ s.after <= n /\ Lists(s.wire, Span(L, c, s.after))
  ELSE s.wire = <<>>
WritersGood ==
  /\ eventSeq \in Nat /\ Logged(eventLog, eventSeq)
  /\ task \in TaskRow /\ txn \in [Writers -> TxnRow]
  /\ \A v, w \in Writers : txn[v].open /\ txn[w].open => v = w
  /\ \A w \in Writers : TxnGood(eventLog, eventSeq, txn[w])
ReaderGood ==
  /\ reader \in [cursor : Nat, attempt : Nat, stopped : BOOLEAN] /\ reader.cursor <= eventSeq
  /\ served \in [open : BOOLEAN, after : Nat, wire : Seq(EventRow)]
  /\ WireGood(eventLog, eventSeq, served, reader.cursor)
  /\ Lists(delivered, OfTask(eventLog, reader.cursor))
StreamInv == WritersGood /\ ReaderGood

(* A transaction's steps leave what was committed.                          *)
LEMMA TxnStays ==
  ASSUME NEW w \in Writers, NEW t \in TxnRow, WritersGood,
         txn' = [txn EXCEPT ![w] = t], TxnGood(eventLog, eventSeq, t),
         t.open => \A v \in Writers : txn[v].open => v = w,
         UNCHANGED <<eventSeq, eventLog>>, task' \in TaskRow
  PROVE  WritersGood'
<1>1. /\ txn' \in [Writers -> TxnRow]
      /\ \A v \in Writers : txn'[v] = IF v = w THEN t ELSE txn[v]
  BY DEF WritersGood
<1>2. \A u, v \in Writers : txn'[u].open /\ txn'[v].open => u = v
  BY <1>1 DEF WritersGood
<1>3. \A v \in Writers : TxnGood(eventLog, eventSeq, txn'[v])
  BY <1>1 DEF WritersGood
<1> QED
  BY <1>1, <1>2, <1>3 DEF WritersGood

(* A write leaves the task in one of its states.                            *)
LEMMA WrittenTyped ==
  ASSUME NEW t \in TaskRow, NEW x \in Written(t)
  PROVE  x.task \in TaskRow /\ x.mine \in BOOLEAN /\ x.relevant \in BOOLEAN
<1>1. [t EXCEPT !.state = "unknown"] \in TaskRow /\ [Claimed EXCEPT !.state = "done"] \in TaskRow
  BY DEF TaskRow, Claimed
<1>2. Advanced(t) \subseteq TaskRow
  <2>1. Resumed(t) \in {"queued", "running", "waiting", "unknown", "done"}
    BY DEF Resumed, TaskRow
  <2>2. \A a, v \in BOOLEAN : [state |-> Resumed(t), action |-> a, behind |-> v] \in TaskRow
    BY <2>1 DEF TaskRow
  <2>3. \A u \in Advanced(t) : \E a, v \in BOOLEAN :
          u = [state |-> Resumed(t), action |-> a, behind |-> v]
    BY DEF Advanced
  <2> QED
    BY <2>2, <2>3
<1> DEFINE W == [task : TaskRow, mine : BOOLEAN, relevant : BOOLEAN]
<1>3. \A u \in TaskRow, m, v \in BOOLEAN : [task |-> u, mine |-> m, relevant |-> v] \in W
  OBVIOUS
<1>4. \E u \in TaskRow, m, v \in BOOLEAN : x = [task |-> u, mine |-> m, relevant |-> v]
  BY <1>1, <1>2 DEF Written
<1>5. x \in W
  <2> HIDE DEF W
  <2> QED
    BY <1>3, <1>4
<1> QED
  BY <1>5

(* The writers number events in the order they commit them.                 *)
LEMMA WritersKeep ==
  ASSUME NEW w \in Writers, StreamInv, BeginTxn(w) \/ Emit(w) \/ CommitTxn(w) \/ RollBack(w)
  PROVE  WritersGood'
<1>0. WritersGood /\ txn[w] \in TxnRow /\ TxnGood(eventLog, eventSeq, txn[w])
  BY DEF StreamInv, WritersGood
<1>1. NoTxn \in TxnRow /\ ~NoTxn.open
  BY DEF NoTxn, TxnRow, TaskRow, Claimed
<1>2. CASE BeginTxn(w)
  <2> DEFINE t == [open |-> TRUE, seq |-> eventSeq, rows |-> {}, task |-> task]
  <2>1. txn' = [txn EXCEPT ![w] = t] /\ UNCHANGED <<eventSeq, eventLog, task>>
        /\ \A v \in Writers : ~txn[v].open
    BY <1>2 DEF BeginTxn, SessionLocked
  <2>2. t \in TxnRow
    BY <1>0 DEF TxnRow, WritersGood
  <2>3. TxnGood(eventLog, eventSeq, t)
    <3>1. eventLog \cup {} = eventLog
      OBVIOUS
    <3> QED
      BY <1>0, <3>1 DEF TxnGood, WritersGood
  <2> HIDE DEF t
  <2> QED
    BY <1>0, <2>1, <2>2, <2>3, TxnStays DEF WritersGood
<1>3. CASE Emit(w)
  <2>1. PICK x \in Written(txn[w].task) :
          txn' = [txn EXCEPT ![w].seq = txn[w].seq + 1, ![w].task = x.task,
                    ![w].rows = txn[w].rows \union
                      {[seq |-> txn[w].seq + 1, mine |-> x.mine, relevant |-> x.relevant]}]
    BY <1>3 DEF Emit
  <2> DEFINE e == [seq |-> txn[w].seq + 1, mine |-> x.mine, relevant |-> x.relevant]
             t == [open |-> TRUE, seq |-> txn[w].seq + 1, rows |-> txn[w].rows \cup {e}, task |-> x.task]
  <2>2. txn[w].open /\ UNCHANGED <<eventSeq, eventLog, task>>
    BY <1>3 DEF Emit
  <2>3. x.task \in TaskRow /\ x.mine \in BOOLEAN /\ x.relevant \in BOOLEAN
    BY <1>0, <2>1, WrittenTyped DEF TxnRow
  <2>4. e \in EventRow /\ e.seq = txn[w].seq + 1 /\ txn[w].seq \in Nat
    BY <1>0, <2>3 DEF EventRow, TxnRow
  <2>5. t \in TxnRow /\ t.open /\ t.seq = txn[w].seq + 1 /\ t.rows = txn[w].rows \cup {e}
    BY <1>0, <2>3, <2>4 DEF TxnRow
  <2>6. txn' = [txn EXCEPT ![w] = t]
    <3>1. [[[txn[w] EXCEPT !.seq = txn[w].seq + 1] EXCEPT !.task = x.task]
             EXCEPT !.rows = txn[w].rows \cup {e}] = t
      <4> DEFINE a == txn[w]
                 b == [a EXCEPT !.seq = txn[w].seq + 1]
                 c == [b EXCEPT !.task = x.task]
                 d == [c EXCEPT !.rows = txn[w].rows \cup {e}]
      <4>1. b \in TxnRow /\ b.open = a.open /\ b.seq = a.seq + 1
        BY <1>0, <2>4 DEF TxnRow
      <4> HIDE DEF b
      <4>2. c \in TxnRow /\ c.open = b.open /\ c.seq = b.seq /\ c.task = x.task
        BY <2>3, <4>1 DEF TxnRow
      <4> HIDE DEF c
      <4>3. txn[w].rows \cup {e} \in SUBSET EventRow
        BY <1>0, <2>4 DEF TxnRow
      <4>4. d \in TxnRow /\ d.open = c.open /\ d.seq = c.seq /\ d.task = c.task
            /\ d.rows = txn[w].rows \cup {e}
        BY <4>2, <4>3 DEF TxnRow
      <4> HIDE DEF d
      <4>5. d.open = TRUE
        BY <2>2, <4>1, <4>2, <4>4 DEF TxnRow
      <4>6. d = [open |-> d.open, seq |-> d.seq, rows |-> d.rows, task |-> d.task]
        BY <4>4 DEF TxnRow
      <4>7. d = t
        BY <4>1, <4>2, <4>4, <4>5, <4>6
      <4> QED
        BY <4>7 DEF b, c, d
    <3>2. txn' = [txn EXCEPT ![w] = [[[txn[w] EXCEPT !.seq = txn[w].seq + 1] EXCEPT !.task = x.task]
                                       EXCEPT !.rows = txn[w].rows \cup {e}]]
      BY <1>0, <2>1 DEF WritersGood
    <3> QED
      BY <3>1, <3>2
  <2> HIDE DEF e, t
  <2>7. TxnGood(eventLog, eventSeq, t)
    <3> DEFINE L == eventLog \cup txn[w].rows
    <3>1. Logged(L, txn[w].seq) /\ eventSeq <= txn[w].seq /\ \A r \in txn[w].rows : eventSeq < r.seq
      BY <1>0, <2>2 DEF TxnGood
    <3>2. eventLog \cup t.rows = L \cup {e}
      BY <2>5
    <3> HIDE DEF L
    <3>3. IsFiniteSet(L \cup {e})
      BY <3>1, FS_AddElement DEF Logged
    <3>4. \A r \in L : r.seq \in Nat /\ 0 < r.seq /\ r.seq <= txn[w].seq
      BY <3>1 DEF Logged, OneEach, EventRow
    <3>5. OneEach(L \cup {e})
      <4>1. \A r \in L : r.seq # e.seq
        BY <2>4, <3>4
      <4> QED
        BY <2>4, <3>1, <4>1 DEF OneEach, Logged
    <3>6. \A r \in L \cup {e} : 0 < r.seq /\ r.seq <= txn[w].seq + 1
      BY <2>4, <3>4
    <3>7. eventSeq \in Nat
      BY <1>0 DEF WritersGood
    <3>8. \A r \in t.rows : eventSeq < r.seq
      BY <2>4, <2>5, <3>1, <3>7
    <3>9. eventSeq <= t.seq
      BY <2>4, <2>5, <3>1, <3>7
    <3>10. Logged(eventLog \cup t.rows, t.seq)
      BY <2>5, <3>2, <3>3, <3>5, <3>6 DEF Logged
    <3> QED
      BY <3>8, <3>9, <3>10 DEF TxnGood
  <2>8. \A v \in Writers : txn[v].open => v = w
    BY <1>0, <2>2 DEF WritersGood
  <2> QED
    BY <1>0, <2>2, <2>5, <2>6, <2>7, <2>8, TxnStays DEF WritersGood
<1>4. CASE CommitTxn(w)
  <2>1. /\ txn[w].open /\ txn' = [txn EXCEPT ![w] = NoTxn]
        /\ eventSeq' = txn[w].seq /\ eventLog' = eventLog \cup txn[w].rows /\ task' = txn[w].task
    BY <1>4 DEF CommitTxn
  <2>2. txn' \in [Writers -> TxnRow] /\ \A v \in Writers : ~txn'[v].open
    BY <1>0, <1>1, <2>1 DEF WritersGood
  <2>3. eventSeq' \in Nat /\ task' \in TaskRow
    BY <1>0, <2>1 DEF TxnRow
  <2> QED
    BY <1>0, <2>1, <2>2, <2>3 DEF WritersGood, TxnGood
<1>5. CASE RollBack(w)
  <2>1. txn' = [txn EXCEPT ![w] = NoTxn] /\ UNCHANGED <<eventSeq, eventLog, task>>
    BY <1>5 DEF RollBack
  <2> QED
    BY <1>0, <1>1, <2>1, TxnStays DEF WritersGood, TxnGood
<1> QED
  BY <1>2, <1>3, <1>4, <1>5

(* A commit adds events after those the reader and its connection are at.   *)
LEMMA WritersLeaveReader ==
  ASSUME NEW w \in Writers, StreamInv, BeginTxn(w) \/ Emit(w) \/ CommitTxn(w) \/ RollBack(w)
  PROVE  ReaderGood'
<1>0. /\ UNCHANGED <<served, reader, delivered>>
      /\ ReaderGood /\ eventSeq \in Nat /\ reader.cursor \in Nat /\ served.after \in Nat
      /\ \A x \in eventLog : x.seq \in Nat
  BY DEF StreamInv, ReaderGood, WritersGood, BeginTxn, Emit, CommitTxn, RollBack, Logged, OneEach, EventRow
<1>1. CASE UNCHANGED <<eventSeq, eventLog>>
  BY <1>0, <1>1 DEF ReaderGood
<1>2. CASE CommitTxn(w)
  <2>1. /\ txn[w].open /\ eventSeq' = txn[w].seq /\ eventLog' = eventLog \cup txn[w].rows
        /\ txn[w] \in TxnRow /\ TxnGood(eventLog, eventSeq, txn[w])
    BY <1>2 DEF CommitTxn, StreamInv, WritersGood
  <2>2. /\ eventSeq <= txn[w].seq /\ txn[w].seq \in Nat
        /\ \A x \in txn[w].rows : x.seq \in Nat /\ eventSeq < x.seq
    BY <2>1 DEF TxnRow, EventRow, TxnGood
  <2>3. OfTask(eventLog', reader.cursor) = OfTask(eventLog, reader.cursor)
    BY <1>0, <2>1, <2>2 DEF ReaderGood, OfTask
  <2>4. served.open => Span(eventLog', reader.cursor, served.after) = Span(eventLog, reader.cursor, served.after)
    BY <1>0, <2>1, <2>2 DEF ReaderGood, Span, WireGood
  <2>5. reader.cursor <= eventSeq' /\ (served.open => served.after <= eventSeq')
    BY <1>0, <2>1, <2>2 DEF ReaderGood, WireGood
  <2>6. WireGood(eventLog', eventSeq', served, reader.cursor)
    BY <1>0, <2>4, <2>5 DEF ReaderGood, WireGood
  <2> QED
    BY <1>0, <2>3, <2>5, <2>6 DEF ReaderGood
<1> QED
  BY <1>1, <1>2 DEF BeginTxn, Emit, RollBack


(* What Events returns continues the list on the wire.                      *)
LEMMA EventsFollow ==
  ASSUME StreamInv, served.open, Events(served.after) # <<>>
  PROVE  LET rows == Events(served.after)
             last == Last(rows).seq IN
         /\ last \in Nat /\ served.after <= last /\ last <= eventSeq
         /\ rows \in Seq(EventRow)
         /\ Lists(served.wire \o rows, Span(eventLog, reader.cursor, last))
<1> DEFINE a == served.after
           c == reader.cursor
           N == {row \in eventLog : row.seq > a}
           q == InOrder(N)
           m == IF Len(q) < Page THEN Len(q) ELSE Page
           rows == Events(a)
           P == {x \in N : x.seq <= q[m].seq}
<1>1. /\ a \in Nat /\ c \in Nat /\ c <= a /\ a <= eventSeq /\ eventSeq \in Nat
      /\ Lists(served.wire, Span(eventLog, c, a))
      /\ Logged(eventLog, eventSeq)
  BY DEF StreamInv, WritersGood, ReaderGood, WireGood
<1>2. /\ eventLog \subseteq EventRow
      /\ \A x \in eventLog : x.seq \in Nat /\ x.seq <= eventSeq
  BY <1>1 DEF Logged, OneEach, EventRow
<1>3. IsFiniteSet(N) /\ OneEach(N) /\ N \subseteq eventLog
  <2>1. IsFiniteSet(eventLog) /\ OneEach(eventLog) /\ N \subseteq eventLog
    BY <1>1 DEF Logged
  <2> QED
    BY <2>1, FS_Subset DEF OneEach
<1>4. Lists(q, N)
  BY <1>3, InOrderLists
<1>5. q \in Seq(N) /\ Len(q) \in Nat /\ Page \in Nat \ {0}
  BY <1>4, EventStreamAssumption DEF Lists
<1>6. rows = SubSeq(q, 1, m)
  BY DEF Events
<1> HIDE DEF q
<1>7. m \in 1..Len(q)
  <2>1. Len(q) # 0
    <3> SUFFICES ASSUME Len(q) = 0 PROVE FALSE
      OBVIOUS
    <3>1. m = 0
      BY <1>5
    <3>2. rows = <<>>
      BY <1>6, <3>1, SubSeqEmpty
    <3> QED
      BY <3>2
  <2> QED
    BY <1>5, <2>1
<1> HIDE DEF m, rows
<1>8. q[m] \in N /\ q[m].seq \in Nat /\ a < q[m].seq /\ q[m].seq <= eventSeq
  <2>1. q[m] \in N
    BY <1>5, <1>7
  <2> QED
    BY <1>1, <1>2, <2>1
<1>9. N \subseteq EventRow
  BY <1>2
<1>10. Lists(rows, P)
  <2> HIDE DEF N
  <2> QED
    BY <1>4, <1>6, <1>7, <1>9, ListsPrefix
<1>11. Len(rows) = m /\ rows[m] = q[m]
  <2>1. /\ Len(SubSeq(q, 1, m)) = IF 1 <= m THEN m - 1 + 1 ELSE 0
        /\ \A i \in 1..(m - 1 + 1) : SubSeq(q, 1, m)[i] = q[1 + i - 1]
    <3>1. m \in Int /\ \A i \in 1..m : q[i] \in N
      BY <1>5, <1>7
    <3> QED
      BY <3>1, SubSeqProperties
  <2> QED
    BY <1>5, <1>6, <1>7, <2>1
<1>12. Last(rows).seq = q[m].seq
  BY <1>11 DEF Last
<1> DEFINE l == q[m].seq
<1>13. /\ Span(eventLog, c, a) \cup P = Span(eventLog, c, l)
       /\ \A x \in Span(eventLog, c, a), y \in P : x.seq < y.seq
       /\ Span(eventLog, c, a) \subseteq EventRow /\ P \subseteq EventRow
  BY <1>1, <1>2, <1>8 DEF Span
<1>14. Lists(served.wire \o rows, Span(eventLog, c, a) \cup P)
  <2> HIDE DEF P, N
  <2> QED
    BY <1>1, <1>10, <1>13, ListsJoin
<1>15. rows \in Seq(EventRow)
  BY <1>10, <1>13 DEF Lists
<1>16. Lists(served.wire \o rows, Span(eventLog, c, Last(rows).seq))
  <2> HIDE DEF P, N
  <2> QED
    BY <1>12, <1>13, <1>14
<1>17. Last(rows).seq \in Nat /\ a <= Last(rows).seq /\ Last(rows).seq <= eventSeq
  BY <1>1, <1>8, <1>12
<1> QED
  BY <1>15, <1>16, <1>17 DEF rows

(* The connection and the reader: what a poll puts on the wire follows what *)
(* is there, a frame taken from it is the next after the cursor, and a lost *)
(* connection is one that starts again at the cursor.                       *)
LEMMA ReaderKeeps ==
  ASSUME StreamInv, Connect \/ Poll \/ Break \/ Receive
  PROVE  ReaderGood'
<1>0. /\ ReaderGood /\ UNCHANGED <<eventSeq, eventLog>>
      /\ eventSeq \in Nat /\ Logged(eventLog, eventSeq)
      /\ reader.cursor \in Nat /\ reader.cursor <= eventSeq
      /\ served \in [open : BOOLEAN, after : Nat, wire : Seq(EventRow)]
      /\ reader \in [cursor : Nat, attempt : Nat, stopped : BOOLEAN]
  BY DEF StreamInv, WritersGood, ReaderGood, Connect, Poll, Break, Receive
<1>1. eventLog \subseteq EventRow /\ \A x \in eventLog : x.seq \in Nat /\ x.mine \in BOOLEAN
  BY <1>0 DEF Logged, OneEach, EventRow
<1>2. CASE Connect
  <2>1. /\ served' = [open |-> TRUE, after |-> reader.cursor, wire |-> <<>>]
        /\ UNCHANGED <<reader, delivered>>
    BY <1>2 DEF Connect
  <2>2. Span(eventLog, reader.cursor, reader.cursor) = {}
    BY <1>0, <1>1 DEF Span
  <2>3. served' \in [open : BOOLEAN, after : Nat, wire : Seq(EventRow)]
    BY <1>0, <2>1
  <2>4. WireGood(eventLog, eventSeq, served', reader.cursor)
    <3>1. served'.open = TRUE /\ served'.after = reader.cursor /\ served'.wire = <<>>
      BY <2>1
    <3>2. Lists(<<>>, Span(eventLog, reader.cursor, reader.cursor))
      BY <2>2, ListsFew
    <3> QED
      BY <1>0, <3>1, <3>2 DEF WireGood
  <2> QED
    BY <1>0, <2>1, <2>3, <2>4 DEF ReaderGood
<1>3. CASE Poll
  <2> DEFINE rows == Events(served.after)
             last == Last(rows).seq
  <2>1. /\ served.open /\ rows # <<>> /\ UNCHANGED <<reader, delivered>>
        /\ served' = [served EXCEPT !.after = last, !.wire = served.wire \o rows]
    BY <1>3 DEF Poll
  <2>2. /\ last \in Nat /\ served.after <= last /\ last <= eventSeq
        /\ rows \in Seq(EventRow)
        /\ Lists(served.wire \o rows, Span(eventLog, reader.cursor, last))
    BY <2>1, EventsFollow
  <2> HIDE DEF rows, last
  <2>3. served.wire \o rows \in Seq(EventRow)
    BY <1>0, <2>2
  <2>4. /\ served' \in [open : BOOLEAN, after : Nat, wire : Seq(EventRow)]
        /\ served'.open = served.open /\ served'.after = last /\ served'.wire = served.wire \o rows
    BY <1>0, <2>1, <2>2, <2>3
  <2>5. reader.cursor <= last
    BY <1>0, <2>1, <2>2 DEF ReaderGood, WireGood
  <2>6. WireGood(eventLog, eventSeq, served', reader.cursor)
    BY <2>1, <2>2, <2>4, <2>5 DEF WireGood
  <2> QED
    BY <1>0, <2>1, <2>4, <2>6 DEF ReaderGood
<1>4. CASE Break
  <2>1. /\ served' = NoConn /\ UNCHANGED delivered
        /\ reader' = [reader EXCEPT !.attempt = reader.attempt + 1,
                                    !.stopped = reader.attempt >= MaxReconnects]
    BY <1>4 DEF Break
  <2>2. NoConn \in [open : BOOLEAN, after : Nat, wire : Seq(EventRow)]
        /\ ~NoConn.open /\ NoConn.wire = <<>>
    BY DEF NoConn
  <2>3. /\ reader' \in [cursor : Nat, attempt : Nat, stopped : BOOLEAN]
        /\ reader'.cursor = reader.cursor
    <3> DEFINE b == (reader.attempt >= MaxReconnects)
               k == [reader EXCEPT !.attempt = reader.attempt + 1]
    <3>1. b \in BOOLEAN /\ reader.attempt + 1 \in Nat
      BY <1>0
    <3>2. reader' = [k EXCEPT !.stopped = b]
      BY <2>1
    <3>3. k \in [cursor : Nat, attempt : Nat, stopped : BOOLEAN] /\ k.cursor = reader.cursor
      BY <1>0, <3>1
    <3> HIDE DEF b, k
    <3> QED
      BY <3>1, <3>2, <3>3
  <2>4. WireGood(eventLog, eventSeq, served', reader.cursor)
    BY <2>1, <2>2 DEF WireGood
  <2> QED
    BY <1>0, <2>1, <2>2, <2>3, <2>4 DEF ReaderGood
<1>5. CASE Receive
  <2> DEFINE row == Head(served.wire)
             c == reader.cursor
             a == served.after
             S == Span(eventLog, c, a)
  <2>1. /\ served.wire # <<>> /\ reader' = [reader EXCEPT !.cursor = row.seq]
        /\ served' = [served EXCEPT !.wire = Tail(served.wire)]
        /\ delivered' = IF row.mine THEN Append(delivered, row) ELSE delivered
    BY <1>5 DEF Receive
  <2>2. served.open /\ c <= a /\ a <= eventSeq /\ Lists(served.wire, S) /\ a \in Nat
    BY <1>0, <2>1 DEF ReaderGood, WireGood
  <2>3. S \subseteq EventRow /\ S \subseteq eventLog
    BY <1>1 DEF Span
  <2>4. /\ row \in S /\ \A x \in S : row.seq <= x.seq
        /\ Lists(Tail(served.wire), {x \in S : row.seq < x.seq})
    <3> HIDE DEF S
    <3> QED
      BY <2>1, <2>2, <2>3, ListsTail
  <2> HIDE DEF row
  <2>5. row \in eventLog /\ row.seq \in Nat /\ c < row.seq /\ row.seq <= a /\ row.seq <= eventSeq
    <3>1. row \in eventLog /\ row.seq \in Nat /\ c < row.seq /\ row.seq <= a
      BY <1>1, <2>4 DEF Span
    <3> QED
      BY <1>0, <2>2, <3>1
  <2>6. {x \in S : row.seq < x.seq} = Span(eventLog, row.seq, a)
    BY <1>0, <1>1, <2>5 DEF Span
  <2>7. \A x \in eventLog : x.seq <= row.seq => x.seq <= c \/ x = row
    <3> SUFFICES ASSUME NEW x \in eventLog, x.seq <= row.seq, ~(x.seq <= c) PROVE x = row
      OBVIOUS
    <3>1. x \in S
      BY <1>0, <1>1, <2>2, <2>5 DEF Span
    <3>2. x.seq = row.seq
      BY <1>1, <2>4, <2>5, <3>1
    <3> QED
      BY <1>0, <2>5, <3>2 DEF Logged, OneEach
  <2>8. Lists(delivered', OfTask(eventLog, row.seq))
    <3>1. Lists(delivered, OfTask(eventLog, c))
      BY <1>0 DEF ReaderGood
    <3>2. CASE ~row.mine
      <4>1. OfTask(eventLog, row.seq) = OfTask(eventLog, c)
        BY <1>0, <1>1, <2>5, <2>7, <3>2 DEF OfTask
      <4> QED
        BY <2>1, <3>1, <3>2, <4>1
    <3>3. CASE row.mine
      <4>1. OfTask(eventLog, row.seq) = OfTask(eventLog, c) \cup {row}
        BY <1>0, <1>1, <2>5, <2>7, <3>3 DEF OfTask
      <4>2. /\ OfTask(eventLog, c) \subseteq EventRow /\ {row} \subseteq EventRow
            /\ \A x \in OfTask(eventLog, c), y \in {row} : x.seq < y.seq
        BY <1>0, <1>1, <2>5 DEF OfTask
      <4>3. Lists(delivered \o <<row>>, OfTask(eventLog, c) \cup {row})
        BY <3>1, <4>2, ListsFew, ListsJoin
      <4>4. Append(delivered, row) = delivered \o <<row>>
        <5>1. delivered \in Seq(EventRow) /\ row \in EventRow
          BY <3>1, <4>2 DEF Lists
        <5> QED
          BY <5>1, AppendIsConcat
      <4> QED
        BY <2>1, <3>3, <4>1, <4>3, <4>4
    <3> QED
      BY <3>2, <3>3
  <2>9. Tail(served.wire) \in Seq(EventRow)
    BY <1>0, <2>1, HeadTailProperties
  <2>10. /\ served' \in [open : BOOLEAN, after : Nat, wire : Seq(EventRow)]
         /\ served'.open = served.open /\ served'.after = a /\ served'.wire = Tail(served.wire)
    BY <1>0, <2>1, <2>9
  <2>11. /\ reader' \in [cursor : Nat, attempt : Nat, stopped : BOOLEAN]
         /\ reader'.cursor = row.seq
    BY <1>0, <2>1, <2>5
  <2>12. WireGood(eventLog, eventSeq, served', row.seq)
    BY <2>2, <2>4, <2>5, <2>6, <2>10 DEF WireGood
  <2> QED
    BY <1>0, <2>5, <2>8, <2>10, <2>11, <2>12 DEF ReaderGood
<1> QED
  BY <1>2, <1>3, <1>4, <1>5

(* No event, no connection and no transaction: all is in place.             *)
LEMMA StreamStarts == StreamInit => StreamInv
<1> SUFFICES ASSUME StreamInit PROVE StreamInv
  OBVIOUS
<1>1. /\ eventSeq = 0 /\ eventLog = {} /\ txn = [w \in Writers |-> NoTxn]
      /\ task = Claimed
      /\ served = NoConn /\ reader = [cursor |-> 0, attempt |-> 0, stopped |-> FALSE]
      /\ delivered = <<>>
  BY DEF StreamInit
<1>2. NoTxn \in TxnRow /\ ~NoTxn.open /\ Claimed \in TaskRow
  BY DEF NoTxn, TxnRow, TaskRow, Claimed
<1>3. Logged({}, 0)
  BY FS_EmptySet DEF Logged, OneEach
<1>4. WritersGood
  BY <1>1, <1>2, <1>3 DEF WritersGood, TxnGood
<1>5. OfTask({}, 0) = {}
  BY DEF OfTask
<1>6. /\ NoConn \in [open : BOOLEAN, after : Nat, wire : Seq(EventRow)]
      /\ ~NoConn.open /\ NoConn.wire = <<>>
  BY DEF NoConn
<1>7. ReaderGood
  <2>1. WireGood(eventLog, eventSeq, served, reader.cursor)
    BY <1>1, <1>6 DEF WireGood
  <2>2. Lists(delivered, OfTask(eventLog, reader.cursor))
    BY <1>1, <1>5, ListsFew
  <2>3. /\ reader \in [cursor : Nat, attempt : Nat, stopped : BOOLEAN] /\ reader.cursor = 0
        /\ served \in [open : BOOLEAN, after : Nat, wire : Seq(EventRow)]
    BY <1>1, <1>6
  <2> QED
    BY <1>1, <2>1, <2>2, <2>3 DEF ReaderGood
<1> QED
  BY <1>4, <1>7 DEF StreamInv

(* The writers, the wire and the reader agree at every step.                *)
THEOREM StreamInvariance == StreamSpec => []StreamInv
<1>1. StreamInv /\ [StreamNext]_streamVars => StreamInv'
  <2> SUFFICES ASSUME StreamInv, [StreamNext]_streamVars PROVE StreamInv'
    OBVIOUS
  <2>1. ASSUME UNCHANGED <<eventSeq, eventLog, txn, task, served, reader, delivered>>
        PROVE  StreamInv'
    BY <2>1 DEF StreamInv, WritersGood, ReaderGood
  <2>2. CASE UNCHANGED streamVars
    BY <2>1, <2>2 DEF streamVars
  <2>3. ASSUME NEW w \in Writers, BeginTxn(w) \/ Emit(w) \/ CommitTxn(w) \/ RollBack(w)
        PROVE  StreamInv'
    BY <2>3, WritersKeep, WritersLeaveReader DEF StreamInv
  <2>4. CASE ParkTask \/ ClaimAgain
    <3>1. /\ \E x \in {"queued", "waiting", "running"} : task' = [task EXCEPT !.state = x]
          /\ UNCHANGED <<eventSeq, eventLog, txn, served, reader, delivered>>
      BY <2>4 DEF ParkTask, ClaimAgain
    <3>2. task \in TaskRow
      BY DEF StreamInv, WritersGood
    <3>3. task' \in TaskRow
      BY <3>1, <3>2 DEF TaskRow
    <3> QED
      BY <3>1, <3>3 DEF StreamInv, WritersGood, ReaderGood
  <2>5. CASE Connect \/ Poll \/ Break \/ Receive
    <3>1. UNCHANGED <<eventSeq, eventLog, txn, task>>
      BY <2>5 DEF Connect, Poll, Break, Receive
    <3> QED
      BY <2>5, <3>1, ReaderKeeps DEF StreamInv, WritersGood
  <2>6. CASE StartWait \/ OnEvent \/ OnTimer \/ OnStopped \/ ProbeTask \/ ProbeActions
    BY <2>1, <2>6 DEF StartWait, OnEvent, OnTimer, OnStopped, ProbeTask, ProbeActions
  <2> QED
    BY <2>2, <2>3, <2>4, <2>5, <2>6 DEF StreamNext
<1> QED
  BY <1>1, StreamStarts, PTL DEF StreamSpec

(* Across reconnects the client is handed the committed events of its task  *)
(* up to its cursor: each once, none skipped, in their order (stream.go     *)
(* 72-86, handler.go streamEvents, the lock under which emit numbers).      *)
THEOREM StreamsAreExact == StreamSpec => []StreamExact
<1>1. StreamInv => StreamExact
  <2> SUFFICES ASSUME StreamInv PROVE StreamExact
    OBVIOUS
  <2> DEFINE S == OfTask(eventLog, reader.cursor)
  <2>1. Lists(delivered, S) /\ Logged(eventLog, eventSeq)
    BY DEF StreamInv, ReaderGood, WritersGood
  <2>2. IsFiniteSet(S) /\ OneEach(S)
    <3>1. IsFiniteSet(eventLog) /\ OneEach(eventLog) /\ S \subseteq eventLog
      BY <2>1 DEF Logged, OfTask
    <3> HIDE DEF S
    <3> QED
      BY <3>1, FS_Subset DEF OneEach
  <2>3. delivered = InOrder(S)
    <3> HIDE DEF S
    <3> QED
      BY <2>1, <2>2, InOrderLists
  <2> QED
    BY <2>3 DEF StreamExact, OfTask
<1> QED
  BY <1>1, StreamInvariance, PTL


=============================================================================
