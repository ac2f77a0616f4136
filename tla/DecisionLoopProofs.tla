------------------------- MODULE DecisionLoopProofs -------------------------
(***************************************************************************)
(* The decision loop for any number of runs, machines, steps and tokens:   *)
(* type correctness, the state machine as the lock of a run, the bound on  *)
(* overrun budgets, the accounts of what was spent, and compaction.        *)
(***************************************************************************)
EXTENDS DecisionLoop, FiniteSetTheorems, SequenceTheorems, TLAPS

-----------------------------------------------------------------------------
(* Sums.  Total is a fold, which is a recursive function on the subsets of a
   finite set; what is needed of it follows from the least element of a
   nonempty set of numbers, and of a nonempty set of finite sets. *)

\* Nat has no infinite descent, so its nonempty subsets have a least element.
LEMMA LeastNat ==
  ASSUME NEW T \in SUBSET Nat, T # {}
  PROVE  \E n \in T : \A m \in T : n <= m
<1> DEFINE Below == {ss \in Nat \X Nat : ss[1] < ss[2]}
<1>1. IsWellFoundedOn(Below, Nat)
  BY NatLessThanWellFounded DEF OpToRel
<1>2. \A m \in T, n \in T : m < n => <<m, n>> \in Below
  OBVIOUS
<1> HIDE DEF Below
<1>3. PICK n \in T : \A m \in T : ~(<<m, n>> \in Below)
  BY <1>1, WFMin
<1>4. \A m \in T : ~(m < n)
  BY <1>2, <1>3
<1> QED BY <1>4

\* A set of subsets of S that has {}, and every subset of which it has all that
\* are one element smaller, is all of SUBSET S.
LEMMA SubsetInduction ==
  ASSUME NEW S, IsFiniteSet(S), NEW G, {} \in G,
         \A s \in SUBSET S : s # {} /\ (\A x \in s : s \ {x} \in G) => s \in G
  PROVE  \A s \in SUBSET S : s \in G
<1> DEFINE Bad == (SUBSET S) \ G
<1>1. IsWellFoundedOn(StrictSubsetOrdering(S), SUBSET S)
  BY FS_StrictSubsetOrderingWellFounded, FS_FiniteSubsetsOfFinite
<1> SUFFICES ASSUME Bad # {} PROVE FALSE
  OBVIOUS
<1>2. Bad \subseteq SUBSET S
  OBVIOUS
<1>3. PICK s \in Bad : \A t \in Bad : ~(<<t, s>> \in StrictSubsetOrdering(S))
  <2> HIDE DEF Bad
  <2> QED BY <1>1, <1>2, WFMin
<1>4. ASSUME NEW x \in s PROVE s \ {x} \in G
  <2>1. <<s \ {x}, s>> \in StrictSubsetOrdering(S)
    BY <1>4 DEF StrictSubsetOrdering
  <2> QED BY <1>3, <2>1
<1> QED BY <1>3, <1>4

Pick(s) == CHOOSE x \in s : TRUE

\* One step of the recursion that sums f.
SumStep(g, f, S) ==
    [s \in SUBSET S |-> IF s = {} THEN 0 ELSE f[Pick(s)] + g[s \ {Pick(s)}]]

SumOver(f, S) == CHOOSE g : g = SumStep(g, f, S)

LEMMA TotalIsSum ==
  ASSUME NEW f
  PROVE  Total(f) = SumOver(f, DOMAIN f)[DOMAIN f]
  BY DEF Total, FoldFunction, FoldFunctionOnSet, MapThenFoldSet, SumOver, SumStep, Pick

\* The recursion has a solution: n steps of it are right on sets of n elements.
LEMMA SumRecursion ==
  ASSUME NEW S, IsFiniteSet(S), NEW f
  PROVE  SumOver(f, S) = SumStep(SumOver(f, S), f, S)
<1> DEFINE RightTo(g, n) ==
        \A s \in SUBSET S : Cardinality(s) <= n => g[s] = SumStep(g, f, S)[s]
      Bad == {n \in Nat : ~ \E g : RightTo(g, n)}
<1>1. \A s \in SUBSET S : IsFiniteSet(s) /\ Cardinality(s) \in Nat
  BY FS_Subset, FS_CardinalityType
<1>2. \A s \in SUBSET S : s # {} =>
         /\ Pick(s) \in s
         /\ s \ {Pick(s)} \in SUBSET S
         /\ Cardinality(s \ {Pick(s)}) = Cardinality(s) - 1
  BY <1>1, FS_RemoveElement DEF Pick
<1>3. 0 \notin Bad
  <2> DEFINE g == [s \in SUBSET S |-> 0]
  <2>1. \A s \in SUBSET S : Cardinality(s) <= 0 => s = {}
    BY <1>1, FS_EmptySet
  <2>2. RightTo(g, 0)
    BY <2>1 DEF SumStep
  <2> QED BY <2>2
<1>4. ASSUME NEW n \in Nat, NEW g, RightTo(g, n) PROVE RightTo(SumStep(g, f, S), n + 1)
  <2> DEFINE h == SumStep(g, f, S)
  <2> SUFFICES ASSUME NEW s \in SUBSET S, Cardinality(s) <= n + 1
               PROVE  h[s] = SumStep(h, f, S)[s]
    OBVIOUS
  <2>1. CASE s = {}
    BY <2>1 DEF SumStep
  <2>2. CASE s # {}
    <3>1. s \ {Pick(s)} \in SUBSET S /\ Cardinality(s \ {Pick(s)}) <= n
      BY <1>1, <1>2, <2>2
    <3>2. g[s \ {Pick(s)}] = h[s \ {Pick(s)}]
      BY <1>4, <3>1
    <3> QED BY <2>2, <3>2 DEF SumStep
  <2> QED BY <2>1, <2>2
<1>5. Bad = {}
  <2> SUFFICES ASSUME Bad # {} PROVE FALSE
    OBVIOUS
  <2>1. PICK n \in Bad : \A m \in Bad : n <= m
    <3>1. Bad \in SUBSET Nat
      OBVIOUS
    <3> HIDE DEF Bad
    <3> QED BY <3>1, LeastNat
  <2>2. n - 1 \in Nat /\ n - 1 \notin Bad
    BY <1>3, <2>1
  <2>3. PICK g : RightTo(g, n - 1)
    BY <2>2
  <2>4. RightTo(SumStep(g, f, S), (n - 1) + 1)
    <3> HIDE DEF RightTo
    <3> QED BY <1>4, <2>2, <2>3
  <2>5. (n - 1) + 1 = n /\ n \in Nat
    BY <2>1
  <2> QED BY <2>1, <2>4, <2>5
<1>6. PICK g : RightTo(g, Cardinality(S))
  BY <1>1, <1>5
<1>7. \A s \in SUBSET S : Cardinality(s) <= Cardinality(S)
  BY FS_Subset
<1> DEFINE h == SumStep(g, f, S)
<1>8. \A s \in SUBSET S : g[s] = h[s]
  BY <1>6, <1>7
<1>9. h = SumStep(h, f, S)
  BY <1>2, <1>8 DEF SumStep
<1> QED BY <1>9 DEF SumOver

\* The sum over a set of numbers is a number, to which any element contributes
\* its value.
LEMMA SumProperties ==
  ASSUME NEW S, IsFiniteSet(S), NEW f, \A x \in S : f[x] \in Nat
  PROVE  /\ SumOver(f, S)[{}] = 0
         /\ \A s \in SUBSET S : SumOver(f, S)[s] \in Nat
         /\ \A s \in SUBSET S, x \in S :
                x \in s => SumOver(f, S)[s] = f[x] + SumOver(f, S)[s \ {x}]
<1> DEFINE g == SumOver(f, S)
<1>1. \A s \in SUBSET S : g[s] = IF s = {} THEN 0 ELSE f[Pick(s)] + g[s \ {Pick(s)}]
  <2>1. g = SumStep(g, f, S)
    BY SumRecursion
  <2> HIDE DEF g
  <2>2. \A s \in SUBSET S :
           SumStep(g, f, S)[s] = IF s = {} THEN 0 ELSE f[Pick(s)] + g[s \ {Pick(s)}]
    BY DEF SumStep
  <2> QED BY <2>1, <2>2, Zenon
<1>2. \A s \in SUBSET S : s # {} => Pick(s) \in s
  BY DEF Pick
<1> HIDE DEF g
<1> DEFINE G == {s \in SUBSET S :
                    /\ g[s] \in Nat
                    /\ \A x \in s : g[s \ {x}] \in Nat /\ g[s] = f[x] + g[s \ {x}]}
<1>3. {} \in G
  BY <1>1
<1>4. ASSUME NEW s \in SUBSET S, s # {}, \A x \in s : s \ {x} \in G
      PROVE  s \in G
  <2> DEFINE p == Pick(s)
  <2>1. p \in s
    BY <1>2, <1>4
  <2> HIDE DEF p
  <2>2. g[s] = f[p] + g[s \ {p}]
    BY <1>1, <1>4 DEF p
  <2>3. g[s] \in Nat
    BY <1>4, <2>1, <2>2
  <2>4. ASSUME NEW x \in s, x # p PROVE g[s] = f[x] + g[s \ {x}]
    <3>1. (s \ {p}) \ {x} = (s \ {x}) \ {p}
      OBVIOUS
    <3>2. g[s \ {p}] = f[x] + g[(s \ {p}) \ {x}]
      BY <1>4, <2>1, <2>4
    <3>3. g[s \ {x}] = f[p] + g[(s \ {p}) \ {x}]
      BY <1>4, <2>1, <2>4, <3>1
    <3>4. g[(s \ {p}) \ {x}] \in Nat
      BY <1>4, <2>1, <2>4
    <3>5. f[x] \in Nat /\ f[p] \in Nat
      BY <2>1
    <3> QED BY <2>2, <3>2, <3>3, <3>4, <3>5
  <2> QED BY <1>4, <2>2, <2>3, <2>4
<1>5. \A s \in SUBSET S : s \in G
  <2> HIDE DEF G
  <2> QED BY <1>3, <1>4, SubsetInduction
<1> QED BY <1>1, <1>5 DEF g

\* Functions that agree on a set have the same sum over it.
LEMMA SumAgree ==
  ASSUME NEW S, IsFiniteSet(S), NEW f, \A x \in S : f[x] \in Nat,
         NEW h, \A x \in S : h[x] \in Nat,
         NEW T \in SUBSET S, \A x \in T : f[x] = h[x]
  PROVE  SumOver(f, S)[T] = SumOver(h, S)[T]
<1>0. \A s \in SUBSET S, x \in S : x \in s =>
         /\ SumOver(f, S)[s] = f[x] + SumOver(f, S)[s \ {x}]
         /\ SumOver(h, S)[s] = h[x] + SumOver(h, S)[s \ {x}]
  BY SumProperties
<1> DEFINE G == {s \in SUBSET S : (\A x \in s : f[x] = h[x]) => SumOver(f, S)[s] = SumOver(h, S)[s]}
<1>1. {} \in G
  BY SumProperties
<1>2. ASSUME NEW s \in SUBSET S, s # {}, \A x \in s : s \ {x} \in G
      PROVE  s \in G
  <2> SUFFICES ASSUME \A x \in s : f[x] = h[x]
               PROVE  SumOver(f, S)[s] = SumOver(h, S)[s]
    BY <1>2
  <2>1. PICK x \in s : TRUE
    BY <1>2
  <2>2. SumOver(f, S)[s \ {x}] = SumOver(h, S)[s \ {x}] /\ f[x] = h[x] /\ x \in S
    BY <1>2, <2>1
  <2>3. /\ SumOver(f, S)[s] = f[x] + SumOver(f, S)[s \ {x}]
        /\ SumOver(h, S)[s] = h[x] + SumOver(h, S)[s \ {x}]
    BY <1>0, <1>2, <2>2
  <2> QED BY <2>2, <2>3
<1>3. T \in G
  <2> HIDE DEF G
  <2> QED BY <1>1, <1>2, SubsetInduction
<1> QED BY <1>3

\* Total is a number; one value of the function changes it by the difference.
LEMMA TotalNat ==
  ASSUME NEW S, IsFiniteSet(S), NEW f \in [S -> Nat]
  PROVE  Total(f) \in Nat
  BY TotalIsSum, SumProperties

LEMMA TotalUpdate ==
  ASSUME NEW S, IsFiniteSet(S), NEW f \in [S -> Nat], NEW h \in [S -> Nat],
         NEW x \in S, \A y \in S : y # x => h[y] = f[y]
  PROVE  Total(h) + f[x] = Total(f) + h[x]
<1>1. Total(f) = SumOver(f, S)[S] /\ Total(h) = SumOver(h, S)[S]
  BY TotalIsSum
<1>2. (\A y \in S : f[y] \in Nat) /\ (\A y \in S : h[y] \in Nat)
  OBVIOUS
<1>3. SumOver(f, S)[S] = f[x] + SumOver(f, S)[S \ {x}]
  <2>1. \A s \in SUBSET S, y \in S :
           y \in s => SumOver(f, S)[s] = f[y] + SumOver(f, S)[s \ {y}]
    <3>1. \A y \in S : f[y] \in Nat
      BY <1>2
    <3> QED BY ONLY <3>1, IsFiniteSet(S), SumProperties
  <2> QED BY <2>1
<1>4. SumOver(h, S)[S] = h[x] + SumOver(h, S)[S \ {x}]
  <2>1. \A s \in SUBSET S, y \in S :
           y \in s => SumOver(h, S)[s] = h[y] + SumOver(h, S)[s \ {y}]
    BY <1>2, SumProperties
  <2> QED BY <2>1
<1>5. SumOver(f, S)[S \ {x}] = SumOver(h, S)[S \ {x}]
  BY <1>2, SumAgree
<1>6. SumOver(f, S)[S \ {x}] \in Nat
  BY <1>2, SumProperties
<1> QED BY <1>1, <1>2, <1>3, <1>4, <1>5, <1>6

LEMMA TotalAdd ==
  ASSUME NEW S, IsFiniteSet(S), NEW f \in [S -> Nat], NEW h \in [S -> Nat],
         NEW x \in S, NEW t \in Nat, h[x] = f[x] + t, \A y \in S : y # x => h[y] = f[y]
  PROVE  Total(h) = Total(f) + t
<1>1. Total(h) + f[x] = Total(f) + h[x]
  BY TotalUpdate
<1>2. Total(h) \in Nat /\ Total(f) \in Nat /\ f[x] \in Nat
  BY TotalNat
<1> QED BY <1>1, <1>2

LEMMA TotalZero ==
  ASSUME NEW S, IsFiniteSet(S)
  PROVE  Total([x \in S |-> 0]) = 0
<1> DEFINE f == [x \in S |-> 0]
           G == {s \in SUBSET S : SumOver(f, S)[s] = 0}
<1>1. \A x \in S : f[x] = 0
  OBVIOUS
<1>2. Total(f) = SumOver(f, S)[S]
  BY TotalIsSum
<1> HIDE DEF f
<1>3. {} \in G
  BY <1>1, SumProperties
<1>4. ASSUME NEW s \in SUBSET S, s # {}, \A x \in s : s \ {x} \in G
      PROVE  s \in G
  <2>1. PICK x \in s : TRUE
    BY <1>4
  <2>2. SumOver(f, S)[s] = f[x] + SumOver(f, S)[s \ {x}]
    BY <1>1, SumProperties
  <2> QED BY <1>1, <1>4, <2>2
<1>5. S \in G
  <2>1. S \in SUBSET S
    OBVIOUS
  <2> HIDE DEF G
  <2>2. \A s \in SUBSET S : s # {} /\ (\A x \in s : s \ {x} \in G) => s \in G
    BY <1>4, Zenon
  <2>3. \A s \in SUBSET S : s \in G
    BY <1>3, <2>2, SubsetInduction
  <2> QED BY <2>1, <2>3
<1>6. SumOver(f, S)[S] = 0
  BY <1>5
<1> HIDE DEF G
<1>7. Total(f) = 0
  BY <1>2, <1>6
<1> QED BY <1>7 DEF f

-----------------------------------------------------------------------------
(* Types *)

\* What holds of a run by where it is: an outcome comes with leaving the loop, a
\* response is held until it is counted and then written to the ledger, and there
\* is a tool call to execute.
RunInv ==
    \A r \in Runs :
        /\ pc[r] \in {"idle", "observe"} => outcome[r] = "none"
        /\ pc[r] = "act" => tools[r] > 0
        /\ pc[r] # "record" => response[r] = 0
        /\ pc[r] # "persist" => unwritten[r] = 0
        /\ response[r] \in ResponseTokens \cup {0}

IInv == TypeOK /\ RunInv /\ OneRunPerMachine /\ RunningMeansInLoop

\* A compacted conversation is a summary and the end of the old one.
LEMMA CompactedProperties ==
  ASSUME NEW msgs \in Seq(Roles)
  PROVE  /\ Compacted(msgs) \in Seq(Roles)
         /\ Len(msgs) > MIN_MESSAGES_TO_KEEP =>
               /\ Len(Compacted(msgs)) = MIN_MESSAGES_TO_KEEP + 1
               /\ \A k \in 0..(MIN_MESSAGES_TO_KEEP - 1) :
                     Compacted(msgs)[Len(Compacted(msgs)) - k] = msgs[Len(msgs) - k]
<1> DEFINE split == IF Len(msgs) > MIN_MESSAGES_TO_KEEP
                    THEN Len(msgs) - MIN_MESSAGES_TO_KEEP ELSE 1
           kept == SubSeq(msgs, split + 1, Len(msgs))
<1>1. Len(msgs) \in Nat /\ split \in Nat \ {0}
  BY DEF MIN_MESSAGES_TO_KEEP
<1>2. \A i \in (split + 1)..Len(msgs) : msgs[i] \in Roles
  BY <1>1
<1>3. /\ kept \in Seq(Roles)
      /\ Len(kept) = IF split + 1 <= Len(msgs) THEN Len(msgs) - (split + 1) + 1 ELSE 0
      /\ \A i \in 1..(Len(msgs) - (split + 1) + 1) : kept[i] = msgs[(split + 1) + i - 1]
  <2> HIDE DEF split
  <2> QED BY <1>1, <1>2, SubSeqProperties
<1>4. Compacted(msgs) = <<"summary">> \o kept
  BY DEF Compacted
<1>5. <<"summary">> \in Seq(Roles)
  BY DEF Roles
<1>6. CASE Len(msgs) > MIN_MESSAGES_TO_KEEP
  <2>1. Len(kept) = 4 /\ \A i \in 1..4 : kept[i] = msgs[Len(msgs) - 4 + i]
    BY <1>1, <1>3, <1>6 DEF MIN_MESSAGES_TO_KEEP
  <2> HIDE DEF kept
  <2>2. Compacted(msgs) \in Seq(Roles) /\ Len(Compacted(msgs)) = 5
    <3>1. kept \in Seq(Roles) /\ Len(kept) = 4
      BY <1>3, <2>1
    <3>2. Len(<<"summary">>) = 1
      OBVIOUS
    <3>3. /\ <<"summary">> \o kept \in Seq(Roles)
          /\ Len(<<"summary">> \o kept) = Len(<<"summary">>) + Len(kept)
      BY <1>5, <3>1, ConcatProperties
    <3> QED BY <1>4, <3>1, <3>2, <3>3
  <2>3. \A i \in 1..4 : Compacted(msgs)[1 + i] = kept[i]
    BY <1>3, <1>4, <1>5, <2>1
  <2> QED BY <1>1, <2>1, <2>2, <2>3 DEF MIN_MESSAGES_TO_KEEP
<1>7. CASE ~(Len(msgs) > MIN_MESSAGES_TO_KEEP)
  <2> HIDE DEF kept
  <2> QED BY <1>3, <1>4, <1>5, <1>7
<1> QED BY <1>6, <1>7

\* A date is in a month that there is a counter for, and dates are in the order
\* of their months.
LEMMA DivMonotonic ==
  ASSUME NEW a \in Nat, NEW b \in Nat, a <= b, NEW d \in Nat \ {0}
  PROVE  a \div d \in Nat /\ b \div d \in Nat /\ a \div d <= b \div d
<1> DEFINE p == a \div d
           q == b \div d
<1>1. p \in Nat /\ q \in Nat
  OBVIOUS
<1>2. d * p <= a
  OBVIOUS
<1>3. b < d * (q + 1)
  OBVIOUS
<1> HIDE DEF p, q
<1>4. ~(q + 1 <= p)
  <2> SUFFICES ASSUME q + 1 <= p PROVE FALSE
    OBVIOUS
  <2>1. d * (q + 1) <= d * p
    BY <1>1
  <2> QED BY <1>1, <1>2, <1>3, <2>1
<1> QED BY <1>1, <1>4 DEF p, q

LEMMA MonthOfProperties ==
  /\ \A d \in Days : MonthOf(d) \in Months
  /\ \A d \in Days, e \in Days : d <= e => MonthOf(d) <= MonthOf(e)
<1>1. LastDay \in Nat /\ DaysPerMonth \in Nat \ {0}
  BY BudgetAssumption
<1>2. ASSUME NEW d \in Days PROVE MonthOf(d) \in Months
  BY <1>1, <1>2, DivMonotonic DEF Days, Months, MonthOf
<1>3. ASSUME NEW d \in Days, NEW e \in Days, d <= e PROVE MonthOf(d) <= MonthOf(e)
  BY <1>1, <1>3, DivMonotonic DEF Days, MonthOf
<1> QED BY <1>2, <1>3

\* The counters stay numbers.
LEMMA AddKeepsType ==
  ASSUME CostTypeOK, NEW tokens \in Nat, AddToCounters(tokens)
  PROVE  /\ daily' \in [Days -> Nat] /\ monthly' \in [Months -> Nat]
         /\ charged' \in [Days -> Nat]
<1>1. today \in Days /\ MonthOf(today) \in Months
  BY MonthOfProperties DEF CostTypeOK
<1> QED BY <1>1 DEF CostTypeOK, AddToCounters

\* A run that ends, on a machine that it may move.
LEMMA EndKeepsType ==
  ASSUME TypeOK, RunInv, NEW r \in Runs, NEW result \in Outcomes, End(r, result),
         \/ UNCHANGED state
         \/ \E to \in {"active", "paused"} : TryTransition(r, to),
         CostTypeOK', spent' \in Nat, summaries' \in Nat, unrecorded' \in Nat,
         faults' \in 0..MaxFaults
  PROVE  TypeOK' /\ RunInv'
<1>1. state' \in [Machines -> {"active", "running", "paused"}]
  BY DEF TypeOK, TryTransition
<1>2. <<>> \in Seq(Roles) /\ "ended" \in PC
  BY DEF PC
<1>3. TypeOK'
  BY <1>1, <1>2 DEF TypeOK, End, Goto
<1>4. RunInv'
  BY DEF TypeOK, RunInv, End, Goto
<1> QED BY <1>3, <1>4

LEMMA TypeInit == Init => TypeOK /\ RunInv
<1> SUFFICES ASSUME Init PROVE TypeOK /\ RunInv
  OBVIOUS
<1>1. CostTypeOK
  BY BudgetAssumption, MonthOfProperties DEF Init, CostInit, CostTypeOK, Days, Months
<1>2. <<>> \in Seq(Roles) /\ MaxSteps \in Nat /\ MaxFaults \in Nat
  BY LoopAssumption
<1>3. TypeOK
  BY <1>1, <1>2 DEF Init, TypeOK, PC, Outcomes
<1> QED BY <1>3 DEF Init, RunInv

LEMMA CostUnchanged == CostTypeOK /\ UNCHANGED costVars => CostTypeOK'
  BY DEF CostTypeOK, costVars

LEMMA FaultType == TypeOK /\ Fault => faults' \in 0..MaxFaults
  BY LoopAssumption DEF TypeOK, Fault

\* A step that moves run r to another await.
LEMMA MoveKeepsType ==
  ASSUME TypeOK, RunInv, NEW r \in Runs, NEW label \in PC \ {"idle", "observe", "act"},
         pc[r] \notin {"record", "persist"}, Goto(r, label),
         UNCHANGED <<machineOf, response, unwritten>>,
         CostTypeOK', state' \in [Machines -> {"active", "running", "paused"}],
         step' \in [Runs -> 0..MaxSteps], usedToday' \in [Runs -> Nat], tools' = tools,
         messages' \in [Runs -> Seq(Roles)],
         outcome' = outcome \/ outcome' = [outcome EXCEPT ![r] = "max_steps"],
         spent' \in Nat, summaries' \in Nat, unrecorded' \in Nat, faults' \in 0..MaxFaults
  PROVE  TypeOK' /\ RunInv'
<1>1. TypeOK'
  BY DEF TypeOK, Goto, Outcomes
<1>2. RunInv'
  BY DEF TypeOK, RunInv, Goto
<1> QED BY <1>1, <1>2

LEMMA ThinkKeepsType ==
  ASSUME TypeOK, RunInv, NEW r \in Runs, Think(r)
  PROVE  TypeOK' /\ RunInv'
<1>1. PICK tokens \in ResponseTokens, n \in ToolCounts :
        /\ spent' = spent + tokens
        /\ response' = [response EXCEPT ![r] = tokens]
        /\ tools' = [tools EXCEPT ![r] = n]
  BY DEF Think
<1>2. tokens \in Nat /\ n \in Nat
  BY LoopAssumption
<1>3. pc[r] = "think" /\ Goto(r, "record")
      /\ UNCHANGED <<costVars, machineOf, state, step, usedToday, unwritten, messages,
                     outcome, summaries, unrecorded, faults>>
  BY DEF Think
<1>4. TypeOK'
  BY <1>1, <1>2, <1>3, CostUnchanged DEF TypeOK, Goto, PC
<1>5. RunInv'
  BY <1>1, <1>3 DEF TypeOK, RunInv, Goto
<1> QED BY <1>4, <1>5

LEMMA RecordKeepsType ==
  ASSUME TypeOK, RunInv, NEW r \in Runs, Record(r)
  PROVE  TypeOK' /\ RunInv'
<1>1. response[r] \in Nat /\ pc[r] = "record" /\ CostTypeOK
  BY DEF TypeOK, CostTypeOK, Record
<1>2. /\ UNCHANGED <<today, ledger, evictions, spent, summaries, unrecorded>>
      /\ AddToCounters(response[r]) \/ UNCHANGED <<daily, monthly, charged>>
      /\ UNCHANGED faults \/ Fault
  BY DEF Record
<1>3. CostTypeOK'
  <2>1. daily' \in [Days -> Nat] /\ monthly' \in [Months -> Nat] /\ charged' \in [Days -> Nat]
    BY <1>1, <1>2, AddKeepsType DEF CostTypeOK
  <2> QED BY <1>1, <1>2, <2>1 DEF CostTypeOK
<1>4. faults' \in 0..MaxFaults
  BY <1>2, FaultType DEF TypeOK
<1>5. CASE End(r, "error") /\ TryTransition(r, "active")
  <2>1. "error" \in Outcomes /\ spent' \in Nat /\ summaries' \in Nat /\ unrecorded' \in Nat
    BY <1>2 DEF Outcomes, TypeOK
  <2> QED BY <1>3, <1>4, <1>5, <2>1, EndKeepsType
<1>6. CASE /\ unwritten' = [unwritten EXCEPT ![r] = response[r]]
           /\ response' = [response EXCEPT ![r] = 0]
           /\ Goto(r, "persist")
           /\ UNCHANGED <<machineOf, state, step, usedToday, tools, messages, outcome>>
  <2>1. TypeOK'
    BY <1>1, <1>2, <1>3, <1>4, <1>6 DEF TypeOK, Goto, PC
  <2>2. RunInv'
    BY <1>1, <1>6 DEF TypeOK, RunInv, Goto
  <2> QED BY <2>1, <2>2
<1> QED BY <1>5, <1>6 DEF Record

\* The response joins the conversation.
LEMMA PersistKeepsType ==
  ASSUME TypeOK, RunInv, NEW r \in Runs, Persist(r)
  PROVE  TypeOK' /\ RunInv'
<1>1. Append(messages[r], "assistant") \in Seq(Roles) /\ unwritten[r] \in Nat
  BY DEF TypeOK, Roles
<1>2. /\ pc[r] = "persist"
      /\ messages' = [messages EXCEPT ![r] = Append(@, "assistant")]
      /\ unwritten' = [unwritten EXCEPT ![r] = 0]
      /\ \/ tools[r] > 0 /\ Goto(r, "act") /\ UNCHANGED outcome
         \/ tools[r] = 0 /\ Goto(r, "reflect") /\ outcome' = [outcome EXCEPT ![r] = "completed"]
      /\ UNCHANGED <<machineOf, state, step, usedToday, response, tools, spent, summaries, faults>>
  BY DEF Persist
<1>3. ledger' \in Nat /\ unrecorded' \in Nat
  <2>1. ledger \in Nat /\ unrecorded \in Nat
    BY DEF TypeOK, CostTypeOK
  <2>2. \/ ledger' = ledger + unwritten[r] /\ UNCHANGED unrecorded
        \/ unrecorded' = unrecorded + unwritten[r] /\ UNCHANGED ledger
    BY DEF Persist
  <2> QED BY <1>1, <2>1, <2>2
<1>4. CostTypeOK'
  BY <1>3 DEF Persist, TypeOK, CostTypeOK
<1>5. TypeOK'
  BY <1>1, <1>2, <1>3, <1>4 DEF TypeOK, Goto, PC, Outcomes
<1>6. RunInv'
  BY <1>2 DEF TypeOK, RunInv, Goto
<1> QED BY <1>5, <1>6

LEMMA ActKeepsType ==
  ASSUME TypeOK, RunInv, NEW r \in Runs, Act(r)
  PROVE  TypeOK' /\ RunInv'
<1>1. tools[r] \in Nat /\ tools[r] > 0
  BY DEF TypeOK, RunInv, Act
<1>2. Append(messages[r], "tool") \in Seq(Roles)
  BY DEF TypeOK, Roles
<1>3. TypeOK'
  BY <1>1, <1>2, CostUnchanged DEF TypeOK, Act, Goto, PC, histVars
<1>4. RunInv'
  BY <1>1 DEF TypeOK, RunInv, Act, Goto
<1> QED BY <1>3, <1>4

LEMMA TypeNext ==
  ASSUME TypeOK, RunInv, [Next]_vars
  PROVE  TypeOK' /\ RunInv'
<1>0. /\ CostTypeOK /\ spent \in Nat /\ summaries \in Nat /\ unrecorded \in Nat /\ faults \in 0..MaxFaults
      /\ state \in [Machines -> {"active", "running", "paused"}]
      /\ \A r \in Runs : machineOf[r] \in Machines
  BY DEF TypeOK
<1>1. CASE UNCHANGED vars
  BY <1>1, CostUnchanged DEF vars, runVars, histVars, TypeOK, RunInv
<1>2. ASSUME NEW r \in Runs, Trigger(r) PROVE TypeOK' /\ RunInv'
  <2>1. TypeOK'
    BY <1>2, CostUnchanged DEF Trigger, Goto, histVars, TypeOK, PC
  <2> QED BY <1>2, <2>1 DEF Trigger, Goto, TypeOK, RunInv
<1>3. ASSUME NEW r \in Runs, Start(r) PROVE TypeOK' /\ RunInv'
  <2>1. CostTypeOK' /\ UNCHANGED <<spent, summaries, unrecorded, faults>> /\ pc[r] = "observe"
    BY <1>0, <1>3, CostUnchanged DEF Start
  <2>2. CASE End(r, "rejected") /\ UNCHANGED state
    BY <1>0, <2>1, <2>2, EndKeepsType DEF Outcomes
  <2>3. CASE /\ state' = [state EXCEPT ![machineOf[r]] = "running"]
             /\ Goto(r, "check")
             /\ messages' = [messages EXCEPT ![r] = <<"user">>]
             /\ UNCHANGED <<machineOf, step, usedToday, response, unwritten, tools, outcome>>
    <3>1. <<"user">> \in Seq(Roles) /\ "check" \in PC
      BY DEF Roles, PC
    <3>2. messages' \in [Runs -> Seq(Roles)]
      BY <2>3, <3>1 DEF TypeOK
    <3>3. state' \in [Machines -> {"active", "running", "paused"}]
      BY <1>0, <2>3
    <3> QED BY <1>0, <2>1, <2>3, <3>1, <3>2, <3>3, MoveKeepsType DEF TypeOK
  <2> QED BY <1>3, <2>2, <2>3 DEF Start
<1>4. ASSUME NEW r \in Runs, LoopHead(r) PROVE TypeOK' /\ RunInv'
  <2>1. daily[today] \in Nat /\ step[r] \in 0..MaxSteps /\ MaxSteps \in Nat
    BY <1>0, LoopAssumption DEF CostTypeOK, TypeOK
  <2>2. step' \in [Runs -> 0..MaxSteps] /\ usedToday' \in [Runs -> Nat]
    <3>1. CASE UNCHANGED <<step, usedToday>>
      BY <3>1 DEF TypeOK
    <3>2. CASE /\ step[r] < MaxSteps
               /\ step' = [step EXCEPT ![r] = @ + 1]
               /\ usedToday' = [usedToday EXCEPT ![r] = daily[today]]
      <4>1. step[r] + 1 \in 0..MaxSteps
        BY <2>1, <3>2
      <4> QED BY <2>1, <3>2, <4>1 DEF TypeOK
    <3> QED BY <1>4, <3>1, <3>2 DEF LoopHead
  <2>3. outcome' = outcome \/ outcome' = [outcome EXCEPT ![r] = "max_steps"]
    BY <1>4 DEF LoopHead
  <2>4. PICK label \in {"reflect", "checkMonth"} : Goto(r, label)
    BY <1>4 DEF LoopHead
  <2>5. /\ UNCHANGED <<costVars, machineOf, state, response, unwritten, tools, messages, spent,
                     summaries, unrecorded, faults>>
        /\ pc[r] = "check"
    BY <1>4 DEF LoopHead, histVars
  <2>6. label \in PC \ {"idle", "observe", "act"}
    BY DEF PC
  <2> QED BY <1>0, <2>2, <2>3, <2>4, <2>5, <2>6, CostUnchanged, MoveKeepsType DEF TypeOK
<1>5. ASSUME NEW r \in Runs, CheckMonth(r) PROVE TypeOK' /\ RunInv'
  <2>1. CostTypeOK' /\ UNCHANGED <<spent, summaries, unrecorded, faults>> /\ pc[r] = "checkMonth"
    BY <1>0, <1>5, CostUnchanged DEF CheckMonth
  <2>2. CASE TryTransition(r, "paused") /\ End(r, "budget_exceeded")
    BY <1>0, <2>1, <2>2, EndKeepsType DEF Outcomes
  <2>3. CASE /\ Goto(r, "compact")
             /\ usedToday' = [usedToday EXCEPT ![r] = 0]
             /\ UNCHANGED <<machineOf, state, step, response, unwritten, tools, messages, outcome>>
    <3>1. "compact" \in PC /\ usedToday' \in [Runs -> Nat]
      BY <2>3 DEF PC, TypeOK
    <3> QED BY <1>0, <2>1, <2>3, <3>1, MoveKeepsType DEF TypeOK
  <2> QED BY <1>5, <2>2, <2>3 DEF CheckMonth
<1>6. ASSUME NEW r \in Runs, MaybeCompact(r) PROVE TypeOK' /\ RunInv'
  <2>1. PICK label \in {"summarize", "think"} : Goto(r, label)
    BY <1>6 DEF MaybeCompact
  <2>2. label \in PC \ {"idle", "observe", "act"}
    BY DEF PC
  <2> QED BY <1>0, <1>6, <2>1, <2>2, CostUnchanged, MoveKeepsType DEF MaybeCompact, TypeOK, histVars
<1>7. ASSUME NEW r \in Runs, Summarize(r) PROVE TypeOK' /\ RunInv'
  <2>1. spent' \in Nat /\ summaries' \in Nat
    BY <1>0, <1>7, LoopAssumption DEF Summarize
  <2>2. messages[r] \in Seq(Roles)
    BY DEF TypeOK
  <2>3. messages' \in [Runs -> Seq(Roles)]
    BY <1>7, <2>2, CompactedProperties DEF Summarize, TypeOK
  <2>4. "think" \in PC
    BY DEF PC
  <2> QED BY <1>0, <1>7, <2>1, <2>3, <2>4, CostUnchanged, MoveKeepsType DEF Summarize, TypeOK
<1>8. ASSUME NEW r \in Runs, Reflect(r) PROVE TypeOK' /\ RunInv'
  <2>1. outcome[r] \in Outcomes
    BY DEF TypeOK
  <2> QED BY <1>0, <1>8, <2>1, CostUnchanged, EndKeepsType DEF Reflect
<1>9. ASSUME NEW r \in Runs, Raise(r) PROVE TypeOK' /\ RunInv'
  BY <1>0, <1>9, CostUnchanged, FaultType, EndKeepsType DEF Raise, Outcomes
<1>10. ASSUME NEW r \in Runs, Cancel(r) PROVE TypeOK' /\ RunInv'
  BY <1>0, <1>10, CostUnchanged, FaultType, EndKeepsType DEF Cancel, Outcomes
<1>11. ASSUME NEW m \in Machines, Resume(m) PROVE TypeOK' /\ RunInv'
  BY <1>11, CostUnchanged DEF Resume, histVars, TypeOK, RunInv
<1>12. CASE Midnight \/ Evict
  <2>1. CostTypeOK'
    <3>1. CASE NextDay
      BY <1>0, <3>1, BudgetAssumption DEF NextDay, CostTypeOK, Days
    <3>2. CASE EvictCounter
      BY <1>0, <3>2, BudgetAssumption DEF EvictCounter, CostTypeOK
    <3> QED BY <1>12, <3>1, <3>2 DEF Midnight, Evict
  <2>2. UNCHANGED <<runVars, histVars>>
    BY <1>12 DEF Midnight, Evict
  <2> QED BY <2>1, <2>2 DEF runVars, histVars, TypeOK, RunInv
<1> QED
  BY <1>1, <1>2, <1>3, <1>4, <1>5, <1>6, <1>7, <1>8, <1>9, <1>10, <1>11, <1>12,
     ThinkKeepsType, RecordKeepsType, PersistKeepsType, ActKeepsType DEF Next, Continue

-----------------------------------------------------------------------------
(* The state machine as a lock *)

\* A run that stays in its loop leaves the lock alone.
LEMMA InsideKeepsLock ==
  ASSUME IInv, NEW r \in Runs, InLoop(r), UNCHANGED <<machineOf, state>>,
         NEW label \in PC \ {"idle", "observe", "ended"}, Goto(r, label),
         \A q \in Runs : q # r => outcome'[q] = outcome[q]
  PROVE  OneRunPerMachine' /\ RunningMeansInLoop'
<1> USE DEF IInv
<1>1. \A q \in Runs : InLoop(q)' <=> InLoop(q)
  BY DEF TypeOK, InLoop, Goto
<1>2. OneRunPerMachine'
  BY <1>1 DEF OneRunPerMachine
<1>3. RunningMeansInLoop'
  BY <1>1 DEF RunningMeansInLoop
<1> QED BY <1>2, <1>3

\* A run that leaves its loop gives the machine back; a cancelled one keeps it.
LEMMA LeaveKeepsLock ==
  ASSUME IInv, NEW r \in Runs, NEW result \in Outcomes, End(r, result),
         \/ InLoop(r) /\ \E to \in {"active", "paused"} : TryTransition(r, to)
         \/ result = "cancelled" /\ UNCHANGED state
         \/ pc[r] = "observe" /\ UNCHANGED state
  PROVE  OneRunPerMachine' /\ RunningMeansInLoop'
<1> USE DEF IInv
<1>1. /\ ~InLoop(r)'
      /\ \A q \in Runs : q # r => (InLoop(q)' <=> InLoop(q)) /\ outcome'[q] = outcome[q]
      /\ outcome'[r] = result /\ machineOf' = machineOf
  BY DEF TypeOK, InLoop, End, Goto
<1>2. OneRunPerMachine'
  BY <1>1 DEF OneRunPerMachine
<1>3. CASE InLoop(r) /\ \E to \in {"active", "paused"} : TryTransition(r, to)
  <2>1. state[machineOf[r]] = "running" /\ machineOf[r] \in Machines
    BY <1>3 DEF RunningMeansInLoop, TypeOK
  <2>2. PICK to \in {"active", "paused"} : state' = [state EXCEPT ![machineOf[r]] = to]
    BY <1>3, <2>1 DEF TryTransition, LoopTransitions
  <2>3. \A q \in Runs : InLoop(q)' => machineOf[q] # machineOf[r]
    BY <1>1, <1>3 DEF OneRunPerMachine
  <2>4. state'[machineOf[r]] # "running"
    BY <2>1, <2>2 DEF TypeOK
  <2>5. \A m \in Machines : m # machineOf[r] => state'[m] = state[m]
    BY <2>2 DEF TypeOK
  <2>6. ASSUME NEW m \in Machines, m # machineOf[r]
        PROVE  /\ (\E q \in Runs : InLoop(q)' /\ machineOf[q] = m) => state'[m] = "running"
               /\ state'[m] = "running" =>
                     \E q \in Runs : machineOf[q] = m /\ (InLoop(q)' \/ outcome'[q] = "cancelled")
    <3>1. \A q \in Runs : machineOf[q] = m => (InLoop(q)' <=> InLoop(q)) /\ outcome'[q] = outcome[q]
      BY <1>1, <2>6
    <3> QED BY <2>5, <2>6, <3>1 DEF RunningMeansInLoop
  <2> QED BY <1>1, <1>2, <2>3, <2>4, <2>6 DEF RunningMeansInLoop
<1>4. CASE result = "cancelled" /\ UNCHANGED state
  BY <1>1, <1>2, <1>4 DEF RunningMeansInLoop
<1>5. CASE pc[r] = "observe" /\ UNCHANGED state
  <2>1. ~InLoop(r) /\ outcome[r] # "cancelled"
    BY <1>5 DEF InLoop, RunInv
  <2>2. \A q \in Runs : InLoop(q)' <=> InLoop(q)
    BY <1>1, <2>1
  <2>3. \A q \in Runs : outcome[q] = "cancelled" => outcome'[q] = "cancelled"
    BY <1>1, <2>1
  <2>4. ASSUME NEW m \in Machines
        PROVE  /\ (\E q \in Runs : InLoop(q)' /\ machineOf'[q] = m) => state'[m] = "running"
               /\ state'[m] = "running" =>
                     \E q \in Runs : machineOf'[q] = m /\ (InLoop(q)' \/ outcome'[q] = "cancelled")
    BY <1>1, <1>5, <2>2, <2>3 DEF RunningMeansInLoop
  <2> QED BY <1>2, <2>4 DEF RunningMeansInLoop
<1> QED BY <1>3, <1>4, <1>5

\* A run enters its loop on an ACTIVE machine, which no other run is on.
LEMMA StartKeepsLock ==
  ASSUME IInv, NEW r \in Runs, Start(r)
  PROVE  OneRunPerMachine' /\ RunningMeansInLoop'
<1> USE DEF IInv
<1>1. CASE End(r, "rejected") /\ UNCHANGED state
  BY <1>1, LeaveKeepsLock DEF Start, Outcomes
<1>2. CASE /\ <<state[machineOf[r]], "running">> \in LoopTransitions
           /\ state' = [state EXCEPT ![machineOf[r]] = "running"]
           /\ Goto(r, "check")
           /\ UNCHANGED <<machineOf, outcome>>
  <2>1. state[machineOf[r]] = "active" /\ machineOf[r] \in Machines
    BY <1>2 DEF LoopTransitions, TypeOK
  <2>2. \A q \in Runs : machineOf[q] = machineOf[r] => ~InLoop(q)
    BY <2>1 DEF RunningMeansInLoop
  <2>3. InLoop(r)' /\ \A q \in Runs : q # r => (InLoop(q)' <=> InLoop(q))
    BY <1>2 DEF TypeOK, InLoop, Goto
  <2>4. OneRunPerMachine'
    BY <1>2, <2>2, <2>3 DEF OneRunPerMachine
  <2>5. RunningMeansInLoop'
    BY <1>2, <2>1, <2>3 DEF RunningMeansInLoop, TypeOK
  <2> QED BY <2>4, <2>5
<1> QED BY <1>1, <1>2 DEF Start

LEMMA LockNext ==
  ASSUME IInv, [Next]_vars
  PROVE  OneRunPerMachine' /\ RunningMeansInLoop'
<1>1. CASE UNCHANGED <<machineOf, state, pc, outcome>>
  BY <1>1 DEF IInv, OneRunPerMachine, RunningMeansInLoop, InLoop
<1>2. ASSUME NEW r \in Runs, Trigger(r) PROVE OneRunPerMachine' /\ RunningMeansInLoop'
  <2>1. /\ \A q \in Runs : InLoop(q)' <=> InLoop(q)
        /\ UNCHANGED <<machineOf, state, outcome>>
    BY <1>2 DEF Trigger, Goto, InLoop, IInv, TypeOK
  <2> QED BY <2>1 DEF IInv, OneRunPerMachine, RunningMeansInLoop
<1>3. ASSUME NEW r \in Runs,
             LoopHead(r) \/ MaybeCompact(r) \/ Summarize(r) \/ Think(r) \/ Persist(r) \/ Act(r)
      PROVE  OneRunPerMachine' /\ RunningMeansInLoop'
  <2>1. InLoop(r) /\ UNCHANGED <<machineOf, state>>
    BY <1>3 DEF LoopHead, MaybeCompact, Summarize, Think, Persist, Act, InLoop
  <2>2. PICK label \in PC \ {"idle", "observe", "ended"} : Goto(r, label)
    BY <1>3 DEF LoopHead, MaybeCompact, Summarize, Think, Persist, Act, PC
  <2>3. outcome' = outcome \/ \E result : outcome' = [outcome EXCEPT ![r] = result]
    BY <1>3 DEF LoopHead, MaybeCompact, Summarize, Think, Persist, Act
  <2>4. \A q \in Runs : q # r => outcome'[q] = outcome[q]
    BY <2>3 DEF IInv, TypeOK
  <2> QED BY <2>1, <2>2, <2>4, InsideKeepsLock
<1>4. ASSUME NEW r \in Runs, CheckMonth(r) PROVE OneRunPerMachine' /\ RunningMeansInLoop'
  <2>1. InLoop(r)
    BY <1>4 DEF CheckMonth, InLoop
  <2>2. CASE TryTransition(r, "paused") /\ End(r, "budget_exceeded")
    BY <2>1, <2>2, LeaveKeepsLock DEF Outcomes
  <2>3. CASE Goto(r, "compact") /\ UNCHANGED <<machineOf, state, outcome>>
    BY <2>1, <2>3, InsideKeepsLock DEF PC
  <2> QED BY <1>4, <2>2, <2>3 DEF CheckMonth
<1>5. ASSUME NEW r \in Runs, Record(r) PROVE OneRunPerMachine' /\ RunningMeansInLoop'
  <2>1. InLoop(r)
    BY <1>5 DEF Record, InLoop
  <2>2. CASE TryTransition(r, "active") /\ End(r, "error")
    BY <2>1, <2>2, LeaveKeepsLock DEF Outcomes
  <2>3. CASE Goto(r, "persist") /\ UNCHANGED <<machineOf, state, outcome>>
    BY <2>1, <2>3, InsideKeepsLock DEF PC
  <2> QED BY <1>5, <2>2, <2>3 DEF Record
<1>6. ASSUME NEW r \in Runs, Reflect(r) \/ Raise(r) PROVE OneRunPerMachine' /\ RunningMeansInLoop'
  <2>1. InLoop(r) /\ TryTransition(r, "active")
    BY <1>6 DEF Reflect, Raise, InLoop
  <2>2. End(r, outcome[r]) \/ End(r, "error")
    BY <1>6 DEF Reflect, Raise
  <2>3. outcome[r] \in Outcomes /\ "error" \in Outcomes
    BY DEF IInv, TypeOK, Outcomes
  <2> QED BY <2>1, <2>2, <2>3, LeaveKeepsLock
<1>7. ASSUME NEW r \in Runs, Cancel(r) PROVE OneRunPerMachine' /\ RunningMeansInLoop'
  BY <1>7, LeaveKeepsLock DEF Cancel, Outcomes
<1>8. ASSUME NEW m \in Machines, Resume(m) PROVE OneRunPerMachine' /\ RunningMeansInLoop'
  <2>1. /\ \A q \in Runs : InLoop(q)' <=> InLoop(q)
        /\ UNCHANGED <<machineOf, outcome>>
        /\ state[m] = "paused" /\ state' = [state EXCEPT ![m] = "active"]
    BY <1>8 DEF Resume, InLoop
  <2> QED BY <2>1 DEF IInv, TypeOK, OneRunPerMachine, RunningMeansInLoop
<1> QED
  BY <1>1, <1>2, <1>3, <1>4, <1>5, <1>6, <1>7, <1>8, StartKeepsLock
     DEF Next, Continue, Midnight, Evict, vars, runVars

LEMMA IInvInit == Init => IInv
<1>1. Init => OneRunPerMachine /\ RunningMeansInLoop
  BY DEF Init, OneRunPerMachine, RunningMeansInLoop, InLoop
<1> QED BY <1>1, TypeInit DEF IInv

LEMMA IInvNext == IInv /\ [Next]_vars => IInv'
  BY TypeNext, LockNext DEF IInv

-----------------------------------------------------------------------------
(* What was spent *)

DaysOf(month) == {d \in Days : MonthOf(d) = month}

SumIn(c, month) == Total([d \in DaysOf(month) |-> c[d]])

LEMMA ChargedInIsSum == \A m \in Months : ChargedIn(m) = SumIn(charged, m)
  BY DEF ChargedIn, SumIn, DaysOf

LEMMA DaysFinite ==
  /\ IsFiniteSet(Days)
  /\ \A m \in Months : IsFiniteSet(DaysOf(m)) /\ DaysOf(m) \subseteq Days
<1>1. LastDay \in Nat
  BY BudgetAssumption
<1>2. IsFiniteSet(Days)
  BY <1>1, FS_Interval DEF Days
<1>3. ASSUME NEW m \in Months PROVE IsFiniteSet(DaysOf(m)) /\ DaysOf(m) \subseteq Days
  <2>1. DaysOf(m) \subseteq Days
    BY DEF DaysOf
  <2> QED BY <1>2, <2>1, FS_Subset
<1> QED BY <1>2, <1>3

\* What is charged on a day is charged in its month and in no other.
LEMMA SumInAdd ==
  ASSUME NEW c \in [Days -> Nat], NEW h \in [Days -> Nat], NEW d \in Days, NEW t \in Nat,
         h[d] = c[d] + t, \A e \in Days : e # d => h[e] = c[e], NEW m \in Months
  PROVE  SumIn(h, m) = SumIn(c, m) + (IF m = MonthOf(d) THEN t ELSE 0)
<1> DEFINE S == DaysOf(m)
           cm == [e \in S |-> c[e]]
           hm == [e \in S |-> h[e]]
<1>1. IsFiniteSet(S) /\ S \subseteq Days
  BY DaysFinite
<1>2. /\ cm \in [S -> Nat] /\ \A e \in S : cm[e] = c[e]
      /\ hm \in [S -> Nat] /\ \A e \in S : hm[e] = h[e]
  BY <1>1
<1>3. SumIn(c, m) = Total(cm) /\ SumIn(h, m) = Total(hm)
  BY DEF SumIn
<1>4. d \in S <=> m = MonthOf(d)
  BY DEF DaysOf
<1> HIDE DEF S, cm, hm
<1>5. CASE m = MonthOf(d)
  <2>1. Total(hm) = Total(cm) + t
    BY <1>1, <1>2, <1>4, <1>5, TotalAdd
  <2> QED BY <1>3, <1>5, <2>1
<1>6. CASE m # MonthOf(d)
  <2>1. cm = hm
    BY <1>1, <1>2, <1>4, <1>6 DEF cm, hm
  <2>2. Total(cm) \in Nat
    BY <1>1, <1>2, TotalNat
  <2> QED BY <1>3, <1>6, <2>1, <2>2
<1> QED BY <1>5, <1>6

\* The accounts, with the inequalities of SpendingAccountedFor strengthened: what
\* is in a response is spent and not yet charged, and what is in a usage record is
\* charged and not yet written.
SpendInv ==
    /\ evictions = 0 => \A m \in Months : monthly[m] = ChargedIn(m)
    /\ evictions = 0 => daily = charged
    /\ ledger + unrecorded + Total(unwritten) <= Total(charged)
    /\ Total(charged) + Total(response) <= spent
    /\ faults = 0 => /\ ledger + unrecorded + Total(unwritten) = Total(charged)
                     /\ spent = Total(charged) + summaries + Total(response)

LEMMA AccountsAreNumbers ==
  ASSUME TypeOK
  PROVE  /\ Total(charged) \in Nat /\ Total(response) \in Nat /\ Total(unwritten) \in Nat
         /\ ledger \in Nat /\ spent \in Nat /\ summaries \in Nat /\ unrecorded \in Nat
         /\ faults \in Nat /\ evictions \in Nat
<1>1. /\ charged \in [Days -> Nat] /\ response \in [Runs -> Nat] /\ unwritten \in [Runs -> Nat]
      /\ IsFiniteSet(Runs)
  BY LoopAssumption DEF TypeOK, CostTypeOK
<1>2. Total(charged) \in Nat
  BY <1>1, DaysFinite, TotalNat
<1>3. Total(response) \in Nat /\ Total(unwritten) \in Nat
  BY <1>1, TotalNat
<1> QED BY <1>2, <1>3, LoopAssumption, BudgetAssumption DEF TypeOK, CostTypeOK

LEMMA SpendInit == Init => SpendInv
<1> SUFFICES ASSUME Init PROVE SpendInv
  OBVIOUS
<1>1. /\ charged = [d \in Days |-> 0] /\ response = [r \in Runs |-> 0]
      /\ unwritten = [r \in Runs |-> 0]
  BY DEF Init, CostInit
<1>2. Total(charged) = 0 /\ Total(response) = 0 /\ Total(unwritten) = 0
  BY <1>1, DaysFinite, LoopAssumption, TotalZero
<1>3. ASSUME NEW m \in Months PROVE monthly[m] = ChargedIn(m)
  <2>1. [d \in DaysOf(m) |-> charged[d]] = [d \in DaysOf(m) |-> 0]
    BY <1>1, DaysFinite
  <2>2. ChargedIn(m) = 0
    BY <2>1, DaysFinite, TotalZero, ChargedInIsSum DEF SumIn
  <2> QED BY <2>2 DEF Init, CostInit
<1> QED BY <1>2, <1>3 DEF Init, CostInit, SpendInv

\* A value that is taken out of a function lowers its total by as much.
LEMMA TotalReset ==
  ASSUME NEW f \in [Runs -> Nat], NEW r \in Runs
  PROVE  /\ Total([f EXCEPT ![r] = 0]) \in Nat /\ Total(f) \in Nat /\ f[r] \in Nat
         /\ Total([f EXCEPT ![r] = 0]) + f[r] = Total(f)
<1> DEFINE h == [f EXCEPT ![r] = 0]
<1>1. h \in [Runs -> Nat] /\ h[r] = 0 /\ \A q \in Runs : q # r => h[q] = f[q]
  OBVIOUS
<1>2. IsFiniteSet(Runs)
  BY LoopAssumption
<1> HIDE DEF h
<1>3. Total(h) + f[r] = Total(f) + h[r]
  BY <1>1, <1>2, TotalUpdate
<1>4. Total(h) \in Nat /\ Total(f) \in Nat
  BY <1>1, <1>2, TotalNat
<1>5. Total(h) + f[r] = Total(f)
  BY <1>1, <1>3, <1>4
<1> QED BY <1>4, <1>5 DEF h

\* A step that counts and spends nothing, and drops a response or a usage record
\* at most when it is a fault.
LEMMA NothingSpent ==
  ASSUME TypeOK, SpendInv,
         UNCHANGED <<daily, monthly, ledger, charged, evictions, spent, summaries, unrecorded>>,
         \/ UNCHANGED <<response, unwritten, faults>>
         \/ \E r \in Runs : /\ Fault
                            /\ response' = [response EXCEPT ![r] = 0]
                            /\ unwritten' = [unwritten EXCEPT ![r] = 0]
  PROVE  SpendInv'
<1>1. (\A m \in Months : ChargedIn(m)' = ChargedIn(m)) /\ Total(charged)' = Total(charged)
  BY DEF ChargedIn
<1>2. CASE UNCHANGED <<response, unwritten, faults>>
  <2>1. Total(response)' = Total(response) /\ Total(unwritten)' = Total(unwritten)
    BY <1>2
  <2> QED BY <1>1, <1>2, <2>1 DEF SpendInv
<1>3. ASSUME NEW r \in Runs, Fault,
             response' = [response EXCEPT ![r] = 0], unwritten' = [unwritten EXCEPT ![r] = 0]
      PROVE  SpendInv'
  <2>1. faults' # 0
    BY <1>3, AccountsAreNumbers DEF Fault
  <2>2. response \in [Runs -> Nat] /\ unwritten \in [Runs -> Nat]
    BY DEF TypeOK
  <2>3. /\ Total(response') + response[r] = Total(response)
        /\ response[r] \in Nat /\ Total(response') \in Nat
    BY <1>3, <2>2, TotalReset
  <2>4. /\ Total(unwritten') + unwritten[r] = Total(unwritten)
        /\ unwritten[r] \in Nat /\ Total(unwritten') \in Nat
    BY <1>3, <2>2, TotalReset
  <2>5. Total(charged) + Total(response') <= spent
    BY <2>3, AccountsAreNumbers DEF SpendInv
  <2>6. ledger + unrecorded + Total(unwritten') <= Total(charged)
    BY <2>4, AccountsAreNumbers DEF SpendInv
  <2> QED BY <1>1, <1>3, <2>1, <2>5, <2>6 DEF SpendInv
<1> QED BY <1>2, <1>3

\* A run that holds no response and no usage record ends.
LEMMA EndHoldsNothing ==
  ASSUME TypeOK, RunInv, NEW r \in Runs, pc[r] \notin {"record", "persist"},
         NEW result, End(r, result)
  PROVE  UNCHANGED <<response, unwritten>>
  BY DEF TypeOK, RunInv, End

\* The response that is recorded is charged to the day and to its month.
LEMMA RecordCharges ==
  ASSUME TypeOK, SpendInv, NEW t \in Nat, AddToCounters(t), UNCHANGED <<today, evictions>>
  PROVE  /\ evictions' = 0 => \A m \in Months : monthly'[m] = ChargedIn(m)'
         /\ evictions' = 0 => daily' = charged'
         /\ Total(charged') = Total(charged) + t
<1>1. /\ today \in Days /\ MonthOf(today) \in Months
      /\ charged \in [Days -> Nat] /\ daily \in [Days -> Nat] /\ monthly \in [Months -> Nat]
  BY MonthOfProperties DEF TypeOK, CostTypeOK
<1>2. /\ charged' \in [Days -> Nat] /\ charged'[today] = charged[today] + t
      /\ \A d \in Days : d # today => charged'[d] = charged[d]
  BY <1>1 DEF AddToCounters
<1>3. Total(charged') = Total(charged) + t
  BY <1>1, <1>2, DaysFinite, TotalAdd
<1>4. ASSUME evictions' = 0, NEW m \in Months PROVE monthly'[m] = ChargedIn(m)'
  <2>1. ChargedIn(m)' = SumIn(charged', m)
    BY DEF ChargedIn, SumIn, DaysOf
  <2>2. SumIn(charged', m) = SumIn(charged, m) + (IF m = MonthOf(today) THEN t ELSE 0)
    BY <1>1, <1>2, SumInAdd
  <2>3. monthly[m] = ChargedIn(m) /\ monthly[m] \in Nat
    BY <1>1, <1>4 DEF SpendInv
  <2>4. monthly'[m] = monthly[m] + (IF m = MonthOf(today) THEN t ELSE 0)
    BY <1>1, <2>3 DEF AddToCounters
  <2> QED BY <2>1, <2>2, <2>3, <2>4, ChargedInIsSum
<1>5. evictions' = 0 => daily' = charged'
  BY <1>1 DEF SpendInv, AddToCounters
<1> QED BY <1>3, <1>4, <1>5

LEMMA RecordBalances ==
  ASSUME IInv, SpendInv, NEW r \in Runs, Record(r)
  PROVE  SpendInv'
<1> DEFINE t == response[r]
<1>1. /\ t \in Nat /\ pc[r] = "record" /\ unwritten[r] = 0
      /\ response \in [Runs -> Nat] /\ unwritten \in [Runs -> Nat] /\ IsFiniteSet(Runs)
      /\ response' = [response EXCEPT ![r] = 0]
      /\ UNCHANGED <<today, ledger, evictions, spent, summaries, unrecorded>>
  BY LoopAssumption DEF IInv, TypeOK, RunInv, Record, End
<1>2. Total(response') + t = Total(response) /\ Total(response') \in Nat
  BY <1>1, TotalReset
<1>3. /\ Total(charged) \in Nat /\ Total(response) \in Nat /\ Total(unwritten) \in Nat
      /\ ledger \in Nat /\ spent \in Nat /\ summaries \in Nat /\ unrecorded \in Nat
      /\ faults \in Nat
  BY AccountsAreNumbers DEF IInv
<1>4. AddToCounters(t) =>
        /\ evictions' = 0 => \A m \in Months : monthly'[m] = ChargedIn(m)'
        /\ evictions' = 0 => daily' = charged'
        /\ Total(charged') = Total(charged) + t
  BY <1>1, RecordCharges DEF IInv
<1>5. CASE /\ AddToCounters(t)
           /\ unwritten' = [unwritten EXCEPT ![r] = t]
           /\ UNCHANGED faults
  <2>1. Total(unwritten') = Total(unwritten) + t
    <3>1. /\ unwritten' \in [Runs -> Nat] /\ unwritten'[r] = unwritten[r] + t
          /\ \A q \in Runs : q # r => unwritten'[q] = unwritten[q]
      BY <1>1, <1>5
    <3>2. IsFiniteSet(Runs) /\ unwritten \in [Runs -> Nat] /\ t \in Nat
      BY <1>1
    <3> HIDE DEF t
    <3> QED BY <3>1, <3>2, TotalAdd
  <2> HIDE DEF t
  <2>2. /\ ledger' + unrecorded' + Total(unwritten') <= Total(charged')
        /\ Total(charged') + Total(response') <= spent'
    BY <1>1, <1>2, <1>3, <1>4, <1>5, <2>1 DEF SpendInv
  <2>3. faults' = 0 => /\ ledger' + unrecorded' + Total(unwritten') = Total(charged')
                       /\ spent' = Total(charged') + summaries' + Total(response')
    BY <1>1, <1>2, <1>3, <1>4, <1>5, <2>1 DEF SpendInv
  <2> QED BY <1>4, <1>5, <2>2, <2>3 DEF SpendInv
<1>6. CASE AddToCounters(t) /\ Fault /\ unwritten' = [unwritten EXCEPT ![r] = 0]
  <2>1. unwritten' = unwritten /\ Total(unwritten') = Total(unwritten)
    BY <1>1, <1>6
  <2>2. faults' # 0
    BY <1>3, <1>6 DEF Fault
  <2> HIDE DEF t
  <2>3. /\ ledger' + unrecorded' + Total(unwritten') <= Total(charged')
        /\ Total(charged') + Total(response') <= spent'
    BY <1>1, <1>2, <1>3, <1>4, <1>6, <2>1 DEF SpendInv
  <2> QED BY <1>4, <1>6, <2>2, <2>3 DEF SpendInv
<1>7. CASE /\ UNCHANGED <<daily, monthly, charged>> /\ Fault
           /\ unwritten' = [unwritten EXCEPT ![r] = 0]
  BY <1>1, <1>7, NothingSpent DEF IInv
<1> QED BY <1>5, <1>6, <1>7 DEF Record, End

\* The usage record is written, or it is not and that is noted.
LEMMA PersistBalances ==
  ASSUME IInv, SpendInv, NEW r \in Runs, Persist(r)
  PROVE  SpendInv'
<1> DEFINE t == unwritten[r]
<1>1. /\ unwritten' = [unwritten EXCEPT ![r] = 0]
      /\ \/ ledger' = ledger + t /\ unrecorded' = unrecorded
         \/ unrecorded' = unrecorded + t /\ ledger' = ledger
      /\ UNCHANGED <<daily, monthly, charged, evictions, response, spent, summaries, faults>>
  BY DEF Persist
<1>2. Total(unwritten') + t = Total(unwritten) /\ t \in Nat /\ Total(unwritten') \in Nat
  <2>1. unwritten \in [Runs -> Nat]
    BY DEF IInv, TypeOK
  <2> QED BY <1>1, <2>1, TotalReset
<1>3. /\ Total(charged) \in Nat /\ Total(response) \in Nat /\ Total(unwritten) \in Nat
      /\ ledger \in Nat /\ unrecorded \in Nat
  BY AccountsAreNumbers DEF IInv
<1>4. /\ \A m \in Months : ChargedIn(m)' = ChargedIn(m)
      /\ Total(charged') = Total(charged) /\ Total(response') = Total(response)
  BY <1>1 DEF ChargedIn
<1> HIDE DEF t
<1>5. ledger' + unrecorded' + Total(unwritten') = ledger + unrecorded + Total(unwritten)
  BY <1>1, <1>2, <1>3
<1> QED BY <1>1, <1>4, <1>5 DEF SpendInv

LEMMA ThinkBalances ==
  ASSUME IInv, SpendInv, NEW r \in Runs, Think(r)
  PROVE  SpendInv'
<1>1. PICK t \in ResponseTokens :
        spent' = spent + t /\ response' = [response EXCEPT ![r] = t]
  BY DEF Think
<1>2. /\ t \in Nat /\ response[r] = 0 /\ response \in [Runs -> Nat] /\ IsFiniteSet(Runs)
      /\ UNCHANGED <<daily, monthly, ledger, charged, evictions, unwritten, summaries,
                     unrecorded, faults>>
  BY LoopAssumption DEF IInv, TypeOK, RunInv, Think, costVars
<1>3. Total(response') = Total(response) + t
  <2>1. /\ response' \in [Runs -> Nat] /\ response'[r] = response[r] + t
        /\ \A q \in Runs : q # r => response'[q] = response[q]
    BY <1>1, <1>2
  <2> QED BY <1>2, <2>1, TotalAdd
<1>4. /\ \A m \in Months : ChargedIn(m)' = ChargedIn(m)
      /\ Total(charged') = Total(charged) /\ Total(unwritten') = Total(unwritten)
  BY <1>2 DEF ChargedIn
<1>5. /\ Total(charged) \in Nat /\ Total(response) \in Nat
      /\ ledger \in Nat /\ spent \in Nat /\ summaries \in Nat
  BY AccountsAreNumbers DEF IInv
<1>6. Total(charged) + Total(response') <= spent'
  BY <1>1, <1>2, <1>3, <1>5 DEF SpendInv
<1>7. faults = 0 => spent' = Total(charged) + summaries + Total(response')
  BY <1>1, <1>2, <1>3, <1>5 DEF SpendInv
<1> QED BY <1>2, <1>4, <1>6, <1>7 DEF SpendInv

LEMMA SummarizeBalances ==
  ASSUME IInv, SpendInv, NEW r \in Runs, Summarize(r)
  PROVE  SpendInv'
<1>1. PICK t \in ResponseTokens : spent' = spent + t /\ summaries' = summaries + t
  BY DEF Summarize
<1>2. /\ t \in Nat
      /\ UNCHANGED <<daily, monthly, ledger, charged, evictions, response, unwritten,
                     unrecorded, faults>>
  BY LoopAssumption DEF Summarize, costVars
<1>3. /\ \A m \in Months : ChargedIn(m)' = ChargedIn(m)
      /\ Total(charged') = Total(charged) /\ Total(response') = Total(response)
      /\ Total(unwritten') = Total(unwritten)
  BY <1>2 DEF ChargedIn
<1>4. /\ Total(charged) \in Nat /\ Total(response) \in Nat
      /\ ledger \in Nat /\ spent \in Nat /\ summaries \in Nat
  BY AccountsAreNumbers DEF IInv
<1>5. Total(charged) + Total(response) <= spent'
  BY <1>1, <1>2, <1>4 DEF SpendInv
<1>6. faults = 0 => spent' = Total(charged) + summaries' + Total(response)
  BY <1>1, <1>2, <1>4 DEF SpendInv
<1> QED BY <1>2, <1>3, <1>5, <1>6 DEF SpendInv

LEMMA SpendNext ==
  ASSUME IInv, SpendInv, [Next]_vars
  PROVE  SpendInv'
<1> DEFINE Kept == UNCHANGED <<daily, monthly, ledger, charged, evictions, spent, summaries,
                            unrecorded>>
<1>0. TypeOK /\ RunInv
  BY DEF IInv
<1>1. CASE UNCHANGED vars
  BY <1>0, <1>1, NothingSpent DEF vars, costVars, runVars, histVars
<1>2. ASSUME NEW r \in Runs, Trigger(r) \/ MaybeCompact(r) \/ LoopHead(r) \/ Act(r)
      PROVE  SpendInv'
  <2>1. Kept /\ UNCHANGED <<response, unwritten, faults>>
    BY <1>2 DEF Trigger, MaybeCompact, LoopHead, Act, costVars, histVars
  <2> QED BY <1>0, <2>1, NothingSpent
<1>3. ASSUME NEW r \in Runs, Start(r) \/ CheckMonth(r) \/ Reflect(r)
      PROVE  SpendInv'
  <2>1. Kept /\ UNCHANGED faults /\ pc[r] \notin {"record", "persist"}
    BY <1>3 DEF Start, CheckMonth, Reflect, costVars
  <2>2. UNCHANGED <<response, unwritten>> \/ \E result : End(r, result)
    BY <1>3 DEF Start, CheckMonth, Reflect
  <2>3. UNCHANGED <<response, unwritten>>
    BY <1>0, <2>1, <2>2, EndHoldsNothing
  <2> QED BY <1>0, <2>1, <2>3, NothingSpent
<1>4. ASSUME NEW r \in Runs, Raise(r) \/ Cancel(r) PROVE SpendInv'
  <2>1. /\ Kept /\ Fault
        /\ response' = [response EXCEPT ![r] = 0] /\ unwritten' = [unwritten EXCEPT ![r] = 0]
    BY <1>4 DEF Raise, Cancel, End, costVars
  <2> QED BY <1>0, <2>1, NothingSpent
<1>5. ASSUME NEW m \in Machines, Resume(m) PROVE SpendInv'
  <2>1. Kept /\ UNCHANGED <<response, unwritten, faults>>
    BY <1>5 DEF Resume, costVars, histVars
  <2> QED BY <1>0, <2>1, NothingSpent
<1>6. CASE Midnight
  <2>1. Kept /\ UNCHANGED <<response, unwritten, faults>>
    BY <1>6 DEF Midnight, NextDay, runVars, histVars
  <2> QED BY <1>0, <2>1, NothingSpent
<1>7. CASE Evict
  <2>1. evictions' # 0 /\ UNCHANGED <<ledger, charged, response, unwritten, spent, summaries,
                                           unrecorded, faults>>
    BY <1>0, <1>7, AccountsAreNumbers DEF Evict, EvictCounter, runVars, histVars
  <2> QED BY <2>1 DEF SpendInv
<1> QED
  BY <1>1, <1>2, <1>3, <1>4, <1>5, <1>6, <1>7, ThinkBalances, SummarizeBalances, RecordBalances,
     PersistBalances
     DEF Next, Continue

-----------------------------------------------------------------------------
(* Budgets overrun by one response of every machine at most *)

Room(budget) == IF budget > Estimate THEN budget - Estimate ELSE 0

\* A counter is within the room that a check leaves, and one response of every
\* machine of a set: those on which no admitted response is outstanding.
Within(counter, free, budget) ==
    counter <= Room(budget) + Cardinality(free) * MaxResponse

LEMMA Sizes ==
  /\ IsFiniteSet(Machines) /\ MaxResponse \in Nat
  /\ \A t \in ResponseTokens \cup {0} : t <= MaxResponse
  /\ \A free \in SUBSET Machines : IsFiniteSet(free) /\ Cardinality(free) \in Nat
  /\ Room(DailyTokenBudget) \in Nat /\ Room(MonthlyTokenBudget) \in Nat
<1>1. MaxResponse \in ResponseTokens /\ \A t \in ResponseTokens : t <= MaxResponse
  BY LoopAssumption DEF MaxResponse
<1>2. \A free \in SUBSET Machines : IsFiniteSet(free) /\ Cardinality(free) \in Nat
  BY LoopAssumption, FS_Subset, FS_CardinalityType
<1>3. Room(DailyTokenBudget) \in Nat /\ Room(MonthlyTokenBudget) \in Nat
  BY LoopAssumption, BudgetAssumption DEF Room
<1> QED BY <1>1, <1>2, <1>3, LoopAssumption

LEMMA Scale ==
  ASSUME NEW k \in Nat, NEW n \in Nat, k <= n, NEW c \in Nat
  PROVE  k * c <= n * c /\ (k + 1) * c = k * c + c /\ k * c \in Nat /\ n * c \in Nat
<1>1. k * c \in Nat /\ n * c \in Nat /\ (n - k) * c \in Nat
  OBVIOUS
<1>2. n * c = k * c + (n - k) * c
  OBVIOUS
<1> QED BY <1>1, <1>2

\* More free machines and a smaller counter keep the bound; one response more
\* takes one machine more; without any, the counter is in the room.
LEMMA WithinMonotonic ==
  ASSUME NEW budget \in {DailyTokenBudget, MonthlyTokenBudget}, NEW counter \in Nat,
         NEW free \in SUBSET Machines, Within(counter, free, budget),
         NEW more \in SUBSET Machines, free \subseteq more
  PROVE  Within(counter, more, budget)
<1>1. Cardinality(free) <= Cardinality(more)
  BY Sizes, FS_Subset
<1>2. /\ Cardinality(free) * MaxResponse <= Cardinality(more) * MaxResponse
      /\ Cardinality(free) * MaxResponse \in Nat /\ Cardinality(more) * MaxResponse \in Nat
  BY <1>1, Sizes, Scale
<1> QED BY <1>2, Sizes DEF Within

LEMMA WithinRoom ==
  ASSUME NEW budget \in {DailyTokenBudget, MonthlyTokenBudget}, NEW counter \in Nat,
         counter <= Room(budget), NEW free \in SUBSET Machines
  PROVE  Within(counter, free, budget)
<1>1. Cardinality(free) * MaxResponse \in Nat
  BY Sizes, Scale
<1> QED BY <1>1, Sizes DEF Within

LEMMA WithinOneMore ==
  ASSUME NEW budget \in {DailyTokenBudget, MonthlyTokenBudget}, NEW counter \in Nat,
         NEW free \in SUBSET Machines, Within(counter, free, budget),
         NEW m \in Machines \ free, NEW more \in SUBSET Machines, free \cup {m} \subseteq more,
         NEW t \in ResponseTokens \cup {0}, t \in Nat
  PROVE  Within(counter + t, more, budget)
<1> DEFINE n == Cardinality(free)
<1>1. n \in Nat /\ MaxResponse \in Nat /\ t <= MaxResponse /\ free \cup {m} \in SUBSET Machines
  BY Sizes
<1>2. Cardinality(free \cup {m}) = n + 1
  BY Sizes, FS_AddElement
<1>3. (n + 1) * MaxResponse = n * MaxResponse + MaxResponse /\ n * MaxResponse \in Nat
  BY <1>1, Scale
<1>4. Within(counter + t, free \cup {m}, budget)
  BY <1>1, <1>2, <1>3, Sizes DEF Within
<1> QED BY <1>1, <1>4, WithinMonotonic

LEMMA WithinCeiling ==
  ASSUME NEW budget \in {DailyTokenBudget, MonthlyTokenBudget}, NEW counter \in Nat,
         NEW free \in SUBSET Machines, Within(counter, free, budget)
  PROVE  counter <= Ceiling(budget) /\ Ceiling(budget) \in Nat
<1>1. Within(counter, Machines, budget)
  BY WithinMonotonic
<1>2. Cardinality(Machines) * MaxResponse \in Nat
  BY Sizes, Scale
<1> QED BY <1>1, <1>2, Sizes DEF Within, Ceiling, Room

-----------------------------------------------------------------------------
\* Between the check that admits a run's next response and the recording of it.
Paying == {"compact", "summarize", "think", "record"}

DayOwed(r) ==
    \/ pc[r] \in Paying
    \/ pc[r] = "checkMonth" /\ usedToday[r] <= Room(DailyTokenBudget)

DayFree == {m \in Machines : \A r \in Runs : machineOf[r] = m => ~DayOwed(r)}

MonthFree == {m \in Machines : \A r \in Runs : machineOf[r] = m => pc[r] \notin Paying}

\* The counters of the current date have the room that the machines on which
\* no response is outstanding leave; no counter is above its ceiling; what was
\* charged and is not in the counter was evicted; the future has no counters.
DayInv ==
    /\ Within(daily[today], DayFree, DailyTokenBudget)
    /\ \A d \in Days :
          /\ daily[d] <= Ceiling(DailyTokenBudget)
          /\ charged[d] <= daily[d] + evictions * Ceiling(DailyTokenBudget)
          /\ d > today => daily[d] = 0

MonthInv ==
    /\ Within(monthly[MonthOf(today)], MonthFree, MonthlyTokenBudget)
    /\ \A m \in Months :
          /\ monthly[m] <= Ceiling(MonthlyTokenBudget)
          /\ ChargedIn(m) <= monthly[m] + evictions * Ceiling(MonthlyTokenBudget)
          /\ m > MonthOf(today) => monthly[m] = 0

LEMMA CountersAreNumbers ==
  ASSUME TypeOK
  PROVE  /\ today \in Days /\ MonthOf(today) \in Months
         /\ daily \in [Days -> Nat] /\ monthly \in [Months -> Nat] /\ charged \in [Days -> Nat]
         /\ evictions \in Nat
         /\ \A m \in Months : ChargedIn(m) \in Nat
         /\ Ceiling(DailyTokenBudget) \in Nat /\ Ceiling(MonthlyTokenBudget) \in Nat
         /\ evictions * Ceiling(DailyTokenBudget) \in Nat
         /\ evictions * Ceiling(MonthlyTokenBudget) \in Nat
         /\ DayFree \in SUBSET Machines /\ MonthFree \in SUBSET Machines
<1>1. /\ today \in Days /\ MonthOf(today) \in Months
      /\ daily \in [Days -> Nat] /\ monthly \in [Months -> Nat] /\ charged \in [Days -> Nat]
      /\ evictions \in Nat
  BY BudgetAssumption, MonthOfProperties DEF TypeOK, CostTypeOK
<1>2. ASSUME NEW m \in Months PROVE ChargedIn(m) \in Nat
  <2>1. IsFiniteSet(DaysOf(m)) /\ [d \in DaysOf(m) |-> charged[d]] \in [DaysOf(m) -> Nat]
    BY <1>1, DaysFinite
  <2>2. SumIn(charged, m) \in Nat
    BY <2>1, TotalNat DEF SumIn
  <2> QED BY <2>2, ChargedInIsSum
<1>3. Ceiling(DailyTokenBudget) \in Nat /\ Ceiling(MonthlyTokenBudget) \in Nat
  <2>1. \A b \in {DailyTokenBudget, MonthlyTokenBudget} : Within(0, Machines, b)
    BY Sizes, WithinRoom
  <2> QED BY <2>1, WithinCeiling
<1>4. /\ evictions * Ceiling(DailyTokenBudget) \in Nat
      /\ evictions * Ceiling(MonthlyTokenBudget) \in Nat
  BY <1>1, <1>3, Scale
<1> QED BY <1>1, <1>2, <1>3, <1>4 DEF DayFree, MonthFree

\* A step that does not record a response leaves no machine owing one, unless
\* it read the counter and found room.
LEMMA StayFree ==
  ASSUME IInv, [Next]_vars, \A r \in Runs : ~Record(r)
  PROVE  /\ \/ DayFree \subseteq DayFree'
            \/ UNCHANGED costVars /\ daily[today] <= Room(DailyTokenBudget)
         /\ \/ MonthFree \subseteq MonthFree'
            \/ UNCHANGED costVars /\ monthly[MonthOf(today)] <= Room(MonthlyTokenBudget)
<1> DEFINE Same == /\ \A q \in Runs : DayOwed(q)' => DayOwed(q)
                   /\ \A q \in Runs : pc'[q] \in Paying => pc[q] \in Paying
                   /\ machineOf' = machineOf
<1>0. Same => DayFree \subseteq DayFree' /\ MonthFree \subseteq MonthFree'
  BY DEF DayFree, MonthFree
<1> USE DEF Paying
<1>1. CASE UNCHANGED <<machineOf, pc, usedToday>>
  BY <1>0, <1>1 DEF DayOwed
<1>2. ASSUME NEW r \in Runs, NEW label \in PC, Goto(r, label),
             label \in Paying => pc[r] \in Paying, label # "checkMonth",
             \A q \in Runs : q # r => usedToday'[q] = usedToday[q], machineOf' = machineOf
      PROVE  DayFree \subseteq DayFree' /\ MonthFree \subseteq MonthFree'
  <2>1. pc'[r] = label /\ \A q \in Runs : q # r => pc'[q] = pc[q]
    BY <1>2 DEF IInv, TypeOK, Goto
  <2>2. Same
    BY <1>2, <2>1 DEF DayOwed
  <2> QED BY <1>0, <2>2
<1>3. ASSUME NEW r \in Runs, NEW result, End(r, result)
      PROVE  DayFree \subseteq DayFree' /\ MonthFree \subseteq MonthFree'
  <2>1. \A q \in Runs : q # r => usedToday'[q] = usedToday[q]
    BY <1>3 DEF End, IInv, TypeOK
  <2> QED BY <1>2, <1>3, <2>1 DEF End, PC
<1>4. ASSUME NEW r \in Runs,
             \/ Trigger(r) \/ MaybeCompact(r) \/ Summarize(r) \/ Think(r) \/ Persist(r) \/ Act(r)
      PROVE  DayFree \subseteq DayFree' /\ MonthFree \subseteq MonthFree'
  BY <1>2, <1>4 DEF Trigger, MaybeCompact, Summarize, Think, Persist, Act, PC
<1>5. ASSUME NEW r \in Runs, Start(r)
      PROVE  DayFree \subseteq DayFree' /\ MonthFree \subseteq MonthFree'
  <2>1. CASE Goto(r, "check") /\ UNCHANGED <<machineOf, usedToday>>
    BY <1>2, <2>1 DEF PC
  <2> QED BY <1>3, <1>5, <2>1 DEF Start
<1>6. ASSUME NEW r \in Runs, LoopHead(r)
      PROVE  /\ \/ DayFree \subseteq DayFree'
                \/ UNCHANGED costVars /\ daily[today] <= Room(DailyTokenBudget)
             /\ MonthFree \subseteq MonthFree'
  <2>1. CASE Goto(r, "reflect") /\ UNCHANGED <<machineOf, usedToday>>
    BY <1>2, <2>1 DEF PC
  <2>2. CASE Goto(r, "checkMonth") /\ usedToday' = [usedToday EXCEPT ![r] = daily[today]]
    <3>1. /\ pc'[r] = "checkMonth" /\ usedToday'[r] = daily[today]
          /\ \A q \in Runs : q # r => pc'[q] = pc[q] /\ usedToday'[q] = usedToday[q]
      BY <2>2 DEF IInv, TypeOK, Goto
    <3>2. machineOf' = machineOf /\ UNCHANGED costVars
      BY <1>6 DEF LoopHead
    <3>3. MonthFree \subseteq MonthFree'
      BY <3>1, <3>2 DEF MonthFree
    <3>4. ASSUME ~(daily[today] <= Room(DailyTokenBudget)) PROVE DayFree \subseteq DayFree'
      <4>1. Same
        BY <3>1, <3>2, <3>4 DEF DayOwed
      <4> QED BY <1>0, <4>1
    <3> QED BY <3>2, <3>3, <3>4
  <2> QED BY <1>6, <2>1, <2>2 DEF LoopHead
<1>7. ASSUME NEW r \in Runs, CheckMonth(r)
      PROVE  /\ DayFree \subseteq DayFree'
             /\ \/ MonthFree \subseteq MonthFree'
                \/ UNCHANGED costVars /\ monthly[MonthOf(today)] <= Room(MonthlyTokenBudget)
  <2>1. CASE /\ Allowed(usedToday[r], monthly[MonthOf(today)], Estimate)
             /\ Goto(r, "compact")
             /\ usedToday' = [usedToday EXCEPT ![r] = 0]
             /\ UNCHANGED machineOf
    <3>1. /\ usedToday[r] \in Nat /\ monthly[MonthOf(today)] \in Nat /\ Estimate \in Nat
          /\ DailyTokenBudget \in Nat /\ MonthlyTokenBudget \in Nat
      BY CountersAreNumbers, LoopAssumption, BudgetAssumption DEF IInv, TypeOK
    <3>2. /\ usedToday[r] <= Room(DailyTokenBudget)
          /\ monthly[MonthOf(today)] <= Room(MonthlyTokenBudget)
      BY <2>1, <3>1 DEF Allowed, Room
    <3>3. /\ pc[r] = "checkMonth" /\ pc'[r] = "compact"
          /\ \A q \in Runs : q # r => pc'[q] = pc[q] /\ usedToday'[q] = usedToday[q]
      BY <1>7, <2>1 DEF CheckMonth, IInv, TypeOK, Goto
    <3>4. \A q \in Runs : DayOwed(q)' => DayOwed(q)
      BY <3>2, <3>3 DEF DayOwed
    <3>5. DayFree \subseteq DayFree'
      BY <2>1, <3>4 DEF DayFree
    <3> QED BY <1>7, <3>2, <3>5 DEF CheckMonth
  <2> QED BY <1>3, <1>7, <2>1 DEF CheckMonth
<1>8. ASSUME NEW r \in Runs, Raise(r) \/ Cancel(r) \/ Reflect(r)
      PROVE  DayFree \subseteq DayFree' /\ MonthFree \subseteq MonthFree'
  BY <1>3, <1>8 DEF Raise, Cancel, Reflect
<1>9. ASSUME NEW m \in Machines, Resume(m)
      PROVE  DayFree \subseteq DayFree' /\ MonthFree \subseteq MonthFree'
  BY <1>0, <1>9 DEF Resume, DayOwed
<1> QED
  BY <1>1, <1>4, <1>5, <1>6, <1>7, <1>8, <1>9
     DEF Next, Continue, Midnight, Evict, vars, runVars

\* The run that records its response is the only one in the loop on its
\* machine: the machine is free afterwards, and was not before.
LEMMA RecordFrees ==
  ASSUME IInv, NEW r \in Runs, Record(r)
  PROVE  /\ machineOf[r] \in Machines \ DayFree /\ DayFree \cup {machineOf[r]} \subseteq DayFree'
         /\ machineOf[r] \in Machines \ MonthFree /\ MonthFree \cup {machineOf[r]} \subseteq MonthFree'
<1>1. /\ pc[r] = "record" /\ machineOf' = machineOf /\ machineOf[r] \in Machines
      /\ \A q \in Runs : q # r => usedToday'[q] = usedToday[q]
  BY DEF Record, End, IInv, TypeOK
<1>2. PICK label \in {"persist", "ended"} : Goto(r, label)
  BY DEF Record, End
<1>3. pc'[r] = label /\ \A q \in Runs : q # r => pc'[q] = pc[q]
  BY <1>2 DEF Goto, IInv, TypeOK
<1>4. \A q \in Runs : q # r /\ machineOf[q] = machineOf[r] => ~InLoop(q)
  BY <1>1 DEF IInv, OneRunPerMachine, InLoop
<1>5. \A q \in Runs : machineOf[q] = machineOf[r] => ~DayOwed(q)' /\ pc'[q] \notin Paying
  BY <1>1, <1>3, <1>4 DEF DayOwed, Paying, InLoop
<1>6. \A q \in Runs : machineOf[q] # machineOf[r] =>
         (DayOwed(q)' <=> DayOwed(q)) /\ pc'[q] = pc[q]
  BY <1>1, <1>3 DEF DayOwed
<1>7. machineOf[r] \notin DayFree /\ machineOf[r] \notin MonthFree
  BY <1>1 DEF DayFree, MonthFree, DayOwed, Paying
<1>8. DayFree \cup {machineOf[r]} \subseteq DayFree'
  BY <1>1, <1>5, <1>6 DEF DayFree
<1>9. MonthFree \cup {machineOf[r]} \subseteq MonthFree'
  BY <1>1, <1>5, <1>6 DEF MonthFree
<1> QED BY <1>1, <1>7, <1>8, <1>9

\* What a step does to the counters.
LEMMA CounterStep ==
  ASSUME [Next]_vars
  PROVE  \/ UNCHANGED <<today, daily, monthly, charged, evictions>>
         \/ NextDay \/ EvictCounter
         \/ \E r \in Runs : Record(r) /\ AddToCounters(response[r]) /\ UNCHANGED <<today, evictions>>
<1>1. ASSUME NEW r \in Runs, Record(r)
      PROVE  \/ UNCHANGED <<today, daily, monthly, charged, evictions>>
             \/ AddToCounters(response[r]) /\ UNCHANGED <<today, evictions>>
  BY <1>1 DEF Record
<1>2. ASSUME NEW r \in Runs,
             \/ Trigger(r) \/ Start(r) \/ Raise(r) \/ Cancel(r) \/ LoopHead(r) \/ CheckMonth(r)
             \/ MaybeCompact(r) \/ Summarize(r) \/ Think(r) \/ Act(r) \/ Reflect(r)
      PROVE  UNCHANGED costVars
  <2>1. CASE Trigger(r) \/ Start(r) \/ Raise(r) \/ Cancel(r)
    BY <2>1 DEF Trigger, Start, Raise, Cancel
  <2>2. CASE LoopHead(r) \/ CheckMonth(r) \/ MaybeCompact(r) \/ Summarize(r)
    BY <2>2 DEF LoopHead, CheckMonth, MaybeCompact, Summarize
  <2>3. CASE Think(r) \/ Act(r) \/ Reflect(r)
    BY <2>3 DEF Think, Act, Reflect
  <2> QED BY <1>2, <2>1, <2>2, <2>3
<1>3. ASSUME NEW m \in Machines, Resume(m) PROVE UNCHANGED costVars
  BY <1>3 DEF Resume
<1>4. UNCHANGED vars => UNCHANGED costVars
  BY DEF vars
<1>5. Midnight \/ Evict => NextDay \/ EvictCounter
  BY DEF Midnight, Evict
<1>6. UNCHANGED costVars => UNCHANGED <<today, daily, monthly, charged, evictions>>
  BY DEF costVars
<1>7. ASSUME NEW r \in Runs, Persist(r)
      PROVE  UNCHANGED <<today, daily, monthly, charged, evictions>>
  BY <1>7 DEF Persist
<1> QED BY <1>1, <1>2, <1>3, <1>4, <1>5, <1>6, <1>7 DEF Next, Continue

\* Whatever the step, the counters it started from are within what is free after it.
LEMMA StillWithin ==
  ASSUME IInv, DayInv, MonthInv, [Next]_vars
  PROVE  /\ Within(daily[today], DayFree', DailyTokenBudget)
         /\ Within(monthly[MonthOf(today)], MonthFree', MonthlyTokenBudget)
<1>1. /\ DayFree \in SUBSET Machines /\ DayFree' \in SUBSET Machines
      /\ MonthFree \in SUBSET Machines /\ MonthFree' \in SUBSET Machines
  BY DEF DayFree, MonthFree
<1>2. daily[today] \in Nat /\ monthly[MonthOf(today)] \in Nat
  BY CountersAreNumbers DEF IInv
<1>3. /\ Within(daily[today], DayFree, DailyTokenBudget)
      /\ Within(monthly[MonthOf(today)], MonthFree, MonthlyTokenBudget)
  BY DEF DayInv, MonthInv
<1>4. \/ DayFree \subseteq DayFree'
      \/ daily[today] <= Room(DailyTokenBudget)
  BY StayFree, RecordFrees
<1>5. \/ MonthFree \subseteq MonthFree'
      \/ monthly[MonthOf(today)] <= Room(MonthlyTokenBudget)
  BY StayFree, RecordFrees
<1>6. Within(daily[today], DayFree', DailyTokenBudget)
  BY <1>1, <1>2, <1>3, <1>4, WithinMonotonic, WithinRoom
<1>7. Within(monthly[MonthOf(today)], MonthFree', MonthlyTokenBudget)
  BY <1>1, <1>2, <1>3, <1>5, WithinMonotonic, WithinRoom
<1> QED BY <1>6, <1>7

\* One counter and what was charged, under one eviction more.
LEMMA OneMoreEviction ==
  ASSUME NEW c \in Nat, NEW n \in Nat, NEW e \in Nat, NEW sum \in Nat,
         n <= c, sum <= n + e * c
  PROVE  sum <= 0 + (e + 1) * c /\ sum <= n + (e + 1) * c
<1>1. (e + 1) * c = e * c + c /\ e * c \in Nat
  BY Scale
<1> QED BY <1>1

LEMMA DayInit == Init => DayInv /\ MonthInv
<1> SUFFICES ASSUME Init PROVE DayInv /\ MonthInv
  OBVIOUS
<1>0. TypeOK
  BY TypeInit
<1>1. /\ \A d \in Days : daily[d] = 0 /\ charged[d] = 0
      /\ \A m \in Months : monthly[m] = 0
      /\ evictions = 0
  BY DEF Init, CostInit
<1>2. \A m \in Months : ChargedIn(m) = 0
  BY <1>1, SpendInit DEF SpendInv
<1>3. /\ today \in Days /\ MonthOf(today) \in Months
      /\ Ceiling(DailyTokenBudget) \in Nat /\ Ceiling(MonthlyTokenBudget) \in Nat
      /\ DayFree \in SUBSET Machines /\ MonthFree \in SUBSET Machines
  BY <1>0, CountersAreNumbers
<1>4. /\ Within(daily[today], DayFree, DailyTokenBudget)
      /\ Within(monthly[MonthOf(today)], MonthFree, MonthlyTokenBudget)
  BY <1>1, <1>3, WithinRoom, Sizes
<1> QED BY <1>1, <1>2, <1>3, <1>4 DEF DayInv, MonthInv

LEMMA DayNext ==
  ASSUME IInv, DayInv, MonthInv, [Next]_vars
  PROVE  DayInv'
<1> DEFINE C == Ceiling(DailyTokenBudget)
<1>1. /\ today \in Days /\ daily \in [Days -> Nat] /\ charged \in [Days -> Nat]
      /\ evictions \in Nat /\ C \in Nat /\ evictions * C \in Nat
  BY CountersAreNumbers DEF IInv
<1>2. Within(daily[today], DayFree', DailyTokenBudget) /\ DayFree' \in SUBSET Machines
  BY StillWithin DEF DayFree
<1>3. \A d \in Days : /\ daily[d] <= C
                      /\ charged[d] <= daily[d] + evictions * C
                      /\ d > today => daily[d] = 0
  BY DEF DayInv
<1>4. CASE UNCHANGED <<today, daily, charged, evictions>>
  BY <1>2, <1>3, <1>4 DEF DayInv
<1>5. CASE NextDay
  <2>1. /\ today' = today + 1 /\ today + 1 \in Days /\ daily[today + 1] = 0
        /\ UNCHANGED <<daily, charged, evictions>>
    BY <1>1, <1>3, <1>5, BudgetAssumption DEF NextDay, Days
  <2>2. Within(daily'[today'], DayFree', DailyTokenBudget)
    BY <1>2, <2>1, WithinRoom, Sizes
  <2>3. \A d \in Days : d > today' => d > today
    BY <1>1, <2>1 DEF Days
  <2> QED BY <1>3, <2>1, <2>2, <2>3 DEF DayInv
<1>6. CASE EvictCounter
  <2>1. evictions' = evictions + 1 /\ UNCHANGED <<today, charged>>
    BY <1>6 DEF EvictCounter
  <2>2. \A d \in Days : daily'[d] = daily[d] \/ daily'[d] = 0
    BY <1>1, <1>6 DEF EvictCounter
  <2>3. Within(daily'[today], DayFree', DailyTokenBudget)
    BY <1>1, <1>2, <2>2, WithinRoom, Sizes
  <2> HIDE DEF C
  <2>4. ASSUME NEW d \in Days
        PROVE  /\ daily'[d] <= C
               /\ charged[d] <= daily'[d] + (evictions + 1) * C
               /\ d > today => daily'[d] = 0
    <3>1. /\ charged[d] <= 0 + (evictions + 1) * C
          /\ charged[d] <= daily[d] + (evictions + 1) * C
      BY <1>1, <1>3, OneMoreEviction
    <3> QED BY <1>1, <1>3, <2>2, <3>1
  <2> QED BY <2>1, <2>3, <2>4 DEF DayInv, C
<1>7. ASSUME NEW r \in Runs, Record(r), AddToCounters(response[r]), UNCHANGED <<today, evictions>>
      PROVE  DayInv'
  <2> DEFINE t == response[r]
  <2>1. t \in ResponseTokens \cup {0} /\ t \in Nat
    BY DEF IInv, TypeOK, RunInv
  <2>2. /\ daily'[today] = daily[today] + t /\ charged'[today] = charged[today] + t
        /\ \A d \in Days : d # today => daily'[d] = daily[d] /\ charged'[d] = charged[d]
    BY <1>1, <1>7 DEF AddToCounters
  <2>3. Within(daily[today], DayFree, DailyTokenBudget) /\ DayFree \in SUBSET Machines
    BY DEF DayInv, DayFree
  <2>4. daily[today] \in Nat
    BY <1>1
  <2>5. machineOf[r] \in Machines \ DayFree /\ DayFree \cup {machineOf[r]} \subseteq DayFree'
    BY <1>7, RecordFrees
  <2> HIDE DEF t, C
  <2>6. Within(daily[today] + t, DayFree', DailyTokenBudget)
    BY <1>2, <2>1, <2>3, <2>4, <2>5, WithinOneMore
  <2>7. daily[today] + t <= C
    BY <1>2, <2>1, <2>4, <2>6, WithinCeiling DEF C
  <2>8. ASSUME NEW d \in Days
        PROVE  /\ daily'[d] <= C
               /\ charged'[d] <= daily'[d] + evictions * C
               /\ d > today => daily'[d] = 0
    <3>1. CASE d = today
      BY <1>1, <1>3, <2>1, <2>2, <2>7, <3>1 DEF Days
    <3>2. CASE d # today
      BY <1>3, <2>2, <3>2
    <3> QED BY <3>1, <3>2
  <2> QED BY <1>7, <2>2, <2>6, <2>8 DEF DayInv, C
<1> QED BY <1>4, <1>5, <1>6, <1>7, CounterStep

LEMMA MonthNext ==
  ASSUME IInv, DayInv, MonthInv, [Next]_vars
  PROVE  MonthInv'
<1> DEFINE C == Ceiling(MonthlyTokenBudget)
           now == MonthOf(today)
<1>1. /\ today \in Days /\ now \in Months
      /\ monthly \in [Months -> Nat] /\ charged \in [Days -> Nat]
      /\ evictions \in Nat /\ C \in Nat /\ evictions * C \in Nat
      /\ \A m \in Months : ChargedIn(m) \in Nat
  BY CountersAreNumbers DEF IInv
<1>2. Within(monthly[now], MonthFree', MonthlyTokenBudget) /\ MonthFree' \in SUBSET Machines
  BY StillWithin DEF MonthFree
<1>3. \A m \in Months : /\ monthly[m] <= C
                        /\ ChargedIn(m) <= monthly[m] + evictions * C
                        /\ m > now => monthly[m] = 0
  BY DEF MonthInv
<1>4. charged' = charged => \A m \in Months : ChargedIn(m)' = ChargedIn(m)
  BY DEF ChargedIn
<1>5. CASE UNCHANGED <<today, monthly, charged, evictions>>
  BY <1>2, <1>3, <1>4, <1>5 DEF MonthInv
<1>6. CASE NextDay
  <2>1. today' = today + 1 /\ today + 1 \in Days /\ UNCHANGED <<monthly, charged, evictions>>
    BY <1>1, <1>6, BudgetAssumption DEF NextDay, Days
  <2>2. MonthOf(today') \in Months /\ now <= MonthOf(today')
    <3>1. today <= today + 1
      BY <1>1 DEF Days
    <3> QED BY <1>1, <2>1, <3>1, MonthOfProperties
  <2> DEFINE next == MonthOf(today')
  <2>3. next \in Nat /\ now \in Nat /\ Months \subseteq Nat
    BY <1>1, <2>2 DEF Months
  <2> HIDE DEF C, now, next
  <2>4. Within(monthly'[next], MonthFree', MonthlyTokenBudget)
    <3>1. CASE next = now
      BY <1>2, <2>1, <3>1
    <3>2. CASE next # now
      <4>1. next \in Months /\ next > now
        BY <2>2, <2>3, <3>2 DEF next, now
      <4>2. monthly'[next] = 0
        BY <1>3, <2>1, <4>1
      <4> QED BY <1>2, <4>2, WithinRoom, Sizes
    <3> QED BY <3>1, <3>2
  <2>5. \A m \in Months : m > next => m > now
    BY <2>2, <2>3 DEF next
  <2> QED BY <1>3, <1>4, <2>1, <2>4, <2>5 DEF MonthInv, next, C
<1>7. CASE EvictCounter
  <2>1. evictions' = evictions + 1 /\ UNCHANGED <<today, charged>>
    BY <1>7 DEF EvictCounter
  <2>2. \A m \in Months : monthly'[m] = monthly[m] \/ monthly'[m] = 0
    BY <1>1, <1>7 DEF EvictCounter
  <2> HIDE DEF C, now
  <2>3. Within(monthly'[now], MonthFree', MonthlyTokenBudget)
    BY <1>1, <1>2, <2>2, WithinRoom, Sizes
  <2>4. ASSUME NEW m \in Months
        PROVE  /\ monthly'[m] <= C
               /\ ChargedIn(m) <= monthly'[m] + (evictions + 1) * C
               /\ m > now => monthly'[m] = 0
    <3>1. /\ ChargedIn(m) <= 0 + (evictions + 1) * C
          /\ ChargedIn(m) <= monthly[m] + (evictions + 1) * C
      BY <1>1, <1>3, OneMoreEviction
    <3> QED BY <1>1, <1>3, <2>2, <3>1
  <2> QED BY <1>4, <2>1, <2>3, <2>4 DEF MonthInv, C, now
<1>8. ASSUME NEW r \in Runs, Record(r), AddToCounters(response[r]), UNCHANGED <<today, evictions>>
      PROVE  MonthInv'
  <2> DEFINE t == response[r]
  <2>1. t \in ResponseTokens \cup {0} /\ t \in Nat
    BY DEF IInv, TypeOK, RunInv
  <2>2. /\ monthly'[now] = monthly[now] + t
        /\ \A m \in Months : m # now => monthly'[m] = monthly[m]
    BY <1>1, <1>8 DEF AddToCounters
  <2>3. \A m \in Months : ChargedIn(m)' = ChargedIn(m) + (IF m = now THEN t ELSE 0)
    <3>1. /\ charged' \in [Days -> Nat] /\ charged'[today] = charged[today] + t
          /\ \A d \in Days : d # today => charged'[d] = charged[d]
      BY <1>1, <1>8, <2>1 DEF AddToCounters
    <3>2. ASSUME NEW m \in Months
          PROVE  ChargedIn(m)' = ChargedIn(m) + (IF m = now THEN t ELSE 0)
      <4>1. ChargedIn(m)' = SumIn(charged', m)
        BY DEF ChargedIn, SumIn, DaysOf
      <4>2. SumIn(charged', m) = SumIn(charged, m) + (IF m = now THEN t ELSE 0)
        BY <1>1, <2>1, <3>1, SumInAdd
      <4> QED BY <4>1, <4>2, ChargedInIsSum
    <3> QED BY <3>2
  <2>4. Within(monthly[now], MonthFree, MonthlyTokenBudget) /\ MonthFree \in SUBSET Machines
    BY DEF MonthInv, MonthFree
  <2>5. machineOf[r] \in Machines \ MonthFree /\ MonthFree \cup {machineOf[r]} \subseteq MonthFree'
    BY <1>8, RecordFrees
  <2>6. today' = today /\ MonthOf(today') = now /\ Months \subseteq Nat
    BY <1>8 DEF Months
  <2> HIDE DEF t, C, now
  <2>7. monthly[now] \in Nat
    BY <1>1
  <2>8. Within(monthly[now] + t, MonthFree', MonthlyTokenBudget)
    BY <1>2, <2>1, <2>4, <2>5, <2>7, WithinOneMore
  <2>9. monthly[now] + t <= C
    BY <1>2, <2>1, <2>7, <2>8, WithinCeiling DEF C
  <2>10. ASSUME NEW m \in Months
         PROVE  /\ monthly'[m] <= C
                /\ ChargedIn(m)' <= monthly'[m] + evictions * C
                /\ m > now => monthly'[m] = 0
    <3>1. CASE m = now
      BY <1>1, <1>3, <2>1, <2>2, <2>3, <2>6, <2>9, <3>1
    <3>2. CASE m # now
      <4>1. ChargedIn(m)' = ChargedIn(m)
        BY <1>1, <2>3, <3>2
      <4> QED BY <1>3, <2>2, <3>2, <4>1
    <3> QED BY <3>1, <3>2
  <2> QED BY <1>8, <2>2, <2>6, <2>8, <2>10 DEF MonthInv, C
<1> QED BY <1>5, <1>6, <1>7, <1>8, CounterStep

\* The bound that the counters put on what was charged.
LEMMA InvBoundsOverrun ==
  ASSUME TypeOK, DayInv, MonthInv
  PROVE  OverrunBounded
<1>1. ASSUME NEW c \in Nat, NEW n \in Nat, NEW sum \in Nat, n <= c, sum <= n + evictions * c
      PROVE  sum <= (1 + evictions) * c
  <2>1. evictions \in Nat /\ 1 + evictions = evictions + 1
    BY CountersAreNumbers
  <2> QED BY <1>1, <2>1, OneMoreEviction, Scale
<1>2. \A d \in Days : charged[d] <= (1 + evictions) * Ceiling(DailyTokenBudget)
  <2>1. ASSUME NEW d \in Days
        PROVE  charged[d] <= (1 + evictions) * Ceiling(DailyTokenBudget)
    <3>1. /\ Ceiling(DailyTokenBudget) \in Nat /\ daily[d] \in Nat /\ charged[d] \in Nat
          /\ daily[d] <= Ceiling(DailyTokenBudget)
          /\ charged[d] <= daily[d] + evictions * Ceiling(DailyTokenBudget)
      BY CountersAreNumbers DEF DayInv
    <3> QED BY <1>1, <3>1
  <2> QED BY <2>1
<1>3. \A m \in Months : ChargedIn(m) <= (1 + evictions) * Ceiling(MonthlyTokenBudget)
  <2>1. ASSUME NEW m \in Months
        PROVE  ChargedIn(m) <= (1 + evictions) * Ceiling(MonthlyTokenBudget)
    <3>1. /\ Ceiling(MonthlyTokenBudget) \in Nat /\ monthly[m] \in Nat /\ ChargedIn(m) \in Nat
          /\ monthly[m] <= Ceiling(MonthlyTokenBudget)
          /\ ChargedIn(m) <= monthly[m] + evictions * Ceiling(MonthlyTokenBudget)
      BY CountersAreNumbers DEF MonthInv
    <3> QED BY <1>1, <3>1
  <2> QED BY <2>1
<1> QED BY <1>2, <1>3 DEF OverrunBounded

LEMMA InvBalances ==
  ASSUME TypeOK, SpendInv
  PROVE  SpendingAccountedFor
<1>1. ledger + unrecorded <= Total(charged) /\ Total(charged) <= spent
  BY AccountsAreNumbers DEF SpendInv
<1> QED BY <1>1 DEF SpendInv, SpendingAccountedFor

BudgetInv == IInv /\ SpendInv /\ DayInv /\ MonthInv

LEMMA BudgetInvInit == Init => BudgetInv
  BY IInvInit, SpendInit, DayInit DEF BudgetInv

LEMMA BudgetInvNext == BudgetInv /\ [Next]_vars => BudgetInv'
  BY IInvNext, SpendNext, DayNext, MonthNext DEF BudgetInv

-----------------------------------------------------------------------------
\* The inductive invariant holds in every behaviour of the decision loop.
THEOREM IInvInvariant == Spec => []IInv
  BY IInvInit, IInvNext, PTL DEF Spec

\* Type correctness for any number of runs, machines, steps and tokens.
THEOREM TypeCorrect == Spec => []TypeOK
<1>1. IInv => TypeOK
  BY DEF IInv
<1> QED BY <1>1, IInvInvariant, PTL

\* Of the runs that share a state machine, at most one is in its loop.
THEOREM MachineIsALock == Spec => []OneRunPerMachine
<1>1. IInv => OneRunPerMachine
  BY DEF IInv
<1> QED BY <1>1, IInvInvariant, PTL

\* A machine is RUNNING while a run is in its loop and, unless a run was
\* cancelled, only then.
THEOREM MachineShowsRun == Spec => []RunningMeansInLoop
<1>1. IInv => RunningMeansInLoop
  BY DEF IInv
<1> QED BY <1>1, IInvInvariant, PTL

\* Compaction keeps the last four messages of a conversation that has more.
THEOREM LastFourKept == Spec => CompactionKeepsLastFour
<1> DEFINE A == \A r \in Runs :
          pc[r] = "summarize" /\ pc'[r] = "think" /\ Len(messages[r]) > MIN_MESSAGES_TO_KEEP =>
              LET old == messages[r]
                  new == messages'[r]
              IN  /\ Len(new) = MIN_MESSAGES_TO_KEEP + 1
                  /\ \A k \in 0..(MIN_MESSAGES_TO_KEEP - 1) :
                        new[Len(new) - k] = old[Len(old) - k]
<1>1. IInv /\ [Next]_vars => [A]_vars
  <2> SUFFICES ASSUME IInv, [Next]_vars, NEW r \in Runs,
                      pc[r] = "summarize", pc'[r] = "think",
                      Len(messages[r]) > MIN_MESSAGES_TO_KEEP
               PROVE  LET old == messages[r]
                          new == messages'[r]
                      IN  /\ Len(new) = MIN_MESSAGES_TO_KEEP + 1
                          /\ \A k \in 0..(MIN_MESSAGES_TO_KEEP - 1) :
                                new[Len(new) - k] = old[Len(old) - k]
    OBVIOUS
  <2>1. pc \in [Runs -> PC] /\ pc' # pc
    BY DEF IInv, TypeOK
  <2>2. PICK q \in Runs : Trigger(q) \/ Continue(q) \/ Raise(q) \/ Cancel(q)
    BY <2>1 DEF Next, Resume, Midnight, Evict, vars, runVars
  <2>3. PICK label : pc' = [pc EXCEPT ![q] = label]
    <3>1. CASE Trigger(q) \/ Raise(q) \/ Cancel(q)
      BY <3>1 DEF Trigger, Raise, Cancel, End, Goto
    <3>2. CASE Start(q) \/ LoopHead(q) \/ CheckMonth(q) \/ MaybeCompact(q) \/ Summarize(q)
      BY <3>2 DEF Start, LoopHead, CheckMonth, MaybeCompact, Summarize, End, Goto
    <3>3. CASE Think(q) \/ Record(q) \/ Persist(q) \/ Act(q) \/ Reflect(q)
      BY <3>3 DEF Think, Record, Persist, Act, Reflect, End, Goto
    <3> QED BY <2>2, <3>1, <3>2, <3>3 DEF Continue
  <2>4. q = r /\ label = "think"
    BY <2>1, <2>3
  <2>5. Summarize(r)
    <3>1. ~Trigger(r) /\ ~Raise(r) /\ ~Cancel(r)
      BY <2>1, <2>3, <2>4 DEF Trigger, Raise, Cancel, End, Goto
    <3>2. ~Start(r) /\ ~LoopHead(r) /\ ~CheckMonth(r) /\ ~MaybeCompact(r)
      BY DEF Start, LoopHead, CheckMonth, MaybeCompact
    <3>3. ~Think(r) /\ ~Record(r) /\ ~Persist(r) /\ ~Act(r) /\ ~Reflect(r)
      BY DEF Think, Record, Persist, Act, Reflect
    <3> QED BY <2>2, <2>4, <3>1, <3>2, <3>3 DEF Continue
  <2>6. messages' = [messages EXCEPT ![r] = Compacted(@)]
    BY <2>5 DEF Summarize
  <2>7. messages[r] \in Seq(Roles) /\ messages'[r] = Compacted(messages[r])
    BY <2>6 DEF IInv, TypeOK
  <2> QED BY <2>7, CompactedProperties
<1> QED BY <1>1, IInvInvariant, PTL DEF Spec, CompactionKeepsLastFour

\* The invariant of the counters and of the accounts.
THEOREM BudgetInvInvariant == Spec => []BudgetInv
  BY BudgetInvInit, BudgetInvNext, PTL DEF Spec

\* However many runs share a budget, what is charged on a day or in a month is
\* never more than one response per machine beyond it, but for evicted counters.
THEOREM OverrunIsBounded == Spec => []OverrunBounded
<1>1. BudgetInv => OverrunBounded
  BY InvBoundsOverrun DEF BudgetInv, IInv
<1> QED BY <1>1, BudgetInvInvariant, PTL

\* Counters and ledger agree with what was charged, but for usage records on
\* their way and those that the INSERT failed for, and what was charged with what
\* was spent.
THEOREM AccountsBalance == Spec => []SpendingAccountedFor
<1>1. BudgetInv => SpendingAccountedFor
  BY InvBalances DEF BudgetInv, IInv
<1> QED BY <1>1, BudgetInvInvariant, PTL
=============================================================================
