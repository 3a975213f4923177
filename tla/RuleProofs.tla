------------------------------- MODULE RuleProofs -------------------------------
(***************************************************************************)
(* Proofs about the rules of the RAG service that compute a result from    *)
(* their input: the judgement of a meeting (MeetingJudgement, names with   *)
(* Mj) and the cutting of texts, the search and the context of an answer   *)
(* (Retrieval, names with Re), for texts, layouts, windows and budgets of  *)
(* any size.                                                               *)
(*                                                                         *)
(* Most of these rules are loops, which the modules write as folds.  Each  *)
(* fold is shown to be the last value of a run, and a property of the loop *)
(* is an invariant of that run, shown for its beginning and for one step.  *)
(***************************************************************************)
EXTENDS RagServices, Sequences, TLAPS, FiniteSetTheorems, SequenceTheorems, WellFoundedInduction

-----------------------------------------------------------------------------
(* Folds are defined by a choice over what is left; the lemmas here give their value as the last of a
   run, a sequence of values by one step of the fold each. *)

\* A set of numbers has a least one.
LEMMA LeastNumber ==
  ASSUME NEW T, T \subseteq Nat, T # {} PROVE \E x \in T : \A y \in T : x <= y
  <1>1. \E x \in T : \A y \in T : ~(<<y, x>> \in OpToRel(<, Nat))
    BY NatLessThanWellFounded, WFMin
  <1>2. \A x, y \in T : y < x => <<y, x>> \in OpToRel(<, Nat)
    BY DEF OpToRel
  <1>3. PICK x \in T : \A y \in T : ~(y < x)
    BY <1>1, <1>2, Zenon
  <1> QED
    BY <1>3

\* What holds of the first number and passes on to the next one holds up to the last.
LEMMA Counting ==
  ASSUME NEW n \in Nat, NEW T, 0 \in T, \A k \in 0..n : k < n /\ k \in T => k + 1 \in T
  PROVE  \A k \in 0..n : k \in T
  <1> DEFINE out == {k \in 0..n : k \notin T}
  <1>1. SUFFICES ASSUME out # {} PROVE FALSE
    OBVIOUS
  <1>2. out \subseteq Nat
    OBVIOUS
  <1> HIDE DEF out
  <1>2a. PICK k \in out : \A m \in out : k <= m
    BY <1>1, <1>2, LeastNumber
  <1> USE DEF out
  <1>3. k # 0 /\ k \in 0..n
    BY <1>2a
  <1>4. k - 1 \in 0..n /\ k - 1 < n /\ ~(k <= k - 1)
    BY <1>3
  <1>5. k - 1 \in T
    BY <1>2a, <1>4
  <1>6. (k - 1) + 1 = k
    BY <1>3
  <1> QED
    BY <1>2a, <1>4, <1>5, <1>6

\* pick chooses an element of every part of S; g folds step over the parts of S in that order.
Picks(pick, S) == \A s \in SUBSET S : s # {} => pick[s] \in s
FoldsBy(g, S, base, pick, step) == \A s \in SUBSET S :
    g[s] = IF s = {} THEN base ELSE step[pick[s]][g[s \ {pick[s]}]]
SameSteps(f, g, S, pick) ==
    /\ f[{}] = g[{}]
    /\ \A s \in SUBSET S : s # {} /\ f[s \ {pick[s]}] = g[s \ {pick[s]}] => f[s] = g[s]

\* A fold over a finite set has a value for every part of it.
LEMMA FoldExists ==
  ASSUME NEW S, IsFiniteSet(S), NEW R, NEW base \in R,
         NEW pick, Picks(pick, S), NEW step \in [S -> [R -> R]]
  PROVE  \E g \in [SUBSET S -> R] : FoldsBy(g, S, base, pick, step)
  <1> USE DEF Picks, FoldsBy
  <1> DEFINE Within(m) == {s \in SUBSET S : Cardinality(s) <= m}
             Folds(g, m) == \A s \in Within(m) :
                                g[s] = IF s = {} THEN base ELSE step[pick[s]][g[s \ {pick[s]}]]
             done == {m \in Nat : \E g \in [Within(m) -> R] : Folds(g, m)}
  <1>1. \A s \in SUBSET S : /\ IsFiniteSet(s) /\ Cardinality(s) \in Nat /\ Cardinality(s) <= Cardinality(S)
                            /\ (Cardinality(s) = 0 <=> s = {})
    BY FS_Subset, FS_CardinalityType, FS_EmptySet
  <1>2. \A s \in SUBSET S : s # {} =>
            /\ s \ {pick[s]} \in SUBSET S /\ pick[s] \in S
            /\ Cardinality(s \ {pick[s]}) = Cardinality(s) - 1
    BY <1>1, FS_RemoveElement
  <1>3. 0 \in done
    <2>1. \A s \in Within(0) : s = {}
      BY <1>1
    <2> DEFINE h == [s \in Within(0) |-> base]
    <2>2. h \in [Within(0) -> R] /\ Folds(h, 0)
      BY <2>1
    <2> HIDE DEF h, Folds, Within
    <2> QED
      BY <2>2
  <1>4. ASSUME NEW m \in Nat, m \in done PROVE m + 1 \in done
    <2>1. PICK g \in [Within(m) -> R] : Folds(g, m)
      BY <1>4
    <2> DEFINE h == [s \in Within(m + 1) |-> IF s \in Within(m) THEN g[s] ELSE step[pick[s]][g[s \ {pick[s]}]]]
    <2>2. ASSUME NEW s \in Within(m + 1), s # {}
          PROVE  /\ s \ {pick[s]} \in Within(m) /\ s \ {pick[s]} \in Within(m + 1) /\ pick[s] \in S
                 /\ h[s \ {pick[s]}] = g[s \ {pick[s]}]
      <3>1. Cardinality(s) \in Nat /\ Cardinality(s) <= m + 1 /\ s \in SUBSET S
        BY <1>1
      <3>2. Cardinality(s \ {pick[s]}) = Cardinality(s) - 1 /\ s \ {pick[s]} \in SUBSET S /\ pick[s] \in S
        BY <1>2, <2>2, <3>1
      <3>3. s \ {pick[s]} \in Within(m) /\ s \ {pick[s]} \in Within(m + 1)
        BY <3>1, <3>2
      <3> QED
        BY <3>2, <3>3
    <2>3. ASSUME NEW s \in Within(m + 1)
          PROVE  h[s] = (IF s = {} THEN base ELSE step[pick[s]][h[s \ {pick[s]}]]) /\ h[s] \in R
      <3>1. CASE s = {}
        <4>1. s \in Within(m)
          BY <1>1, <3>1
        <4> QED
          BY <2>1, <3>1, <4>1
      <3>2. CASE s # {} /\ s \in Within(m)
        BY <2>1, <2>2, <3>2
      <3>3. CASE s # {} /\ s \notin Within(m)
        <4>1. h[s] = step[pick[s]][g[s \ {pick[s]}]]
          BY <3>3
        <4>2. g[s \ {pick[s]}] \in R /\ pick[s] \in S
          BY <2>2, <3>3
        <4>3. h[s] = step[pick[s]][h[s \ {pick[s]}]]
          BY <2>2, <3>3, <4>1
        <4>4. step[pick[s]] \in [R -> R]
          BY <4>2
        <4>5. h[s] \in R
          BY <4>1, <4>2, <4>4
        <4> QED
          BY <3>3, <4>3, <4>5
      <3> QED
        BY <3>1, <3>2, <3>3
    <2>4. h \in [Within(m + 1) -> R] /\ Folds(h, m + 1)
      BY <2>3
    <2> HIDE DEF h, Folds, Within
    <2> QED
      BY <2>4
  <1> HIDE DEF done
  <1>5. Cardinality(S) \in Nat /\ \A k \in 0..Cardinality(S) : k < Cardinality(S) /\ k \in done => k + 1 \in done
    BY <1>1, <1>4
  <1>6. Cardinality(S) \in done
    <2> DEFINE n == Cardinality(S)
    <2>1. n \in Nat /\ 0 \in done /\ \A k \in 0..n : k < n /\ k \in done => k + 1 \in done
      BY <1>3, <1>5
    <2> HIDE DEF n
    <2>2. \A k \in 0..n : k \in done
      BY <2>1, Counting
    <2>3. n \in 0..n
      BY <2>1
    <2> QED
      BY <2>2, <2>3 DEF n
  <1>7. Within(Cardinality(S)) = SUBSET S
    BY <1>1
  <1> QED
    BY <1>6, <1>7 DEF done

\* Two folds that take the same step everywhere have the same value.
LEMMA FoldUnique ==
  ASSUME NEW S, IsFiniteSet(S), NEW pick, Picks(pick, S), NEW f, NEW g, SameSteps(f, g, S, pick)
  PROVE  \A s \in SUBSET S : f[s] = g[s]
  <1> USE DEF Picks, SameSteps
  <1> DEFINE differ == {m \in Nat : \E s \in SUBSET S : Cardinality(s) = m /\ f[s] # g[s]}
  <1>1. \A s \in SUBSET S : IsFiniteSet(s) /\ Cardinality(s) \in Nat
    BY FS_Subset, FS_CardinalityType
  <1>2. SUFFICES ASSUME NEW s0 \in SUBSET S, f[s0] # g[s0] PROVE FALSE
    OBVIOUS
  <1>3. Cardinality(s0) \in differ
    BY <1>1, <1>2
  <1>4. differ # {} /\ differ \subseteq Nat
    BY <1>3
  <1> HIDE DEF differ
  <1>5. PICK m \in differ : \A k \in differ : m <= k
    BY <1>4, LeastNumber
  <1>6. PICK s \in SUBSET S : Cardinality(s) = m /\ f[s] # g[s]
    BY <1>5 DEF differ
  <1>7. s # {} /\ pick[s] \in s
    BY <1>6
  <1>8. s \ {pick[s]} \in SUBSET S /\ Cardinality(s \ {pick[s]}) = m - 1 /\ m \in Nat
    BY <1>1, <1>6, <1>7, FS_RemoveElement
  <1>9. f[s \ {pick[s]}] # g[s \ {pick[s]}]
    BY <1>6, <1>7
  <1>10. m - 1 \in differ
    BY <1>1, <1>8, <1>9 DEF differ
  <1> QED
    BY <1>5, <1>8, <1>10

\* The greatest and the smallest number of a set.
Greatest(s) == CHOOSE x \in s : \A y \in s : x >= y
Smallest(s) == CHOOSE x \in s : \A y \in s : x <= y

\* A set of numbers up to n has a greatest one.
LEMMA GreatestIs ==
  ASSUME NEW n \in Nat, NEW s \in SUBSET (1..n), s # {}
  PROVE  Greatest(s) \in s /\ \A y \in s : Greatest(s) >= y
  <1> DEFINE left == {n - x : x \in s}
  <1>0. \A x \in s : x \in 1..n /\ n - x \in Nat
    OBVIOUS
  <1>1. left \subseteq Nat /\ left # {}
    BY <1>0
  <1>2. PICK d \in left : \A y \in left : d <= y
    <2> HIDE DEF left
    <2> QED
      BY <1>1, LeastNumber
  <1>3. PICK x \in s : d = n - x
    BY <1>2
  <1>4. \A y \in s : n - x <= n - y
    BY <1>2, <1>3
  <1>5. \A y \in s : y \in Int /\ x \in Int /\ n \in Int
    OBVIOUS
  <1>6. \A y \in s : x >= y
    BY <1>4, <1>5
  <1> QED
    BY <1>6 DEF Greatest

\* A set of numbers up to n has a smallest one.
LEMMA SmallestIs ==
  ASSUME NEW n \in Nat, NEW s \in SUBSET (1..n), s # {}
  PROVE  Smallest(s) \in s /\ \A y \in s : Smallest(s) <= y
  <1>1. s \subseteq Nat
    OBVIOUS
  <1>2. \E x \in s : \A y \in s : x <= y
    BY <1>1, LeastNumber
  <1> QED
    BY <1>2 DEF Smallest

\* A fold from the left is the last value of a run over the sequence; whatever solves the same
\* recursion has its value.
Agrees(f, g, n, Top(_)) ==
    /\ f[{}] = g[{}]
    /\ \A s \in SUBSET (1..n) : s # {} /\ f[s \ {Top(s)}] = g[s \ {Top(s)}] => f[s] = g[s]

\* t is the run of the steps 1, 2, .. from base, and its last value is that of every function that
\* folds the steps as g does.
RunsLeft(g, t, n, base, step) ==
    /\ \A s \in SUBSET (1..n) :
           g[s] = IF s = {} THEN base ELSE step[Greatest(s)][g[s \ {Greatest(s)}]]
    /\ t[0] = base /\ \A k \in 1..n : t[k] = step[k][t[k - 1]]
    /\ \A f : Agrees(f, g, n, Greatest) => f[1..n] = t[n]

\* A fold from the left is the last value of a run over the elements in their order.
LEMMA FoldFromLeft ==
  ASSUME NEW n \in Nat, NEW R, NEW base \in R, NEW step \in [1..n -> [R -> R]]
  PROVE  \E g \in [SUBSET (1..n) -> R], t \in [0..n -> R] : RunsLeft(g, t, n, base, step)
  <1> DEFINE pick == [s \in SUBSET (1..n) |-> Greatest(s)]
  <1>1. IsFiniteSet(1..n)
    BY FS_Interval
  <1>2. \A s \in SUBSET (1..n) : s # {} => pick[s] \in s
    BY GreatestIs
  <1>3. PICK g \in [SUBSET (1..n) -> R] : \A s \in SUBSET (1..n) :
            g[s] = IF s = {} THEN base ELSE step[pick[s]][g[s \ {pick[s]}]]
    <2>1. Picks(pick, 1..n)
      BY <1>2 DEF Picks
    <2> HIDE DEF pick
    <2>2. \E g \in [SUBSET (1..n) -> R] : FoldsBy(g, 1..n, base, pick, step)
      BY <1>1, <2>1, FoldExists
    <2> QED
      BY <2>2 DEF FoldsBy
  <1> DEFINE t == [k \in 0..n |-> g[1..k]]
  <1>4. \A k \in 0..n : 1..k \in SUBSET (1..n)
    OBVIOUS
  <1>5. t \in [0..n -> R] /\ t[0] = base
    <2>1. 1..0 = {} /\ 0 \in 0..n
      OBVIOUS
    <2> QED
      BY <1>3, <1>4, <2>1
  <1>6. ASSUME NEW k \in 1..n PROVE t[k] = step[k][t[k - 1]]
    <2>1. k \in 1..k /\ 1..k # {} /\ 1..k \in SUBSET (1..n)
      BY <1>4
    <2>2. Greatest(1..k) \in 1..k /\ Greatest(1..k) >= k
      BY <2>1, GreatestIs
    <2>3. Greatest(1..k) = k /\ (1..k) \ {k} = 1..(k - 1)
      BY <2>2
    <2>4. pick[1..k] = k
      BY <2>1, <2>3
    <2>5. g[1..k] = step[k][g[1..(k - 1)]]
      <3> HIDE DEF pick
      <3> QED
        BY <1>3, <2>1, <2>3, <2>4
    <2> QED
      BY <2>5
  <1>7. ASSUME NEW f, Agrees(f, g, n, Greatest) PROVE f[1..n] = t[n]
    <2>1. SameSteps(f, g, 1..n, pick) /\ Picks(pick, 1..n)
      BY <1>2, <1>7 DEF Agrees, SameSteps, Picks
    <2> DEFINE S == 1..n
    <2> HIDE DEF pick
    <2>1a. IsFiniteSet(S) /\ SameSteps(f, g, S, pick) /\ Picks(pick, S)
      BY <1>1, <2>1
    <2> HIDE DEF S
    <2>1b. \A s \in SUBSET S : f[s] = g[s]
      BY <2>1a, FoldUnique
    <2>2. \A s \in SUBSET (1..n) : f[s] = g[s]
      BY <2>1b DEF S
    <2> QED
      BY <2>2
  <1>8. \A s \in SUBSET (1..n) :
            g[s] = IF s = {} THEN base ELSE step[Greatest(s)][g[s \ {Greatest(s)}]]
    BY <1>3
  <1> HIDE DEF t
  <1>9. RunsLeft(g, t, n, base, step)
    BY <1>5, <1>6, <1>7, <1>8 DEF RunsLeft
  <1> QED
    BY <1>5, <1>9

\* A fold from the right: the run starts at the end.
RunsRight(g, t, n, base, step) ==
    /\ \A s \in SUBSET (1..n) :
           g[s] = IF s = {} THEN base ELSE step[Smallest(s)][g[s \ {Smallest(s)}]]
    /\ t[0] = base /\ \A k \in 1..n : t[k] = step[n + 1 - k][t[k - 1]]
    /\ \A f : Agrees(f, g, n, Smallest) => f[1..n] = t[n]

\* A fold from the right is the last value of a run over the elements in reverse order.
LEMMA FoldFromRight ==
  ASSUME NEW n \in Nat, NEW R, NEW base \in R, NEW step \in [1..n -> [R -> R]]
  PROVE  \E g \in [SUBSET (1..n) -> R], t \in [0..n -> R] : RunsRight(g, t, n, base, step)
  <1> DEFINE pick == [s \in SUBSET (1..n) |-> Smallest(s)]
  <1>1. IsFiniteSet(1..n)
    BY FS_Interval
  <1>2. \A s \in SUBSET (1..n) : s # {} => pick[s] \in s
    BY SmallestIs
  <1>3. PICK g \in [SUBSET (1..n) -> R] : \A s \in SUBSET (1..n) :
            g[s] = IF s = {} THEN base ELSE step[pick[s]][g[s \ {pick[s]}]]
    <2>1. Picks(pick, 1..n)
      BY <1>2 DEF Picks
    <2> HIDE DEF pick
    <2>2. \E g \in [SUBSET (1..n) -> R] : FoldsBy(g, 1..n, base, pick, step)
      BY <1>1, <2>1, FoldExists
    <2> QED
      BY <2>2 DEF FoldsBy
  <1> DEFINE t == [k \in 0..n |-> g[(n + 1 - k)..n]]
  <1>4. \A k \in 0..n : (n + 1 - k)..n \in SUBSET (1..n)
    OBVIOUS
  <1>5. t \in [0..n -> R] /\ t[0] = base
    <2>1. (n + 1 - 0)..n = {} /\ 0 \in 0..n
      OBVIOUS
    <2> QED
      BY <1>3, <1>4, <2>1
  <1>6. ASSUME NEW k \in 1..n PROVE t[k] = step[n + 1 - k][t[k - 1]]
    <2> DEFINE m == n + 1 - k
    <2>0. m \in Nat /\ m <= n /\ m >= 1
      OBVIOUS
    <2> HIDE DEF m
    <2>1. m \in m..n /\ m..n \subseteq 1..n
      BY <2>0
    <2>1a. m..n # {} /\ m..n \in SUBSET (1..n)
      BY <2>1
    <2> USE DEF m
    <2>2. Smallest(m..n) \in m..n /\ Smallest(m..n) <= m
      BY <2>1, <2>1a, SmallestIs
    <2>3. Smallest(m..n) = m /\ (m..n) \ {m} = (n + 1 - (k - 1))..n
      BY <2>2
    <2>4. pick[m..n] = m
      BY <2>1a, <2>3
    <2>5. g[m..n] = step[m][g[(n + 1 - (k - 1))..n]]
      <3> HIDE DEF pick, m
      <3> QED
        BY <1>3, <2>1a, <2>3, <2>4
    <2> QED
      BY <2>5
  <1>7. ASSUME NEW f, Agrees(f, g, n, Smallest) PROVE f[1..n] = t[n]
    <2>1. SameSteps(f, g, 1..n, pick) /\ Picks(pick, 1..n)
      BY <1>2, <1>7 DEF Agrees, SameSteps, Picks
    <2> DEFINE S == 1..n
    <2> HIDE DEF pick
    <2>1a. IsFiniteSet(S) /\ SameSteps(f, g, S, pick) /\ Picks(pick, S)
      BY <1>1, <2>1
    <2> HIDE DEF S
    <2>1b. \A s \in SUBSET S : f[s] = g[s]
      BY <2>1a, FoldUnique
    <2>2. \A s \in SUBSET (1..n) : f[s] = g[s]
      BY <2>1b DEF S
    <2>3. n + 1 - n = 1
      OBVIOUS
    <2> QED
      BY <2>2, <2>3
  <1>8. \A s \in SUBSET (1..n) :
            g[s] = IF s = {} THEN base ELSE step[Smallest(s)][g[s \ {Smallest(s)}]]
    BY <1>3
  <1> HIDE DEF t
  <1>9. RunsRight(g, t, n, base, step)
    BY <1>5, <1>6, <1>7, <1>8 DEF RunsRight
  <1> QED
    BY <1>5, <1>9

-----------------------------------------------------------------------------
(* MeetingJudgement: colours and scores *)

\* A popup in a strong colour was earned by its citations.
LEMMA MjColours == ASSUME Mj!ValidatePopup PROVE Mj!ColoursAreEarned'
  <1>1. PICK o \in Mj!Answers, a \in Mj!Extractions :
            judged' = [rule |-> "popup", input |-> <<o, a>>, result |-> Mj!Popup(o, a)]
    BY DEF Mj!ValidatePopup
  <1> DEFINE r == Mj!Popup(o, a)
  <1>2. SUFFICES ASSUME r.status = "popup" PROVE Mj!ColoursAreEarned'
    BY <1>1 DEF Mj!ColoursAreEarned, Mj!By
  <1>3. /\ Mj!Cited(o) /\ o.confidence # "low" /\ o.assessment # "irrelevant"
        /\ ~(o.assessment = "conflicting" /\ \E e \in Evidence : o.citations = {e})
        /\ r.popup = Mj!Coloured(o, a)
    BY <1>2 DEF Mj!Popup
  <1>4. /\ o.citations # {} /\ o.citations \subseteq Evidence \cap o.quoted
        /\ (o.assessment = "conflicting" => \E d, e \in o.citations : d # e)
    <2>1. o.citations # {} /\ o.citations \subseteq Evidence \cap o.quoted
      BY <1>3 DEF Mj!Cited
    <2>2. ASSUME o.assessment = "conflicting", \A d, e \in o.citations : d = e PROVE FALSE
      <3>1. PICK e \in o.citations : TRUE
        BY <2>1
      <3>2. o.citations = {e} /\ e \in Evidence
        BY <2>1, <2>2, <3>1
      <3> QED
        BY <1>3, <2>2, <3>2
    <2> QED
      BY <2>1, <2>2
  <1>5. /\ r.popup.kind = "success" => a.intent = "fact_check" /\ o.assessment = "supported" /\ o.scope_match
        /\ r.popup.kind = "warning" => a.claim /\ o.assessment = "contradicted" /\ o.scope_match
        /\ (r.popup.words = "given" /\ o.kind \in {"warning", "success"} => o.confidence = "high" /\ a.claim)
    <2>1. o.kind \in {"warning", "caution", "info", "success"}
      BY DEF Mj!Answers
    <2>2. a.intent \in {"fact_check", "practical_guidance", "context"}
      BY DEF Mj!Extractions
    <2> HIDE DEF r
    <2> QED
      BY <1>3, <2>1, <2>2 DEF Mj!Coloured, Mj!Toned, Mj!Earned, Mj!Definitive
  <1>6. judged'.input[1] = o /\ judged'.input[2] = a /\ judged'.result = r
    BY <1>1
  <1> HIDE DEF r
  <1> QED
    BY <1>4, <1>5, <1>6 DEF Mj!ColoursAreEarned

\* The scores of a classification stay coherent.
LEMMA MjScores == ASSUME Mj!Classify PROVE Mj!ScoresStayCoherent'
  <1>1. PICK o \in Mj!Outputs, verified \in BOOLEAN :
            Mj!Coherent(o) /\ judged' = [rule |-> "score", input |-> <<o, verified>>, result |-> Mj!Classified(o, verified)]
    BY DEF Mj!Classify
  <1> DEFINE b == Mj!Adjusted(o, verified)
             r == Mj!Normalized(b)
  <1>2. /\ o = [score |-> o.score, scope |-> o.scope, act |-> o.act, addressed |-> o.addressed, intent |-> o.intent,
                query |-> o.query, claim |-> o.claim, unsupported |-> o.unsupported, reason |-> o.reason]
        /\ o.score \in 0..5 /\ o.addressed \in BOOLEAN /\ o.query \in BOOLEAN /\ o.claim \in BOOLEAN
        /\ o.unsupported \in BOOLEAN
    BY DEF Mj!Outputs
  <1>3. /\ b.score = Mj!Rescored(o, verified) /\ b.addressed = verified
        /\ b.scope = o.scope /\ b.act = o.act /\ b.intent = o.intent /\ b.query = o.query /\ b.claim = o.claim
        /\ b.unsupported = o.unsupported /\ b.unsupported \in BOOLEAN
        /\ b = [score |-> b.score, scope |-> b.scope, act |-> b.act, addressed |-> b.addressed, intent |-> b.intent,
                query |-> b.query, claim |-> b.claim, unsupported |-> b.unsupported, reason |-> b.reason]
    <2> DEFINE why == IF o.score = 5 /\ ~verified THEN "OTHER" ELSE o.reason
    <2>1. b = [o EXCEPT !.addressed = verified, !.score = Mj!Rescored(o, verified), !.reason = why]
      BY DEF Mj!Adjusted
    <2> HIDE DEF b, why
    <2>2. b = [score |-> Mj!Rescored(o, verified), scope |-> o.scope, act |-> o.act, addressed |-> verified,
               intent |-> o.intent, query |-> o.query, claim |-> o.claim, unsupported |-> o.unsupported,
               reason |-> why]
      BY <1>2, <2>1
    <2> QED
      BY <1>2, <2>2
  <1> HIDE DEF b
  <1>4. /\ r.score = b.score /\ r.addressed = b.addressed
        /\ r.scope = o.scope /\ r.act = o.act /\ r.intent = o.intent /\ r.query = o.query /\ r.claim = o.claim
        /\ (r.unsupported \/ r.reason = "UNSUPPORTED_ACTION") => r.score \in {4, 5} /\ r.act = "request"
    BY <1>3 DEF Mj!Normalized
  <1>5. judged'.input[2] = verified /\ judged'.result = r
    BY <1>1 DEF Mj!Classified, b
  <1> HIDE DEF r
  <1>6. Mj!Coherent(r)
    BY <1>1, <1>2, <1>3, <1>4 DEF Mj!Coherent, Mj!Relevant, Mj!Rescored
  <1>7. r.score = 5 <=> verified /\ r.act = "request" /\ r.score \in {4, 5}
    BY <1>1, <1>2, <1>3, <1>4 DEF Mj!Coherent, Mj!Rescored
  <1>8. (r.unsupported \/ r.reason = "UNSUPPORTED_ACTION") => (r.act = "request" /\ r.scope = "in_scope")
    BY <1>4, <1>6 DEF Mj!Coherent
  <1> QED
    BY <1>5, <1>6, <1>7, <1>8 DEF Mj!ScoresStayCoherent

-----------------------------------------------------------------------------
(* MeetingJudgement: the recent utterances *)

\* The run of bound_context over the window, from the last utterance back.
MjRun(list, t) ==
    /\ t[0] = [used |-> 0, full |-> FALSE, chosen |-> <<>>]
    /\ \A k \in 1..Len(list) : t[k] = Mj!Taken(t[k - 1], list[Len(list) + 1 - k])
MjAcc == [used : Nat, full : BOOLEAN, chosen : Seq(Nat)]

\* One utterance is taken, passed over, or ends the run.
LEMMA MjTaken ==
  ASSUME NEW acc \in MjAcc, NEW n \in Nat
  PROVE  /\ Mj!Taken(acc, n) \in MjAcc
         /\ acc.full \/ n = 0 => Mj!Taken(acc, n) = acc
         /\ ~acc.full /\ n # 0 /\ acc.used + n > MAX_CHARS =>
                Mj!Taken(acc, n) = [used |-> acc.used, full |-> TRUE, chosen |-> acc.chosen]
         /\ ~acc.full /\ n # 0 /\ ~(acc.used + n > MAX_CHARS) =>
                Mj!Taken(acc, n) = [used |-> acc.used + n, full |-> FALSE, chosen |-> <<n>> \o acc.chosen]
  <1>1. acc = [used |-> acc.used, full |-> acc.full, chosen |-> acc.chosen] /\ acc.used \in Nat
        /\ acc.full \in BOOLEAN /\ acc.chosen \in Seq(Nat)
    BY DEF MjAcc
  <1>2. <<n>> \o acc.chosen \in Seq(Nat)
    BY <1>1, ConcatProperties
  <1>3. CASE acc.full \/ n = 0
    BY <1>1, <1>3 DEF Mj!Taken
  <1>4. CASE ~acc.full /\ n # 0 /\ acc.used + n > MAX_CHARS
    <2>1. Mj!Taken(acc, n) = [used |-> acc.used, full |-> TRUE, chosen |-> acc.chosen]
      BY <1>1, <1>4 DEF Mj!Taken
    <2> QED
      BY <1>1, <1>4, <2>1 DEF MjAcc
  <1>5. CASE ~acc.full /\ n # 0 /\ ~(acc.used + n > MAX_CHARS)
    <2>1. Mj!Taken(acc, n) = [used |-> acc.used + n, full |-> FALSE, chosen |-> <<n>> \o acc.chosen]
      BY <1>1, <1>5 DEF Mj!Taken
    <2> QED
      BY <1>1, <1>2, <1>5, <2>1 DEF MjAcc
  <1> QED
    BY <1>1, <1>3, <1>4, <1>5

\* The window is the last value of its run.
LEMMA MjWindow ==
  ASSUME NEW items \in Seq(Nat), NEW list \in Seq(Nat), list = Mj!Recent(items)
  PROVE  \E t \in [0..Len(list) -> MjAcc] :
            /\ MjRun(list, t)
            /\ Mj!Window(items) = [chosen |-> t[Len(list)].chosen, omitted |-> Len(t[Len(list)].chosen) # Len(items)]
  <1> DEFINE base == [used |-> 0, full |-> FALSE, chosen |-> <<>>]
             n == Len(list)
             step == [i \in 1..n |-> [a \in MjAcc |-> Mj!Taken(a, list[i])]]
             Runs(f) == f = [s \in SUBSET DOMAIN list |->
                                IF s = {} THEN base ELSE Mj!Taken(f[s \ {Smallest(s)}], list[Smallest(s)])]
  <1>1. n \in Nat /\ DOMAIN list = 1..n /\ base \in MjAcc
    BY DEF MjAcc
  <1>2. Mj!Window(items) =
            LET last == (CHOOSE f : Runs(f))[DOMAIN list]
            IN  [chosen |-> last.chosen, omitted |-> Len(last.chosen) # Len(items)]
    BY DEF Mj!Window, Mj!FoldRight, Mj!MapThenFoldSet, Mj!Min, Smallest
  <1>3. step \in [1..n -> [MjAcc -> MjAcc]]
    <2>1. \A i \in 1..n : list[i] \in Nat
      BY <1>1
    <2> QED
      BY <2>1, MjTaken
  <1> HIDE DEF base
  <1>4a. PICK g \in [SUBSET (1..n) -> MjAcc], t \in [0..n -> MjAcc] : RunsRight(g, t, n, base, step)
    <2> HIDE DEF step, n
    <2> QED
      BY <1>1, <1>3, FoldFromRight
  <1>4. /\ \A s \in SUBSET (1..n) : g[s] = IF s = {} THEN base ELSE step[Smallest(s)][g[s \ {Smallest(s)}]]
        /\ t[0] = base /\ \A k \in 1..n : t[k] = step[n + 1 - k][t[k - 1]]
        /\ \A f : Agrees(f, g, n, Smallest) => f[1..n] = t[n]
    BY <1>4a DEF RunsRight
  <1>5. \A s \in SUBSET (1..n) : s # {} => Smallest(s) \in 1..n /\ g[s \ {Smallest(s)}] \in MjAcc
    BY <1>1, <1>4, SmallestIs
  <1>6. Runs(g)
    BY <1>1, <1>4, <1>5
  <1>7. Runs(CHOOSE f : Runs(f))
    <2> HIDE DEF Runs
    <2> QED
      BY <1>6
  <1> DEFINE f == CHOOSE f : Runs(f)
  <1>8. Agrees(f, g, n, Smallest)
    <2> HIDE DEF f
    <2>1. \A s \in SUBSET (1..n) :
            f[s] = IF s = {} THEN base ELSE Mj!Taken(f[s \ {Smallest(s)}], list[Smallest(s)])
      BY <1>1, <1>7 DEF f
    <2>2. \A s \in SUBSET (1..n) :
            g[s] = IF s = {} THEN base ELSE Mj!Taken(g[s \ {Smallest(s)}], list[Smallest(s)])
      BY <1>1, <1>6
    <2> QED
      BY <2>1, <2>2 DEF Agrees
  <1>9. f[DOMAIN list] = t[n]
    <2> HIDE DEF f
    <2> QED
      BY <1>1, <1>4, <1>8
  <1>10. Mj!Window(items) = [chosen |-> t[n].chosen, omitted |-> Len(t[n].chosen) # Len(items)]
    BY <1>2, <1>9
  <1>11. ASSUME NEW k \in 1..n PROVE t[k] = Mj!Taken(t[k - 1], list[n + 1 - k])
    <2>1. n + 1 - k \in 1..n /\ k - 1 \in 0..n
      BY <1>1
    <2> QED
      BY <1>4, <2>1
  <1>12. MjRun(list, t)
    BY <1>4, <1>11 DEF MjRun, base
  <1> QED
    BY <1>10, <1>12

\* The running sum of some lengths.
MjAdds(c, t) == t[0] = 0 /\ \A k \in 1..Len(c) : t[k] = t[k - 1] + c[k]

\* Total is the last of the running sums.
LEMMA MjSums ==
  ASSUME NEW c \in Seq(Nat)
  PROVE  \E t \in [0..Len(c) -> Nat] : MjAdds(c, t) /\ Mj!Total(c) = t[Len(c)]
  <1> DEFINE n == Len(c)
             step == [i \in 1..n |-> [a \in Nat |-> a + c[i]]]
             Runs(f) == f = [s \in SUBSET DOMAIN c |->
                                IF s = {} THEN 0 ELSE f[s \ {Greatest(s)}] + c[Greatest(s)]]
  <1>1. n \in Nat /\ DOMAIN c = 1..n /\ 0 \in Nat /\ \A i \in 1..n : c[i] \in Nat
    OBVIOUS
  <1>2. Mj!Total(c) = (CHOOSE f : Runs(f))[DOMAIN c]
    BY DEF Mj!Total, Mj!FoldLeft, Mj!MapThenFoldSet, Mj!Max, Greatest
  <1>3. step \in [1..n -> [Nat -> Nat]]
    BY <1>1
  <1>4a. PICK g \in [SUBSET (1..n) -> Nat], t \in [0..n -> Nat] : RunsLeft(g, t, n, 0, step)
    <2> HIDE DEF step, n
    <2> QED
      BY <1>1, <1>3, FoldFromLeft
  <1>4. /\ \A s \in SUBSET (1..n) : g[s] = IF s = {} THEN 0 ELSE step[Greatest(s)][g[s \ {Greatest(s)}]]
        /\ t[0] = 0 /\ \A k \in 1..n : t[k] = step[k][t[k - 1]]
        /\ \A f : Agrees(f, g, n, Greatest) => f[1..n] = t[n]
    BY <1>4a DEF RunsLeft
  <1>5. \A s \in SUBSET (1..n) : s # {} => Greatest(s) \in 1..n /\ g[s \ {Greatest(s)}] \in Nat
    BY <1>1, <1>4, GreatestIs
  <1>6. Runs(g)
    BY <1>1, <1>4, <1>5
  <1>7. Runs(CHOOSE f : Runs(f))
    <2> HIDE DEF Runs
    <2> QED
      BY <1>6
  <1> DEFINE f == CHOOSE f : Runs(f)
  <1>8. Agrees(f, g, n, Greatest)
    <2> HIDE DEF f
    <2>1. \A s \in SUBSET (1..n) :
            f[s] = IF s = {} THEN 0 ELSE f[s \ {Greatest(s)}] + c[Greatest(s)]
      BY <1>1, <1>7 DEF f
    <2>2. \A s \in SUBSET (1..n) :
            g[s] = IF s = {} THEN 0 ELSE g[s \ {Greatest(s)}] + c[Greatest(s)]
      BY <1>1, <1>6
    <2> QED
      BY <2>1, <2>2 DEF Agrees
  <1>9. f[DOMAIN c] = t[n]
    <2> HIDE DEF f
    <2> QED
      BY <1>1, <1>4, <1>8
  <1>10. MjAdds(c, t)
    <2>1. ASSUME NEW k \in 1..n PROVE t[k] = t[k - 1] + c[k]
      <3>1. k - 1 \in 0..n /\ t[k - 1] \in Nat
        BY <1>1
      <3> QED
        BY <1>4, <3>1
    <2> QED
      BY <1>4, <2>1 DEF MjAdds
  <1> QED
    BY <1>2, <1>9, <1>10

\* No utterance takes up nothing.
LEMMA MjSumOfNone == Mj!Total(<<>>) = 0
  <1>1. <<>> \in Seq(Nat) /\ Len(<<>>) = 0
    OBVIOUS
  <1>2. PICK t \in [0..Len(<<>>) -> Nat] : MjAdds(<<>>, t) /\ Mj!Total(<<>>) = t[Len(<<>>)]
    BY <1>1, MjSums
  <1> QED
    BY <1>1, <1>2 DEF MjAdds

\* One more number before the others adds to their sum.
LEMMA MjSumOfMore ==
  ASSUME NEW c \in Seq(Nat), NEW n \in Nat PROVE Mj!Total(<<n>> \o c) = Mj!Total(c) + n
  <1> DEFINE d == <<n>> \o c
  <1>1. /\ d \in Seq(Nat) /\ Len(d) = Len(c) + 1 /\ d[1] = n /\ Len(c) \in Nat
        /\ \A k \in 1..Len(c) : d[k + 1] = c[k]
    <2>1. <<n>> \in Seq(Nat) /\ Len(<<n>>) = 1 /\ <<n>>[1] = n
      OBVIOUS
    <2> QED
      BY <2>1, ConcatProperties
  <1> HIDE DEF d
  <1>2. PICK t \in [0..Len(c) -> Nat] : MjAdds(c, t) /\ Mj!Total(c) = t[Len(c)]
    BY MjSums
  <1>3. PICK u \in [0..Len(d) -> Nat] : MjAdds(d, u) /\ Mj!Total(d) = u[Len(d)]
    BY <1>1, MjSums
  <1> DEFINE T == {k \in 0..Len(c) : u[k + 1] = t[k] + n}
  <1>4. 0 \in T
    <2>1. t[0] = 0 /\ u[0] = 0 /\ u[1] = u[0] + d[1]
      BY <1>1, <1>2, <1>3 DEF MjAdds
    <2> QED
      BY <1>1, <2>1
  <1>5. ASSUME NEW k \in 0..Len(c), k < Len(c), k \in T PROVE k + 1 \in T
    <2>0. k \in Nat /\ k + 1 <= Len(c) /\ k + 2 <= Len(d) /\ Len(d) \in Nat
      BY <1>1, <1>5
    <2>1. k + 1 \in 1..Len(c) /\ k + 2 \in 1..Len(d) /\ k + 1 \in 0..Len(c) /\ t[k] \in Nat
      <3>1. k + 1 \in 1..Len(c) /\ k + 1 \in 0..Len(c) /\ k \in 0..Len(c)
        BY <1>1, <1>5, <2>0
      <3>2. k + 2 \in 1..Len(d)
        BY <2>0
      <3>3. t[k] \in Nat
        BY <1>2, <3>1
      <3> QED
        BY <3>1, <3>2, <3>3
    <2>2. t[k + 1] = t[(k + 1) - 1] + c[k + 1] /\ u[k + 2] = u[(k + 2) - 1] + d[k + 2]
      BY <1>2, <1>3, <2>1 DEF MjAdds
    <2>3. (k + 1) - 1 = k /\ (k + 2) - 1 = k + 1 /\ (k + 1) + 1 = k + 2
      OBVIOUS
    <2>4. d[(k + 1) + 1] = c[k + 1] /\ c[k + 1] \in Nat
      <3> DEFINE m == k + 1
      <3>1. m \in 1..Len(c)
        BY <2>1
      <3> HIDE DEF m
      <3>2. d[m + 1] = c[m]
        BY <1>1, <3>1
      <3>3. c[m] \in Nat
        BY <3>1
      <3> QED
        BY <3>2, <3>3 DEF m
    <2>5. u[k + 1] = t[k] + n
      BY <1>5
    <2>6. u[k + 2] = (t[k] + n) + c[k + 1] /\ t[k + 1] = t[k] + c[k + 1]
      BY <2>2, <2>3, <2>4, <2>5
    <2> QED
      BY <2>1, <2>3, <2>4, <2>6
  <1>6. Len(c) \in T
    <2> DEFINE m == Len(c)
    <2>1. m \in Nat /\ m \in 0..m /\ 0 \in T /\ \A k \in 0..m : k < m /\ k \in T => k + 1 \in T
      BY <1>1, <1>4, <1>5
    <2> HIDE DEF m, T
    <2>2. \A k \in 0..m : k \in T
      BY <2>1, Counting
    <2> QED
      BY <2>1, <2>2 DEF m
  <1> QED
    BY <1>1, <1>2, <1>3, <1>6 DEF d

\* What the window has chosen are the utterances from some place on, without the blanks: e of them
\* are passed, and place says where each chosen one stands.
MjPlaced(items, chosen, e, place) ==
    LET n == Len(items) IN
    /\ place \in [1..Len(chosen) -> 1..n] /\ Len(chosen) <= e
    /\ \A i, j \in 1..Len(chosen) : i < j => place[i] < place[j]
    /\ \A i \in 1..Len(chosen) :
           n - e < place[i] /\ items[place[i]] > 0 /\ chosen[i] = items[place[i]]
    /\ \A p \in 1..n : n - e < p /\ items[p] > 0 => \E i \in 1..Len(chosen) : place[i] = p

\* After k steps what is chosen fits and is placed; the run has passed all k unless it is full.
MjReached(items, acc, k) ==
    /\ acc.used <= MAX_CHARS /\ Mj!Total(acc.chosen) = acc.used
    /\ \E e \in 0..k : (~acc.full => e = k) /\ \E place : MjPlaced(items, acc.chosen, e, place)

\* One more utterance, further back.
LEMMA MjPlacedMore ==
  ASSUME NEW items \in Seq(Nat), NEW chosen \in Seq(Nat), NEW e \in Nat, e < Len(items), NEW place,
         MjPlaced(items, chosen, e, place), items[Len(items) - e] > 0
  PROVE  \E q : MjPlaced(items, <<items[Len(items) - e]>> \o chosen, e + 1, q)
  <1> DEFINE n == Len(items)
             m == Len(chosen)
             new == <<items[n - e]>> \o chosen
             q == [i \in 1..(m + 1) |-> IF i = 1 THEN n - e ELSE place[i - 1]]
  <1>1. n \in Nat /\ m \in Nat /\ n - e \in 1..n /\ items[n - e] \in Nat
    OBVIOUS
  <1>2. /\ new \in Seq(Nat) /\ Len(new) = m + 1 /\ new[1] = items[n - e]
        /\ \A i \in 2..(m + 1) : new[i] = chosen[i - 1]
    <2>1. <<items[n - e]>> \in Seq(Nat) /\ Len(<<items[n - e]>>) = 1 /\ <<items[n - e]>>[1] = items[n - e]
      BY <1>1
    <2> HIDE DEF n
    <2> QED
      BY <1>1, <2>1, ConcatProperties
  <1>3. /\ place \in [1..m -> 1..n] /\ m <= e
        /\ \A i, j \in 1..m : i < j => place[i] < place[j]
        /\ \A i \in 1..m : n - e < place[i] /\ items[place[i]] > 0 /\ chosen[i] = items[place[i]]
        /\ \A p \in 1..n : n - e < p /\ items[p] > 0 => \E i \in 1..m : place[i] = p
    BY DEF MjPlaced
  <1>4. items[n - e] > 0
    OBVIOUS
  <1> HIDE DEF n, m, new
  <1>5. ASSUME NEW i \in 2..(m + 1) PROVE i - 1 \in 1..m /\ q[i] = place[i - 1] /\ q[i] \in 1..n
    <2>1. i - 1 \in 1..m /\ i \in 1..(m + 1) /\ i # 1
      BY <1>1
    <2>2. place[i - 1] \in 1..n
      BY <1>3, <2>1
    <2> QED
      BY <2>1, <2>2
  <1>6. q[1] = n - e /\ 1 \in 1..(m + 1)
    BY <1>1
  <1>7. \A i \in 1..(m + 1) : i = 1 \/ i \in 2..(m + 1)
    BY <1>1
  <1> HIDE DEF q
  <1>8. q \in [1..(m + 1) -> 1..n]
    BY <1>1, <1>5, <1>6, <1>7 DEF q
  <1>9. ASSUME NEW i \in 1..(m + 1), NEW j \in 1..(m + 1), i < j PROVE q[i] < q[j]
    <2>1. j \in 2..(m + 1) /\ j - 1 \in 1..m /\ q[j] = place[j - 1]
      BY <1>1, <1>5, <1>9
    <2>2. CASE i = 1
      BY <1>3, <1>6, <2>1, <2>2
    <2>3. CASE i \in 2..(m + 1)
      <3>1. i - 1 \in 1..m /\ q[i] = place[i - 1] /\ i - 1 < j - 1
        BY <1>5, <1>9, <2>3
      <3> QED
        BY <1>3, <2>1, <3>1
    <2> QED
      BY <1>7, <2>2, <2>3
  <1>10. ASSUME NEW i \in 1..(m + 1)
         PROVE  n - (e + 1) < q[i] /\ items[q[i]] > 0 /\ new[i] = items[q[i]]
    <2>1. CASE i = 1
      BY <1>1, <1>2, <1>4, <1>6, <2>1
    <2>2. CASE i \in 2..(m + 1)
      <3>1. i - 1 \in 1..m /\ q[i] = place[i - 1] /\ new[i] = chosen[i - 1] /\ q[i] \in 1..n
        BY <1>2, <1>5, <2>2
      <3>2. n - e < q[i] /\ items[q[i]] > 0 /\ new[i] = items[q[i]]
        BY <1>3, <3>1
      <3> QED
        BY <1>1, <3>1, <3>2
    <2> QED
      BY <1>7, <2>1, <2>2
  <1>11. ASSUME NEW p \in 1..n, n - (e + 1) < p, items[p] > 0 PROVE \E i \in 1..(m + 1) : q[i] = p
    <2>1. CASE p = n - e
      BY <1>6, <2>1
    <2>2. CASE n - e < p
      <3>1. PICK i \in 1..m : place[i] = p
        BY <1>3, <1>11, <2>2
      <3>2. i + 1 \in 2..(m + 1) /\ i + 1 \in 1..(m + 1) /\ (i + 1) - 1 = i
        BY <1>1
      <3>3. q[i + 1] = p
        BY <1>5, <3>1, <3>2
      <3> QED
        BY <3>2, <3>3
    <2> QED
      BY <1>1, <1>11, <2>1, <2>2
  <1>12. Len(new) = m + 1 /\ Len(new) <= e + 1
    BY <1>1, <1>2, <1>3
  <1>13. MjPlaced(items, new, e + 1, q)
    BY <1>8, <1>9, <1>10, <1>11, <1>12 DEF MjPlaced, n
  <1> QED
    BY <1>13 DEF new, n

\* A blank utterance further back is passed without being chosen.
LEMMA MjPlacedBlank ==
  ASSUME NEW items \in Seq(Nat), NEW chosen \in Seq(Nat), NEW e \in Nat, e < Len(items), NEW place,
         MjPlaced(items, chosen, e, place), items[Len(items) - e] = 0
  PROVE  MjPlaced(items, chosen, e + 1, place)
  <1>1. Len(items) \in Nat /\ Len(chosen) \in Nat
    OBVIOUS
  <1>2. \A i \in 1..Len(chosen) : place[i] \in 1..Len(items)
    BY DEF MjPlaced
  <1>3. \A p \in 1..Len(items) : Len(items) - (e + 1) < p /\ items[p] > 0 => Len(items) - e < p
    BY <1>1
  <1>4. \A p \in 1..Len(items) : Len(items) - e < p => Len(items) - (e + 1) < p
    BY <1>1
  <1> QED
    BY <1>1, <1>2, <1>3, <1>4 DEF MjPlaced

\* Every step of the run keeps this.
LEMMA MjReachedNext ==
  ASSUME NEW items \in Seq(Nat), NEW acc \in MjAcc, NEW k \in Nat, k < Len(items), MjReached(items, acc, k)
  PROVE  MjReached(items, Mj!Taken(acc, items[Len(items) - k]), k + 1)
  <1> DEFINE n == items[Len(items) - k]
             new == Mj!Taken(acc, n)
  <1>1. n \in Nat /\ Len(items) \in Nat /\ acc.used \in Nat /\ acc.chosen \in Seq(Nat) /\ acc.full \in BOOLEAN
        /\ MAX_CHARS \in Nat
    <2>1. n \in Nat /\ Len(items) \in Nat
      OBVIOUS
    <2>2. acc.used \in Nat /\ acc.chosen \in Seq(Nat) /\ acc.full \in BOOLEAN
      BY DEF MjAcc
    <2>3. MAX_CHARS \in Nat
      BY RulesAssumption
    <2> QED BY <2>1, <2>2, <2>3
  <1>2. PICK e \in 0..k : (~acc.full => e = k) /\ \E place : MjPlaced(items, acc.chosen, e, place)
    BY DEF MjReached
  <1>3. PICK place : MjPlaced(items, acc.chosen, e, place)
    BY <1>2
  <1>4. /\ acc.full \/ n = 0 => new = acc
        /\ ~acc.full /\ n # 0 /\ acc.used + n > MAX_CHARS =>
                new = [used |-> acc.used, full |-> TRUE, chosen |-> acc.chosen]
        /\ ~acc.full /\ n # 0 /\ ~(acc.used + n > MAX_CHARS) =>
                new = [used |-> acc.used + n, full |-> FALSE, chosen |-> <<n>> \o acc.chosen]
    <2> HIDE DEF n
    <2> QED
      BY <1>1, MjTaken
  <1> HIDE DEF new
  <1>5. CASE acc.full
    <2>1. new = acc /\ e \in 0..(k + 1)
      BY <1>4, <1>5
    <2> QED
      BY <1>2, <1>5, <2>1 DEF MjReached, new
  <1>6. CASE ~acc.full /\ n = 0
    <2>1. e = k /\ new = acc /\ k + 1 \in 0..(k + 1)
      BY <1>2, <1>4, <1>6
    <2>2. MjPlaced(items, acc.chosen, k + 1, place)
      BY <1>1, <1>3, <1>6, <2>1, MjPlacedBlank
    <2> QED
      BY <2>1, <2>2 DEF MjReached, new
  <1>7. CASE ~acc.full /\ n # 0 /\ acc.used + n > MAX_CHARS
    <2>1. new.used = acc.used /\ new.full = TRUE /\ new.chosen = acc.chosen /\ e \in 0..(k + 1)
      BY <1>4, <1>7
    <2> QED
      BY <1>3, <2>1 DEF MjReached, new
  <1>8. CASE ~acc.full /\ n # 0 /\ ~(acc.used + n > MAX_CHARS)
    <2>1. /\ new.used = acc.used + n /\ new.chosen = <<n>> \o acc.chosen /\ e = k
          /\ n > 0 /\ k + 1 \in 0..(k + 1) /\ new.used <= MAX_CHARS
      <3>1. new = [used |-> acc.used + n, full |-> FALSE, chosen |-> <<n>> \o acc.chosen]
        BY <1>4, <1>8
      <3>2. e = k /\ n > 0 /\ acc.used + n <= MAX_CHARS /\ k + 1 \in 0..(k + 1)
        BY <1>1, <1>2, <1>8
      <3> QED
        BY <3>1, <3>2
    <2>2. \E q : MjPlaced(items, new.chosen, k + 1, q)
      BY <1>1, <1>3, <2>1, MjPlacedMore
    <2>3. Mj!Total(new.chosen) = new.used
      <3>1. Mj!Total(<<n>> \o acc.chosen) = Mj!Total(acc.chosen) + n
        <4> HIDE DEF n
        <4> QED
          BY <1>1, MjSumOfMore
      <3> QED
        BY <2>1, <3>1 DEF MjReached
    <2> QED
      BY <2>1, <2>2, <2>3 DEF MjReached, new
  <1> QED
    BY <1>1, <1>5, <1>6, <1>7, <1>8

\* The window holds the last MAX_ITEMS utterances, in their order.
LEMMA MjRecent ==
  ASSUME NEW items \in Seq(Nat), NEW window, window = Mj!Recent(items)
  PROVE  /\ window \in Seq(Nat) /\ Len(window) <= Len(items) /\ Len(window) <= MAX_ITEMS
         /\ \A k \in 1..Len(window) : window[Len(window) + 1 - k] = items[Len(items) + 1 - k]
  <1> DEFINE n == Len(items)
             from == IF n > MAX_ITEMS THEN n - MAX_ITEMS + 1 ELSE 1
             list == SubSeq(items, from, n)
  <1>1. n \in Nat /\ MAX_ITEMS \in Nat /\ from \in Nat /\ from >= 1
    BY RulesAssumption
  <1>2. \A i \in from..n : items[i] \in Nat
    BY <1>1
  <1>3. /\ list \in Seq(Nat) /\ Len(list) = (IF from <= n THEN n - from + 1 ELSE 0)
        /\ \A i \in 1..(n - from + 1) : list[i] = items[from + i - 1]
    <2> HIDE DEF n, from
    <2> QED
      BY <1>1, <1>2, SubSeqProperties
  <1> HIDE DEF list
  <1>4. Len(list) <= n /\ Len(list) <= MAX_ITEMS /\ Len(list) \in Nat
    <2>1. CASE n > MAX_ITEMS
      <3>1. from = n - MAX_ITEMS + 1
        BY <2>1
      <3> HIDE DEF from, n
      <3>2. n - from + 1 = MAX_ITEMS /\ (from <= n \/ MAX_ITEMS = 0) /\ MAX_ITEMS <= n
        BY <1>1, <2>1, <3>1
      <3>3. Len(list) = MAX_ITEMS
        BY <1>1, <1>3, <3>1, <3>2
      <3> QED
        BY <1>1, <3>2, <3>3
    <2>2. CASE ~(n > MAX_ITEMS)
      <3>1. from = 1
        BY <2>2
      <3> HIDE DEF from, n
      <3> QED
        BY <1>1, <1>3, <2>2, <3>1
    <2> QED
      BY <2>1, <2>2
  <1> HIDE DEF from
  <1>5. ASSUME NEW k \in 1..Len(list) PROVE list[Len(list) + 1 - k] = items[n + 1 - k]
    <2>1. from <= n /\ Len(list) = n - from + 1
      BY <1>1, <1>3
    <2>2. Len(list) + 1 - k \in 1..(n - from + 1) /\ from + (Len(list) + 1 - k) - 1 = n + 1 - k
      BY <1>1, <2>1
    <2> QED
      BY <1>3, <2>2
  <1>6. list = Mj!Recent(items)
    BY DEF Mj!Recent, list, from
  <1> QED
    BY <1>3, <1>4, <1>5, <1>6

\* A bounded context is the recent utterances that fit, without gaps.
LEMMA MjContext == ASSUME Mj!BoundContext PROVE Mj!ContextIsRecent'
  <1>1. PICK m \in 0..MaxLength : \E items \in [1..m -> 0..MAX_CHARS + 1] :
            judged' = [rule |-> "context", input |-> <<items>>, result |-> Mj!Window(items)]
    BY DEF Mj!BoundContext
  <1>2. PICK items \in [1..m -> 0..MAX_CHARS + 1] :
            judged' = [rule |-> "context", input |-> <<items>>, result |-> Mj!Window(items)]
    BY <1>1
  <1>3. items \in Seq(Nat) /\ MAX_ITEMS \in Nat /\ MAX_CHARS \in Nat
    BY RulesAssumption
  <1> DEFINE n == Len(items)
             list == Mj!Recent(items)
             l == Len(list)
  <1>4. /\ list \in Seq(Nat) /\ l \in Nat /\ n \in Nat /\ l <= n /\ l <= MAX_ITEMS
        /\ \A k \in 1..l : list[l + 1 - k] = items[n + 1 - k]
    <2>1. list = Mj!Recent(items)
      OBVIOUS
    <2> HIDE DEF list
    <2>2. /\ list \in Seq(Nat) /\ Len(list) <= Len(items) /\ Len(list) <= MAX_ITEMS
          /\ \A k \in 1..Len(list) : list[Len(list) + 1 - k] = items[Len(items) + 1 - k]
      BY <1>3, <2>1, MjRecent, Zenon
    <2> QED
      BY <1>3, <2>2
  <1>5. PICK t \in [0..l -> MjAcc] :
            MjRun(list, t) /\ Mj!Window(items) = [chosen |-> t[l].chosen, omitted |-> Len(t[l].chosen) # n]
    BY <1>3, <1>4, MjWindow
  <1> HIDE DEF n, list, l
  <1> DEFINE T == {k \in 0..l : MjReached(items, t[k], k)}
  <1>6. 0 \in T
    <2>1. t[0].used = 0 /\ t[0].full = FALSE /\ t[0].chosen = <<>>
      BY <1>5 DEF MjRun
    <2>2. MjPlaced(items, <<>>, 0, <<>>)
      <3>1. <<>> \in [1..Len(<<>>) -> 1..Len(items)] /\ Len(<<>>) = 0
        OBVIOUS
      <3>2. \A p \in 1..Len(items) : ~(Len(items) - 0 < p)
        BY <1>3
      <3> QED
        BY <3>1, <3>2 DEF MjPlaced
    <2> QED
      BY <1>3, <1>4, <2>1, <2>2, MjSumOfNone DEF MjReached
  <1>7. ASSUME NEW k \in 0..l, k < l, k \in T PROVE k + 1 \in T
    <2>1. k \in Nat /\ k < n /\ k + 1 \in 1..l /\ k + 1 \in 0..l /\ (k + 1) - 1 = k
      BY <1>4, <1>7
    <2>2. t[k + 1] = Mj!Taken(t[k], list[l + 1 - (k + 1)])
      BY <1>5, <2>1 DEF MjRun, l
    <2>3. list[l + 1 - (k + 1)] = items[n + 1 - (k + 1)] /\ n + 1 - (k + 1) = n - k
      <3> DEFINE h == k + 1
      <3>1. h \in 1..l /\ n + 1 - (k + 1) = n - k
        BY <1>4, <2>1
      <3> HIDE DEF h
      <3>2. list[l + 1 - h] = items[n + 1 - h]
        BY <1>4, <3>1
      <3> QED
        BY <3>1, <3>2 DEF h
    <2>4. t[k] \in MjAcc /\ MjReached(items, t[k], k)
      BY <1>7
    <2>5. MjReached(items, t[k + 1], k + 1)
      BY <1>3, <2>1, <2>2, <2>3, <2>4, MjReachedNext DEF n
    <2> QED
      BY <2>1, <2>5
  <1>8. l \in T
    <2> HIDE DEF T
    <2>1. \A k \in 0..l : k < l /\ k \in T => k + 1 \in T
      BY <1>7
    <2>2. \A k \in 0..l : k \in T
      BY <1>4, <1>6, <2>1, Counting
    <2> QED
      BY <1>4, <2>2
  <1> DEFINE r == Mj!Window(items)
  <1>9. t[l] \in MjAcc /\ MjReached(items, t[l], l) /\ r.chosen = t[l].chosen /\ r.omitted = (Len(r.chosen) # n)
    BY <1>4, <1>5, <1>8
  <1> HIDE DEF r
  <1>10. r.chosen \in Seq(Nat) /\ Mj!Total(r.chosen) <= MAX_CHARS
    BY <1>9 DEF MjReached, MjAcc
  <1>11. PICK e \in 0..l : \E place : MjPlaced(items, r.chosen, e, place)
    BY <1>9 DEF MjReached
  <1>12. PICK place : MjPlaced(items, r.chosen, e, place)
    BY <1>11
  <1>13. DOMAIN r.chosen = 1..Len(r.chosen) /\ DOMAIN items = 1..n /\ Len(r.chosen) \in Nat
    BY <1>3, <1>10 DEF n
  <1> DEFINE k == n - e
  <1>14. k \in 0..n /\ n - k <= MAX_ITEMS
    BY <1>3, <1>4
  <1>15. place \in [DOMAIN r.chosen -> DOMAIN items] /\ DOMAIN place = 1..Len(r.chosen)
    BY <1>12, <1>13 DEF MjPlaced, n
  <1>16. {place[i] : i \in DOMAIN place} = {p \in k + 1..n : items[p] > 0}
    <2>1. ASSUME NEW i \in DOMAIN place PROVE place[i] \in {p \in k + 1..n : items[p] > 0}
      <3>1. place[i] \in 1..n /\ n - e < place[i] /\ items[place[i]] > 0
        BY <1>12, <1>15 DEF MjPlaced, n
      <3> QED
        BY <1>4, <3>1
    <2>2. ASSUME NEW p \in k + 1..n, items[p] > 0 PROVE p \in {place[i] : i \in DOMAIN place}
      <3>1. p \in 1..n /\ n - e < p
        BY <1>4, <1>14
      <3>2. PICK i \in 1..Len(r.chosen) : place[i] = p
        BY <1>12, <2>2, <3>1 DEF MjPlaced, n
      <3> QED
        BY <1>15, <3>2
    <2> QED
      BY <2>1, <2>2
  <1>17. /\ \A i, j \in DOMAIN place : i < j => place[i] < place[j]
         /\ \A i \in DOMAIN place : r.chosen[i] = items[place[i]]
    BY <1>12, <1>15 DEF MjPlaced
  <1>18. r.omitted <=> Len(r.chosen) < n
    <2>1. Len(r.chosen) <= e
      BY <1>12 DEF MjPlaced
    <2> QED
      <3>1. e <= l /\ e \in Nat /\ l \in Nat /\ n \in Nat /\ l <= n /\ Len(r.chosen) \in Nat
        BY <1>4, <1>11, <1>13
      <3>2. Len(r.chosen) # n <=> Len(r.chosen) < n
        BY <2>1, <3>1
      <3> QED
        BY <1>9, <3>2
  <1> DEFINE j == judged'
  <1>19. j.input[1] = items /\ j.result = r
    BY <1>2 DEF r
  <1> HIDE DEF j, r, k
  <1>20. /\ k \in 0..Len(j.input[1]) /\ place \in [DOMAIN j.result.chosen -> DOMAIN j.input[1]]
         /\ Len(j.input[1]) - k <= MAX_ITEMS
         /\ \A i, h \in DOMAIN place : i < h => place[i] < place[h]
         /\ {place[i] : i \in DOMAIN place} = {p \in k + 1..Len(j.input[1]) : j.input[1][p] > 0}
         /\ \A i \in DOMAIN place : j.result.chosen[i] = j.input[1][place[i]]
    BY <1>14, <1>15, <1>16, <1>17, <1>19 DEF n
  <1>21. \E k1 \in 0..Len(j.input[1]), place1 \in [DOMAIN j.result.chosen -> DOMAIN j.input[1]] :
            /\ Len(j.input[1]) - k1 <= MAX_ITEMS
            /\ \A i, h \in DOMAIN place1 : i < h => place1[i] < place1[h]
            /\ {place1[i] : i \in DOMAIN place1} = {p \in k1 + 1..Len(j.input[1]) : j.input[1][p] > 0}
            /\ \A i \in DOMAIN place1 : j.result.chosen[i] = j.input[1][place1[i]]
    BY <1>20, Zenon
  <1>22. Mj!Total(j.result.chosen) <= MAX_CHARS /\ (j.result.omitted <=> Len(j.result.chosen) < Len(j.input[1]))
    BY <1>10, <1>18, <1>19 DEF n
  <1> QED
    BY <1>21, <1>22, Zenon DEF Mj!ContextIsRecent, j

-----------------------------------------------------------------------------
(* Retrieval: the chunks of a text *)

\* The chunks so far, and where the next one starts.
ReChunk == [from : Nat, to : Nat]
ReText ==
    /\ text.length \in 0..MaxText /\ text.budget \in Nat /\ text.budget > 0
    /\ text.overlap \in Nat /\ text.overlap < text.budget /\ text.ends \subseteq 1..text.length
ReCut(ch, offset, done) ==
    /\ ch \in Seq(ReChunk) /\ offset \in 0..MaxText + 1 /\ done \in BOOLEAN
    /\ \A i \in 1..Len(ch) : ch[i].from < ch[i].to /\ ch[i].to - ch[i].from <= text.budget /\ ch[i].to <= text.length
    /\ \A i \in 2..Len(ch) : ch[i - 1].from < ch[i].from /\ ch[i].from <= ch[i - 1].to
    /\ (2 * text.overlap < text.budget => \A i \in 2..Len(ch) : ch[i - 1].to < ch[i].to)
    /\ Len(ch) > 0 => ch[1].from = 0
    /\ ~done /\ Len(ch) = 0 => offset = 0
    /\ ~done /\ Len(ch) > 0 =>
           /\ ch[Len(ch)].from < offset /\ offset <= ch[Len(ch)].to /\ ch[Len(ch)].to < text.length
           /\ ch[Len(ch)].to <= offset + text.overlap
    /\ done /\ text.length > 0 => Len(ch) > 0 /\ ch[Len(ch)].to = text.length
ReCutInv == ReText /\ cut = [offset |-> cut.offset, done |-> cut.done, chunks |-> cut.chunks]
            /\ ReCut(cut.chunks, cut.offset, cut.done)

\* Nothing is cut in the beginning.
LEMMA ReCutInit == ASSUME Re!Init PROVE ReCutInv
  <1>1. MaxText \in Nat /\ MaxBudget \in Nat
    BY RulesAssumption
  <1>2. text \in {t \in Re!Texts : Re!Valid(t)} \cup {Re!NoText}
    BY DEF Re!Init
  <1>3. ReText
    <2>1. CASE text = Re!NoText
      BY <1>1, <2>1 DEF ReText, Re!NoText
    <2>2. CASE text \in Re!Texts /\ Re!Valid(text)
      <3>1. PICK n \in 0..MaxText, e \in SUBSET (1..MaxText), b \in 1..MaxBudget, o \in 0..MaxBudget :
                text = [length |-> n, ends |-> e, budget |-> b, overlap |-> o]
        BY <2>2 DEF Re!Texts
      <3> QED
        BY <1>1, <2>2, <3>1 DEF ReText, Re!Valid
    <2> QED
      BY <1>2, <2>1, <2>2
  <1>4. cut = [offset |-> 0, done |-> FALSE, chunks |-> <<>>]
    BY DEF Re!Init
  <1>5. cut.chunks = <<>> /\ cut.offset = 0 /\ cut.done = FALSE /\ <<>> \in Seq(ReChunk) /\ Len(<<>>) = 0
    BY <1>4
  <1>6. ReCut(<<>>, 0, FALSE)
    BY <1>1, <1>5 DEF ReCut
  <1> QED
    BY <1>3, <1>4, <1>5, <1>6 DEF ReCutInv

\* A chunk ends past the middle of what fits, within the budget.
LEMMA ReCutAt ==
  ASSUME ReText, NEW offset \in Nat, offset < text.length
  PROVE  LET fits == Re!Fits(offset) end == Re!CutAt(offset, fits) IN
         /\ end \in Nat /\ offset < end /\ end <= text.length /\ end - offset <= text.budget
         /\ end = text.length \/ (fits = offset + text.budget /\ 2 * (end - offset) >= text.budget)
  <1> DEFINE fits == Re!Fits(offset)
             valid == {e \in text.ends : offset < e /\ e <= fits /\ e - offset > (fits - offset) \div 2}
             end == Re!CutAt(offset, fits)
  <1>1. text.length \in Nat /\ text.budget \in Nat /\ text.budget > 0
    BY RulesAssumption DEF ReText
  <1>2. /\ fits \in Nat /\ offset < fits /\ fits <= text.length /\ fits - offset <= text.budget
        /\ fits = text.length \/ fits = offset + text.budget
    BY <1>1 DEF Re!Fits, Re!Lower
  <1> HIDE DEF fits
  <1>3. end = IF fits = text.length \/ valid = {} THEN fits ELSE CHOOSE e \in valid : \A f \in valid : f <= e
    BY DEF Re!CutAt
  <1>4. CASE fits = text.length \/ valid = {}
    <2>1. end = fits
      BY <1>3, <1>4
    <2> QED
      BY <1>1, <1>2, <2>1 DEF fits
  <1>5. CASE ~(fits = text.length \/ valid = {})
    <2>1. valid \in SUBSET (1..text.length) /\ valid # {}
      BY <1>5 DEF ReText
    <2>2. Greatest(valid) \in valid /\ \A f \in valid : Greatest(valid) >= f
      <3> HIDE DEF valid
      <3> QED
        BY <1>1, <2>1, GreatestIs
    <2>3. \A f \in valid : f <= Greatest(valid)
      BY <1>1, <2>1, <2>2
    <2>4. end = CHOOSE e \in valid : \A f \in valid : f <= e
      BY <1>3, <1>5
    <2>5. end \in valid
      <3> HIDE DEF end, valid
      <3> QED
        BY <2>2, <2>3, <2>4
    <2> HIDE DEF end
    <2>6. end \in 1..text.length /\ offset < end /\ end <= fits /\ end - offset > (fits - offset) \div 2
      BY <2>1, <2>5
    <2>7. fits = offset + text.budget
      BY <1>2, <1>5
    <2>8. 2 * (end - offset) >= text.budget
      BY <1>1, <1>2, <2>6, <2>7
    <2> QED
      BY <1>1, <1>2, <2>6, <2>7, <2>8 DEF end, fits
  <1> QED
    BY <1>4, <1>5

\* Cutting a chunk keeps the invariant.
LEMMA ReCutStep == ASSUME ReCutInv, Re!Cut PROVE ReCutInv'
  <1> DEFINE ch == cut.chunks
             n == Len(ch)
             o == cut.offset
  <1>1. /\ text' = text /\ ReText /\ ~cut.done /\ ReCut(ch, o, FALSE)
        /\ text.length \in Nat /\ MaxText \in Nat /\ text.length <= MaxText /\ text.overlap \in Nat /\ text.budget \in Nat
    BY RulesAssumption DEF ReCutInv, Re!Cut, ReText, ReCut
  <1>2. o \in Nat /\ ch \in Seq(ReChunk) /\ n \in Nat /\ o <= MaxText + 1
    BY <1>1 DEF ReCut
  <1>3. CASE o >= text.length
    <2>1. cut' = [offset |-> o, done |-> TRUE, chunks |-> ch]
      BY <1>3 DEF Re!Cut, ReCutInv
    <2>2. n = 0 /\ text.length = 0
      <3>1. n > 0 => o <= ch[n].to /\ ch[n].to < text.length /\ ch[n].to \in Nat
        <4>1. n > 0 => n \in 1..n
          BY <1>2
        <4>2. n > 0 => ch[n] \in ReChunk
          BY <1>2, <4>1
        <4>3. n > 0 => ch[n].to \in Nat
          BY <4>2 DEF ReChunk
        <4> QED
          BY <1>1, <1>2, <4>1, <4>3 DEF ReCut
      <3>2. n = 0
        BY <1>1, <1>2, <1>3, <3>1
      <3>3. o = 0
        BY <1>1, <3>2 DEF ReCut
      <3> QED
        BY <1>1, <1>3, <3>2, <3>3
    <2>3. ReCut(ch, o, TRUE)
      BY <1>1, <1>2, <2>2 DEF ReCut
    <2> QED
      BY <1>1, <2>1, <2>3 DEF ReCutInv, ReText, ReCut
  <1>4. CASE ~(o >= text.length)
    <2> DEFINE fits == Re!Fits(o)
               end == Re!CutAt(o, fits)
               next == Re!NextOffset(o, end)
               c == [from |-> o, to |-> end]
               new == Append(ch, c)
    <2>1. cut' = [offset |-> next, done |-> end >= text.length, chunks |-> new]
      BY <1>4 DEF Re!Cut
    <2>2. /\ end \in Nat /\ o < end /\ end <= text.length /\ end - o <= text.budget
          /\ end = text.length \/ (fits = o + text.budget /\ 2 * (end - o) >= text.budget)
      <3>1. o < text.length
        BY <1>1, <1>2, <1>4
      <3> QED
        BY <1>1, <1>2, <3>1, ReCutAt
    <2> HIDE DEF end, fits
    <2>3. next \in Nat /\ next > o /\ next <= end /\ end <= next + text.overlap /\ next <= MaxText + 1
      <3> DEFINE back == Re!Higher(end, text.overlap) - text.overlap
      <3>1. back \in Nat /\ end <= back + text.overlap /\ (back <= end)
        BY <1>1, <2>2 DEF Re!Higher
      <3> HIDE DEF back
      <3>2. next = IF o + 1 > back THEN o + 1 ELSE back
        BY DEF Re!NextOffset, Re!Higher, back
      <3> HIDE DEF next
      <3>3. CASE o + 1 > back
        <4>1. next = o + 1
          BY <3>2, <3>3
        <4>2. back <= o
          BY <1>2, <3>1, <3>3
        <4>3. back + text.overlap <= o + text.overlap
          BY <1>1, <1>2, <3>1, <4>2
        <4>4. o + 1 <= end /\ o + 1 <= MaxText + 1 /\ o + 1 \in Nat
          BY <1>1, <1>2, <2>2
        <4>5. end <= o + 1 + text.overlap
          BY <1>1, <1>2, <2>2, <3>1, <4>3
        <4> QED
          BY <1>2, <4>1, <4>4, <4>5
      <3>4. CASE ~(o + 1 > back)
        BY <1>1, <1>2, <2>2, <3>1, <3>2, <3>4
      <3> QED
        BY <3>3, <3>4
    <2>4. c \in ReChunk /\ new \in Seq(ReChunk) /\ Len(new) = n + 1 /\ new[n + 1] = c
          /\ \A i \in 1..n : new[i] = ch[i]
      BY <1>2, <2>2 DEF ReChunk
    <2> HIDE DEF new, next
    <2>5. c.from = o /\ c.to = end
      OBVIOUS
    <2> HIDE DEF c
    <2>6. \A i \in 1..n : ch[i].from \in Nat /\ ch[i].to \in Nat
      <3>1. \A i \in 1..n : ch[i] \in ReChunk
        BY <1>2
      <3> QED
        BY <3>1 DEF ReChunk
    <2>7. ASSUME NEW i \in 1..Len(new)
          PROVE  new[i].from < new[i].to /\ new[i].to - new[i].from <= text.budget /\ new[i].to <= text.length
      <3>1. CASE i = n + 1
        BY <2>2, <2>4, <2>5, <3>1
      <3>2. CASE i \in 1..n
        BY <1>1, <2>4, <3>2 DEF ReCut
      <3> QED
        BY <1>2, <2>4, <3>1, <3>2
    <2>8. n > 0 => /\ n \in 1..n /\ ch[n].from < o /\ o <= ch[n].to /\ ch[n].to < text.length
                   /\ ch[n].to <= o + text.overlap /\ ch[n].to \in Nat
      <3>1. n > 0 => n \in 1..n
        BY <1>2
      <3> QED
        BY <1>1, <2>6, <3>1 DEF ReCut
    <2>9. ASSUME NEW i \in 2..Len(new)
          PROVE  /\ new[i - 1].from < new[i].from /\ new[i].from <= new[i - 1].to
                 /\ (2 * text.overlap < text.budget => new[i - 1].to < new[i].to)
      <3>1. CASE i = n + 1
        <4>1. n > 0 /\ i - 1 = n
          BY <1>2, <3>1
        <4>2. new[i - 1] = ch[n] /\ new[i] = c
          BY <2>4, <2>8, <3>1, <4>1
        <4>3. ASSUME 2 * text.overlap < text.budget PROVE ch[n].to < end
          <5>1. CASE end = text.length
            BY <2>8, <4>1, <5>1
          <5>2. CASE 2 * (end - o) >= text.budget
            <6> DEFINE b == text.budget
                       v == text.overlap
                       t == ch[n].to
            <6>1. b \in Nat /\ v \in Nat /\ t \in Nat /\ end \in Nat /\ o \in Nat
              BY <1>1, <1>2, <2>2, <2>8, <4>1
            <6>2. t <= o + v /\ 2 * v < b /\ 2 * (end - o) >= b
              BY <2>8, <4>1, <4>3, <5>2
            <6> HIDE DEF b, v, t
            <6>3. t < end
              BY <6>1, <6>2
            <6> QED
              BY <6>3 DEF t
          <5> QED
            BY <2>2, <5>1, <5>2
        <4> QED
          BY <2>5, <2>8, <4>1, <4>2, <4>3
      <3>2. CASE i \in 2..n
        <4>1. i - 1 \in 1..n /\ i \in 1..n
          BY <1>2, <3>2
        <4> QED
          BY <1>1, <2>4, <3>2, <4>1 DEF ReCut
      <3> QED
        BY <1>2, <2>4, <3>1, <3>2
    <2>10. new[1].from = 0
      <3>1. CASE n = 0
        <4>1. o = 0
          BY <1>1, <3>1 DEF ReCut
        <4> QED
          BY <2>4, <2>5, <3>1, <4>1
      <3>2. CASE n > 0
        <4>1. 1 \in 1..n
          BY <1>2, <3>2
        <4> QED
          BY <1>1, <2>4, <3>2, <4>1 DEF ReCut
      <3> QED
        BY <1>2, <3>1, <3>2
    <2> DEFINE d == end >= text.length
    <2>11. d \in BOOLEAN /\ (d => end = text.length) /\ (~d => end < text.length)
      BY <1>1, <2>2
    <2> HIDE DEF d
    <2>12. ReCut(new, next, d)
      <3>1. Len(new) > 0 /\ new[Len(new)].from = o /\ new[Len(new)].to = end /\ next \in 0..MaxText + 1
        BY <1>1, <1>2, <2>3, <2>4, <2>5
      <3> QED
        BY <1>2, <2>3, <2>4, <2>7, <2>9, <2>10, <2>11, <3>1 DEF ReCut
    <2> QED
      BY <1>1, <2>1, <2>12 DEF ReCutInv, ReText, ReCut, d
  <1> QED
    BY <1>3, <1>4

\* The invariant says what is promised of the chunks.
LEMMA ReCutHolds == ReCutInv => Re!ChunksCoverTheText /\ Re!SmallOverlapAdvances
  <1> SUFFICES ASSUME ReCutInv PROVE Re!ChunksCoverTheText /\ Re!SmallOverlapAdvances
    OBVIOUS
  <1>1. ReCut(cut.chunks, cut.offset, cut.done) /\ DOMAIN cut.chunks = 1..Len(cut.chunks)
    BY DEF ReCutInv, ReCut
  <1> QED
    BY <1>1 DEF ReCut, Re!ChunksCoverTheText, Re!SmallOverlapAdvances

-----------------------------------------------------------------------------
(* Retrieval: the search *)

\* An instance has its own copy of what a library module defines; the copies agree.
LEMMA ReCardinality == ASSUME NEW S PROVE Re!Cardinality(S) = Cardinality(S)
  BY DEF Re!Cardinality, Cardinality

\* The chunks are finitely many.
LEMMA ReChunks ==
    IsFiniteSet(Chunks) /\ \A c \in Chunks : c.doc \in Docs /\ c.n \in {1, 2} /\ c = [doc |-> c.doc, n |-> c.n]
  <1> DEFINE T == Docs \X {1, 2}
             f == [c \in Chunks |-> <<c.doc, c.n>>]
  <1>1. \A c \in Chunks : c.doc \in Docs /\ c.n \in {1, 2} /\ c = [doc |-> c.doc, n |-> c.n]
    BY DEF Chunks
  <1>2. IsFiniteSet({1, 2})
    <2>2. {1, 2} = {1} \cup {2} /\ IsFiniteSet({1})
      BY FS_Singleton
    <2> QED
      BY <2>2, FS_AddElement
  <1>3. IsFiniteSet(T)
    BY <1>2, RulesAssumption, FS_Product
  <1>4. f \in Injection(Chunks, T)
    <2>1. f \in [Chunks -> T]
      BY <1>1
    <2>2. ASSUME NEW c \in Chunks, NEW d \in Chunks, f[c] = f[d] PROVE c = d
      <3>1. c.doc = d.doc /\ c.n = d.n
        BY <2>2
      <3> QED
        BY <1>1, <3>1
    <2> HIDE DEF f, T
    <2> QED
      BY <2>1, <2>2 DEF Injection, IsInjective
  <1> HIDE DEF f, T
  <1> QED
    BY <1>1, <1>3, <1>4, FS_Injection

\* What a chunk has by its places in the two rankings is less than one degree of a name.
LEMMA ReBase ==
  ASSUME NEW r \in Re!Rankings, NEW c
  PROVE  LET x == Re!Reciprocal(r, c) IN x \in Nat /\ x <= 20000
  <1>1. PICK n \in 0..3 : r \in [1..n -> Chunks]
    BY DEF Re!Rankings
  <1>2. CASE c \in {r[i] : i \in DOMAIN r}
    <2> DEFINE p == Re!Position(r, c)
    <2>1. p \in 1..n
      BY <1>1, <1>2 DEF Re!Position
    <2> HIDE DEF p
    <2>2. p = 1 \/ p = 2 \/ p = 3
      BY <1>1, <2>1
    <2>3. Re!Reciprocal(r, c) = 1000000 \div (60 + p)
      BY <1>2 DEF Re!Reciprocal, p
    <2> QED
      BY <2>2, <2>3
  <1>3. CASE ~(c \in {r[i] : i \in DOMAIN r})
    BY <1>3 DEF Re!Reciprocal
  <1> QED
    BY <1>2, <1>3

\* What the query names comes first among the hits.
LEMMA ReSearch == ASSUME Re!Search PROVE Re!NamedDocumentsFirst'
  <1>1. PICK vector \in Re!Rankings, matched \in Re!Rankings, named \in [Docs -> 0..2], limit \in 1..2 :
            \E near \in 0..Len(vector) :
            \E hits \in Re!Ranked(Re!Scores(vector, near, matched, named, limit), limit) :
                found' = [rule |-> "search", score |-> Re!Scores(vector, near, matched, named, limit),
                          named |-> named, hits |-> hits]
    BY DEF Re!Search
  <1>1a. PICK near \in 0..Len(vector) :
            \E hits \in Re!Ranked(Re!Scores(vector, near, matched, named, limit), limit) :
                found' = [rule |-> "search", score |-> Re!Scores(vector, near, matched, named, limit),
                          named |-> named, hits |-> hits]
    BY <1>1
  <1> DEFINE score == Re!Scores(vector, near, matched, named, limit)
             ranked == Re!Allowed(vector, near, matched)
             extra == UNION {Re!Named(d, ranked, limit) : d \in {e \in Docs : named[e] > 0}}
             both == ranked \cup extra
             base == [c \in both |-> IF c \in ranked THEN Re!Reciprocal(vector, c) + Re!Reciprocal(matched, c) ELSE 0]
  <1>2. PICK hits \in Re!Ranked(score, limit) :
            found' = [rule |-> "search", score |-> score, named |-> named, hits |-> hits]
    BY <1>1a
  <1>3. score = [c \in both |-> (IF c \in ranked THEN Re!Reciprocal(vector, c) + Re!Reciprocal(matched, c) ELSE 0)
                              + (IF c \in extra THEN Re!Boost(named[c.doc]) ELSE 0)]
    BY DEF Re!Scores
  <1>4. ranked \subseteq Chunks
    <2>1. PICK n \in 0..3 : vector \in [1..n -> Chunks]
      BY DEF Re!Rankings
    <2>2. PICK m \in 0..3 : matched \in [1..m -> Chunks]
      BY DEF Re!Rankings
    <2>3. Len(vector) = n
      BY <2>1
    <2> QED
      BY <2>1, <2>2, <2>3 DEF Re!Allowed
  <1> HIDE DEF ranked, score
  <1>5. extra \subseteq Chunks
    BY DEF Re!Named
  <1>6. ASSUME NEW c \in both PROVE c.doc \in Docs /\ (c \notin extra => named[c.doc] = 0) /\ named[c.doc] \in 0..2
    <2>1. c \in Chunks
      BY <1>4, <1>5
    <2>2. c.doc \in Docs /\ named[c.doc] \in 0..2
      BY <2>1, ReChunks
    <2>3. ASSUME c \notin extra, named[c.doc] # 0 PROVE FALSE
      <3>1. c \in ranked /\ named[c.doc] > 0
        BY <2>2, <2>3
      <3>2. c \in Re!Named(c.doc, ranked, limit)
        BY <2>1, <3>1 DEF Re!Named
      <3> QED
        BY <2>2, <2>3, <3>1, <3>2
    <2> QED
      BY <2>2, <2>3
  <1>7. ASSUME NEW c \in both PROVE base[c] \in Nat /\ base[c] <= 40000 /\ score[c] = base[c] + 100000 * named[c.doc]
    <2>1. base[c] \in Nat /\ base[c] <= 40000
      <3> DEFINE x == Re!Reciprocal(vector, c)
                 y == Re!Reciprocal(matched, c)
      <3>1. x \in Nat /\ x <= 20000 /\ y \in Nat /\ y <= 20000
        BY ReBase
      <3>2. base[c] = IF c \in ranked THEN x + y ELSE 0
        OBVIOUS
      <3> HIDE DEF x, y, base
      <3> QED
        BY <3>1, <3>2
    <2>1a. score[c] = base[c] + (IF c \in extra THEN Re!Boost(named[c.doc]) ELSE 0)
      BY <1>3
    <2> HIDE DEF base, extra
    <2>2. CASE c \in extra
      <3>1. score[c] = base[c] + Re!Boost(named[c.doc])
        BY <2>1a, <2>2
      <3>2. Re!Boost(named[c.doc]) = 100000 * named[c.doc]
        BY DEF Re!Boost
      <3> QED
        BY <2>1, <3>1, <3>2
    <2>3. CASE c \notin extra
      BY <1>6, <2>1, <2>1a, <2>3
    <2> QED
      BY <2>1, <2>2, <2>3
  <1>8. DOMAIN score = both /\ IsFiniteSet(both) /\ Cardinality(both) \in Nat
    <2>1. DOMAIN score = both
      BY <1>3
    <2>2. both \in SUBSET Chunks
      BY <1>4, <1>5
    <2> HIDE DEF both
    <2>3. IsFiniteSet(both)
      BY <2>2, ReChunks, FS_Subset
    <2> QED
      BY <2>1, <2>3, FS_CardinalityType
  <1> HIDE DEF both, base
  <1>9. PICK order \in Re!Falling(score, both) : hits = SubSeq(order, 1, Re!Lower(limit, Len(order)))
    BY <1>8 DEF Re!Ranked
  <1> DEFINE n == Cardinality(both)
  <1>10. /\ order \in [1..n -> both] /\ Len(order) = n /\ n \in Nat
         /\ \A i, j \in 1..n : i < j => score[order[i]] >= score[order[j]]
    <2>1. order \in Re!SetToSeqs(both) /\ \A i, j \in DOMAIN order : i < j => score[order[i]] >= score[order[j]]
      BY <1>9 DEF Re!Falling
    <2>2. order \in [1..n -> both]
      BY <2>1, ReCardinality DEF Re!SetToSeqs
    <2> HIDE DEF n
    <2>3. Len(order) = n /\ n \in Nat
      BY <1>8, <2>2 DEF n
    <2> QED
      BY <2>1, <2>2, <2>3
  <1> HIDE DEF n
  <1> DEFINE m == Re!Lower(limit, n)
  <1>11. m \in Nat /\ m <= n
    BY <1>10 DEF Re!Lower
  <1>12. hits = SubSeq(order, 1, m) /\ order \in Seq(both)
    BY <1>9, <1>10
  <1> HIDE DEF m
  <1>13. DOMAIN hits = 1..m /\ \A i \in 1..m : hits[i] = order[i] /\ i \in 1..n
    <2>1. Len(hits) = m /\ \A i \in 1..m : hits[i] = order[i]
      BY <1>10, <1>11, <1>12
    <2> QED
      BY <1>10, <1>11, <1>12, <2>1
  <1>14. ASSUME NEW i \in DOMAIN hits, NEW j \in DOMAIN hits, i < j
         PROVE  named[hits[i].doc] >= named[hits[j].doc]
    <2> DEFINE c == hits[i]
               d == hits[j]
               x == named[c.doc]
               y == named[d.doc]
               u == base[c]
               v == base[d]
    <2>1. c \in both /\ d \in both /\ score[c] >= score[d]
      BY <1>10, <1>13, <1>14
    <2>2. x \in 0..2 /\ y \in 0..2 /\ u \in Nat /\ u <= 40000 /\ v \in Nat /\ v <= 40000
      BY <1>6, <1>7, <2>1
    <2>3. u + 100000 * x >= v + 100000 * y
      BY <1>7, <2>1
    <2> HIDE DEF x, y, u, v
    <2>4. x >= y
      BY <2>2, <2>3
    <2> QED
      BY <2>4 DEF x, y
  <1>15. found'.hits = hits /\ found'.named = named
    BY <1>2
  <1> QED
    BY <1>14, <1>15 DEF Re!NamedDocumentsFirst

-----------------------------------------------------------------------------
(* Retrieval: the context of an answer *)

\* The passages chosen so far and what they take up.
ReAcc == [chosen : Seq(Chunks), used : Nat]
ReCosts == [Chunks -> 1..2]
ReRange(s) == {s[i] : i \in DOMAIN s}
RePart(c, docs, cost) == IF c.doc \in docs THEN cost[c] ELSE 0
ReAdds(p, docs, cost, t) == t[0] = 0 /\ \A k \in 1..Len(p) : t[k] = t[k - 1] + RePart(p[k], docs, cost)

\* Size is the last of the running sums of the costs.
LEMMA ReSizes ==
  ASSUME NEW p \in Seq(Chunks), NEW docs, NEW cost \in ReCosts
  PROVE  \E t \in [0..Len(p) -> Nat] : ReAdds(p, docs, cost, t) /\ Re!Size(p, docs, cost) = t[Len(p)]
  <1> DEFINE n == Len(p)
             step == [i \in 1..n |-> [a \in Nat |-> a + RePart(p[i], docs, cost)]]
             Runs(f) == f = [s \in SUBSET DOMAIN p |->
                                IF s = {} THEN 0
                                ELSE f[s \ {Greatest(s)}] + (IF p[Greatest(s)].doc \in docs THEN cost[p[Greatest(s)]] ELSE 0)]
  <1>1. n \in Nat /\ DOMAIN p = 1..n /\ 0 \in Nat /\ \A i \in 1..n : p[i] \in Chunks /\ RePart(p[i], docs, cost) \in Nat
    BY DEF ReCosts, RePart
  <1>2. Re!Size(p, docs, cost) = (CHOOSE f : Runs(f))[DOMAIN p]
    BY DEF Re!Size, Re!FoldLeft, Re!MapThenFoldSet, Re!Max, Greatest
  <1>3. step \in [1..n -> [Nat -> Nat]]
    BY <1>1
  <1>4a. PICK g \in [SUBSET (1..n) -> Nat], t \in [0..n -> Nat] : RunsLeft(g, t, n, 0, step)
    <2> HIDE DEF step, n
    <2> QED
      BY <1>1, <1>3, FoldFromLeft
  <1>4. /\ \A s \in SUBSET (1..n) : g[s] = IF s = {} THEN 0 ELSE step[Greatest(s)][g[s \ {Greatest(s)}]]
        /\ t[0] = 0 /\ \A k \in 1..n : t[k] = step[k][t[k - 1]]
        /\ \A f : Agrees(f, g, n, Greatest) => f[1..n] = t[n]
    BY <1>4a DEF RunsLeft
  <1>5. \A s \in SUBSET (1..n) : s # {} => Greatest(s) \in 1..n /\ g[s \ {Greatest(s)}] \in Nat
    BY <1>1, <1>4, GreatestIs
  <1>6. \A s \in SUBSET (1..n) : g[s] = IF s = {} THEN 0 ELSE g[s \ {Greatest(s)}] + RePart(p[Greatest(s)], docs, cost)
    BY <1>1, <1>4, <1>5
  <1>6a. Runs(g)
    BY <1>1, <1>6 DEF RePart
  <1>7. Runs(CHOOSE f : Runs(f))
    <2> HIDE DEF Runs
    <2> QED
      BY <1>6a
  <1> DEFINE f == CHOOSE f : Runs(f)
  <1>8. Agrees(f, g, n, Greatest)
    <2> HIDE DEF f
    <2>1. \A s \in SUBSET (1..n) :
            f[s] = IF s = {} THEN 0 ELSE f[s \ {Greatest(s)}] + RePart(p[Greatest(s)], docs, cost)
      BY <1>1, <1>7 DEF f, RePart
    <2> QED
      BY <1>6, <2>1 DEF Agrees
  <1>9. f[DOMAIN p] = t[n]
    <2> HIDE DEF f
    <2> QED
      BY <1>1, <1>4, <1>8
  <1>10. ReAdds(p, docs, cost, t)
    <2>1. ASSUME NEW k \in 1..n PROVE t[k] = t[k - 1] + RePart(p[k], docs, cost)
      <3>1. k - 1 \in 0..n /\ t[k - 1] \in Nat
        BY <1>1
      <3> QED
        BY <1>4, <3>1
    <2> QED
      BY <1>4, <2>1 DEF ReAdds
  <1> QED
    BY <1>2, <1>9, <1>10

\* No passage takes up nothing.
LEMMA ReSizeOfNone ==
  ASSUME NEW docs, NEW cost \in ReCosts PROVE Re!Size(<<>>, docs, cost) = 0
  <1>1. <<>> \in Seq(Chunks) /\ Len(<<>>) = 0
    OBVIOUS
  <1>2. PICK t \in [0..Len(<<>>) -> Nat] :
            ReAdds(<<>>, docs, cost, t) /\ Re!Size(<<>>, docs, cost) = t[Len(<<>>)]
    BY <1>1, ReSizes
  <1> QED
    BY <1>1, <1>2 DEF ReAdds

\* One passage more adds its cost if its document counts.
LEMMA ReSizeOfMore ==
  ASSUME NEW p \in Seq(Chunks), NEW c \in Chunks, NEW docs, NEW cost \in ReCosts
  PROVE  /\ Re!Size(p, docs, cost) \in Nat /\ RePart(c, docs, cost) \in Nat
         /\ Re!Size(Append(p, c), docs, cost) = Re!Size(p, docs, cost) + RePart(c, docs, cost)
  <1> DEFINE d == Append(p, c)
             n == Len(p)
  <1>1. d \in Seq(Chunks) /\ Len(d) = n + 1 /\ d[n + 1] = c /\ n \in Nat /\ \A k \in 1..n : d[k] = p[k]
    OBVIOUS
  <1>2. PICK t \in [0..n -> Nat] : ReAdds(p, docs, cost, t) /\ Re!Size(p, docs, cost) = t[n]
    BY ReSizes
  <1> HIDE DEF d
  <1>3. PICK u \in [0..Len(d) -> Nat] : ReAdds(d, docs, cost, u) /\ Re!Size(d, docs, cost) = u[Len(d)]
    BY <1>1, ReSizes
  <1> DEFINE T == {k \in 0..n : u[k] = t[k]}
  <1>4. 0 \in T
    BY <1>1, <1>2, <1>3 DEF ReAdds
  <1>5. ASSUME NEW k \in 0..n, k < n, k \in T PROVE k + 1 \in T
    <2> DEFINE m == k + 1
    <2>1. m \in 1..n /\ m \in 1..Len(d) /\ m - 1 = k /\ u[k] = t[k]
      BY <1>1, <1>5
    <2> HIDE DEF m
    <2>2. t[m] = t[k] + RePart(p[m], docs, cost) /\ u[m] = u[k] + RePart(d[m], docs, cost)
      BY <1>2, <1>3, <2>1 DEF ReAdds
    <2>3. d[m] = p[m]
      BY <1>1, <2>1
    <2>4. m \in 0..n /\ u[m] = t[m]
      BY <1>1, <2>1, <2>2, <2>3
    <2>5. m \in T
      BY <2>4
    <2> QED
      BY <2>5 DEF m
  <1>6. n \in T
    <2>1. n \in 0..n /\ n \in Nat
      BY <1>1
    <2> HIDE DEF n, T
    <2> QED
      BY <1>4, <1>5, <2>1, Counting
  <1>7. u[n + 1] = u[n] + RePart(c, docs, cost)
    <2> DEFINE m == n + 1
    <2>1. m \in 1..Len(d) /\ m - 1 = n /\ d[m] = c
      BY <1>1
    <2> HIDE DEF m
    <2>2. u[m] = u[n] + RePart(c, docs, cost)
      BY <1>3, <2>1 DEF ReAdds
    <2> QED
      BY <2>2 DEF m
  <1>8. t[n] \in Nat /\ RePart(c, docs, cost) \in Nat
    BY <1>1, <1>2 DEF ReCosts, RePart
  <1> QED
    BY <1>1, <1>2, <1>3, <1>6, <1>7, <1>8 DEF d

\* What is chosen is as large as it is said to be, and fits.
ReFits(acc, cost, max) ==
    /\ acc \in ReAcc /\ acc.used <= max /\ Re!Size(acc.chosen, Docs, cost) = acc.used
    /\ Len(acc.chosen) <= MAX_PASSAGES
\* Nothing that is chosen is given up, and what is added fits.
ReKeeps(a, b, cost, max) ==
    /\ b \in ReAcc /\ ReRange(a.chosen) \subseteq ReRange(b.chosen)
    /\ ReFits(a, cost, max) => ReFits(b, cost, max)

\* Keeping is reflexive and transitive.
LEMMA ReKeepsAlways ==
  ASSUME NEW a \in ReAcc, NEW cost, NEW max
  PROVE  /\ ReKeeps(a, a, cost, max)
         /\ \A b, c : ReKeeps(a, b, cost, max) /\ ReKeeps(b, c, cost, max) => ReKeeps(a, c, cost, max)
  BY DEF ReKeeps

\* A passage is included or would not fit, and nothing is given up for it.
LEMMA ReInclude ==
  ASSUME NEW a \in ReAcc, NEW c \in Chunks, NEW cost \in ReCosts, NEW max \in Nat
  PROVE  /\ ReKeeps(a, Re!Include(a, c, cost, max), cost, max)
         /\ \/ c \in ReRange(Re!Include(a, c, cost, max).chosen)
            \/ a.used + cost[c] > max \/ Len(a.chosen) + 1 > MAX_PASSAGES
         /\ Re!Include(a, c, cost, max).used <= a.used + cost[c]
         /\ Len(Re!Include(a, c, cost, max).chosen) <= Len(a.chosen) + 1
  <1> DEFINE b == Re!Include(a, c, cost, max)
             out == c \in ReRange(a.chosen) \/ a.used + cost[c] > max \/ Len(a.chosen) >= MAX_PASSAGES
  <1>1. a.chosen \in Seq(Chunks) /\ a.used \in Nat /\ cost[c] \in Nat /\ MAX_PASSAGES \in Nat
    BY RulesAssumption DEF ReAcc, ReCosts
  <1>2. CASE out
    <2>1. b = a
      BY <1>2 DEF Re!Include, ReRange
    <2>2. ReKeeps(a, a, cost, max)
      BY ReKeepsAlways
    <2> HIDE DEF b
    <2> QED
      BY <1>1, <1>2, <2>1, <2>2 DEF b
  <1>3. CASE ~out
    <2> DEFINE s == Append(a.chosen, c)
    <2>1. b = [chosen |-> s, used |-> a.used + cost[c]]
      BY <1>3 DEF Re!Include, ReRange
    <2>2. /\ s \in Seq(Chunks) /\ c \in ReRange(s) /\ ReRange(a.chosen) \subseteq ReRange(s)
          /\ Len(s) = Len(a.chosen) + 1
      <3>1. s \in Seq(Chunks) /\ Len(s) = Len(a.chosen) + 1 /\ s[Len(a.chosen) + 1] = c
            /\ \A k \in 1..Len(a.chosen) : s[k] = a.chosen[k]
        BY <1>1
      <3> HIDE DEF s
      <3>2. DOMAIN s = 1..Len(a.chosen) + 1 /\ DOMAIN a.chosen = 1..Len(a.chosen) /\ Len(a.chosen) \in Nat
        BY <1>1, <3>1
      <3>3. Len(a.chosen) + 1 \in DOMAIN s /\ 1..Len(a.chosen) \subseteq DOMAIN s
        BY <3>2
      <3> QED
        BY <3>1, <3>2, <3>3 DEF ReRange
    <2>3. b \in ReAcc
      BY <1>1, <2>1, <2>2 DEF ReAcc
    <2>4. Re!Size(s, Docs, cost) = Re!Size(a.chosen, Docs, cost) + cost[c]
      <3>1. RePart(c, Docs, cost) = cost[c]
        BY ReChunks DEF RePart
      <3> QED
        BY <1>1, <3>1, ReSizeOfMore
    <2> HIDE DEF s, b
    <2>5. /\ b.chosen = s /\ b.used = a.used + cost[c] /\ ~(a.used + cost[c] > max)
          /\ ~(Len(a.chosen) >= MAX_PASSAGES)
      BY <1>3, <2>1
    <2>6. ReFits(a, cost, max) => ReFits(b, cost, max)
      <3>1. Len(s) <= MAX_PASSAGES
        BY <1>1, <2>2, <2>5
      <3> QED
        BY <1>1, <2>3, <2>4, <2>5, <3>1 DEF ReFits
    <2> QED
      BY <1>1, <2>2, <2>3, <2>5, <2>6 DEF ReKeeps, b
  <1> QED
    BY <1>2, <1>3

\* A passage is tried if its document is among the groups.
RePick(a, c, groups, cost, max) == IF c.doc \in groups THEN Re!Include(a, c, cost, max) ELSE a

\* Trying a passage keeps what is chosen.
LEMMA RePicks ==
  ASSUME NEW a \in ReAcc, NEW c \in Chunks, NEW groups, NEW cost \in ReCosts, NEW max \in Nat
  PROVE  RePick(a, c, groups, cost, max) \in ReAcc /\ ReKeeps(a, RePick(a, c, groups, cost, max), cost, max)
  <1>1. CASE c.doc \in groups
    BY <1>1, ReInclude DEF RePick, ReKeeps
  <1>2. CASE c.doc \notin groups
    BY <1>2, ReKeepsAlways DEF RePick, ReKeeps
  <1> QED
    BY <1>1, <1>2

\* The run of include over some passages.
ReRun(a, p, groups, cost, max, t) ==
    t[0] = a /\ \A k \in 1..Len(p) : t[k] = RePick(t[k - 1], p[k], groups, cost, max)

ReHasRun(a, p, groups, cost, max) ==
    \E t \in [0..Len(p) -> ReAcc] :
        ReRun(a, p, groups, cost, max, t) /\ Re!Included(a, p, groups, cost, max) = t[Len(p)]

\* Included is the last value of its run.
LEMMA ReIncluded ==
  ASSUME NEW a \in ReAcc, NEW p \in Seq(Chunks), NEW groups, NEW cost \in ReCosts, NEW max \in Nat
  PROVE  ReHasRun(a, p, groups, cost, max)
  <1> DEFINE n == Len(p)
             step == [i \in 1..n |-> [x \in ReAcc |-> RePick(x, p[i], groups, cost, max)]]
             Runs(f) == f = [s \in SUBSET DOMAIN p |->
                                IF s = {} THEN a
                                ELSE IF p[Greatest(s)].doc \in groups
                                     THEN Re!Include(f[s \ {Greatest(s)}], p[Greatest(s)], cost, max)
                                     ELSE f[s \ {Greatest(s)}]]
  <1>1. n \in Nat /\ DOMAIN p = 1..n /\ \A i \in 1..n : p[i] \in Chunks
    OBVIOUS
  <1>2. Re!Included(a, p, groups, cost, max) = (CHOOSE f : Runs(f))[DOMAIN p]
    BY DEF Re!Included, Re!FoldLeft, Re!MapThenFoldSet, Re!Max, Greatest
  <1>3. step \in [1..n -> [ReAcc -> ReAcc]]
    BY <1>1, RePicks
  <1>4a. PICK g \in [SUBSET (1..n) -> ReAcc], t \in [0..n -> ReAcc] : RunsLeft(g, t, n, a, step)
    <2> HIDE DEF step, n
    <2> QED
      BY <1>1, <1>3, FoldFromLeft
  <1>4. /\ \A s \in SUBSET (1..n) : g[s] = IF s = {} THEN a ELSE step[Greatest(s)][g[s \ {Greatest(s)}]]
        /\ t[0] = a /\ \A k \in 1..n : t[k] = step[k][t[k - 1]]
        /\ \A f : Agrees(f, g, n, Greatest) => f[1..n] = t[n]
    BY <1>4a DEF RunsLeft
  <1>5. \A s \in SUBSET (1..n) : s # {} => Greatest(s) \in 1..n /\ g[s \ {Greatest(s)}] \in ReAcc
    BY <1>1, <1>4, GreatestIs
  <1>6. \A s \in SUBSET (1..n) :
            g[s] = IF s = {} THEN a ELSE RePick(g[s \ {Greatest(s)}], p[Greatest(s)], groups, cost, max)
    BY <1>1, <1>4, <1>5
  <1>6a. Runs(g)
    BY <1>1, <1>6 DEF RePick
  <1>7. Runs(CHOOSE f : Runs(f))
    <2> HIDE DEF Runs
    <2> QED
      BY <1>6a
  <1> DEFINE f == CHOOSE f : Runs(f)
  <1>8. Agrees(f, g, n, Greatest)
    <2> HIDE DEF f
    <2>1. \A s \in SUBSET (1..n) :
            f[s] = IF s = {} THEN a ELSE RePick(f[s \ {Greatest(s)}], p[Greatest(s)], groups, cost, max)
      BY <1>1, <1>7 DEF f, RePick
    <2> QED
      BY <1>6, <2>1 DEF Agrees
  <1>9. f[DOMAIN p] = t[n]
    <2> HIDE DEF f
    <2> QED
      BY <1>1, <1>4, <1>8
  <1>10. ReRun(a, p, groups, cost, max, t)
    <2>1. ASSUME NEW k \in 1..n PROVE t[k] = RePick(t[k - 1], p[k], groups, cost, max)
      <3>1. k - 1 \in 0..n /\ t[k - 1] \in ReAcc
        BY <1>1
      <3> QED
        BY <1>4, <3>1
    <2> QED
      BY <1>4, <2>1 DEF ReRun
  <1> QED
    BY <1>2, <1>9, <1>10 DEF ReHasRun

\* A run keeps what it has at every point.
LEMMA ReIncludedKeeps ==
  ASSUME NEW a \in ReAcc, NEW p \in Seq(Chunks), NEW groups, NEW cost \in ReCosts, NEW max \in Nat
  PROVE  ReKeeps(a, Re!Included(a, p, groups, cost, max), cost, max)
         /\ Re!Included(a, p, groups, cost, max) \in ReAcc
  <1> DEFINE n == Len(p)
             r == Re!Included(a, p, groups, cost, max)
  <1>0. \E t \in [0..n -> ReAcc] : ReRun(a, p, groups, cost, max, t) /\ r = t[n]
    <2>1. ReHasRun(a, p, groups, cost, max)
      BY ReIncluded
    <2> QED
      BY <2>1 DEF ReHasRun
  <1> HIDE DEF n, r
  <1>1. PICK t \in [0..n -> ReAcc] : ReRun(a, p, groups, cost, max, t) /\ r = t[n]
    BY <1>0
  <1> USE DEF n
  <1> DEFINE T == {k \in 0..n : ReKeeps(a, t[k], cost, max)}
  <1>2. 0 \in T /\ n \in Nat /\ n \in 0..n
    <2>1. ReKeeps(a, a, cost, max) /\ t[0] = a /\ 0 \in 0..n /\ n \in Nat
      BY <1>1, ReKeepsAlways DEF ReRun
    <2> QED
      BY <2>1
  <1>3. ASSUME NEW k \in 0..n, k < n, k \in T PROVE k + 1 \in T
    <2> DEFINE m == k + 1
    <2>1. m \in 1..n /\ m \in 0..n /\ m - 1 = k /\ t[k] \in ReAcc /\ p[m] \in Chunks
      BY <1>2, <1>3
    <2> HIDE DEF m
    <2>2. t[m] = RePick(t[k], p[m], groups, cost, max)
      BY <1>1, <2>1 DEF ReRun
    <2>3. ReKeeps(t[k], t[m], cost, max)
      BY <2>1, <2>2, RePicks
    <2>4. ReKeeps(a, t[k], cost, max)
      BY <1>3
    <2>5. ReKeeps(a, t[m], cost, max)
      BY <2>3, <2>4, ReKeepsAlways
    <2>6. m \in T
      BY <2>1, <2>5
    <2> QED
      BY <2>6 DEF m
  <1>4. n \in T
    <2> HIDE DEF n, T
    <2> QED
      BY <1>2, <1>3, Counting
  <1> QED
    BY <1>1, <1>4 DEF ReKeeps, r

\* A whole document is a sequence of its chunks.
LEMMA ReWhole == ASSUME NEW d \in Docs PROVE Re!Whole(d) \in Seq(Chunks)
  <1> DEFINE S == {c \in Chunks : c.doc = d}
             one == [doc |-> d, n |-> 1]
             two == [doc |-> d, n |-> 2]
  <1>1. one # two /\ one \in Chunks /\ (d # "b" => two \in Chunks)
    <2>1. one.n = 1 /\ two.n = 2 /\ [doc |-> "b", n |-> 2].n = 2
      OBVIOUS
    <2>2. one # two /\ one # [doc |-> "b", n |-> 2]
      BY <2>1
    <2>3. d # "b" => two # [doc |-> "b", n |-> 2]
      OBVIOUS
    <2>4. one \in {[doc |-> e, n |-> n] : e \in Docs, n \in {1, 2}} /\ two \in {[doc |-> e, n |-> n] : e \in Docs, n \in {1, 2}}
      OBVIOUS
    <2> QED
      BY <2>2, <2>3, <2>4 DEF Chunks
  <1>2. CASE d = "b"
    <2>1. S = {one}
      BY <1>1, <1>2 DEF Chunks
    <2>2. Cardinality(S) = 1
      BY <2>1, FS_Singleton
    <2>3. Re!Whole(d) = [k \in 1..1 |-> [doc |-> d, n |-> k]]
      BY <2>2, ReCardinality DEF Re!Whole
    <2>4. \A k \in 1..1 : k = 1
      OBVIOUS
    <2>5. \A k \in 1..1 : [doc |-> d, n |-> k] \in Chunks
      BY <1>1, <2>4
    <2> QED
      BY <2>3, <2>5
  <1>3. CASE d # "b"
    <2>1. S = {one, two}
      BY <1>1, <1>3 DEF Chunks
    <2>2. Cardinality(S) = 2
      <3>1. IsFiniteSet({one}) /\ Cardinality({one}) = 1
        BY FS_Singleton
      <3>2. two \notin {one} /\ {one} \cup {two} = S
        BY <1>1, <2>1
      <3> HIDE DEF one, two, S
      <3> QED
        BY <3>1, <3>2, FS_AddElement
    <2>3. Re!Whole(d) = [k \in 1..2 |-> [doc |-> d, n |-> k]]
      BY <2>2, ReCardinality DEF Re!Whole
    <2>4. \A k \in 1..2 : k = 1 \/ k = 2
      OBVIOUS
    <2>5. \A k \in 1..2 : [doc |-> d, n |-> k] \in Chunks
      BY <1>1, <1>3, <2>4
    <2> QED
      BY <2>3, <2>5
  <1> QED
    BY <1>2, <1>3

\* The chosen documents are included whole, one after the other.
ReWiden(a, d, groups, cost, max) == Re!Included(a, Re!Whole(d), groups, cost, max)
ReWidens(a, order, groups, cost, max) ==
    \E t \in [0..Len(order) -> ReAcc] :
        /\ t[0] = a /\ \A k \in 1..Len(order) : t[k] = ReWiden(t[k - 1], order[k], groups, cost, max)
        /\ Re!Expanded(a, order, groups, cost, max) = t[Len(order)]

\* Expanded is the last value of its run.
LEMMA ReExpanded ==
  ASSUME NEW a \in ReAcc, NEW p \in Seq(Docs), NEW groups, NEW cost \in ReCosts, NEW max \in Nat
  PROVE  ReWidens(a, p, groups, cost, max)
  <1> DEFINE n == Len(p)
             step == [i \in 1..n |-> [x \in ReAcc |-> ReWiden(x, p[i], groups, cost, max)]]
             Runs(f) == f = [s \in SUBSET DOMAIN p |->
                                IF s = {} THEN a
                                ELSE Re!Included(f[s \ {Greatest(s)}], Re!Whole(p[Greatest(s)]), groups, cost, max)]
  <1>1. n \in Nat /\ DOMAIN p = 1..n /\ \A i \in 1..n : p[i] \in Docs
    OBVIOUS
  <1>2. Re!Expanded(a, p, groups, cost, max) = (CHOOSE f : Runs(f))[DOMAIN p]
    BY DEF Re!Expanded, Re!FoldLeft, Re!MapThenFoldSet, Re!Max, Greatest
  <1>3. step \in [1..n -> [ReAcc -> ReAcc]]
    <2>1. \A i \in 1..n : Re!Whole(p[i]) \in Seq(Chunks)
      BY <1>1, ReWhole
    <2>2. \A i \in 1..n, x \in ReAcc : ReWiden(x, p[i], groups, cost, max) \in ReAcc
      BY <2>1, ReIncludedKeeps DEF ReWiden
    <2> QED
      BY <2>2
  <1>4a. PICK g \in [SUBSET (1..n) -> ReAcc], t \in [0..n -> ReAcc] : RunsLeft(g, t, n, a, step)
    <2> HIDE DEF step, n
    <2> QED
      BY <1>1, <1>3, FoldFromLeft
  <1>4. /\ \A s \in SUBSET (1..n) : g[s] = IF s = {} THEN a ELSE step[Greatest(s)][g[s \ {Greatest(s)}]]
        /\ t[0] = a /\ \A k \in 1..n : t[k] = step[k][t[k - 1]]
        /\ \A f : Agrees(f, g, n, Greatest) => f[1..n] = t[n]
    BY <1>4a DEF RunsLeft
  <1>5. \A s \in SUBSET (1..n) : s # {} => Greatest(s) \in 1..n /\ g[s \ {Greatest(s)}] \in ReAcc
    BY <1>1, <1>4, GreatestIs
  <1>6. \A s \in SUBSET (1..n) :
            g[s] = IF s = {} THEN a ELSE ReWiden(g[s \ {Greatest(s)}], p[Greatest(s)], groups, cost, max)
    BY <1>1, <1>4, <1>5
  <1>6a. Runs(g)
    BY <1>1, <1>6 DEF ReWiden
  <1>7. Runs(CHOOSE f : Runs(f))
    <2> HIDE DEF Runs
    <2> QED
      BY <1>6a
  <1> DEFINE f == CHOOSE f : Runs(f)
  <1>8. Agrees(f, g, n, Greatest)
    <2> HIDE DEF f
    <2>1. \A s \in SUBSET (1..n) :
            f[s] = IF s = {} THEN a ELSE ReWiden(f[s \ {Greatest(s)}], p[Greatest(s)], groups, cost, max)
      BY <1>1, <1>7 DEF f, ReWiden
    <2> QED
      BY <1>6, <2>1 DEF Agrees
  <1>9. f[DOMAIN p] = t[n]
    <2> HIDE DEF f
    <2> QED
      BY <1>1, <1>4, <1>8
  <1>10. t[0] = a /\ \A k \in 1..n : t[k] = ReWiden(t[k - 1], p[k], groups, cost, max)
    <2>1. ASSUME NEW k \in 1..n PROVE t[k] = ReWiden(t[k - 1], p[k], groups, cost, max)
      <3>1. k - 1 \in 0..n /\ t[k - 1] \in ReAcc
        BY <1>1
      <3> QED
        BY <1>4, <3>1
    <2> QED
      BY <1>4, <2>1
  <1>11. Re!Expanded(a, p, groups, cost, max) = t[n]
    BY <1>2, <1>9
  <1> QED
    BY <1>10, <1>11 DEF ReWidens

\* Whole documents push out none of the passages chosen before.
LEMMA ReExpandedKeeps ==
  ASSUME NEW a \in ReAcc, NEW p \in Seq(Docs), NEW groups, NEW cost \in ReCosts, NEW max \in Nat
  PROVE  ReKeeps(a, Re!Expanded(a, p, groups, cost, max), cost, max)
  <1> DEFINE n == Len(p)
             r == Re!Expanded(a, p, groups, cost, max)
  <1>0. ReWidens(a, p, groups, cost, max)
    BY ReExpanded
  <1>1. PICK t \in [0..n -> ReAcc] :
            /\ t[0] = a /\ \A k \in 1..n : t[k] = ReWiden(t[k - 1], p[k], groups, cost, max)
            /\ r = t[n]
    BY <1>0 DEF ReWidens
  <1> HIDE DEF r
  <1> DEFINE T == {k \in 0..n : ReKeeps(a, t[k], cost, max)}
  <1>2. 0 \in T /\ n \in Nat /\ n \in 0..n
    <2>1. ReKeeps(a, a, cost, max) /\ t[0] = a /\ 0 \in 0..n /\ n \in Nat
      BY <1>1, ReKeepsAlways
    <2> QED
      BY <2>1
  <1>3. ASSUME NEW k \in 0..n, k < n, k \in T PROVE k + 1 \in T
    <2> DEFINE m == k + 1
    <2>1. m \in 1..n /\ m \in 0..n /\ m - 1 = k /\ t[k] \in ReAcc /\ p[m] \in Docs
      BY <1>2, <1>3
    <2> HIDE DEF m
    <2>2. t[m] = Re!Included(t[k], Re!Whole(p[m]), groups, cost, max)
      BY <1>1, <2>1 DEF ReWiden
    <2>3. ReKeeps(t[k], t[m], cost, max)
      BY <2>1, <2>2, ReWhole, ReIncludedKeeps
    <2>4. ReKeeps(a, t[k], cost, max)
      BY <1>3
    <2>5. ReKeeps(a, t[m], cost, max)
      BY <2>3, <2>4, ReKeepsAlways
    <2>6. m \in T
      BY <2>1, <2>5
    <2> QED
      BY <2>6 DEF m
  <1>4. n \in T
    <2> HIDE DEF n, T
    <2> QED
      BY <1>2, <1>3, Counting
  <1> QED
    BY <1>1, <1>4 DEF r

\* Passages are counted by their size if each has size one.
ReOnes == [c \in Chunks |-> 1]
\* The hits by themselves: what is left out does not fit beside the hits before it.
ReFirst(hits, groups, cost, max, acc, k) ==
    /\ acc.used <= Re!Size(SubSeq(hits, 1, k), groups, cost)
    /\ Len(acc.chosen) <= Re!Size(SubSeq(hits, 1, k), groups, ReOnes)
    /\ \A i \in 1..k : hits[i].doc \in groups =>
           \/ hits[i] \in ReRange(acc.chosen)
           \/ Re!Size(SubSeq(hits, 1, i), groups, cost) > max
           \/ Re!Size(SubSeq(hits, 1, i), groups, ReOnes) > MAX_PASSAGES

\* Among the hits every passage of the groups is chosen unless those up to it do not fit.
LEMMA ReHits ==
  ASSUME NEW hits \in Seq(Chunks), NEW groups, NEW cost \in ReCosts, NEW max \in Nat
  PROVE  ReFirst(hits, groups, cost, max, Re!Included(Re!Nothing, hits, groups, cost, max), Len(hits))
  <1> DEFINE n == Len(hits)
             r == Re!Included(Re!Nothing, hits, groups, cost, max)
             Sz(k) == Re!Size(SubSeq(hits, 1, k), groups, cost)
             Nr(k) == Re!Size(SubSeq(hits, 1, k), groups, ReOnes)
  <1>0. /\ Re!Nothing \in ReAcc /\ Re!Nothing.used = 0 /\ Len(Re!Nothing.chosen) = 0
        /\ n \in Nat /\ DOMAIN hits = 1..n /\ ReOnes \in ReCosts /\ MAX_PASSAGES \in Nat
    BY RulesAssumption DEF Re!Nothing, ReAcc, ReOnes, ReCosts
  <1>0a. ReHasRun(Re!Nothing, hits, groups, cost, max)
    BY <1>0, ReIncluded
  <1>1. PICK t \in [0..n -> ReAcc] : ReRun(Re!Nothing, hits, groups, cost, max, t) /\ r = t[n]
    BY <1>0a DEF ReHasRun
  <1> HIDE DEF r
  <1> DEFINE T == {k \in 0..n : ReFirst(hits, groups, cost, max, t[k], k)}
  <1>2. 0 \in T /\ n \in 0..n
    <2>1. t[0] = Re!Nothing /\ 0 \in 0..n
      BY <1>0, <1>1 DEF ReRun
    <2>2. SubSeq(hits, 1, 0) = <<>>
      OBVIOUS
    <2>3. Re!Size(SubSeq(hits, 1, 0), groups, cost) = 0 /\ Re!Size(SubSeq(hits, 1, 0), groups, ReOnes) = 0
      BY <2>2, ReSizeOfNone
    <2>4. ReFirst(hits, groups, cost, max, t[0], 0)
      BY <1>0, <2>1, <2>3 DEF ReFirst
    <2> QED
      BY <1>0, <2>1, <2>4
  <1>3. ASSUME NEW k \in 0..n, k < n, k \in T PROVE k + 1 \in T
    <2> DEFINE m == k + 1
               a == t[k]
               b == t[m]
               c == hits[m]
    <2>1. m \in 1..n /\ m \in 0..n /\ m - 1 = k /\ a \in ReAcc /\ c \in Chunks /\ k \in Nat /\ b \in ReAcc
      BY <1>0, <1>3
    <2>2. SubSeq(hits, 1, m) = Append(SubSeq(hits, 1, k), c) /\ SubSeq(hits, 1, k) \in Seq(Chunks)
      BY <1>0, <1>3
    <2> HIDE DEF m
    <2>3. b = RePick(a, c, groups, cost, max)
      BY <1>1, <2>1 DEF ReRun
    <2> HIDE DEF a, b
    <2>3a. c \in Chunks
      BY <2>1
    <2> HIDE DEF c
    <2>4. /\ Sz(k) \in Nat /\ Sz(m) = Sz(k) + RePart(c, groups, cost) /\ RePart(c, groups, cost) \in Nat
          /\ Nr(k) \in Nat /\ Nr(m) = Nr(k) + RePart(c, groups, ReOnes) /\ RePart(c, groups, ReOnes) \in Nat
      <3> DEFINE s == SubSeq(hits, 1, k)
      <3>1. s \in Seq(Chunks) /\ c \in Chunks /\ SubSeq(hits, 1, m) = Append(s, c)
        BY <2>2, <2>3a DEF c
      <3> HIDE DEF s
      <3>2. /\ Re!Size(s, groups, cost) \in Nat /\ RePart(c, groups, cost) \in Nat
            /\ Re!Size(Append(s, c), groups, cost) = Re!Size(s, groups, cost) + RePart(c, groups, cost)
        BY <3>1, ReSizeOfMore
      <3>3. /\ Re!Size(s, groups, ReOnes) \in Nat /\ RePart(c, groups, ReOnes) \in Nat
            /\ Re!Size(Append(s, c), groups, ReOnes) = Re!Size(s, groups, ReOnes) + RePart(c, groups, ReOnes)
        BY <1>0, <3>1, ReSizeOfMore
      <3> QED
        BY <3>1, <3>2, <3>3 DEF s
    <2>5. ReFirst(hits, groups, cost, max, a, k)
      BY <1>3 DEF a
    <2>6. ReRange(a.chosen) \subseteq ReRange(b.chosen)
      BY <2>1, <2>3, RePicks DEF ReKeeps
    <2>7. /\ a.used \in Nat /\ b.used \in Nat /\ cost[c] \in Nat /\ a.used <= Sz(k)
          /\ Len(a.chosen) \in Nat /\ Len(b.chosen) \in Nat /\ Len(a.chosen) <= Nr(k)
      BY <2>1, <2>5 DEF ReAcc, ReCosts, ReFirst
    <2>8. /\ b.used <= Sz(m) /\ Len(b.chosen) <= Nr(m)
          /\ c.doc \in groups => c \in ReRange(b.chosen) \/ Sz(m) > max \/ Nr(m) > MAX_PASSAGES
      <3> HIDE DEF Sz, Nr
      <3>1. CASE c.doc \in groups
        <4>1. b = Re!Include(a, c, cost, max) /\ RePart(c, groups, cost) = cost[c] /\ RePart(c, groups, ReOnes) = 1
          BY <2>1, <2>3, <3>1 DEF RePick, RePart, ReOnes
        <4>2. /\ c \in ReRange(b.chosen) \/ a.used + cost[c] > max \/ Len(a.chosen) + 1 > MAX_PASSAGES
              /\ b.used <= a.used + cost[c] /\ Len(b.chosen) <= Len(a.chosen) + 1
          BY <2>1, <4>1, ReInclude
        <4>3. Sz(m) = Sz(k) + cost[c] /\ Nr(m) = Nr(k) + 1 /\ Sz(k) \in Nat /\ Nr(k) \in Nat
          BY <2>4, <4>1
        <4>4. a.used + cost[c] <= Sz(m) /\ Sz(m) \in Nat
          <5>1. a.used \in Nat /\ cost[c] \in Nat /\ a.used <= Sz(k)
            BY <2>7
          <5> QED
            BY <4>3, <5>1
        <4>5. Len(a.chosen) + 1 <= Nr(m) /\ Nr(m) \in Nat
          <5>1. Len(a.chosen) \in Nat /\ Len(a.chosen) <= Nr(k)
            BY <2>7
          <5> QED
            BY <4>3, <5>1
        <4>6. b.used <= Sz(m) /\ (a.used + cost[c] > max => Sz(m) > max)
          BY <2>7, <4>2, <4>4
        <4>7. Len(b.chosen) <= Nr(m) /\ (Len(a.chosen) + 1 > MAX_PASSAGES => Nr(m) > MAX_PASSAGES)
          BY <1>0, <2>7, <4>2, <4>5
        <4> QED
          BY <4>2, <4>6, <4>7
      <3>2. CASE c.doc \notin groups
        <4>1. b = a /\ RePart(c, groups, cost) = 0 /\ RePart(c, groups, ReOnes) = 0
          BY <2>3, <3>2 DEF RePick, RePart
        <4> QED
          BY <2>4, <2>7, <3>2, <4>1
      <3> QED
        BY <3>1, <3>2
    <2>9. ASSUME NEW i \in 1..m, hits[i].doc \in groups
          PROVE  hits[i] \in ReRange(b.chosen) \/ Sz(i) > max \/ Nr(i) > MAX_PASSAGES
      <3>1. CASE i = m
        BY <2>8, <2>9, <3>1 DEF c
      <3>2. CASE i \in 1..k
        BY <2>5, <2>6, <2>9, <3>2 DEF ReFirst
      <3> QED
        BY <2>1, <3>1, <3>2
    <2>10. ReFirst(hits, groups, cost, max, b, m)
      BY <2>8, <2>9 DEF ReFirst
    <2>11. m \in T
      BY <2>1, <2>10 DEF b
    <2> QED
      BY <2>11 DEF m
  <1>4. n \in T
    <2> HIDE DEF n, T
    <2> QED
      BY <1>0, <1>2, <1>3, Counting
  <1> QED
    BY <1>1, <1>4 DEF r

\* The hits come first in the context of an answer.
LEMMA ReContext == ASSUME Re!AnswerContext PROVE Re!HitsComeFirst'
  <1>1. PICK hits \in Re!Rankings \ {<<>>}, named \in [Docs -> 0..1], cost \in ReCosts, max \in 1..MaxBudget :
            LET groups == Re!Groups(hits, named) IN
            \E order \in Re!Falling([d \in groups |-> Re!Weight(hits, named, d)], groups) :
                LET chosen == Re!Chosen(hits, order, groups, cost, max) IN
                found' = [rule |-> "context", hits |-> hits, named |-> named, cost |-> cost, max |-> max,
                          passages |-> IF chosen = <<>> THEN hits ELSE chosen]
    BY DEF Re!AnswerContext, ReCosts
  <1> DEFINE groups == Re!Groups(hits, named)
  <1>2. PICK order \in Re!Falling([d \in groups |-> Re!Weight(hits, named, d)], groups) :
            found' = [rule |-> "context", hits |-> hits, named |-> named, cost |-> cost, max |-> max,
                      passages |-> IF Re!Chosen(hits, order, groups, cost, max) = <<>> THEN hits
                                   ELSE Re!Chosen(hits, order, groups, cost, max)]
    BY <1>1
  <1>3. max \in Nat /\ hits \in Seq(Chunks)
    <2>1. MaxBudget \in Nat
      BY RulesAssumption
    <2>2. PICK n \in 0..3 : hits \in [1..n -> Chunks]
      BY DEF Re!Rankings
    <2> QED
      BY <2>1, <2>2
  <1>4. groups \in SUBSET Docs
    <2>1. \A i \in DOMAIN hits : hits[i].doc \in Docs
      BY <1>3, ReChunks
    <2> QED
      BY <2>1 DEF Re!Groups
  <1>5. order \in Seq(Docs)
    <2> DEFINE n == Cardinality(groups)
    <2>1. order \in [1..n -> groups]
      BY <1>2, ReCardinality DEF Re!Falling, Re!SetToSeqs
    <2>2. n \in Nat
      <3> HIDE DEF groups
      <3> QED
        BY <1>4, RulesAssumption, FS_Subset, FS_CardinalityType
    <2> HIDE DEF n, groups
    <2> QED
      BY <1>4, <2>1, <2>2
  <1> HIDE DEF groups
  <1> DEFINE mine == Re!Included(Re!Nothing, hits, groups, cost, max)
             last == Re!Expanded(mine, order, groups, cost, max)
             p == IF last.chosen = <<>> THEN hits ELSE last.chosen
  <1>6. found' = [rule |-> "context", hits |-> hits, named |-> named, cost |-> cost, max |-> max, passages |-> p]
    BY <1>2 DEF Re!Chosen
  <1>7. Re!Nothing \in ReAcc /\ ReFits(Re!Nothing, cost, max)
    <2>1. Re!Nothing \in ReAcc /\ Re!Nothing.used = 0 /\ Re!Nothing.chosen = <<>> /\ MAX_PASSAGES \in Nat
      BY RulesAssumption DEF Re!Nothing, ReAcc
    <2>2. Re!Size(<<>>, Docs, cost) = 0
      BY ReSizeOfNone
    <2> QED
      BY <1>3, <2>1, <2>2 DEF ReFits
  <1>8. mine \in ReAcc /\ ReKeeps(Re!Nothing, mine, cost, max)
    BY <1>3, <1>7, ReIncludedKeeps
  <1>9. ReFirst(hits, groups, cost, max, mine, Len(hits))
    BY <1>3, ReHits
  <1> HIDE DEF mine
  <1>10. ReKeeps(mine, last, cost, max)
    BY <1>3, <1>5, <1>8, ReExpandedKeeps
  <1> HIDE DEF last
  <1>11. ReFits(last, cost, max) /\ ReRange(mine.chosen) \subseteq ReRange(last.chosen)
    BY <1>7, <1>8, <1>10 DEF ReKeeps
  <1>12. (Re!Size(p, Docs, cost) <= max /\ Len(p) <= MAX_PASSAGES) \/ p = hits
    BY <1>11 DEF ReFits
  <1>13. ASSUME NEW i \in DOMAIN hits, hits[i].doc \in groups
         PROVE  \/ hits[i] \in {p[k] : k \in DOMAIN p} \/ Re!Size(SubSeq(hits, 1, i), groups, cost) > max
                \/ Re!Size(SubSeq(hits, 1, i), groups, ReOnes) > MAX_PASSAGES
    <2>1. i \in 1..Len(hits)
      BY <1>3
    <2>2. \/ hits[i] \in ReRange(mine.chosen) \/ Re!Size(SubSeq(hits, 1, i), groups, cost) > max
          \/ Re!Size(SubSeq(hits, 1, i), groups, ReOnes) > MAX_PASSAGES
      BY <1>9, <1>13, <2>1 DEF ReFirst
    <2>3. hits[i] \in ReRange(last.chosen) => hits[i] \in ReRange(p)
      BY DEF ReRange
    <2> QED
      BY <1>11, <2>2, <2>3 DEF ReRange
  <1> HIDE DEF p
  <1>14. /\ found'.hits = hits /\ found'.named = named /\ found'.cost = cost /\ found'.max = max
         /\ found'.passages = p
    BY <1>6
  <1> QED
    BY <1>12, <1>13, <1>14 DEF Re!HitsComeFirst, groups, ReOnes

-----------------------------------------------------------------------------
(* Retrieval: the titles of a text *)

\* Layouts of any length, their headings outside fences, and which of these enclose a line.
ReLines == UNION {[1..n -> {0, 1, 2, 3, 9}] : n \in Nat}
ReFences(l, k) == Cardinality({m \in 1..k : l[m] = 9})
ReHeads(l) == {n \in DOMAIN l : l[n] \in 1..3 /\ ReFences(l, n) % 2 = 0}
ReEncl(l, m, n) == m \in ReHeads(l) /\ m <= n /\ \A h \in ReHeads(l) : m < h /\ h <= n => l[h] > l[m]
ReEven(l) == \A n \in ReHeads(l) : l[n] = 1 \/ \E m \in ReHeads(l) : m < n /\ ReEncl(l, m, n) /\ l[m] = l[n] - 1

\* What chunk_document holds while it reads the lines.
ReSegment == [from : Nat, to : Nat, titles : Seq(Nat)]
ReOutline == [segments : Seq(ReSegment), titles : Seq(Nat), start : Nat, fence : BOOLEAN]

\* The segments take up the lines before b, one after the other.
ReCover(segs, b) ==
    /\ \A i \in 1..Len(segs) : 1 <= segs[i].from /\ segs[i].from <= segs[i].to /\ segs[i].to < b
    /\ \A i, j \in 1..Len(segs) : i < j => segs[i].to < segs[j].from
    /\ \A x \in Nat : 1 <= x /\ x < b => \E i \in 1..Len(segs) : segs[i].from <= x /\ x <= segs[i].to
ReTitled(l, segs) ==
    \A i \in 1..Len(segs) : \A m : m \in ReRange(segs[i].titles) <=> ReEncl(l, m, segs[i].from)
\* The titles are the headings that enclose line k, each at its depth.
ReOpen(l, titles, k) ==
    /\ \A j \in 1..Len(titles) : ReEncl(l, titles[j], k) /\ l[titles[j]] = j
    /\ \A m : ReEncl(l, m, k) => l[m] \in 1..Len(titles) /\ titles[l[m]] = m
ReOut(l, acc, k) ==
    /\ acc \in ReOutline /\ (acc.fence <=> ReFences(l, k) % 2 = 1)
    /\ acc.start >= 1 /\ acc.start <= k + 1 /\ (k > 0 => acc.start <= k)
    /\ \A h \in ReHeads(l) : ~(acc.start < h /\ h <= k)
    /\ ReCover(acc.segments, acc.start)
    /\ ReEven(l) => ReTitled(l, acc.segments) /\ ReOpen(l, acc.titles, k)

\* The fences up to a line are counted line by line.
LEMMA ReFenceCount ==
  ASSUME NEW l, NEW k \in Nat
  PROVE  /\ ReFences(l, k) \in Nat /\ ReFences(l, 0) = 0
         /\ ReFences(l, k + 1) = ReFences(l, k) + (IF l[k + 1] = 9 THEN 1 ELSE 0)
  <1> DEFINE S == {m \in 1..k : l[m] = 9}
             S1 == {m \in 1..(k + 1) : l[m] = 9}
             S0 == {m \in 1..0 : l[m] = 9}
  <1>1. IsFiniteSet(1..k) /\ S \in SUBSET (1..k)
    BY FS_Interval
  <1>2. S1 = (IF l[k + 1] = 9 THEN S \cup {k + 1} ELSE S) /\ k + 1 \notin S /\ S0 = {}
    OBVIOUS
  <1>3. ReFences(l, k) = Cardinality(S) /\ ReFences(l, k + 1) = Cardinality(S1) /\ ReFences(l, 0) = Cardinality(S0)
    BY DEF ReFences
  <1> HIDE DEF S, S1, S0
  <1>4. IsFiniteSet(S)
    BY <1>1, FS_Subset
  <1>5. Cardinality(S) \in Nat /\ Cardinality(S0) = 0 /\ Cardinality(S \cup {k + 1}) = Cardinality(S) + 1
    BY <1>2, <1>4, FS_CardinalityType, FS_EmptySet, FS_AddElement
  <1> QED
    BY <1>2, <1>3, <1>5

\* What is no heading encloses nothing and ends nothing.
LEMMA ReSkips ==
  ASSUME NEW l \in ReLines, NEW k \in Nat, k + 1 \notin ReHeads(l)
  PROVE  \A m : ReEncl(l, m, k + 1) <=> ReEncl(l, m, k)
  <1>1. ReHeads(l) \subseteq Nat
    BY DEF ReHeads, ReLines
  <1> HIDE DEF ReHeads
  <1>2. \A h \in ReHeads(l) : h \in Nat /\ (h <= k + 1 <=> h <= k)
    BY <1>1
  <1> QED
    BY <1>2 DEF ReEncl

\* The segment up to line k is added to the others.
LEMMA ReFlush ==
  ASSUME NEW l \in ReLines, NEW acc, NEW k \in Nat, ReOut(l, acc, k)
  PROVE  LET segs == Re!Flushed(acc, k + 1) IN
         segs \in Seq(ReSegment) /\ ReCover(segs, k + 1) /\ (ReEven(l) => ReTitled(l, segs))
  <1> DEFINE segs == Re!Flushed(acc, k + 1)
             before == acc.segments
             n == Len(before)
             new == [from |-> acc.start, to |-> k, titles |-> acc.titles]
  <1>1. /\ before \in Seq(ReSegment) /\ acc.titles \in Seq(Nat) /\ acc.start \in Nat /\ n \in Nat
        /\ acc.start >= 1 /\ acc.start <= k + 1
        /\ \A h \in ReHeads(l) : ~(acc.start < h /\ h <= k)
        /\ ReCover(before, acc.start) /\ (ReEven(l) => ReTitled(l, before) /\ ReOpen(l, acc.titles, k))
    BY DEF ReOut, ReOutline
  <1>2. CASE ~(acc.start < k + 1)
    <2>1. segs = before /\ acc.start = k + 1
      BY <1>1, <1>2 DEF Re!Flushed
    <2> QED
      BY <1>1, <2>1
  <1>3. CASE acc.start < k + 1
    <2>1. segs = Append(before, new)
      BY <1>1, <1>3 DEF Re!Flushed
    <2>2. new \in ReSegment /\ new.from = acc.start /\ new.to = k /\ new.titles = acc.titles /\ acc.start <= k
      BY <1>1, <1>3 DEF ReSegment
    <2> HIDE DEF segs, new
    <2>3. segs \in Seq(ReSegment) /\ Len(segs) = n + 1 /\ segs[n + 1] = new /\ \A i \in 1..n : segs[i] = before[i]
      BY <1>1, <2>1, <2>2
    <2>4. \A i \in 1..n : before[i].from \in Nat /\ before[i].to \in Nat
      <3>1. \A i \in 1..n : before[i] \in ReSegment
        BY <1>1
      <3> QED
        BY <3>1 DEF ReSegment
    <2>5. \A i \in 1..n : 1 <= before[i].from /\ before[i].from <= before[i].to /\ before[i].to < acc.start
      BY <1>1 DEF ReCover
    <2> HIDE DEF n, before
    <2>6. ASSUME NEW i \in 1..Len(segs)
          PROVE  1 <= segs[i].from /\ segs[i].from <= segs[i].to /\ segs[i].to < k + 1
      <3>1. CASE i = n + 1
        BY <1>1, <2>2, <2>3, <3>1
      <3>2. CASE i \in 1..n
        <4> DEFINE x == before[i].to
        <4>1. x \in Nat /\ x < acc.start /\ 1 <= before[i].from /\ before[i].from <= x /\ segs[i] = before[i]
          BY <2>3, <2>4, <2>5, <3>2
        <4> HIDE DEF x
        <4>2. x < k + 1
          BY <1>1, <2>2, <4>1
        <4> QED
          BY <4>1, <4>2 DEF x
      <3> QED
        BY <1>1, <2>3, <3>1, <3>2
    <2>7. ASSUME NEW i \in 1..Len(segs), NEW j \in 1..Len(segs), i < j PROVE segs[i].to < segs[j].from
      <3>1. i \in 1..n
        BY <1>1, <2>3, <2>7
      <3>2. CASE j = n + 1
        BY <2>2, <2>3, <2>5, <3>1, <3>2
      <3>3. CASE j \in 1..n
        BY <1>1, <2>3, <2>7, <3>1, <3>3 DEF ReCover, n, before
      <3> QED
        BY <1>1, <2>3, <3>2, <3>3
    <2>8. ASSUME NEW x \in Nat, 1 <= x, x < k + 1
          PROVE  \E i \in 1..Len(segs) : segs[i].from <= x /\ x <= segs[i].to
      <3>1. CASE x < acc.start
        <4>1. PICK i \in 1..n : before[i].from <= x /\ x <= before[i].to
          BY <1>1, <2>8, <3>1 DEF ReCover, n, before
        <4> QED
          BY <1>1, <2>3, <4>1
      <3>2. CASE ~(x < acc.start)
        <4>1. n + 1 \in 1..Len(segs)
          BY <1>1, <2>3
        <4> QED
          BY <1>1, <2>2, <2>3, <2>8, <3>2, <4>1
      <3> QED
        BY <3>1, <3>2
    <2>9. ReCover(segs, k + 1)
      BY <2>6, <2>7, <2>8 DEF ReCover
    <2>10. ASSUME ReEven(l) PROVE ReTitled(l, segs)
      <3>1. \A m : ReEncl(l, m, k) <=> ReEncl(l, m, acc.start)
        <4>1. ReHeads(l) \subseteq Nat
          BY DEF ReHeads, ReLines
        <4> HIDE DEF ReHeads
        <4>2. \A h \in ReHeads(l) : h \in Nat /\ (h <= k <=> h <= acc.start)
          BY <1>1, <2>2, <4>1
        <4> QED
          BY <4>2 DEF ReEncl
      <3>2. \A m : m \in ReRange(acc.titles) <=> ReEncl(l, m, k)
        <4>1. DOMAIN acc.titles = 1..Len(acc.titles)
          BY <1>1
        <4>2. ReOpen(l, acc.titles, k)
          BY <1>1, <2>10
        <4>3. ASSUME NEW m, m \in ReRange(acc.titles) PROVE ReEncl(l, m, k)
          BY <4>1, <4>2, <4>3 DEF ReRange, ReOpen
        <4>4. ASSUME NEW m, ReEncl(l, m, k) PROVE m \in ReRange(acc.titles)
          BY <4>1, <4>2, <4>4 DEF ReRange, ReOpen
        <4> QED
          BY <4>3, <4>4
      <3>3. ASSUME NEW i \in 1..Len(segs), NEW m PROVE m \in ReRange(segs[i].titles) <=> ReEncl(l, m, segs[i].from)
        <4>1. CASE i = n + 1
          BY <2>2, <2>3, <3>1, <3>2, <4>1
        <4>2. CASE i \in 1..n
          BY <1>1, <2>3, <2>10, <4>2 DEF ReTitled, n, before
        <4> QED
          BY <1>1, <2>3, <4>1, <4>2
      <3> QED
        BY <3>3 DEF ReTitled
    <2> QED
      BY <2>3, <2>9, <2>10 DEF segs
  <1> QED
    BY <1>2, <1>3

\* A line that is no heading leaves everything but the fence.
LEMMA ReLineRests ==
  ASSUME NEW l \in ReLines, NEW acc, NEW new, NEW k \in Nat, ReOut(l, acc, k), k + 1 \notin ReHeads(l),
         new \in ReOutline, new.segments = acc.segments, new.titles = acc.titles, new.start = acc.start,
         new.fence <=> ReFences(l, k + 1) % 2 = 1
  PROVE  ReOut(l, new, k + 1)
  <1>1. /\ acc.start \in Nat /\ acc.start >= 1 /\ acc.start <= k + 1 /\ (k > 0 => acc.start <= k)
        /\ \A h \in ReHeads(l) : ~(acc.start < h /\ h <= k)
        /\ ReCover(acc.segments, acc.start) /\ (ReEven(l) => ReTitled(l, acc.segments) /\ ReOpen(l, acc.titles, k))
    BY DEF ReOut, ReOutline
  <1>2. \A h \in ReHeads(l) : h \in Nat
    BY DEF ReHeads, ReLines
  <1>3. \A h \in ReHeads(l) : ~(acc.start < h /\ h <= k + 1)
    <2> HIDE DEF ReHeads
    <2> QED
      BY <1>1, <1>2
  <1>4. ReOpen(l, acc.titles, k) => ReOpen(l, acc.titles, k + 1)
    BY ReSkips DEF ReOpen
  <1>5. acc.start <= (k + 1) + 1 /\ acc.start <= k + 1
    BY <1>1
  <1> QED
    BY <1>1, <1>3, <1>4, <1>5 DEF ReOut

\* The first titles.
LEMMA RePrefix ==
  ASSUME NEW s \in Seq(Nat), NEW m \in Nat, m <= Len(s)
  PROVE  SubSeq(s, 1, m) \in Seq(Nat) /\ Len(SubSeq(s, 1, m)) = m /\ \A j \in 1..m : SubSeq(s, 1, m)[j] = s[j]
  OBVIOUS

\* One title more.
LEMMA ReLonger ==
  ASSUME NEW s \in Seq(Nat), NEW x \in Nat
  PROVE  /\ Append(s, x) \in Seq(Nat) /\ Len(Append(s, x)) = Len(s) + 1 /\ Append(s, x)[Len(s) + 1] = x
         /\ \A j \in 1..Len(s) : Append(s, x)[j] = s[j]
  OBVIOUS

\* A heading ends the segment before it and takes its place among the titles.
LEMMA ReHeading ==
  ASSUME NEW l \in ReLines, NEW acc, NEW k \in Nat, ReOut(l, acc, k), k + 1 \in ReHeads(l)
  PROVE  ReOut(l, [segments |-> Re!Flushed(acc, k + 1), titles |-> Re!Under(acc.titles, l[k + 1], k + 1),
                   start |-> k + 1, fence |-> acc.fence], k + 1)
  <1> DEFINE n == k + 1
             d == l[n]
             titles == acc.titles
             new == Re!Under(titles, d, n)
             segs == Re!Flushed(acc, n)
             a == [segments |-> segs, titles |-> new, start |-> n, fence |-> acc.fence]
  <1>1. /\ titles \in Seq(Nat) /\ acc.fence \in BOOLEAN /\ (acc.fence <=> ReFences(l, k) % 2 = 1)
        /\ (ReEven(l) => ReOpen(l, titles, k)) /\ n \in Nat /\ Len(titles) \in Nat
    BY DEF ReOut, ReOutline
  <1>2. d \in 1..3 /\ n >= 1
    BY DEF ReHeads
  <1>3. segs \in Seq(ReSegment) /\ ReCover(segs, n) /\ (ReEven(l) => ReTitled(l, segs))
    BY ReFlush
  <1> HIDE DEF segs
  <1>4. ReFences(l, n) = ReFences(l, k)
    <2>1. l[n] # 9 /\ ReFences(l, k) \in Nat
      BY <1>2, ReFenceCount
    <2> QED
      BY <2>1, ReFenceCount
  <1> DEFINE m == Re!Lower(d - 1, Len(titles))
             kept == SubSeq(titles, 1, m)
  <1>5. m \in Nat /\ m <= Len(titles) /\ m <= d - 1 /\ new = Append(kept, n)
    BY <1>1, <1>2 DEF Re!Lower, Re!Under
  <1>6. /\ kept \in Seq(Nat) /\ Len(kept) = m /\ \A j \in 1..m : kept[j] = titles[j]
    <2> HIDE DEF m, titles
    <2> QED
      BY <1>1, <1>5, RePrefix
  <1> HIDE DEF new, kept, n
  <1>7. /\ new \in Seq(Nat) /\ Len(new) = m + 1 /\ new[m + 1] = n /\ \A j \in 1..m : new[j] = titles[j]
    <2> HIDE DEF m, titles
    <2>1. Len(kept) = m /\ new = Append(kept, n) /\ kept \in Seq(Nat) /\ n \in Nat
      BY <1>1, <1>5, <1>6
    <2>2. /\ new \in Seq(Nat) /\ Len(new) = Len(kept) + 1 /\ new[Len(kept) + 1] = n
          /\ \A j \in 1..Len(kept) : new[j] = kept[j]
      BY <2>1, ReLonger
    <2> QED
      BY <1>6, <2>1, <2>2
  <1>8. \A h \in ReHeads(l) : h \in Nat /\ l[h] \in Nat
    BY DEF ReHeads, ReLines
  <1>9. a \in ReOutline /\ a.segments = segs /\ a.titles = new /\ a.start = n /\ a.fence = acc.fence
    BY <1>1, <1>3, <1>7 DEF ReOutline
  <1>10. \A h \in ReHeads(l) : ~(n < h /\ h <= n)
    BY <1>1, <1>8
  <1>11. ASSUME ReEven(l) PROVE ReOpen(l, new, n)
    <2>0. n \in ReHeads(l) /\ k < n /\ n = k + 1
      BY DEF n
    <2>1. ReOpen(l, titles, k)
      BY <1>1, <1>11
    <2>2. ASSUME NEW x PROVE ReEncl(l, x, n) <=> x = n \/ (ReEncl(l, x, k) /\ l[x] < d)
      <3>1. CASE x \notin ReHeads(l)
        BY <2>0, <3>1 DEF ReEncl
      <3>2. CASE x \in ReHeads(l)
        <4> HIDE DEF d
        <4>0. d \in Nat /\ d = l[n]
          BY <1>2 DEF d
        <4>1. \A h \in ReHeads(l) : h \in Nat /\ (h <= n <=> h <= k \/ h = n)
          BY <1>8, <2>0
        <4>2. CASE x = n
          BY <1>10, <2>0, <3>2, <4>1, <4>2 DEF ReEncl
        <4>3. CASE x # n
          <5>1. ReEncl(l, x, n) => ReEncl(l, x, k)
            BY <4>1, <4>3 DEF ReEncl
          <5>2. ReEncl(l, x, n) => l[x] < d
            BY <1>8, <2>0, <3>2, <4>0, <4>1, <4>3 DEF ReEncl
          <5>3. ReEncl(l, x, k) /\ l[x] < d => ReEncl(l, x, n)
            BY <1>8, <2>0, <3>2, <4>0, <4>1, <4>3 DEF ReEncl
          <5> QED
            BY <4>3, <5>1, <5>2, <5>3
        <4> QED
          BY <4>2, <4>3
      <3> QED
        BY <3>1, <3>2
    <2>3. m = d - 1
      <3>1. CASE d = 1
        BY <1>1, <1>5, <3>1
      <3>2. CASE d # 1
        <4>1. PICK x \in ReHeads(l) : x < n /\ ReEncl(l, x, n) /\ l[x] = d - 1
          BY <1>11, <2>0, <3>2 DEF ReEven
        <4>2. x # n
          BY <1>1, <1>8, <4>1
        <4>3. l[x] \in 1..Len(titles)
          BY <2>1, <2>2, <4>1, <4>2 DEF ReOpen
        <4> HIDE DEF d, titles
        <4>4. d - 1 <= Len(titles) /\ d \in Nat /\ d >= 1
          BY <1>1, <1>2, <4>1, <4>3 DEF d
        <4> QED
          BY <1>1, <4>4 DEF Re!Lower
      <3> QED
        BY <3>1, <3>2
    <2> HIDE DEF m, titles, d
    <2>4. ASSUME NEW j \in 1..Len(new) PROVE ReEncl(l, new[j], n) /\ l[new[j]] = j
      <3>1. CASE j = m + 1
        <4>1. new[j] = n /\ j = d
          BY <1>2, <1>7, <2>3, <3>1 DEF d
        <4> QED
          BY <2>2, <4>1 DEF d
      <3>2. CASE j \in 1..m
        <4>1. j \in 1..Len(titles) /\ new[j] = titles[j] /\ j < d
          <5>1. j \in Nat /\ j >= 1 /\ j <= m /\ m \in Nat /\ d \in Nat /\ m <= Len(titles)
            BY <1>2, <1>5, <3>2
          <5>2. j < d /\ j \in 1..Len(titles)
            BY <1>1, <2>3, <5>1
          <5> QED
            BY <1>7, <3>2, <5>2
        <4>2. ReEncl(l, titles[j], k) /\ l[titles[j]] = j
          BY <2>1, <4>1 DEF ReOpen
        <4> QED
          BY <2>2, <4>1, <4>2
      <3> QED
        BY <1>5, <1>7, <3>1, <3>2
    <2>5. ASSUME NEW x, ReEncl(l, x, n) PROVE l[x] \in 1..Len(new) /\ new[l[x]] = x
      <3>0. d \in Nat /\ d >= 1 /\ Len(new) = d /\ new[d] = n /\ d = l[n]
        <4>1. d \in Nat /\ d >= 1 /\ Len(new) = m + 1 /\ m + 1 = d
          BY <1>2, <1>5, <1>7, <2>3
        <4> QED
          BY <1>7, <4>1 DEF d
      <3>1. CASE x = n
        BY <3>0, <3>1
      <3>2. CASE x # n
        <4>1. ReEncl(l, x, k) /\ l[x] < d
          BY <2>2, <2>5, <3>2
        <4>2. l[x] \in 1..Len(titles) /\ titles[l[x]] = x
          BY <2>1, <4>1 DEF ReOpen
        <4> DEFINE y == l[x]
        <4>3. y \in 1..Len(titles) /\ titles[y] = x /\ y < d
          BY <4>1, <4>2
        <4> HIDE DEF y
        <4>4. y \in 1..m /\ y \in 1..Len(new)
          <5>1. y \in Nat /\ y >= 1 /\ y < d /\ m \in Nat
            BY <1>1, <1>5, <4>3
          <5> QED
            BY <2>3, <3>0, <5>1
        <4>5. new[y] = x
          BY <1>7, <4>3, <4>4
        <4> QED
          BY <4>4, <4>5 DEF y
      <3> QED
        BY <3>1, <3>2
    <2> QED
      BY <2>4, <2>5 DEF ReOpen
  <1>12. n <= n + 1 /\ n <= n
    BY <1>1
  <1> HIDE DEF a, m, titles, d
  <1>13. ReOut(l, a, n)
    BY <1>1, <1>2, <1>3, <1>4, <1>9, <1>10, <1>11, <1>12 DEF ReOut
  <1> QED
    BY <1>13 DEF a, new, segs, n, titles, d

\* Every line keeps what is known of the lines before it.
LEMMA ReLineKeeps ==
  ASSUME NEW l \in ReLines, NEW acc, NEW k \in Nat, ReOut(l, acc, k), k + 1 \in DOMAIN l
  PROVE  ReOut(l, Re!Line(acc, l[k + 1], k + 1), k + 1)
  <1> DEFINE n == k + 1
             new == Re!Line(acc, l[n], n)
  <1>1. /\ acc = [segments |-> acc.segments, titles |-> acc.titles, start |-> acc.start, fence |-> acc.fence]
        /\ acc \in ReOutline /\ acc.fence \in BOOLEAN /\ (acc.fence <=> ReFences(l, k) % 2 = 1)
    BY DEF ReOut, ReOutline
  <1>2. l[n] \in {0, 1, 2, 3, 9} /\ ReFences(l, k) \in Nat
        /\ ReFences(l, n) = ReFences(l, k) + (IF l[n] = 9 THEN 1 ELSE 0)
    BY ReFenceCount DEF ReLines
  <1>3. n \in ReHeads(l) <=> l[n] \in 1..3 /\ ReFences(l, n) % 2 = 0
    BY DEF ReHeads
  <1>4. CASE l[n] = 9
    <2>1. new = [segments |-> acc.segments, titles |-> acc.titles, start |-> acc.start, fence |-> ~acc.fence]
      BY <1>1, <1>4 DEF Re!Line, Re!Fence
    <2>2. new \in ReOutline /\ (new.fence <=> ReFences(l, n) % 2 = 1) /\ n \notin ReHeads(l)
      <3>1. ReFences(l, n) % 2 = 1 <=> ~(ReFences(l, k) % 2 = 1)
        BY <1>2, <1>4
      <3> DEFINE flip == ~acc.fence
      <3>1a. flip \in BOOLEAN /\ acc.segments \in Seq(ReSegment) /\ acc.titles \in Seq(Nat) /\ acc.start \in Nat
        BY <1>1 DEF ReOutline
      <3>1b. new = [segments |-> acc.segments, titles |-> acc.titles, start |-> acc.start, fence |-> flip]
        BY <2>1
      <3> HIDE DEF flip, new
      <3>2. new.fence <=> flip
        BY <3>1a, <3>1b
      <3>3. new \in ReOutline
        BY <3>1a, <3>1b DEF ReOutline
      <3> USE DEF flip
      <3>4. n \notin ReHeads(l)
        BY <1>3, <1>4
      <3> HIDE DEF new
      <3> QED
        BY <1>1, <3>1, <3>2, <3>3, <3>4
    <2>3. new.segments = acc.segments /\ new.titles = acc.titles /\ new.start = acc.start
      BY <2>1
    <2> HIDE DEF new
    <2>4. ReOut(l, new, n)
      BY <2>2, <2>3, ReLineRests
    <2> QED
      BY <2>4 DEF new
  <1>5. CASE l[n] # 9 /\ (l[n] = 0 \/ acc.fence)
    <2>1. new = acc
      BY <1>5 DEF Re!Line, Re!Fence
    <2>2. ReFences(l, n) = ReFences(l, k)
      BY <1>2, <1>5
    <2>3. n \notin ReHeads(l)
      BY <1>1, <1>2, <1>3, <1>5, <2>2
    <2> HIDE DEF new
    <2>4. ReOut(l, acc, n)
      BY <1>1, <2>2, <2>3, ReLineRests
    <2> QED
      BY <2>1, <2>4 DEF new
  <1>6. CASE ~(l[n] = 9) /\ ~(l[n] = 0 \/ acc.fence)
    <2>1. new = [segments |-> Re!Flushed(acc, n), titles |-> Re!Under(acc.titles, l[n], n), start |-> n, fence |-> acc.fence]
      BY <1>1, <1>6 DEF Re!Line, Re!Fence
    <2>2. n \in ReHeads(l)
      <3>1. l[n] \in 1..3
        BY <1>2, <1>6
      <3>2. ReFences(l, n) % 2 = 0
        BY <1>1, <1>2, <1>6
      <3> QED
        BY <1>3, <3>1, <3>2
    <2> QED
      BY <2>1, <2>2, ReHeading
  <1> QED
    BY <1>4, <1>5, <1>6

\* The run over the lines of a text.
ReBegin == [segments |-> <<>>, titles |-> <<>>, start |-> 1, fence |-> FALSE]
ReReads(l, t) == t[0] = ReBegin /\ \A k \in 1..Len(l) : t[k] = Re!Line(t[k - 1], l[k], k)
ReSegmented(l) == \E t \in [0..Len(l) -> ReOutline] :
                      ReReads(l, t) /\ Re!Segments(l) = Re!Flushed(t[Len(l)], Len(l) + 1)

\* A line keeps the types.
LEMMA ReLineTypes ==
  ASSUME NEW acc \in ReOutline, NEW line \in {0, 1, 2, 3, 9}, NEW n \in Nat, n >= 1
  PROVE  Re!Line(acc, line, n) \in ReOutline
  <1>1. /\ acc = [segments |-> acc.segments, titles |-> acc.titles, start |-> acc.start, fence |-> acc.fence]
        /\ acc.segments \in Seq(ReSegment) /\ acc.titles \in Seq(Nat) /\ acc.start \in Nat /\ acc.fence \in BOOLEAN
    BY DEF ReOutline
  <1> DEFINE segs == Re!Flushed(acc, n)
             new == Re!Under(acc.titles, line, n)
             new0 == Re!Line(acc, line, n)
  <1>2. CASE line = 9
    <2> DEFINE flip == ~acc.fence
    <2>1. flip \in BOOLEAN
      OBVIOUS
    <2>2. new0 = [segments |-> acc.segments, titles |-> acc.titles, start |-> acc.start, fence |-> flip]
      BY <1>1, <1>2 DEF Re!Line, Re!Fence
    <2> HIDE DEF flip, new0
    <2>3. new0 \in ReOutline
      BY <1>1, <2>1, <2>2 DEF ReOutline
    <2> QED
      BY <2>3 DEF new0
  <1>3. CASE line # 9 /\ (line = 0 \/ acc.fence)
    BY <1>3 DEF Re!Line, Re!Fence
  <1>4. CASE ~(line = 9) /\ ~(line = 0 \/ acc.fence)
    <2>1. new0 = [segments |-> segs, titles |-> new, start |-> n, fence |-> acc.fence]
      BY <1>1, <1>4 DEF Re!Line, Re!Fence
    <2>2. segs \in Seq(ReSegment)
      <3> DEFINE s == [from |-> acc.start, to |-> n - 1, titles |-> acc.titles]
      <3>1. s \in ReSegment /\ segs = (IF acc.start < n THEN Append(acc.segments, s) ELSE acc.segments)
        BY <1>1 DEF Re!Flushed, ReSegment
      <3> HIDE DEF s, segs
      <3> QED
        BY <1>1, <3>1
    <2>3. new \in Seq(Nat)
      <3> DEFINE kept == SubSeq(acc.titles, 1, Re!Lower(line - 1, Len(acc.titles)))
      <3>1. kept \in Seq(Nat)
        <4> DEFINE m == Re!Lower(line - 1, Len(acc.titles))
        <4>1. line - 1 \in Nat /\ Len(acc.titles) \in Nat
          BY <1>1, <1>4
        <4>2. m \in Nat /\ m <= Len(acc.titles)
          BY <4>1 DEF Re!Lower
        <4> HIDE DEF m
        <4> QED
          BY <1>1, <4>2, RePrefix DEF m
      <3>2. new = Append(kept, n)
        BY DEF Re!Under
      <3> HIDE DEF kept, new
      <3> QED
        BY <3>1, <3>2, ReLonger
    <2> HIDE DEF segs, new, new0
    <2>4. new0 \in ReOutline
      BY <1>1, <2>1, <2>2, <2>3 DEF ReOutline
    <2> QED
      BY <2>4 DEF new0
  <1> QED
    BY <1>2, <1>3, <1>4

\* The segments come from the last value of the run over the lines.
LEMMA ReLinesAreRead == ASSUME NEW l \in ReLines PROVE ReSegmented(l)
  <1> DEFINE n == Len(l)
             q == [k \in DOMAIN l |-> k]
             step == [i \in 1..n |-> [x \in ReOutline |-> Re!Line(x, l[i], i)]]
             Runs(f) == f = [s \in SUBSET DOMAIN q |->
                                IF s = {} THEN ReBegin
                                ELSE Re!Line(f[s \ {Greatest(s)}], l[q[Greatest(s)]], q[Greatest(s)])]
  <1>1. n \in Nat /\ DOMAIN l = 1..n /\ DOMAIN q = 1..n /\ \A i \in 1..n : q[i] = i /\ i \in Nat /\ i >= 1
    <2>1. PICK m \in Nat : l \in [1..m -> {0, 1, 2, 3, 9}]
      BY DEF ReLines
    <2> QED
      BY <2>1
  <1>1a. ReBegin \in ReOutline
    BY DEF ReBegin, ReOutline
  <1>2. Re!Segments(l) = Re!Flushed((CHOOSE f : Runs(f))[DOMAIN q], n + 1)
    BY DEF Re!Segments, Re!FoldLeft, Re!MapThenFoldSet, Re!Max, Greatest, ReBegin
  <1> HIDE DEF q
  <1>3. step \in [1..n -> [ReOutline -> ReOutline]]
    <2>1. \A i \in 1..n : l[i] \in {0, 1, 2, 3, 9}
      BY <1>1 DEF ReLines
    <2> QED
      BY <1>1, <2>1, ReLineTypes
  <1>4a. PICK g \in [SUBSET (1..n) -> ReOutline], t \in [0..n -> ReOutline] : RunsLeft(g, t, n, ReBegin, step)
    <2> HIDE DEF step, n
    <2> QED
      BY <1>1, <1>1a, <1>3, FoldFromLeft
  <1>4. /\ \A s \in SUBSET (1..n) : g[s] = IF s = {} THEN ReBegin ELSE step[Greatest(s)][g[s \ {Greatest(s)}]]
        /\ t[0] = ReBegin /\ \A k \in 1..n : t[k] = step[k][t[k - 1]]
        /\ \A f : Agrees(f, g, n, Greatest) => f[1..n] = t[n]
    BY <1>4a DEF RunsLeft
  <1>5. \A s \in SUBSET (1..n) : s # {} => Greatest(s) \in 1..n /\ g[s \ {Greatest(s)}] \in ReOutline
    BY <1>1, <1>4, GreatestIs
  <1>6. \A s \in SUBSET (1..n) :
            g[s] = IF s = {} THEN ReBegin ELSE Re!Line(g[s \ {Greatest(s)}], l[Greatest(s)], Greatest(s))
    BY <1>1, <1>4, <1>5
  <1>6a. Runs(g)
    BY <1>1, <1>5, <1>6
  <1>7. Runs(CHOOSE f : Runs(f))
    <2> HIDE DEF Runs
    <2> QED
      BY <1>6a
  <1> DEFINE f == CHOOSE f : Runs(f)
  <1>8. Agrees(f, g, n, Greatest)
    <2> HIDE DEF f
    <2>1. \A s \in SUBSET (1..n) :
            f[s] = IF s = {} THEN ReBegin ELSE Re!Line(f[s \ {Greatest(s)}], l[Greatest(s)], Greatest(s))
      <3>1. \A s \in SUBSET (1..n) :
              f[s] = IF s = {} THEN ReBegin
                     ELSE Re!Line(f[s \ {Greatest(s)}], l[q[Greatest(s)]], q[Greatest(s)])
        BY <1>1, <1>7 DEF f
      <3>2. \A s \in SUBSET (1..n) : s # {} => q[Greatest(s)] = Greatest(s)
        BY <1>1, <1>5
      <3> QED
        BY <3>1, <3>2
    <2> QED
      BY <1>6, <2>1 DEF Agrees
  <1>9. f[DOMAIN q] = t[n]
    <2> HIDE DEF f
    <2> QED
      BY <1>1, <1>4, <1>8
  <1>10. ReReads(l, t)
    <2>1. ASSUME NEW k \in 1..n PROVE t[k] = Re!Line(t[k - 1], l[k], k)
      <3>1. k - 1 \in 0..n /\ t[k - 1] \in ReOutline
        BY <1>1
      <3> QED
        BY <1>4, <3>1
    <2> QED
      BY <1>4, <2>1 DEF ReReads
  <1>11. Re!Segments(l) = Re!Flushed(t[n], n + 1)
    BY <1>2, <1>9
  <1> QED
    BY <1>10, <1>11 DEF ReSegmented

\* The segments of all lines.
LEMMA ReOutlined ==
  ASSUME NEW l \in ReLines
  PROVE  LET segs == Re!Segments(l) IN
         segs \in Seq(ReSegment) /\ ReCover(segs, Len(l) + 1) /\ (ReEven(l) => ReTitled(l, segs))
  <1> DEFINE n == Len(l)
             segs == Re!Segments(l)
  <1>0. n \in Nat /\ DOMAIN l = 1..n
    BY DEF ReLines
  <1>1a. ReSegmented(l)
    BY ReLinesAreRead
  <1>1. PICK t \in [0..n -> ReOutline] : ReReads(l, t) /\ segs = Re!Flushed(t[n], n + 1)
    BY <1>1a DEF ReSegmented
  <1> HIDE DEF segs
  <1> DEFINE T == {k \in 0..n : ReOut(l, t[k], k)}
  <1>2. 0 \in T /\ n \in 0..n
    <2>1. t[0] = ReBegin /\ 0 \in 0..n
      BY <1>0, <1>1 DEF ReReads
    <2>2. ReBegin \in ReOutline /\ ReBegin.fence = FALSE /\ ReBegin.start = 1 /\ ReBegin.segments = <<>> /\ ReBegin.titles = <<>>
      BY DEF ReBegin, ReOutline
    <2>3. ReFences(l, 0) = 0
      BY ReFenceCount
    <2>4. \A h \in ReHeads(l) : h \in Nat /\ h >= 1
      BY DEF ReHeads, ReLines
    <2>5. ReCover(<<>>, 1) /\ ReTitled(l, <<>>)
      BY DEF ReCover, ReTitled
    <2>6. ReOpen(l, <<>>, 0)
      <3> HIDE DEF ReHeads
      <3> QED
        BY <2>4 DEF ReOpen, ReEncl
    <2>7. \A h \in ReHeads(l) : ~(1 < h /\ h <= 0)
      <3> HIDE DEF ReHeads
      <3> QED
        BY <2>4
    <2>8. ReOut(l, ReBegin, 0)
      BY <2>2, <2>3, <2>5, <2>6, <2>7 DEF ReOut
    <2> QED
      BY <1>0, <2>1, <2>8
  <1>3. ASSUME NEW k \in 0..n, k < n, k \in T PROVE k + 1 \in T
    <2> DEFINE m == k + 1
    <2>1. k \in Nat /\ m \in 0..n /\ m \in 1..n /\ m - 1 = k /\ m \in DOMAIN l
      BY <1>0, <1>3
    <2>2. ReOut(l, t[k], k)
      BY <1>3
    <2>3. ReOut(l, Re!Line(t[k], l[m], m), m)
      BY <2>1, <2>2, ReLineKeeps
    <2> HIDE DEF m
    <2>4. t[m] = Re!Line(t[k], l[m], m)
      BY <1>1, <2>1 DEF ReReads
    <2>5. m \in T
      BY <2>1, <2>3, <2>4
    <2> QED
      BY <2>5 DEF m
  <1>4. n \in T
    <2> HIDE DEF n, T
    <2> QED
      BY <1>0, <1>2, <1>3, Counting
  <1>5. ReOut(l, t[n], n)
    BY <1>4
  <1> HIDE DEF n
  <1>6. LET s == Re!Flushed(t[n], n + 1) IN
        s \in Seq(ReSegment) /\ ReCover(s, n + 1) /\ (ReEven(l) => ReTitled(l, s))
    BY <1>0, <1>5, ReFlush
  <1> QED
    BY <1>1, <1>6 DEF n, segs

\* What TitlesEnclose says of one layout and its segments.
ReEncloses(l, sg) ==
    LET heading == {n \in DOMAIN l : l[n] \in 1..3 /\ Re!Cardinality({m \in 1..n : l[m] = Re!Fence}) % 2 = 0}
        encloses(m, n) == m \in heading /\ m <= n /\ \A h \in heading \cap (m + 1..n) : l[h] > l[m]
        even == \A n \in heading : l[n] = 1 \/ \E m \in heading : m < n /\ encloses(m, n) /\ l[m] = l[n] - 1
    IN  /\ \A n \in DOMAIN l : \E i \in DOMAIN sg : n \in sg[i].from..sg[i].to /\ \A j \in DOMAIN sg \ {i} : n \notin sg[j].from..sg[j].to
        /\ even => \A i \in DOMAIN sg : {sg[i].titles[k] : k \in DOMAIN sg[i].titles} = {m \in heading : encloses(m, sg[i].from)}

\* The segments of a text take up all lines, each under the titles that enclose it.
LEMMA ReSegments == ASSUME Re!Segment PROVE Re!TitlesEnclose'
  <1>1. PICK l \in Re!Layouts : found' = [rule |-> "segment", lines |-> l, segments |-> Re!Segments(l)]
    BY DEF Re!Segment
  <1>2. l \in ReLines /\ DOMAIN l = 1..Len(l) /\ Len(l) \in Nat
    <2>1. PICK n \in 0..MaxLines : l \in [1..n -> {0, 1, 2, 3, 9}]
      BY DEF Re!Layouts, Re!Fence
    <2>2. n \in Nat
      BY RulesAssumption
    <2> QED
      BY <2>1, <2>2 DEF ReLines
  <1> DEFINE sg == Re!Segments(l)
  <1>3. sg \in Seq(ReSegment) /\ ReCover(sg, Len(l) + 1) /\ (ReEven(l) => ReTitled(l, sg)) /\ DOMAIN sg = 1..Len(sg)
    BY <1>2, ReOutlined
  <1> HIDE DEF sg
  <1> DEFINE heading == {n \in DOMAIN l : l[n] \in 1..3 /\ Re!Cardinality({m \in 1..n : l[m] = Re!Fence}) % 2 = 0}
             encloses(m, n) == m \in heading /\ m <= n /\ \A h \in heading \cap (m + 1..n) : l[h] > l[m]
             even == \A n \in heading : l[n] = 1 \/ \E m \in heading : m < n /\ encloses(m, n) /\ l[m] = l[n] - 1
  <1>4. heading = ReHeads(l)
    BY ReCardinality DEF ReHeads, ReFences, Re!Fence
  <1>5. heading \subseteq Nat
    BY <1>2, <1>4 DEF ReHeads
  <1> HIDE DEF heading
  <1>6. ASSUME NEW m, NEW n \in Nat PROVE encloses(m, n) <=> ReEncl(l, m, n)
    <2>1. CASE m \notin heading
      BY <1>4, <2>1 DEF ReEncl
    <2>2. CASE m \in heading
      <3>1. m \in Nat /\ \A h \in heading : h \in m + 1..n <=> m < h /\ h <= n
        BY <1>5, <2>2
      <3> QED
        BY <1>4, <3>1 DEF ReEncl
    <2> QED
      BY <2>1, <2>2
  <1>7. even => ReEven(l)
    BY <1>4, <1>5, <1>6 DEF ReEven
  <1>8. \A i \in DOMAIN sg : sg[i].from \in Nat /\ sg[i].to \in Nat
    <2>1. \A i \in DOMAIN sg : sg[i] \in ReSegment
      BY <1>3
    <2> QED
      BY <2>1 DEF ReSegment
  <1>9. ASSUME NEW n \in DOMAIN l
        PROVE  \E i \in DOMAIN sg : n \in sg[i].from..sg[i].to /\ \A j \in DOMAIN sg \ {i} : n \notin sg[j].from..sg[j].to
    <2>1. n \in Nat /\ 1 <= n /\ n < Len(l) + 1
      BY <1>2
    <2>2. PICK i \in DOMAIN sg : sg[i].from <= n /\ n <= sg[i].to
      BY <1>3, <2>1 DEF ReCover
    <2>3. n \in sg[i].from..sg[i].to
      BY <1>8, <2>1, <2>2
    <2>4. ASSUME NEW j \in DOMAIN sg, j # i, n \in sg[j].from..sg[j].to PROVE FALSE
      <3>1. sg[j].from <= n /\ n <= sg[j].to
        BY <1>8, <2>1, <2>4
      <3>2. i < j \/ j < i
        BY <1>3, <2>4
      <3>3. sg[i].to < sg[j].from \/ sg[j].to < sg[i].from
        BY <1>3, <3>2 DEF ReCover
      <3>4. sg[i].from \in Nat /\ sg[i].to \in Nat /\ sg[j].from \in Nat /\ sg[j].to \in Nat
        BY <1>8
      <3> QED
        BY <2>1, <2>2, <3>1, <3>3, <3>4
    <2> QED
      BY <2>3, <2>4
  <1>10. ASSUME even, NEW i \in DOMAIN sg
         PROVE  {sg[i].titles[k] : k \in DOMAIN sg[i].titles} = {m \in heading : encloses(m, sg[i].from)}
    <2>1. \A m : m \in ReRange(sg[i].titles) <=> ReEncl(l, m, sg[i].from)
      BY <1>3, <1>7, <1>10 DEF ReTitled
    <2>2. \A m : ReEncl(l, m, sg[i].from) => m \in heading
      BY <1>4 DEF ReEncl
    <2>3. \A m : encloses(m, sg[i].from) <=> ReEncl(l, m, sg[i].from)
      BY <1>6, <1>8
    <2> HIDE DEF encloses
    <2> QED
      BY <2>1, <2>2, <2>3 DEF ReRange
  <1>11. found'.lines = l /\ found'.segments = sg
    BY <1>1 DEF sg
  <1>12. ReEncloses(l, sg)
    BY <1>9, <1>10 DEF ReEncloses, heading
  <1>13. ReEncloses(found'.lines, found'.segments)
    BY <1>11, <1>12
  <1> QED
    BY <1>13 DEF Re!TitlesEnclose, ReEncloses

-----------------------------------------------------------------------------
(* The two components together, and the service *)

\* The invariants of the two components.
MjInv == Mj!TypeOK /\ Mj!ColoursAreEarned /\ Mj!ScoresStayCoherent /\ Mj!ContextIsRecent
ReInv == ReCutInv /\ Re!TypeOK /\ Re!TitlesEnclose /\ Re!NamedDocumentsFirst /\ Re!HitsComeFirst

\* What ContextIsRecent says of one context.
MjIsRecent(items, r) ==
    /\ Mj!Total(r.chosen) <= MAX_CHARS
    /\ \E k \in 0..Len(items), place \in [DOMAIN r.chosen -> DOMAIN items] :
        /\ Len(items) - k <= MAX_ITEMS
        /\ \A i, j \in DOMAIN place : i < j => place[i] < place[j]
        /\ {place[i] : i \in DOMAIN place} = {n \in k + 1..Len(items) : items[n] > 0}
        /\ \A i \in DOMAIN place : r.chosen[i] = items[place[i]]
    /\ (r.omitted <=> Len(r.chosen) < Len(items))

\* The two properties with more than one quantifier stay while nothing changes.
LEMMA MjRests == ASSUME UNCHANGED judged, Mj!ContextIsRecent PROVE Mj!ContextIsRecent'
  <1>1. judged # None /\ judged.rule = "context" => MjIsRecent(judged.input[1], judged.result)
    BY DEF Mj!By, Mj!ContextIsRecent, MjIsRecent
  <1>2. judged' # None /\ judged'.rule = "context" => MjIsRecent(judged'.input[1], judged'.result)
    BY <1>1
  <1> QED
    BY <1>2 DEF Mj!By, Mj!ContextIsRecent, MjIsRecent

\* The titles stay while nothing changes.
LEMMA ReRests == ASSUME UNCHANGED found, Re!TitlesEnclose PROVE Re!TitlesEnclose'
  <1>1. found # None /\ found.rule = "segment" => ReEncloses(found.lines, found.segments)
    BY DEF Re!TitlesEnclose, ReEncloses
  <1>2. found' # None /\ found'.rule = "segment" => ReEncloses(found'.lines, found'.segments)
    BY <1>1
  <1> QED
    BY <1>2 DEF Re!TitlesEnclose, ReEncloses

\* Nothing is judged in the beginning.
LEMMA MjInit == Mj!Init => MjInv
  BY DEF Mj!Init, MjInv, Mj!TypeOK, Mj!By, Mj!ColoursAreEarned, Mj!ScoresStayCoherent, Mj!ContextIsRecent

\* Every judgement keeps the invariant of MeetingJudgement.
LEMMA MjStep == ASSUME MjInv, [Mj!Next]_(Mj!mjVars) PROVE MjInv'
  <1>1. CASE UNCHANGED Mj!mjVars
    <2>1. judged' = judged
      BY <1>1 DEF Mj!mjVars
    <2> QED
      BY <2>1, MjRests DEF MjInv, Mj!TypeOK, Mj!By, Mj!ColoursAreEarned, Mj!ScoresStayCoherent
  <1>2. CASE Mj!ValidatePopup
    <2>1. judged'.rule = "popup"
      BY <1>2 DEF Mj!ValidatePopup
    <2>2. Mj!TypeOK' /\ Mj!ScoresStayCoherent' /\ Mj!ContextIsRecent'
      BY <2>1 DEF Mj!TypeOK, Mj!By, Mj!ScoresStayCoherent, Mj!ContextIsRecent
    <2>3. Mj!ColoursAreEarned'
      BY <1>2, MjColours
    <2> QED
      BY <2>2, <2>3 DEF MjInv
  <1>3. CASE Mj!Classify
    <2>1. judged'.rule = "score"
      BY <1>3 DEF Mj!Classify
    <2>2. Mj!TypeOK' /\ Mj!ColoursAreEarned' /\ Mj!ContextIsRecent'
      BY <2>1 DEF Mj!TypeOK, Mj!By, Mj!ColoursAreEarned, Mj!ContextIsRecent
    <2>3. Mj!ScoresStayCoherent'
      BY <1>3, MjScores
    <2> QED
      BY <2>2, <2>3 DEF MjInv
  <1>4. CASE Mj!BoundContext
    <2>1. judged'.rule = "context"
      BY <1>4 DEF Mj!BoundContext
    <2>2. Mj!TypeOK' /\ Mj!ColoursAreEarned' /\ Mj!ScoresStayCoherent'
      BY <2>1 DEF Mj!TypeOK, Mj!By, Mj!ColoursAreEarned, Mj!ScoresStayCoherent
    <2>3. Mj!ContextIsRecent'
      BY <1>4, MjContext
    <2> QED
      BY <2>2, <2>3 DEF MjInv
  <1> QED
    BY <1>1, <1>2, <1>3, <1>4 DEF Mj!Next

\* Nothing is cut or found in the beginning.
LEMMA ReInit == Re!Init => ReInv
  <1> SUFFICES ASSUME Re!Init PROVE ReInv
    OBVIOUS
  <1>1. found = None /\ cut.offset = 0 /\ cut.done = FALSE /\ MaxText \in Nat
    BY RulesAssumption DEF Re!Init
  <1>2. Re!TypeOK /\ Re!TitlesEnclose /\ Re!NamedDocumentsFirst /\ Re!HitsComeFirst
    <2>1. 0 \in 0..MaxText + 1
      BY <1>1
    <2>2. Re!TypeOK
      BY <1>1, <2>1 DEF Re!TypeOK
    <2>3. Re!TitlesEnclose
      BY <1>1 DEF Re!TitlesEnclose
    <2>4. Re!NamedDocumentsFirst /\ Re!HitsComeFirst
      BY <1>1 DEF Re!NamedDocumentsFirst, Re!HitsComeFirst
    <2> QED
      BY <2>2, <2>3, <2>4
  <1> QED
    BY <1>2, ReCutInit DEF ReInv

\* The invariant of the chunks bounds where the next one starts.
LEMMA ReCutTypes == ReCutInv => cut.offset \in 0..MaxText + 1 /\ cut.done \in BOOLEAN
  BY DEF ReCutInv, ReCut

\* Every step of the three algorithms keeps the invariant of Retrieval.
LEMMA ReStep == ASSUME ReInv, [Re!Next]_(Re!reVars) PROVE ReInv'
  <1>1. CASE UNCHANGED Re!reVars
    <2>1. text' = text /\ cut' = cut /\ found' = found
      BY <1>1 DEF Re!reVars
    <2>2. ReCutInv'
      BY <2>1 DEF ReInv, ReCutInv, ReText, ReCut
    <2>3. Re!TypeOK' /\ Re!TitlesEnclose' /\ Re!NamedDocumentsFirst' /\ Re!HitsComeFirst'
      BY <2>1, ReRests DEF ReInv, Re!TypeOK, Re!NamedDocumentsFirst, Re!HitsComeFirst
    <2> QED
      BY <2>2, <2>3 DEF ReInv
  <1>2. CASE Re!Cut
    <2>1. ReCutInv' /\ found = None /\ found' = None
      BY <1>2, ReCutStep DEF ReInv, Re!Cut
    <2>2. cut'.offset \in 0..MaxText + 1 /\ cut'.done \in BOOLEAN
      BY <2>1 DEF ReCutInv, ReCut
    <2>3. Re!TypeOK' /\ Re!TitlesEnclose' /\ Re!NamedDocumentsFirst' /\ Re!HitsComeFirst'
      BY <2>1, <2>2 DEF Re!TypeOK, Re!TitlesEnclose, Re!NamedDocumentsFirst, Re!HitsComeFirst
    <2> QED
      BY <2>1, <2>3 DEF ReInv
  <1>3. CASE (Re!Segment \/ Re!Search \/ Re!AnswerContext) /\ UNCHANGED <<text, cut>>
    <2>1. ReCutInv' /\ cut'.offset \in 0..MaxText + 1 /\ cut'.done \in BOOLEAN
      BY <1>3, ReCutTypes DEF ReInv, ReCutInv, ReText, ReCut
    <2>2. CASE Re!Segment
      <3>1. found'.rule = "segment"
        BY <2>2 DEF Re!Segment
      <3>2. Re!TypeOK' /\ Re!NamedDocumentsFirst' /\ Re!HitsComeFirst'
        BY <2>1, <3>1 DEF Re!TypeOK, Re!NamedDocumentsFirst, Re!HitsComeFirst
      <3> QED
        BY <2>1, <2>2, <3>2, ReSegments DEF ReInv
    <2>3. CASE Re!Search
      <3>1. found'.rule = "search"
        BY <2>3 DEF Re!Search
      <3>2. Re!TypeOK' /\ Re!TitlesEnclose' /\ Re!HitsComeFirst'
        BY <2>1, <3>1 DEF Re!TypeOK, Re!TitlesEnclose, Re!HitsComeFirst
      <3> QED
        BY <2>1, <2>3, <3>2, ReSearch DEF ReInv
    <2>4. CASE Re!AnswerContext
      <3>1. found'.rule = "context"
        BY <2>4 DEF Re!AnswerContext
      <3>2. Re!TypeOK' /\ Re!TitlesEnclose' /\ Re!NamedDocumentsFirst'
        BY <2>1, <3>1 DEF Re!TypeOK, Re!TitlesEnclose, Re!NamedDocumentsFirst
      <3> QED
        BY <2>1, <2>4, <3>2, ReContext DEF ReInv
    <2> QED
      BY <1>3, <2>2, <2>3, <2>4
  <1> QED
    BY <1>1, <1>2, <1>3 DEF Re!Next

\* A step of the service takes each component one of its own steps or none.
LEMMA RulesSteps == ASSUME [Next]_all PROVE [Mj!Next]_(Mj!mjVars) /\ [Re!Next]_(Re!reVars)
  <1> USE DEF Rest, KbRests, QqRests, all, mj, re, Mj!mjVars, Re!reVars
  <1>1. [Mj!Next]_(Mj!mjVars)
    BY DEF Next
  <1>2. [Re!Next]_(Re!reVars)
    BY DEF Next
  <1> QED
    BY <1>1, <1>2

\* Whatever is judged, cut or found: strong colours are earned, the scores of a classification cohere
\* and a context is the recent utterances that fit (MeetingService, bound_context); the chunks of a
\* text cover it and carry the titles that enclose them (chunk_document); a document that the query
\* names comes first, and no hit is pushed out by the rest of its document (_search, answer_context).
THEOREM RulesAreSafe == Spec => []RulesHold
  <1>1. Init => MjInv /\ ReInv
    BY MjInit, ReInit DEF Init
  <1>2. MjInv /\ ReInv /\ [Next]_all => (MjInv /\ ReInv)'
    BY RulesSteps, MjStep, ReStep
  <1>3. MjInv /\ ReInv => RulesHold
    BY ReCutHolds DEF RulesHold, MjInv, ReInv
  <1> QED
    BY <1>1, <1>2, <1>3, PTL DEF Spec
=============================================================================
