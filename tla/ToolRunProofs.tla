--------------------------- MODULE ToolRunProofs ----------------------------
(***************************************************************************)
(* For outputs of any length, files of any size an int64 holds and any     *)
(* limits: the counters are exact, the verdict is justified, and the       *)
(* second walk arrives at what the first has counted.                      *)
(***************************************************************************)
EXTENDS ToolRun, FiniteSetTheorems, SequenceTheorems, TLAPS

(***************************************************************************)
(* ValidatePostExtraction has let the entries before next pass, and once   *)
(* the second walk has begun, all; each was legal and small enough.        *)
(***************************************************************************)
Passed == IF pc = "summarize" THEN Len(output) ELSE next - 1

PassedLegal ==
  \A i \in 1..Passed :
    /\ output[i].kind \in {"regular", "dir"}
    /\ output[i].kind = "regular" => output[i].size <= limits.MaxEntrySize

(***************************************************************************)
(* As long as no entry was rejected, what the validation has counted are   *)
(* the files that it let pass and their sizes.                             *)
(***************************************************************************)
SeenExact ==
  pc # "done" \/ result = "extracted" =>
    /\ seen.FileCount = Cardinality(Files(output) \cap 1..Passed)
    /\ seen.TotalSize = SizesUpTo(output)[Passed]

(***************************************************************************)
(* What a walk has counted after an entry.                                 *)
(***************************************************************************)
Counted(counters, e) ==
  IF e.kind = "regular"
  THEN [FileCount |-> counters.FileCount + 1, TotalSize |-> Wrap(counters.TotalSize + e.size)]
  ELSE counters

Zero == [FileCount |-> 0, TotalSize |-> 0]

(***************************************************************************)
(* A course is what a walk counts on its way: course[i] is before entry i. *)
(***************************************************************************)
IsCourse(course, end) ==
  /\ course[1] = Zero
  /\ \A i \in 1..end : course[i + 1] = Counted(course[i], output[i])

Summed(counters) == [EntriesCount |-> counters.FileCount, TotalSize |-> counters.TotalSize]

(***************************************************************************)
(* Both walks take the same course, the second up to where the first has   *)
(* arrived.                                                                *)
(***************************************************************************)
SameCourse ==
  /\ pc \in {"resolve", "run"} => stats = Zero
  /\ pc \in {"resolve", "run", "validate"} => summary = Summed(Zero)
  /\ pc = "validate" =>
       \E course \in [Nat -> Counters] :
         IsCourse(course, next - 1) /\ stats = course[next]
  /\ pc = "summarize" =>
       \E course \in [Nat -> Counters] :
         /\ IsCourse(course, Len(output))
         /\ stats = course[Len(output) + 1]
         /\ summary = Summed(course[next])
  /\ result = "extracted" => summary = Summed(stats)

(***************************************************************************)
(* The walk starts with the first entry, the result is only set at the     *)
(* end, and an acceptance comes after the last entry.                      *)
(***************************************************************************)
ResultTimely ==
  /\ pc \in {"resolve", "run"} => next = 1
  /\ pc # "done" => result = "none"
  /\ result = "extracted" => next = Len(output) + 1
  /\ result \in {"hard", "limit"} => next <= Len(output)

IInv ==
  /\ TypeOK /\ CountersExact /\ PassedLegal /\ SeenExact /\ ResultTimely /\ VerdictExact
  /\ SameCourse

-----------------------------------------------------------------------------
(***************************************************************************)
(* Every nonempty set of numbers has a least element.  The library states  *)
(* it with an operator parameter; this form follows from the well-founded  *)
(* strict inclusion of the intervals 1..m.                                 *)
(***************************************************************************)
LEMMA LeastNumber ==
  ASSUME NEW T, T \subseteq Nat, T # {}
  PROVE  \E m \in T : \A k \in T : m <= k
<1> DEFINE U == {1..m : m \in T}
           S == Nat
<1>0. U # {}
  OBVIOUS
<1>1. U \subseteq FiniteSubsetsOf(S)
  BY FS_Interval DEF FiniteSubsetsOf
<1>2. PICK x \in U : \A y \in U : ~ (<<y, x>> \in StrictSubsetOrdering(S))
  <2> HIDE DEF U, S
  <2> QED
    BY <1>0, <1>1, FS_StrictSubsetOrderingWellFounded, WFMin
<1>3. PICK m \in T : x = 1..m
  BY <1>2
<1>4. ASSUME NEW k \in T, k < m PROVE FALSE
  <2>1. 1..k \in U /\ 1..k \subseteq 1..m /\ 1..k # 1..m
    BY <1>4
  <2>2. <<1..k, 1..m>> \in StrictSubsetOrdering(S)
    BY <2>1 DEF StrictSubsetOrdering
  <2> QED
    BY <2>1, <2>2, <1>2, <1>3
<1> QED
  BY <1>4

(***************************************************************************)
(* The total size of the files up to an entry: the recursion of SizesUpTo  *)
(* has a solution for every output.                                        *)
(***************************************************************************)
LEMMA SizesAdd ==
  ASSUME NEW s, Len(s) \in Nat
  PROVE  /\ SizesUpTo(s)[0] = 0
         /\ \A i \in 1..Len(s) : SizesUpTo(s)[i] = SizesUpTo(s)[i - 1] + FileSize(s[i])
<1> DEFINE Total(f, n) == f = [i \in 0..n |-> IF i = 0 THEN 0 ELSE f[i - 1] + FileSize(s[i])]
           T == {n \in 0..Len(s) : ~\E f : Total(f, n)}
<1>1. T = {}
  <2> SUFFICES ASSUME T # {} PROVE FALSE
    OBVIOUS
  <2>1. PICK m \in T : \A k \in T : m <= k
    <3>1. T \subseteq Nat
      OBVIOUS
    <3> HIDE DEF T
    <3> QED
      BY <3>1, LeastNumber
  <2>2. m \in 0..Len(s) /\ ~\E f : Total(f, m)
    OBVIOUS
  <2>3. CASE m = 0
    <3>1. Total([i \in 0..0 |-> 0], 0)
      OBVIOUS
    <3> QED
      BY <2>2, <2>3, <3>1
  <2>4. CASE m # 0
    <3>1. m - 1 \in 0..Len(s) /\ m - 1 \notin T
      <4>1. m - 1 \in 0..Len(s) /\ m - 1 < m
        BY <2>2, <2>4
      <4>2. \A k \in T : m <= k
        BY <2>1
      <4> HIDE DEF T
      <4>3. m - 1 \notin T
        BY <2>2, <4>1, <4>2
      <4> QED
        BY <4>1, <4>3
    <3>2. PICK f : Total(f, m - 1)
      BY <3>1
    <3> DEFINE g == [i \in 0..m |-> IF i < m THEN f[i] ELSE f[m - 1] + FileSize(s[m])]
    <3>3. ASSUME NEW i \in 0..(m - 1)
          PROVE  f[i] = IF i = 0 THEN 0 ELSE f[i - 1] + FileSize(s[i])
      BY <3>2
    <3>4. ASSUME NEW i \in 0..m
          PROVE  g[i] = IF i = 0 THEN 0 ELSE g[i - 1] + FileSize(s[i])
      <4>1. CASE i = m
        BY <2>2, <2>4, <4>1
      <4>2. CASE i # m
        <5>1. i \in 0..(m - 1) /\ g[i] = f[i]
          BY <2>2, <4>2
        <5>2. i # 0 => g[i - 1] = f[i - 1]
          BY <2>2, <4>2
        <5> QED
          BY <3>3, <5>1, <5>2
      <4> QED
        BY <4>1, <4>2
    <3>5. Total(g, m)
      BY <3>4
    <3> QED
      BY <2>2, <3>5
  <2> QED
    BY <2>3, <2>4
<1>2. \E f : Total(f, Len(s))
  BY <1>1
<1>3. SizesUpTo(s) = CHOOSE f : Total(f, Len(s))
  BY DEF SizesUpTo
<1>4. Total(SizesUpTo(s), Len(s))
  BY <1>2, <1>3
<1> QED
  BY <1>4

(***************************************************************************)
(* A difference or a sum of two non-negative int64 that stays in range is  *)
(* not wrapped around (ValidateEntry's arithmetic).                        *)
(***************************************************************************)
LEMMA WrapInRange ==
  ASSUME NEW x \in Int, -MaxInt <= x, x <= MaxInt
  PROVE  Wrap(x) = x
BY ToolRunAssumption DEF Wrap

(***************************************************************************)
(* The limits of a configuration and the entries of an output are typed.   *)
(***************************************************************************)
LEMMA InputTyped ==
  ASSUME TypeOK
  PROVE  /\ limits.MaxFiles \in 1..MaxInt
         /\ limits.MaxTotalSize \in 1..MaxInt
         /\ limits.MaxEntrySize \in 1..MaxInt
         /\ output \in Seq([kind : Kind, size : 0..MaxInt])
         /\ \A i \in 1..Len(output) : /\ output[i].kind \in Kind
                                      /\ output[i].size \in 0..MaxInt
<1>1. limits \in [MaxFiles : 1..MaxInt, MaxTotalSize : 1..MaxInt, MaxEntrySize : 1..MaxInt]
  BY ToolRunAssumption DEF TypeOK
<1>2. output \in Seq([kind : Kind, size : 0..MaxInt])
  BY ToolRunAssumption DEF TypeOK
<1>3. \A i \in 1..Len(output) : output[i] \in [kind : Kind, size : 0..MaxInt]
  BY <1>2, ElementOfSeq
<1> QED
  BY <1>1, <1>2, <1>3

(***************************************************************************)
(* A regular file that ValidateEntry lets pass keeps the counters within   *)
(* the limits, and its addition does not wrap around.                      *)
(***************************************************************************)
LEMMA PassingFileFits ==
  ASSUME TypeOK, CountersExact, NEW e \in [kind : Kind, size : 0..MaxInt],
         ~ExceedsLimit(e)
  PROVE  /\ e.size <= limits.MaxEntrySize
         /\ stats.FileCount + 1 <= limits.MaxFiles
         /\ stats.TotalSize + e.size <= limits.MaxTotalSize
         /\ Wrap(stats.TotalSize + e.size) = stats.TotalSize + e.size
<1>1. /\ stats.FileCount \in 0..MaxInt
      /\ stats.TotalSize \in 0..MaxInt
  BY DEF TypeOK, Counters
<1>2. /\ limits.MaxTotalSize \in 1..MaxInt
      /\ limits.MaxFiles \in 1..MaxInt
      /\ stats.TotalSize <= limits.MaxTotalSize
  BY InputTyped DEF CountersExact
<1>3. MaxInt \in Nat
  BY ToolRunAssumption
<1>4. Wrap(limits.MaxTotalSize - stats.TotalSize) = limits.MaxTotalSize - stats.TotalSize
  <2>1. /\ limits.MaxTotalSize - stats.TotalSize \in Int
        /\ -MaxInt <= limits.MaxTotalSize - stats.TotalSize
        /\ limits.MaxTotalSize - stats.TotalSize <= MaxInt
    BY <1>1, <1>2, <1>3
  <2> QED
    BY <2>1, WrapInRange
<1>5. e.size \in 0..MaxInt
  OBVIOUS
<1>6. limits.MaxEntrySize \in 1..MaxInt
  BY InputTyped
<1>7. /\ e.size <= limits.MaxEntrySize
      /\ stats.FileCount + 1 <= limits.MaxFiles
      /\ stats.TotalSize + e.size <= limits.MaxTotalSize
  BY <1>1, <1>2, <1>3, <1>4, <1>5, <1>6 DEF ExceedsLimit
<1>8. /\ stats.TotalSize + e.size \in Int
      /\ -MaxInt <= stats.TotalSize + e.size
      /\ stats.TotalSize + e.size <= MaxInt
  BY <1>1, <1>2, <1>3, <1>5, <1>7
<1> QED
  BY <1>7, <1>8, WrapInRange

(***************************************************************************)
(* What the validation has counted stays what it is in a step that counts  *)
(* nothing.                                                                *)
(***************************************************************************)
LEMMA SeenStays ==
  ASSUME SeenExact, UNCHANGED <<output, seen>>, Passed' = Passed,
         pc # "done" \/ result = "extracted"
  PROVE  SeenExact'
<1>1. /\ seen.FileCount = Cardinality(Files(output) \cap 1..Passed)
      /\ seen.TotalSize = SizesUpTo(output)[Passed]
  BY DEF SeenExact
<1>2. Files(output)' = Files(output) /\ SizesUpTo(output)' = SizesUpTo(output)
  BY DEF Files, SizesUpTo, FileSize
<1> QED
  BY <1>1, <1>2 DEF SeenExact

(***************************************************************************)
(* Nothing has been counted of an output before its first entry.           *)
(***************************************************************************)
LEMMA NothingSeen ==
  ASSUME NEW s, Len(s) \in Nat
  PROVE  Cardinality(Files(s) \cap 1..0) = 0 /\ SizesUpTo(s)[0] = 0
<1>1. Files(s) \cap 1..0 = {}
  OBVIOUS
<1> QED
  BY <1>1, SizesAdd, FS_EmptySet

(***************************************************************************)
(* Nothing has been written or counted yet.                                *)
(***************************************************************************)
LEMMA InitIInv == Init => IInv
<1> SUFFICES ASSUME Init PROVE IInv
  OBVIOUS
<1>1. TypeOK
  BY ToolRunAssumption DEF Init, TypeOK, Counters
<1>2. CountersExact
  BY <1>1, InputTyped, ToolRunAssumption DEF Init, CountersExact
<1>3. SeenExact
  <2>1. Passed = 0 /\ seen = [FileCount |-> 0, TotalSize |-> 0] /\ Len(output) \in Nat
    BY DEF Init, Passed
  <2> QED
    BY <2>1, NothingSeen DEF SeenExact
<1>4. PassedLegal /\ ResultTimely /\ VerdictExact /\ SameCourse
  BY DEF Init, PassedLegal, Passed, ResultTimely, VerdictExact, SameCourse, Zero, Summed
<1> QED
  BY <1>1, <1>2, <1>3, <1>4 DEF IInv

(***************************************************************************)
(* A step before the walk: nothing has been visited.                       *)
(***************************************************************************)
LEMMA BeforeWalk ==
  ASSUME IInv, Resolve \/ RunFails \/ RunSucceeds
  PROVE  IInv'
<1> USE DEF IInv, inputVars
<1>1. CASE Resolve
  <2>1. SeenExact'
    BY <1>1, SeenStays DEF Resolve, Passed
  <2> QED
    BY <1>1, <2>1 DEF Resolve, TypeOK, CountersExact, PassedLegal, Passed, ResultTimely,
              VerdictExact, Illegal, SameCourse
<1>2. CASE RunFails
  <2>1. SeenExact'
    BY <1>2 DEF RunFails, SeenExact
  <2> QED
    BY <1>2, <2>1 DEF RunFails, TypeOK, CountersExact, PassedLegal, Passed, ResultTimely,
              VerdictExact, Illegal, SameCourse
<1>3. CASE RunSucceeds
  <2>1. output' \in Output /\ written' \in Output
    BY <1>3, ToolRunAssumption DEF RunSucceeds
  <2>2. Len(output') \in Nat
    BY <2>1, ToolRunAssumption, LenProperties
  <2>3. next' = 1 /\ result' = "none" /\ pc' = "validate"
    BY <1>3 DEF RunSucceeds, ResultTimely
  <2>4. TypeOK'
    BY <1>3, <2>1, <2>2, <2>3 DEF RunSucceeds, TypeOK
  <2>5. CountersExact'
    BY <1>3 DEF RunSucceeds, CountersExact
  <2>6. PassedLegal' /\ ResultTimely' /\ VerdictExact'
    BY <2>3 DEF PassedLegal, Passed, ResultTimely, VerdictExact
  <2>7. SameCourse'
    <3> DEFINE course == [n \in Nat |-> Zero]
    <3>1. /\ course \in [Nat -> Counters] /\ course[1] = Zero
          /\ \A i \in 1..0 : course[i + 1] = Counted(course[i], output'[i])
      BY ToolRunAssumption DEF Zero, Counters
    <3>2. stats' = Zero /\ summary' = Summed(Zero)
      BY <1>3 DEF RunSucceeds, SameCourse
    <3> HIDE DEF course
    <3> QED
      BY <2>3, <3>1, <3>2 DEF SameCourse, IsCourse
  <2>8. SeenExact'
    <3>1. stats = Zero /\ stats = seen /\ seen' = seen
      BY <1>3 DEF RunSucceeds, SameCourse, CountersExact
    <3>2. seen'.FileCount = 0 /\ seen'.TotalSize = 0
      BY <3>1 DEF Zero
    <3>3. Passed' = 0
      BY <2>3 DEF Passed
    <3>4. Cardinality(Files(output') \cap 1..0) = 0 /\ SizesUpTo(output')[0] = 0
      BY <2>2, NothingSeen
    <3>5. Files(output)' = Files(output') /\ SizesUpTo(output)' = SizesUpTo(output')
      OBVIOUS
    <3> QED
      BY <3>2, <3>3, <3>4, <3>5 DEF SeenExact
  <2> QED
    BY <2>4, <2>5, <2>6, <2>7, <2>8
<1> QED
  BY <1>1, <1>2, <1>3

(***************************************************************************)
(* A rejection is for what the entry is or for a limit it really exceeds,  *)
(* since the counters are exact.                                           *)
(***************************************************************************)
LEMMA RejectionJustified ==
  ASSUME IInv, Rejects
  PROVE  IInv'
<1> USE DEF IInv, inputVars
<1> DEFINE e == output[next]
<1>1. e \in [kind : Kind, size : 0..MaxInt] /\ next \in 1..Len(output)
  <2>1. output \in Seq([kind : Kind, size : 0..MaxInt])
    BY InputTyped
  <2>2. Len(output) \in Nat
    BY <2>1, LenProperties
  <2>3. next \in 1..Len(output)
    BY <2>2 DEF Rejects, TypeOK
  <2> QED
    BY <2>1, <2>3, ElementOfSeq
<1>2. /\ result' = Verdict(e)
      /\ Verdict(e) \in {"hard", "other", "limit"}
      /\ pc' = "done"
  BY DEF Rejects, Verdict
<1>3. TypeOK'
  BY <1>2 DEF Rejects, TypeOK
<1>4. CountersExact' /\ PassedLegal' /\ SameCourse'
  BY <1>2 DEF Rejects, CountersExact, PassedLegal, Passed, SameCourse
<1>5. ResultTimely' /\ SeenExact'
  BY <1>1, <1>2 DEF Rejects, ResultTimely, SeenExact
<1>6. Verdict(e) = "limit" =>
        /\ e.kind = "regular"
        /\ \/ e.size > limits.MaxEntrySize
           \/ seen.FileCount + 1 > limits.MaxFiles
           \/ seen.TotalSize + e.size > limits.MaxTotalSize
  <2> SUFFICES ASSUME Verdict(e) = "limit"
               PROVE  /\ e.kind = "regular"
                      /\ \/ e.size > limits.MaxEntrySize
                         \/ seen.FileCount + 1 > limits.MaxFiles
                         \/ seen.TotalSize + e.size > limits.MaxTotalSize
    OBVIOUS
  <2>1. e.kind = "regular" /\ ExceedsLimit(e)
    BY DEF Verdict
  <2>2. /\ stats = seen
        /\ stats.FileCount \in 0..MaxInt
        /\ stats.TotalSize \in 0..MaxInt
        /\ stats.TotalSize <= limits.MaxTotalSize
    BY DEF TypeOK, Counters, CountersExact
  <2>3. limits.MaxTotalSize \in 1..MaxInt /\ limits.MaxFiles \in 1..MaxInt
    BY InputTyped
  <2>4. Wrap(limits.MaxTotalSize - stats.TotalSize) = limits.MaxTotalSize - stats.TotalSize
    <3>1. /\ limits.MaxTotalSize - stats.TotalSize \in Int
          /\ -MaxInt <= limits.MaxTotalSize - stats.TotalSize
          /\ limits.MaxTotalSize - stats.TotalSize <= MaxInt
      BY <2>2, <2>3, ToolRunAssumption
    <3> QED
      BY <3>1, WrapInRange
  <2> QED
    BY <1>1, <2>1, <2>2, <2>3, <2>4 DEF ExceedsLimit
<1>7. Verdict(e) = "hard" => Illegal(e)
  BY DEF Verdict
<1>8. VerdictExact'
  BY <1>2, <1>6, <1>7 DEF Rejects, VerdictExact, Illegal
<1> QED
  BY <1>3, <1>4, <1>5, <1>8

(***************************************************************************)
(* An entry that passes is legal, and is counted if it is a file.          *)
(***************************************************************************)
LEMMA PassingKeepsCount ==
  ASSUME IInv, Passes
  PROVE  IInv'
<1> USE DEF IInv, inputVars
<1> DEFINE e == output[next]
<1>1. e \in [kind : Kind, size : 0..MaxInt] /\ next \in 1..Len(output) /\ Len(output) \in Nat
  <2>1. output \in Seq([kind : Kind, size : 0..MaxInt])
    BY InputTyped
  <2>2. Len(output) \in Nat
    BY <2>1, LenProperties
  <2>3. next \in 1..Len(output)
    BY <2>2 DEF Passes, TypeOK
  <2> QED
    BY <2>1, <2>2, <2>3, ElementOfSeq
<1>2. Verdict(e) = "none"
  BY DEF Passes
<1>3. /\ e.kind \in {"regular", "dir"}
      /\ e.kind = "regular" => ~ExceedsLimit(e)
  BY <1>1, <1>2 DEF Verdict, Illegal, Kind
<1>4. next' = next + 1 /\ pc' = "validate" /\ result' = "none" /\ output' = output
  BY DEF Passes, ResultTimely
<1>5. stats' \in Counters /\ seen' \in [FileCount : Nat, TotalSize : Nat] /\ CountersExact'
  <2>1. CASE e.kind # "regular"
    BY <2>1 DEF Passes, TypeOK, CountersExact
  <2>2. CASE e.kind = "regular"
    <3>1. /\ stats.FileCount + 1 <= limits.MaxFiles
          /\ stats.TotalSize + e.size <= limits.MaxTotalSize
          /\ Wrap(stats.TotalSize + e.size) = stats.TotalSize + e.size
      BY <1>1, <1>3, <2>2, PassingFileFits
    <3>2. /\ stats' = [FileCount |-> stats.FileCount + 1,
                       TotalSize |-> stats.TotalSize + e.size]
          /\ seen' = [FileCount |-> seen.FileCount + 1,
                      TotalSize |-> seen.TotalSize + e.size]
          /\ limits' = limits
      BY <2>2, <3>1 DEF Passes
    <3>3. limits.MaxTotalSize \in 1..MaxInt /\ limits.MaxFiles \in 1..MaxInt
      BY InputTyped
    <3>4. /\ stats = seen
          /\ stats.FileCount \in 0..MaxInt
          /\ stats.TotalSize \in 0..MaxInt
          /\ e.size \in 0..MaxInt
      BY <1>1 DEF TypeOK, Counters, CountersExact
    <3>5. /\ stats.FileCount + 1 \in 0..MaxInt
          /\ stats.TotalSize + e.size \in 0..MaxInt
      BY <3>1, <3>3, <3>4, ToolRunAssumption
    <3>6. stats' = seen'
      BY <3>2, <3>4
    <3>7. stats' \in Counters /\ seen' \in [FileCount : Nat, TotalSize : Nat]
      BY <3>2, <3>4, <3>5 DEF Counters
    <3> QED
      BY <3>1, <3>2, <3>6, <3>7 DEF CountersExact
  <2> QED
    BY <2>1, <2>2
<1>6. TypeOK'
  BY <1>1, <1>4, <1>5 DEF Passes, TypeOK
<1>7. PassedLegal'
  <2>1. e.kind = "regular" => e.size <= limits.MaxEntrySize
    BY <1>1, <1>3, PassingFileFits
  <2>2. limits' = limits
    BY DEF Passes
  <2> SUFFICES ASSUME NEW i \in 1..next
               PROVE  /\ output[i].kind \in {"regular", "dir"}
                      /\ output[i].kind = "regular" => output[i].size <= limits.MaxEntrySize
    BY <1>1, <1>4, <2>2 DEF PassedLegal, Passed
  <2>3. CASE i = next
    BY <1>3, <2>1, <2>3
  <2>4. CASE i # next
    BY <1>1, <2>4 DEF PassedLegal, Passed, Passes
  <2> QED
    BY <2>3, <2>4
<1>8. ResultTimely' /\ VerdictExact'
  BY <1>4 DEF ResultTimely, VerdictExact
<1>9. SameCourse'
  <2>1. PICK course \in [Nat -> Counters] : IsCourse(course, next - 1) /\ stats = course[next]
    BY DEF Passes, SameCourse
  <2> DEFINE longer == [course EXCEPT ![next + 1] = stats']
  <2>2. stats' = Counted(stats, e)
    BY <1>1 DEF Passes, Counted, TypeOK, Counters
  <2>3. longer \in [Nat -> Counters]
    BY <1>5
  <2>4. longer[1] = Zero /\ longer[next + 1] = stats'
    BY <1>1, <2>1 DEF IsCourse
  <2>5. ASSUME NEW i \in 1..next PROVE longer[i + 1] = Counted(longer[i], output'[i])
    <3>1. longer[i] = course[i]
      BY <1>1
    <3>2. CASE i = next
      BY <1>1, <1>4, <2>1, <2>2, <2>4, <3>1, <3>2
    <3>3. CASE i # next
      <4>1. i \in 1..(next - 1) /\ longer[i + 1] = course[i + 1]
        BY <1>1, <3>3
      <4> QED
        BY <1>4, <2>1, <3>1, <4>1 DEF IsCourse
    <3> QED
      BY <3>2, <3>3
  <2>6. pc = "validate" /\ summary' = summary
    BY DEF Passes
  <2> HIDE DEF longer
  <2>7. (next + 1) - 1 = next
    BY <1>1
  <2>8. PICK c \in [Nat -> Counters] : c = longer
    BY <2>3
  <2>9. IsCourse(c, next - 1)' /\ stats' = c[next']
    BY <1>4, <2>4, <2>5, <2>7, <2>8 DEF IsCourse
  <2> QED
    BY <1>4, <2>6, <2>9 DEF SameCourse
<1>10. SeenExact'
  <2>1. /\ seen.FileCount = Cardinality(Files(output) \cap 1..(next - 1))
        /\ seen.TotalSize = SizesUpTo(output)[next - 1]
    BY DEF Passes, SeenExact, Passed
  <2>2. SizesUpTo(output)[next] = SizesUpTo(output)[next - 1] + FileSize(e)
    BY <1>1, SizesAdd
  <2>3. DOMAIN output = 1..Len(output)
    BY InputTyped, LenProperties
  <2>4. Files(output) \cap 1..next =
          (Files(output) \cap 1..(next - 1)) \cup (IF e.kind = "regular" THEN {next} ELSE {})
    <3>1. next \in Files(output) <=> e.kind = "regular"
      BY <1>1, <2>3 DEF Files
    <3>2. 1..next = 1..(next - 1) \cup {next}
      BY <1>1
    <3> QED
      BY <3>1, <3>2
  <2>5. IsFiniteSet(Files(output) \cap 1..(next - 1)) /\ next \notin 1..(next - 1)
    <3>1. IsFiniteSet(1..(next - 1))
      BY <1>1, FS_Interval
    <3>2. IsFiniteSet(Files(output) \cap 1..(next - 1))
      BY <3>1, FS_Subset
    <3> QED
      BY <1>1, <3>2
  <2>6. seen'.FileCount = Cardinality(Files(output) \cap 1..next)
    <3>1. CASE e.kind = "regular"
      <4>1. seen'.FileCount = seen.FileCount + 1
        BY <3>1 DEF Passes
      <4>2. Files(output) \cap 1..next = (Files(output) \cap 1..(next - 1)) \cup {next}
        BY <2>4, <3>1
      <4> QED
        BY <2>1, <2>5, <4>1, <4>2, FS_AddElement
    <3>2. CASE e.kind # "regular"
      BY <2>1, <2>4, <3>2 DEF Passes
    <3> QED
      BY <3>1, <3>2
  <2>7. seen'.TotalSize = SizesUpTo(output)[next]
    <3>1. CASE e.kind = "regular"
      BY <2>1, <2>2, <3>1 DEF Passes, FileSize
    <3>2. CASE e.kind # "regular"
      <4>1. seen' = seen /\ FileSize(e) = 0 /\ seen.TotalSize \in Nat
        BY <3>2 DEF Passes, FileSize, TypeOK
      <4> QED
        BY <2>1, <2>2, <4>1
    <3> QED
      BY <3>1, <3>2
  <2>8. Passed' = next
    BY <1>1, <1>4 DEF Passed
  <2>9. Files(output)' = Files(output) /\ SizesUpTo(output)' = SizesUpTo(output)
    BY <1>4 DEF Files, SizesUpTo, FileSize
  <2> QED
    BY <2>6, <2>7, <2>8, <2>9 DEF SeenExact
<1> QED
  BY <1>5, <1>6, <1>7, <1>8, <1>9, <1>10

(***************************************************************************)
(* The second walk begins when the first has passed the last entry.        *)
(***************************************************************************)
LEMMA WalkBegins ==
  ASSUME IInv, Validated
  PROVE  IInv'
<1> USE DEF IInv, inputVars
<1>1. Len(output) \in Nat
  BY InputTyped, LenProperties
<1>2. next = Len(output) + 1 /\ next - 1 = Len(output)
  BY <1>1 DEF Validated, TypeOK
<1>3. pc' = "summarize" /\ next' = 1 /\ result' = "none"
  BY DEF Validated, ResultTimely
<1>4. TypeOK'
  BY <1>1 DEF Validated, TypeOK
<1>5. CountersExact' /\ ResultTimely' /\ VerdictExact'
  BY <1>3 DEF Validated, CountersExact, ResultTimely, VerdictExact
<1>6. PassedLegal' /\ SeenExact'
  <2>1. Passed' = Passed /\ pc # "done"
    BY <1>2, <1>3 DEF Validated, Passed
  <2>2. SeenExact'
    BY <2>1, SeenStays DEF Validated
  <2> QED
    BY <1>2, <2>2 DEF Validated, PassedLegal, Passed
<1>7. SameCourse'
  <2>1. PICK course \in [Nat -> Counters] : IsCourse(course, next - 1) /\ stats = course[next]
    BY DEF Validated, SameCourse
  <2>2. /\ IsCourse(course, Len(output))' /\ stats' = course[Len(output') + 1]
        /\ summary' = Summed(course[next'])
    BY <1>2, <2>1 DEF Validated, IsCourse, SameCourse
  <2> QED
    BY <1>3, <2>2 DEF SameCourse
<1> QED
  BY <1>4, <1>5, <1>6, <1>7

(***************************************************************************)
(* An entry is counted a second time as it was the first time.             *)
(***************************************************************************)
LEMMA WalkRepeats ==
  ASSUME IInv, Summarizes
  PROVE  IInv'
<1> USE DEF IInv, inputVars
<1>1. Len(output) \in Nat /\ next \in 1..Len(output)
  <2>1. Len(output) \in Nat
    BY InputTyped, LenProperties
  <2> QED
    BY <2>1 DEF Summarizes, TypeOK
<1>2. pc' = "summarize" /\ pc = "summarize" /\ next' = next + 1 /\ result' = "none"
  BY DEF Summarizes, ResultTimely
<1>3. PICK course \in [Nat -> Counters] :
        /\ IsCourse(course, Len(output))
        /\ stats = course[Len(output) + 1]
        /\ summary = Summed(course[next])
  BY <1>2 DEF SameCourse
<1>4. course[next + 1] = Counted(course[next], output[next]) /\ course[next + 1] \in Counters
  BY <1>1, <1>3 DEF IsCourse
<1>5. summary' = Summed(course[next + 1])
  BY <1>3, <1>4 DEF Summarizes, Counts, Summed, Counted
<1>6. TypeOK'
  <2>1. summary' \in [EntriesCount : 0..MaxInt, TotalSize : 0..MaxInt]
    BY <1>4, <1>5 DEF Summed, Counters
  <2>2. next' \in 1..(Len(output) + 1)
    BY <1>1, <1>2
  <2> QED
    BY <1>2, <2>1, <2>2 DEF Summarizes, TypeOK
<1>7. CountersExact' /\ PassedLegal' /\ ResultTimely' /\ VerdictExact' /\ SeenExact'
  <2>1. Passed' = Passed
    BY <1>2 DEF Summarizes, Passed
  <2>2. SeenExact'
    BY <1>2, <2>1, SeenStays DEF Summarizes
  <2> QED
    BY <1>2, <2>2 DEF Summarizes, CountersExact, PassedLegal, Passed, ResultTimely, VerdictExact
<1>8. SameCourse'
  <2>1. IsCourse(course, Len(output))' /\ stats' = course[Len(output') + 1]
    BY <1>3 DEF Summarizes, IsCourse
  <2> QED
    BY <1>2, <1>5, <2>1 DEF SameCourse
<1> QED
  BY <1>6, <1>7, <1>8

(***************************************************************************)
(* An output is accepted after its last entry.                             *)
(***************************************************************************)
LEMMA AfterWalk ==
  ASSUME IInv, Accepts \/ SummaryFails
  PROVE  IInv'
<1> USE DEF IInv, inputVars
<1>1. Len(output) \in Nat /\ DOMAIN output = 1..Len(output)
  BY InputTyped, LenProperties
<1>2. Accepts => next = Len(output) + 1
  BY <1>1 DEF Accepts, TypeOK
<1>3. pc = "summarize" /\ pc' = "done" /\ UNCHANGED <<output, limits, stats, seen, summary, next>>
  BY DEF Accepts, SummaryFails
<1>4. TypeOK' /\ CountersExact'
  BY DEF Accepts, SummaryFails, TypeOK, CountersExact
<1>5. PassedLegal'
  <2>1. \A i \in 1..(next - 1) : i \in 1..Len(output)
    BY <1>1 DEF TypeOK
  <2> QED
    BY <1>3, <2>1 DEF PassedLegal, Passed
<1>6. ResultTimely'
  BY <1>2, <1>3 DEF Accepts, SummaryFails, ResultTimely
<1>7. \A i \in DOMAIN output :
        /\ output[i].kind \in {"regular", "dir"}
        /\ output[i].kind = "regular" => output[i].size <= limits.MaxEntrySize
  BY <1>1, <1>3 DEF PassedLegal, Passed
<1>8. VerdictExact' /\ SeenExact'
  <2>1. CASE Accepts
    <3>1. Passed = Len(output) /\ Passed' = Passed
      BY <1>1, <1>2, <1>3, <2>1 DEF Passed
    <3>2. SeenExact'
      BY <1>3, <3>1, SeenStays
    <3>3. Files(output) \cap 1..Len(output) = Files(output)
      BY <1>1 DEF Files
    <3>4. /\ Cardinality(Files(output)) <= limits.MaxFiles
          /\ SizesUpTo(output)[Len(output)] <= limits.MaxTotalSize
      BY <1>3, <3>1, <3>3 DEF SeenExact, CountersExact
    <3>5. Files(output)' = Files(output) /\ SizesUpTo(output)' = SizesUpTo(output)
      BY <1>3 DEF Files, SizesUpTo, FileSize
    <3> QED
      BY <1>3, <1>7, <2>1, <3>2, <3>4, <3>5 DEF Accepts, VerdictExact
  <2>2. CASE SummaryFails
    BY <1>3, <2>2 DEF SummaryFails, VerdictExact, SeenExact
  <2> QED
    BY <2>1, <2>2
<1>9. SameCourse'
  <2>1. CASE Accepts
    <3>1. summary = Summed(stats)
      BY <1>2, <1>3, <2>1 DEF SameCourse
    <3> QED
      BY <1>3, <3>1 DEF SameCourse
  <2>2. CASE SummaryFails
    BY <2>2 DEF SummaryFails, SameCourse
  <2> QED
    BY <2>1, <2>2
<1> QED
  BY <1>4, <1>5, <1>6, <1>8, <1>9

(***************************************************************************)
(* Every step of a tool run keeps the invariant.                           *)
(***************************************************************************)
LEMMA Inductive == IInv /\ [Next]_vars => IInv'
<1> SUFFICES ASSUME IInv, [Next]_vars PROVE IInv'
  OBVIOUS
<1>1. CASE Resolve \/ RunFails \/ RunSucceeds
  BY <1>1, BeforeWalk
<1>2. CASE Rejects
  BY <1>2, RejectionJustified
<1>3. CASE Passes
  BY <1>3, PassingKeepsCount
<1>4. CASE Validated
  BY <1>4, WalkBegins
<1>5. CASE Summarizes
  BY <1>5, WalkRepeats
<1>6. CASE Accepts \/ SummaryFails
  BY <1>6, AfterWalk
<1>7. CASE Terminated \/ UNCHANGED vars
  <2>1. UNCHANGED vars
    BY <1>7 DEF Terminated
  <2>2. (TypeOK /\ CountersExact /\ PassedLegal /\ SeenExact /\ ResultTimely /\ VerdictExact)'
    BY <2>1 DEF vars, inputVars, IInv, TypeOK, CountersExact, PassedLegal, Passed,
                ResultTimely, VerdictExact, SeenExact, Illegal, Files, SizesUpTo, FileSize
  <2>3. SameCourse'
    BY <2>1 DEF vars, inputVars, IInv, SameCourse, IsCourse
  <2> QED
    BY <2>2, <2>3 DEF IInv
<1> QED
  BY <1>1, <1>2, <1>3, <1>4, <1>5, <1>6, <1>7 DEF Next

(***************************************************************************)
(* The invariant holds in every reachable state.                           *)
(***************************************************************************)
LEMMA Invariant == Spec => []IInv
<1>1. Init => IInv
  BY InitIInv
<1>2. IInv /\ [Next]_vars => IInv'
  BY Inductive
<1> QED
  BY <1>1, <1>2, PTL DEF Spec

(***************************************************************************)
(* Every reachable state of a tool run is well typed; in particular the    *)
(* counters of ValidateEntry are never negative.                           *)
(***************************************************************************)
THEOREM TypeCorrect == Spec => []TypeOK
<1>1. IInv => TypeOK
  BY DEF IInv
<1> QED
  BY <1>1, Invariant, PTL

(***************************************************************************)
(* The counters that ValidateEntry decides on are the real count and sum   *)
(* and stay within the limits: no int64 operation wraps around.            *)
(***************************************************************************)
THEOREM CountersNeverWrap == Spec => []CountersExact
<1>1. IInv => CountersExact
  BY DEF IInv
<1> QED
  BY <1>1, Invariant, PTL

(***************************************************************************)
(* ValidatePostExtraction accepts only outputs whose entries are legal and *)
(* within the limits, in number and total size too, and rejects only for a *)
(* real violation.                                                         *)
(***************************************************************************)
THEOREM VerdictsJustified == Spec => []VerdictExact
<1>1. IInv => VerdictExact
  BY DEF IInv
<1> QED
  BY <1>1, Invariant, PTL

(***************************************************************************)
(* The metrics of an accepted node are what the validation has tested: the *)
(* second walk takes the course of the first.                              *)
(***************************************************************************)
THEOREM SummaryIsValidated == Spec => []SummaryMatches
<1>1. IInv => SummaryMatches
  BY DEF IInv, SameCourse, SummaryMatches, Summed
<1> QED
  BY <1>1, Invariant, PTL
=============================================================================
