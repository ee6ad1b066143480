-------------------------- MODULE OutageAlertsProofs --------------------------
(***************************************************************************)
(* What holds of OutageAlerts for any recipients, numbers and retention.   *)
(* The argument: the streak in the rows is the length of the episode, or   *)
(* both are past every number the retention has room for; so a message is  *)
(* sent with a recipient's own number once in an episode, and whether it   *)
(* was delivered or is on its way follows from how far the episode has     *)
(* come.                                                                   *)
(***************************************************************************)
EXTENDS OutageAlerts, SequenceTheorems, FiniteSetTheorems, TLAPS

USE LengthsAssumption, KeptAssumption, RowsAssumption, KeptIsBelowRows

Outcomes == {"ok", "failed"}

\* The n newest rows are those after the newest success.
Streak(s, n) ==
    /\ n \in 0..Len(s)
    /\ n = Len(s) \/ s[Len(s) - n] = "ok"
    /\ \A i \in 1..Len(s) : i > Len(s) - n => s[i] # "ok"

\* What FailureStreak subtracts from the number of rows.
NewestIn(s) == Max({0} \cup {i \in DOMAIN s : s[i] = "ok"})

\* The sequence s with e after its first i elements.
Inserted(s, i, e) == SubSeq(s, 1, i) \o <<e>> \o SubSeq(s, i + 1, Len(s))

\* A test that is under way has room for its row.
RowsFit == step \in {"running", "measured", "recording", "failed"} => Len(rows) < MaxRows

StepFits ==
    /\ step = "counting" => ~episode.over
    /\ step = "recorded" => episode.over
    /\ ~episode.over => episode.failures > 0

\* A streak that says how long the episode is: exactly, or both are past what
\* the retention leaves room to count to.
Agrees(n) ==
    \/ n = episode.failures
    \/ n >= MaxKept /\ episode.failures >= n

\* The rows agree with the episode, or nobody can be expected to have heard.
StreakKnown ==
    IF tampered THEN \A r \in Recipients : told[r].excused
    ELSE IF episode.over THEN FailureStreak = 0 ELSE Agrees(FailureStreak)

\* While the episode matters to a recipient, its target pages, and the streak a
\* success has read is the episode's.
Followed ==
    /\ episode.failures > 0 => alerts /\ (step # "idle" => watched)
    /\ step = "recording" => IF episode.over THEN ended = 0 ELSE Agrees(ended)
    /\ step = "recorded" => ended = 0 \/ Agrees(ended)

Events == {"outage", "recovered"}

\* The messages of this episode on their way that will reach a recipient.
OnWay(r, event) ==
    {i \in DOMAIN fanOuts : /\ ~fanOuts[i].past /\ r \in fanOuts[i].to
                            /\ fanOuts[i].event = event /\ Reaches(fanOuts[i], r)}

HeardOf(r, event) == IF event = "outage" THEN told[r].outages ELSE told[r].recoveries

\* What of the episode has been sent to it: everything, but for the message of
\* the step the test is in.
Due(r, event) ==
    /\ outageAfter[r] # Off
    /\ episode.failures >= outageAfter[r]
    /\ IF event = "outage" THEN ~(step = "counting" /\ episode.failures = outageAfter[r])
       ELSE episode.over /\ ~(step = "recorded" /\ ended > 0)

\* It was sent once, and is on its way or heard.
Story(r, event) ==
    /\ \A i, j \in OnWay(r, event) : i = j
    /\ OnWay(r, event) # {} => HeardOf(r, event) = 0
    /\ HeardOf(r, event) < 2
    /\ Due(r, event) <=> (OnWay(r, event) # {} \/ HeardOf(r, event) = 1)

Stories ==
    \A r \in Recipients : Listening(r) => Followed /\ \A event \in Events : Story(r, event)

IInv == TypeOK /\ RowsFit /\ StepFits /\ StreakKnown /\ Stories

-----------------------------------------------------------------------------
(* The rows.                                                               *)

\* A set of numbers up to n has a greatest one.
LEMMA GreatestExists ==
    ASSUME NEW n \in Nat, NEW S \in SUBSET (0..n), S # {}
    PROVE  /\ Max(S) \in S
           /\ \A i \in S : i <= Max(S)
<1> DEFINE T == {i..n : i \in S}
<1>1. T \subseteq SUBSET (0..n) /\ T # {}
  <2>1. \A i \in S : i..n \subseteq 0..n
    OBVIOUS
  <2> QED
    BY <2>1
<1>2. FiniteSubsetsOf(0..n) = SUBSET (0..n)
  <2>1. 0 \in Int /\ n \in Int
    OBVIOUS
  <2>2. IsFiniteSet(0..n)
    BY <2>1, FS_Interval
  <2> QED
    BY <2>2, FS_FiniteSubsetsOfFinite
<1>3. IsWellFoundedOn(StrictSubsetOrdering(0..n), SUBSET (0..n))
  BY <1>2, FS_StrictSubsetOrderingWellFounded
<1> HIDE DEF T
<1>4. PICK x \in T : \A y \in T : ~(<<y, x>> \in StrictSubsetOrdering(0..n))
  BY <1>1, <1>3, WFMin
<1> USE DEF T
<1>5. PICK m \in S : x = m..n
  BY <1>4
<1>6. ASSUME NEW i \in S PROVE m >= i
  <2> SUFFICES ASSUME m < i PROVE FALSE
    BY <1>1
  <2>1. i..n \in T /\ i..n \in SUBSET (0..n) /\ x \in SUBSET (0..n)
    BY <1>1
  <2>2. i..n \subseteq m..n /\ m \in m..n /\ m \notin i..n
    OBVIOUS
  <2> QED
    BY <2>1, <2>2, <1>4, <1>5 DEF StrictSubsetOrdering
<1> HIDE DEF T
<1>7. \E z \in S : \A y \in S : z >= y
  BY <1>5, <1>6
<1>8. Max(S) \in S /\ \A y \in S : Max(S) >= y
  BY <1>7 DEF Max
<1> QED
  BY <1>8

LEMMA StreakIs ==
    ASSUME NEW s \in Seq(Outcomes)
    PROVE  /\ Streak(s, Len(s) - NewestIn(s))
           /\ NewestIn(s) \in 0..Len(s)
           /\ \A n \in 0..Len(s) : Streak(s, n) => n = Len(s) - NewestIn(s)
<1> DEFINE S == {0} \cup {i \in DOMAIN s : s[i] = "ok"}
<1>1. Len(s) \in Nat /\ DOMAIN s = 1..Len(s)
  BY LenProperties
<1>2. S \in SUBSET (0..Len(s)) /\ S # {}
  BY <1>1
<1>3. Max(S) \in S /\ \A i \in S : i <= Max(S)
  BY <1>1, <1>2, GreatestExists
<1>4. NewestIn(s) = Max(S)
  BY DEF NewestIn
<1>5. NewestIn(s) \in 0..Len(s)
  BY <1>2, <1>3, <1>4
<1>6. NewestIn(s) = 0 \/ s[NewestIn(s)] = "ok"
  BY <1>3, <1>4
<1>7. \A i \in 1..Len(s) : s[i] = "ok" => i <= NewestIn(s)
  BY <1>1, <1>3, <1>4
<1> HIDE DEF S
<1>8. Streak(s, Len(s) - NewestIn(s))
  <2> DEFINE n == Len(s) - NewestIn(s)
  <2>1. n \in 0..Len(s) /\ Len(s) - n = NewestIn(s)
    BY <1>1, <1>5
  <2>2. \A i \in 1..Len(s) : i > Len(s) - n => s[i] # "ok"
    <3> SUFFICES ASSUME NEW i \in 1..Len(s), i > Len(s) - n, s[i] = "ok" PROVE FALSE
      OBVIOUS
    <3>1. i <= NewestIn(s)
      BY <1>7
    <3> QED
      BY <1>1, <1>5, <2>1, <3>1
  <2>3. n = Len(s) \/ s[Len(s) - n] = "ok"
    BY <1>1, <1>5, <1>6, <2>1
  <2> HIDE DEF n
  <2>4. Streak(s, n)
    BY <2>1, <2>2, <2>3 DEF Streak
  <2> QED
    BY <2>4 DEF n
<1>9. ASSUME NEW n \in 0..Len(s), Streak(s, n) PROVE n = Len(s) - NewestIn(s)
  <2> DEFINE k == NewestIn(s)
             m == Len(s) - n
  <2>1. Len(s) \in Nat /\ m \in 0..Len(s) /\ k \in 0..Len(s) /\ n = Len(s) - m
    BY <1>1, <1>5
  <2>2. /\ m = 0 \/ s[m] = "ok"
        /\ \A i \in 1..Len(s) : i > m => s[i] # "ok"
    <3>1. n = Len(s) \/ s[m] = "ok"
      BY <1>9, Zenon DEF Streak
    <3>2. \A i \in 1..Len(s) : i > m => s[i] # "ok"
      BY <1>9, Zenon DEF Streak
    <3> HIDE DEF m
    <3> QED
      BY <2>1, <3>1, <3>2
  <2>3. /\ k = 0 \/ s[k] = "ok"
        /\ \A i \in 1..Len(s) : s[i] = "ok" => i <= k
    BY <1>6, <1>7
  <2> HIDE DEF k, m
  <2>4. ~(k > m)
    BY <2>1, <2>2, <2>3
  <2>5. ~(m > k)
    BY <2>1, <2>2, <2>3
  <2>6. m = k
    BY <2>1, <2>4, <2>5
  <2> QED
    BY <2>1, <2>6 DEF k
<1> QED
  BY <1>5, <1>8, <1>9

\* A test is recorded.
LEMMA StreakOfAppend ==
    ASSUME NEW s \in Seq(Outcomes), NEW n, Streak(s, n)
    PROVE  /\ Append(s, "failed") \in Seq(Outcomes) /\ Streak(Append(s, "failed"), n + 1)
           /\ Append(s, "ok") \in Seq(Outcomes) /\ Streak(Append(s, "ok"), 0)
<1>1. Len(s) \in Nat
  BY LenProperties
<1>2. ASSUME NEW o \in Outcomes
      PROVE  /\ Append(s, o) \in Seq(Outcomes) /\ Len(Append(s, o)) = Len(s) + 1
             /\ \A i \in 1..Len(s) : Append(s, o)[i] = s[i]
             /\ Append(s, o)[Len(s) + 1] = o
  BY AppendProperties
<1>3. Append(s, "failed") \in Seq(Outcomes) /\ Streak(Append(s, "failed"), n + 1)
  <2> DEFINE t == Append(s, "failed")
  <2>1. /\ t \in Seq(Outcomes) /\ Len(t) = Len(s) + 1
        /\ \A i \in 1..Len(s) : t[i] = s[i]
        /\ t[Len(s) + 1] = "failed"
    BY <1>2 DEF Outcomes
  <2> HIDE DEF t
  <2>2. Streak(t, n + 1)
    BY <1>1, <2>1 DEF Streak
  <2> QED
    BY <2>1, <2>2 DEF t
<1>4. Append(s, "ok") \in Seq(Outcomes) /\ Streak(Append(s, "ok"), 0)
  <2> DEFINE t == Append(s, "ok")
  <2>1. /\ t \in Seq(Outcomes) /\ Len(t) = Len(s) + 1
        /\ t[Len(s) + 1] = "ok"
    BY <1>2 DEF Outcomes
  <2> HIDE DEF t
  <2>2. Streak(t, 0)
    BY <1>1, <2>1 DEF Streak
  <2> QED
    BY <2>1, <2>2 DEF t
<1> QED
  BY <1>3, <1>4

\* The oldest row goes: the streak is what it was, or one less if it was all.
LEMMA StreakOfTail ==
    ASSUME NEW s \in Seq(Outcomes), s # <<>>, NEW n, Streak(s, n)
    PROVE  /\ Tail(s) \in Seq(Outcomes) /\ Len(Tail(s)) = Len(s) - 1
           /\ Streak(Tail(s), IF n = Len(s) THEN n - 1 ELSE n)
<1>1. Len(s) \in Nat \ {0}
  BY LenProperties, EmptySeq
<1>2. /\ Tail(s) \in Seq(Outcomes) /\ Len(Tail(s)) = Len(s) - 1
      /\ \A i \in 1..(Len(s) - 1) : Tail(s)[i] = s[i + 1]
  BY HeadTailProperties
<1> DEFINE t == Tail(s)
<1>3. /\ t \in Seq(Outcomes) /\ Len(t) = Len(s) - 1
      /\ \A i \in 1..(Len(s) - 1) : t[i] = s[i + 1]
  BY <1>2
<1> HIDE DEF t
<1>4. Streak(t, IF n = Len(s) THEN n - 1 ELSE n)
  BY <1>1, <1>3 DEF Streak
<1> QED
  BY <1>3, <1>4 DEF t

\* A row goes out of a sequence, and one comes in.
LEMMA RemovalIs ==
    ASSUME NEW S, NEW s \in Seq(S), NEW i \in 1..Len(s)
    PROVE  LET t == SubSeq(s, 1, i - 1) \o SubSeq(s, i + 1, Len(s)) IN
           /\ t \in Seq(S) /\ Len(t) = Len(s) - 1
           /\ \A j \in 1..(Len(s) - 1) : t[j] = IF j < i THEN s[j] ELSE s[j + 1]
<1> DEFINE a == SubSeq(s, 1, i - 1)
           b == SubSeq(s, i + 1, Len(s))
<1>1. Len(s) \in Nat /\ i \in Int /\ i - 1 \in Int /\ i + 1 \in Int
  BY LenProperties
<1>2. \A j \in 1..Len(s) : s[j] \in S
  BY ElementOfSeq
<1>3. /\ a \in Seq(S) /\ Len(a) = i - 1
      /\ \A j \in 1..(i - 1) : a[j] = s[j]
  <2>1. \A j \in 1..(i - 1) : s[j] \in S
    BY <1>1, <1>2
  <2>2. /\ a \in Seq(S) /\ Len(a) = IF 1 <= i - 1 THEN (i - 1) - 1 + 1 ELSE 0
        /\ \A j \in 1..((i - 1) - 1 + 1) : a[j] = s[1 + j - 1]
    BY <1>1, <2>1, SubSeqProperties
  <2> HIDE DEF a
  <2> QED
    BY <1>1, <2>2
<1>4. /\ b \in Seq(S) /\ Len(b) = Len(s) - i
      /\ \A j \in 1..(Len(s) - i) : b[j] = s[i + j]
  <2>1. \A j \in (i + 1)..Len(s) : s[j] \in S
    BY <1>1, <1>2
  <2>2. /\ b \in Seq(S) /\ Len(b) = IF i + 1 <= Len(s) THEN Len(s) - (i + 1) + 1 ELSE 0
        /\ \A j \in 1..(Len(s) - (i + 1) + 1) : b[j] = s[(i + 1) + j - 1]
    BY <1>1, <2>1, SubSeqProperties
  <2> HIDE DEF b
  <2>3. Len(b) = Len(s) - i
    BY <1>1, <2>2
  <2>4. ASSUME NEW j \in 1..(Len(s) - i) PROVE b[j] = s[i + j]
    <3>1. j \in 1..(Len(s) - (i + 1) + 1) /\ (i + 1) + j - 1 = i + j
      BY <1>1
    <3> QED
      BY <2>2, <3>1
  <2> QED
    BY <2>2, <2>3, <2>4
<1> HIDE DEF a, b
<1>5. /\ a \o b \in Seq(S) /\ Len(a \o b) = Len(a) + Len(b)
      /\ \A j \in 1..(Len(a) + Len(b)) : (a \o b)[j] = IF j <= Len(a) THEN a[j] ELSE b[j - Len(a)]
  BY <1>3, <1>4, ConcatProperties
<1>6. \A j \in 1..(Len(s) - 1) : (a \o b)[j] = IF j < i THEN s[j] ELSE s[j + 1]
  <2> SUFFICES ASSUME NEW j \in 1..(Len(s) - 1)
               PROVE  (a \o b)[j] = IF j < i THEN s[j] ELSE s[j + 1]
    OBVIOUS
  <2>1. CASE j < i
    BY <1>1, <1>3, <1>4, <1>5, <2>1
  <2>2. CASE j >= i
    <3>1. (a \o b)[j] = b[j - (i - 1)]
      BY <1>1, <1>3, <1>4, <1>5, <2>2
    <3>2. j - (i - 1) \in 1..(Len(s) - i) /\ i + (j - (i - 1)) = j + 1
      BY <1>1, <2>2
    <3>3. b[j - (i - 1)] = s[i + (j - (i - 1))]
      BY <1>4, <3>2
    <3> QED
      BY <1>1, <2>2, <3>1, <3>2, <3>3
  <2>3. j < i \/ j >= i
    BY <1>1
  <2> QED
    BY <2>1, <2>2, <2>3
<1>7. Len(a \o b) = Len(s) - 1
  BY <1>1, <1>3, <1>4, <1>5
<1> QED
  BY <1>5, <1>6, <1>7 DEF a, b

LEMMA InsertionIs ==
    ASSUME NEW s \in Seq(Outcomes), NEW i \in 0..Len(s), NEW e \in Outcomes
    PROVE  /\ Inserted(s, i, e) \in Seq(Outcomes) /\ Len(Inserted(s, i, e)) = Len(s) + 1
           /\ \A j \in 1..(Len(s) + 1) :
                Inserted(s, i, e)[j] = IF j <= i THEN s[j] ELSE IF j = i + 1 THEN e ELSE s[j - 1]
<1> DEFINE a == SubSeq(s, 1, i)
           m == a \o <<e>>
           b == SubSeq(s, i + 1, Len(s))
<1>1. Len(s) \in Nat /\ i \in Int /\ i + 1 \in Int
  BY LenProperties
<1>2. \A j \in 1..Len(s) : s[j] \in Outcomes
  BY ElementOfSeq
<1>3. /\ a \in Seq(Outcomes) /\ Len(a) = i
      /\ \A j \in 1..i : a[j] = s[j]
  <2>1. \A j \in 1..i : s[j] \in Outcomes
    BY <1>1, <1>2
  <2>2. /\ a \in Seq(Outcomes) /\ Len(a) = IF 1 <= i THEN i - 1 + 1 ELSE 0
        /\ \A j \in 1..(i - 1 + 1) : a[j] = s[1 + j - 1]
    BY <1>1, <2>1, SubSeqProperties
  <2> HIDE DEF a
  <2> QED
    BY <1>1, <2>2
<1>4. /\ b \in Seq(Outcomes) /\ Len(b) = Len(s) - i
      /\ \A j \in 1..(Len(s) - i) : b[j] = s[i + j]
  <2>1. \A j \in (i + 1)..Len(s) : s[j] \in Outcomes
    BY <1>1, <1>2
  <2>2. /\ b \in Seq(Outcomes) /\ Len(b) = IF i + 1 <= Len(s) THEN Len(s) - (i + 1) + 1 ELSE 0
        /\ \A j \in 1..(Len(s) - (i + 1) + 1) : b[j] = s[(i + 1) + j - 1]
    BY <1>1, <2>1, SubSeqProperties
  <2> HIDE DEF b
  <2>3. Len(b) = Len(s) - i
    BY <1>1, <2>2
  <2>4. ASSUME NEW j \in 1..(Len(s) - i) PROVE b[j] = s[i + j]
    <3>1. j \in 1..(Len(s) - (i + 1) + 1) /\ (i + 1) + j - 1 = i + j
      BY <1>1
    <3> QED
      BY <2>2, <3>1
  <2> QED
    BY <2>2, <2>3, <2>4
<1>5. <<e>> \in Seq(Outcomes) /\ Len(<<e>>) = 1 /\ <<e>>[1] = e
  OBVIOUS
<1> HIDE DEF a, b
<1>6. /\ m \in Seq(Outcomes) /\ Len(m) = i + 1
      /\ \A j \in 1..i : m[j] = s[j]
      /\ m[i + 1] = e
  <2>1. /\ m \in Seq(Outcomes) /\ Len(m) = Len(a) + Len(<<e>>)
        /\ \A j \in 1..(Len(a) + Len(<<e>>)) :
             m[j] = IF j <= Len(a) THEN a[j] ELSE <<e>>[j - Len(a)]
    BY <1>3, <1>5, ConcatProperties
  <2> QED
    BY <1>1, <1>3, <1>5, <2>1
<1> HIDE DEF m
<1>7. /\ m \o b \in Seq(Outcomes) /\ Len(m \o b) = Len(m) + Len(b)
      /\ \A j \in 1..(Len(m) + Len(b)) : (m \o b)[j] = IF j <= Len(m) THEN m[j] ELSE b[j - Len(m)]
  BY <1>4, <1>6, ConcatProperties
<1>8. ASSUME NEW j \in 1..(Len(s) + 1)
      PROVE  (m \o b)[j] = IF j <= i THEN s[j] ELSE IF j = i + 1 THEN e ELSE s[j - 1]
  <2>1. CASE j <= i
    BY <1>1, <1>4, <1>6, <1>7, <2>1
  <2>2. CASE j = i + 1
    BY <1>1, <1>4, <1>6, <1>7, <2>2
  <2>3. CASE j > i + 1
    <3>1. (m \o b)[j] = b[j - (i + 1)]
      BY <1>1, <1>4, <1>6, <1>7, <2>3
    <3>2. j - (i + 1) \in 1..(Len(s) - i) /\ i + (j - (i + 1)) = j - 1
      BY <1>1, <2>3
    <3>3. b[j - (i + 1)] = s[i + (j - (i + 1))]
      BY <1>4, <3>2
    <3> QED
      BY <1>1, <2>3, <3>1, <3>2, <3>3
  <2>4. j <= i \/ j = i + 1 \/ j > i + 1
    BY <1>1
  <2> QED
    BY <2>1, <2>2, <2>3, <2>4
<1>9. Len(m \o b) = Len(s) + 1
  BY <1>1, <1>4, <1>6, <1>7
<1> QED
  BY <1>7, <1>8, <1>9 DEF a, b, m, Inserted

\* Neither, done before the newest success, touches the streak.
LEMMA StreakOfRemoval ==
    ASSUME NEW s \in Seq(Outcomes), NEW i \in 1..Len(s), i < NewestIn(s)
    PROVE  Streak(SubSeq(s, 1, i - 1) \o SubSeq(s, i + 1, Len(s)), Len(s) - NewestIn(s))
<1> DEFINE t == SubSeq(s, 1, i - 1) \o SubSeq(s, i + 1, Len(s))
           k == NewestIn(s)
<1>1. Len(s) \in Nat /\ k \in 0..Len(s)
  BY LenProperties, StreakIs
<1>2. t \in Seq(Outcomes) /\ Len(t) = Len(s) - 1
      /\ \A j \in 1..(Len(s) - 1) : t[j] = IF j < i THEN s[j] ELSE s[j + 1]
  BY RemovalIs
<1>3. Streak(s, Len(s) - k)
  BY StreakIs
<1>4. i < k
  OBVIOUS
<1> HIDE DEF t, k
<1>5. s[k] = "ok" /\ \A j \in 1..Len(s) : j > k => s[j] # "ok"
  BY <1>1, <1>3, <1>4 DEF Streak
<1>6. Len(t) - (Len(s) - k) = k - 1 /\ k - 1 \in 1..(Len(s) - 1) /\ Len(s) - k \in 0..Len(t)
  BY <1>1, <1>2, <1>4
<1>7. t[k - 1] = "ok"
  BY <1>1, <1>2, <1>4, <1>5, <1>6
<1>8. ASSUME NEW j \in 1..Len(t), j > k - 1 PROVE t[j] # "ok"
  BY <1>1, <1>2, <1>4, <1>5, <1>8
<1>9. Streak(t, Len(s) - k)
  BY <1>6, <1>7, <1>8 DEF Streak
<1> QED
  BY <1>9 DEF t, k

LEMMA StreakOfInsertion ==
    ASSUME NEW s \in Seq(Outcomes), NEW i \in 0..Len(s), i < NewestIn(s), NEW o \in Outcomes
    PROVE  Streak(Inserted(s, i, o), Len(s) - NewestIn(s))
<1> DEFINE t == Inserted(s, i, o)
           k == NewestIn(s)
<1>1. Len(s) \in Nat /\ k \in 0..Len(s)
  BY LenProperties, StreakIs
<1>2. t \in Seq(Outcomes) /\ Len(t) = Len(s) + 1
      /\ \A j \in 1..(Len(s) + 1) :
           t[j] = IF j <= i THEN s[j] ELSE IF j = i + 1 THEN o ELSE s[j - 1]
  BY InsertionIs
<1>3. Streak(s, Len(s) - k)
  BY StreakIs
<1>4. i < k
  OBVIOUS
<1> HIDE DEF t, k
<1>5. s[k] = "ok" /\ \A j \in 1..Len(s) : j > k => s[j] # "ok"
  BY <1>1, <1>3, <1>4 DEF Streak
<1>6. Len(t) - (Len(s) - k) = k + 1 /\ k + 1 \in 1..(Len(s) + 1) /\ Len(s) - k \in 0..Len(t)
  BY <1>1, <1>2, <1>4
<1>7. t[k + 1] = "ok"
  BY <1>1, <1>2, <1>4, <1>5, <1>6
<1>8. ASSUME NEW j \in 1..Len(t), j > k + 1 PROVE t[j] # "ok"
  BY <1>1, <1>2, <1>4, <1>5, <1>8
<1>9. Streak(t, Len(s) - k)
  BY <1>6, <1>7, <1>8 DEF Streak
<1> QED
  BY <1>9 DEF t, k

-----------------------------------------------------------------------------
(* The messages.                                                           *)

\* A message that leaves loses one recipient, and goes with the last; the others
\* keep their order. m[j] is where the message at j was before.
LEMMA LeavesIs ==
    ASSUME fanOuts \in Seq(FanOut), NEW i \in DOMAIN fanOuts, NEW q \in fanOuts[i].to, Leaves(i, q)
    PROVE  /\ fanOuts' \in Seq(FanOut)
           /\ \E m \in [DOMAIN fanOuts' -> DOMAIN fanOuts] :
                /\ \A j, k \in DOMAIN fanOuts' : m[j] = m[k] => j = k
                /\ \A j \in DOMAIN fanOuts' :
                     fanOuts'[j] = [fanOuts[m[j]] EXCEPT !.to = IF m[j] = i THEN @ \ {q} ELSE @]
                /\ \A k \in DOMAIN fanOuts :
                     k # i \/ fanOuts[i].to # {q} => \E j \in DOMAIN fanOuts' : m[j] = k
<1> DEFINE rest == fanOuts[i].to \ {q}
<1>1. Len(fanOuts) \in Nat /\ DOMAIN fanOuts = 1..Len(fanOuts) /\ i \in 1..Len(fanOuts)
  BY LenProperties
<1>2. \A k \in DOMAIN fanOuts : fanOuts[k] \in FanOut
  BY <1>1, ElementOfSeq
<1>3. CASE rest = {}
  <2>1. fanOuts' = SubSeq(fanOuts, 1, i - 1) \o SubSeq(fanOuts, i + 1, Len(fanOuts))
    BY <1>3 DEF Leaves
  <2>2. /\ fanOuts' \in Seq(FanOut) /\ Len(fanOuts') = Len(fanOuts) - 1
        /\ \A j \in 1..(Len(fanOuts) - 1) :
             fanOuts'[j] = IF j < i THEN fanOuts[j] ELSE fanOuts[j + 1]
    BY <1>1, <2>1, RemovalIs
  <2>3. DOMAIN fanOuts' = 1..(Len(fanOuts) - 1)
    BY <2>2, LenProperties
  <2> DEFINE m == [j \in DOMAIN fanOuts' |-> IF j < i THEN j ELSE j + 1]
  <2>4. m \in [DOMAIN fanOuts' -> DOMAIN fanOuts]
    BY <1>1, <2>3
  <2>5. ASSUME NEW j \in DOMAIN fanOuts'
        PROVE  /\ m[j] = (IF j < i THEN j ELSE j + 1) /\ m[j] # i /\ m[j] \in DOMAIN fanOuts
               /\ j \in 1..(Len(fanOuts) - 1)
               /\ fanOuts'[j] = fanOuts[m[j]]
    BY <1>1, <2>2, <2>3
  <2>6. ASSUME NEW j \in DOMAIN fanOuts', NEW k \in DOMAIN fanOuts', m[j] = m[k] PROVE j = k
    BY <1>1, <2>5, <2>6
  <2>7. ASSUME NEW k \in DOMAIN fanOuts, k # i PROVE \E j \in DOMAIN fanOuts' : m[j] = k
    <3>1. CASE k < i
      <4>1. k \in DOMAIN fanOuts'
        BY <1>1, <2>3, <3>1
      <4> QED
        BY <4>1, <2>5, <3>1
    <3>2. CASE k > i
      <4>1. k - 1 \in DOMAIN fanOuts' /\ ~(k - 1 < i) /\ (k - 1) + 1 = k
        BY <1>1, <2>3, <3>2
      <4> QED
        BY <4>1, <2>5
    <3> QED
      BY <1>1, <2>7, <3>1, <3>2
  <2> HIDE DEF m
  <2>8. \A j \in DOMAIN fanOuts' :
          fanOuts'[j] = [fanOuts[m[j]] EXCEPT !.to = IF m[j] = i THEN @ \ {q} ELSE @]
    BY <1>2, <2>5 DEF FanOut
  <2>9. fanOuts[i].to = {q}
    BY <1>3
  <2> QED
    BY <2>2, <2>4, <2>6, <2>7, <2>8, <2>9
<1>4. CASE rest # {}
  <2>1. fanOuts' = [fanOuts EXCEPT ![i].to = rest]
    BY <1>4 DEF Leaves
  <2>2. [fanOuts[i] EXCEPT !.to = rest] \in FanOut
    BY <1>1, <1>2 DEF FanOut
  <2>3. fanOuts' = [fanOuts EXCEPT ![i] = [fanOuts[i] EXCEPT !.to = rest]]
    BY <2>1
  <2>4. fanOuts' \in Seq(FanOut) /\ DOMAIN fanOuts' = DOMAIN fanOuts
    BY <1>1, <2>2, <2>3, ExceptSeq, LenProperties
  <2> DEFINE m == [j \in DOMAIN fanOuts' |-> j]
  <2>5. m \in [DOMAIN fanOuts' -> DOMAIN fanOuts] /\ \A j \in DOMAIN fanOuts' : m[j] = j
    BY <2>4
  <2> HIDE DEF m
  <2>6. \A j \in DOMAIN fanOuts' :
          fanOuts'[j] = [fanOuts[m[j]] EXCEPT !.to = IF m[j] = i THEN @ \ {q} ELSE @]
    BY <1>2, <2>3, <2>4, <2>5 DEF FanOut
  <2> QED
    BY <2>4, <2>5, <2>6
<1> QED
  BY <1>3, <1>4

\* So of the messages that will reach a recipient only the one just done with it
\* is gone.
LEMMA OnWayLeaves ==
    ASSUME fanOuts \in Seq(FanOut), NEW i \in DOMAIN fanOuts, NEW q \in fanOuts[i].to, Leaves(i, q),
           UNCHANGED outageAfter, NEW r \in Recipients, NEW event \in Events
    PROVE  /\ (\A j, k \in OnWay(r, event) : j = k) => (\A j, k \in OnWay(r, event)' : j = k)
           /\ OnWay(r, event)' # {} <=> \E k \in OnWay(r, event) : ~(r = q /\ k = i)
<1>1. PICK m \in [DOMAIN fanOuts' -> DOMAIN fanOuts] :
        /\ \A j, k \in DOMAIN fanOuts' : m[j] = m[k] => j = k
        /\ \A j \in DOMAIN fanOuts' :
             fanOuts'[j] = [fanOuts[m[j]] EXCEPT !.to = IF m[j] = i THEN @ \ {q} ELSE @]
        /\ \A k \in DOMAIN fanOuts :
             k # i \/ fanOuts[i].to # {q} => \E j \in DOMAIN fanOuts' : m[j] = k
  BY LeavesIs
<1>2. \A k \in DOMAIN fanOuts : fanOuts[k] \in FanOut
  BY LenProperties, ElementOfSeq
<1>3. ASSUME NEW j \in DOMAIN fanOuts'
      PROVE  /\ m[j] \in DOMAIN fanOuts
             /\ fanOuts'[j].event = fanOuts[m[j]].event /\ fanOuts'[j].streak = fanOuts[m[j]].streak
             /\ fanOuts'[j].past = fanOuts[m[j]].past
             /\ fanOuts'[j].to = IF m[j] = i THEN fanOuts[m[j]].to \ {q} ELSE fanOuts[m[j]].to
  <2> DEFINE f == fanOuts[m[j]]
             to == IF m[j] = i THEN f.to \ {q} ELSE f.to
  <2>1. m[j] \in DOMAIN fanOuts /\ f \in FanOut
    BY <1>1, <1>2
  <2>2. fanOuts'[j] = [f EXCEPT !.to = to]
    BY <1>1
  <2> HIDE DEF f, to
  <2>3. /\ fanOuts'[j].event = f.event /\ fanOuts'[j].streak = f.streak
        /\ fanOuts'[j].past = f.past /\ fanOuts'[j].to = to
    BY <2>1, <2>2 DEF FanOut
  <2> QED
    BY <2>1, <2>3 DEF f, to
<1>4. ASSUME NEW j \in DOMAIN fanOuts'
      PROVE  j \in OnWay(r, event)' <=> m[j] \in OnWay(r, event) /\ ~(r = q /\ m[j] = i)
  BY <1>3 DEF OnWay, Reaches, AnnouncesOutage, AnnouncesRecovery
<1>5. ASSUME \A j, k \in OnWay(r, event) : j = k,
             NEW j \in OnWay(r, event)', NEW k \in OnWay(r, event)'
      PROVE  j = k
  <2>1. j \in DOMAIN fanOuts' /\ k \in DOMAIN fanOuts'
    BY DEF OnWay
  <2>2. m[j] = m[k]
    BY <1>4, <1>5, <2>1
  <2> QED
    BY <1>1, <2>1, <2>2
<1>6. ASSUME NEW j \in OnWay(r, event)' PROVE \E k \in OnWay(r, event) : ~(r = q /\ k = i)
  <2>1. j \in DOMAIN fanOuts'
    BY DEF OnWay
  <2> QED
    BY <1>4, <2>1
<1>7. ASSUME NEW k \in OnWay(r, event), ~(r = q /\ k = i) PROVE OnWay(r, event)' # {}
  <2>1. k \in DOMAIN fanOuts /\ r \in fanOuts[k].to
    BY DEF OnWay
  <2>2. k # i \/ fanOuts[i].to # {q}
    BY <1>7, <2>1
  <2>3. PICK j \in DOMAIN fanOuts' : m[j] = k
    BY <1>1, <2>1, <2>2
  <2> QED
    BY <1>4, <1>7, <2>3
<1>8. OnWay(r, event)' # {} => \E k \in OnWay(r, event) : ~(r = q /\ k = i)
  BY <1>6
<1> QED
  BY <1>5, <1>7, <1>8

\* A message that is sent joins those on their way, unless there is nothing to
\* say or the target does not page.
LEMMA SentIs ==
    ASSUME fanOuts \in Seq(FanOut), NEW event \in Events, NEW n \in 0..MaxRows, Sent(event, n)
    PROVE  /\ fanOuts' \in Seq(FanOut)
           /\ n = 0 => fanOuts' = fanOuts
           /\ n > 0 /\ watched /\ Recipients # {} =>
                fanOuts' = Append(fanOuts, [event |-> event, streak |-> n,
                                            to |-> Recipients, past |-> FALSE])
<1> DEFINE f == [event |-> event, streak |-> n, to |-> Recipients, past |-> FALSE]
<1>1. n > 0 => f \in FanOut
  BY DEF FanOut, Events
<1>2. n > 0 => Append(fanOuts, f) \in Seq(FanOut)
  BY <1>1, AppendProperties
<1>3. n = 0 \/ n > 0
  OBVIOUS
<1> QED
  BY <1>2, <1>3 DEF Sent

\* What that does to the messages that will reach a recipient.
LEMMA OnWaySent ==
    ASSUME fanOuts \in Seq(FanOut), NEW event \in Events, NEW n \in 1..MaxRows,
           fanOuts' = Append(fanOuts, [event |-> event, streak |-> n,
                                       to |-> Recipients, past |-> FALSE]),
           UNCHANGED outageAfter, NEW r \in Recipients, NEW e \in Events
    PROVE  OnWay(r, e)' =
             OnWay(r, e) \cup
               (IF e = event /\ outageAfter[r] # Off
                   /\ (IF e = "outage" THEN n = outageAfter[r] ELSE n >= outageAfter[r])
                THEN {Len(fanOuts) + 1} ELSE {})
<1> DEFINE f == [event |-> event, streak |-> n, to |-> Recipients, past |-> FALSE]
           N == Len(fanOuts)
<1>1. f \in FanOut
  BY DEF FanOut, Events
<1>2. /\ N \in Nat /\ DOMAIN fanOuts = 1..N
      /\ fanOuts' \in Seq(FanOut) /\ Len(fanOuts') = N + 1
      /\ \A i \in 1..N : fanOuts'[i] = fanOuts[i]
      /\ fanOuts'[N + 1] = f
  BY <1>1, AppendProperties, LenProperties
<1>3. DOMAIN fanOuts' = 1..(N + 1)
  BY <1>2, LenProperties
<1>4. f.event = event /\ f.streak = n /\ f.to = Recipients /\ f.past = FALSE
  OBVIOUS
<1> HIDE DEF f, N
<1>5. ASSUME NEW i \in 1..N PROVE i \in OnWay(r, e)' <=> i \in OnWay(r, e)
  BY <1>2, <1>3, <1>5 DEF OnWay, Reaches
<1>6. N + 1 \in OnWay(r, e)' <=>
        e = event /\ outageAfter[r] # Off
        /\ (IF e = "outage" THEN n = outageAfter[r] ELSE n >= outageAfter[r])
  BY <1>2, <1>3, <1>4 DEF OnWay, Reaches, AnnouncesOutage, AnnouncesRecovery, Events
<1>7. OnWay(r, e)' \subseteq 1..(N + 1) /\ OnWay(r, e) \subseteq 1..N
  BY <1>2, <1>3 DEF OnWay
<1> QED
  BY <1>2, <1>5, <1>6, <1>7 DEF N

-----------------------------------------------------------------------------
(* The types.                                                              *)

LEMMA ExcusedIs ==
    ASSUME told \in [Recipients -> Heard], NEW whom
    PROVE  /\ Excused(whom) \in [Recipients -> Heard]
           /\ \A r \in Recipients : IF r \in whom THEN Excused(whom)[r].excused
                                    ELSE Excused(whom)[r] = told[r]
<1>1. NothingHeard(TRUE) \in Heard /\ NothingHeard(TRUE).excused
  BY DEF NothingHeard, Heard
<1> QED
  BY <1>1 DEF Excused

LEMMA ToldIs ==
    ASSUME TypeOK, NEW i \in DOMAIN fanOuts, NEW q \in fanOuts[i].to
    PROVE  /\ q \in Recipients
           /\ Told(i, q) \in [Recipients -> Heard]
           /\ \A r \in Recipients : /\ Told(i, q)[r].excused = told[r].excused
                                    /\ r # q => Told(i, q)[r] = told[r]
<1>1. fanOuts[i] \in FanOut
  BY LenProperties, ElementOfSeq DEF TypeOK
<1>2. q \in Recipients /\ told[q] \in Heard
  BY <1>1 DEF FanOut, TypeOK
<1>3. \A n \in 0..2 : AtMostTwo(n + 1) \in 0..2
  BY DEF AtMostTwo
<1> QED
  BY <1>2, <1>3 DEF Told, TypeOK, Heard

LEMMA StreakInRows ==
    ASSUME TypeOK
    PROVE  /\ Len(rows) \in Nat /\ rows \in Seq(Outcomes) /\ Len(rows) <= MaxRows
           /\ NewestSuccess = NewestIn(rows) /\ NewestSuccess \in 0..Len(rows)
           /\ FailureStreak \in 0..Len(rows)
           /\ Streak(rows, FailureStreak)
<1>1. rows \in Seq(Outcomes) /\ Len(rows) <= MaxRows
  BY DEF TypeOK, Outcomes
<1>2. Len(rows) \in Nat
  BY <1>1, LenProperties
<1>3. NewestSuccess = NewestIn(rows)
  BY DEF NewestSuccess, NewestIn
<1>4. FailureStreak = Len(rows) - NewestIn(rows)
  BY <1>3 DEF FailureStreak
<1>5. NewestIn(rows) \in 0..Len(rows)
  BY <1>1, StreakIs
<1>6. Streak(rows, FailureStreak)
  BY <1>1, <1>4, StreakIs
<1>7. FailureStreak \in 0..Len(rows)
  BY <1>2, <1>4, <1>5
<1> QED
  BY <1>1, <1>2, <1>3, <1>5, <1>6, <1>7

\* Every number of the rows that remain is a streak of theirs, if it is one.
LEMMA StreakAfter ==
    ASSUME rows' \in Seq(Outcomes), NEW n \in Int, Streak(rows', n)
    PROVE  FailureStreak' = n
<1>1. n \in 0..Len(rows')
  BY DEF Streak
<1>2. n = Len(rows') - NewestIn(rows')
  BY <1>1, StreakIs
<1> QED
  BY <1>2 DEF FailureStreak, NewestSuccess, NewestIn

LEMMA TypesOfTest ==
    ASSUME TypeOK, RowsFit,
           \/ TestStarts \/ TestMeasures \/ TestFails
           \/ EndedRead \/ EndedRefused \/ SuccessRecorded \/ SuccessRefused \/ RecoverySent
           \/ FailureRecorded \/ FailureRefused \/ OutageSent \/ StreakRefused
    PROVE  TypeOK' /\ RowsFit'
<1> USE DEF Off
<1>0. 0 \in 0..MaxRows /\ 1 \in 0..MaxRows
  OBVIOUS
<1>1. CASE TestStarts
  BY <1>0, <1>1 DEF TestStarts, TypeOK, Steps, RowsFit, settings, ghosts
<1>2. CASE TestMeasures
  BY <1>2 DEF TestMeasures, TypeOK, Steps, RowsFit, settings, ghosts
<1>3. CASE TestFails
  BY <1>0, <1>3 DEF TestFails, Caught, TypeOK, Steps, RowsFit, settings, ghosts
<1>4. CASE EndedRead
  <2>1. FailureStreak \in 0..MaxRows
    BY StreakInRows
  <2> QED
    BY <1>4, <2>1 DEF EndedRead, TypeOK, Steps, RowsFit, settings, ghosts
<1>5. CASE EndedRefused
  BY <1>5, ExcusedIs DEF EndedRefused, TypeOK, Steps, RowsFit, settings, ghosts
<1>6. CASE SuccessRecorded
  <2>1. Append(rows, "ok") \in Seq(Outcomes) /\ Len(Append(rows, "ok")) = Len(rows) + 1
    BY StreakInRows, AppendProperties DEF Outcomes
  <2>2. rows' \in Seq({"ok", "failed"}) /\ Len(rows') <= MaxRows
    BY <1>6, <2>1, StreakInRows DEF SuccessRecorded, RowsFit, Outcomes
  <2> QED
    BY <1>6, <2>2 DEF SuccessRecorded, TypeOK, Steps, RowsFit, settings, ghosts
<1>7. CASE SuccessRefused
  BY <1>0, <1>7 DEF SuccessRefused, Caught, TypeOK, Steps, RowsFit, settings, ghosts
<1>8. CASE RecoverySent
  <2>1. ended \in 0..MaxRows /\ fanOuts \in Seq(FanOut)
    BY DEF TypeOK
  <2>2. fanOuts' \in Seq(FanOut)
    BY <1>8, <2>1, SentIs DEF RecoverySent, Events
  <2> QED
    BY <1>0, <1>8, <2>2 DEF RecoverySent, TypeOK, Steps, RowsFit, settings, ghosts
<1>9. CASE FailureRecorded
  <2>1. Append(rows, "failed") \in Seq(Outcomes) /\ Len(Append(rows, "failed")) = Len(rows) + 1
    BY StreakInRows, AppendProperties DEF Outcomes
  <2>2. rows' \in Seq({"ok", "failed"}) /\ Len(rows') <= MaxRows
    BY <1>9, <2>1, StreakInRows DEF FailureRecorded, RowsFit, Outcomes
  <2>3. \A b \in BOOLEAN : NothingHeard(b) \in Heard
    BY DEF NothingHeard, Heard
  <2>4. told' \in [Recipients -> Heard]
    BY <1>9, <2>3 DEF FailureRecorded, TypeOK
  <2>5. episode' \in [failures : 0..MaxRows, over : BOOLEAN]
    <3>1. episode \in [failures : 0..MaxRows, over : BOOLEAN]
      BY DEF TypeOK
    <3>2. CASE episode.over
      <4>1. episode' = [failures |-> 1, over |-> FALSE]
        BY <1>9, <3>2 DEF FailureRecorded
      <4> QED
        BY <1>0, <4>1
    <3>3. CASE ~episode.over
      <4>1. episode' = [episode EXCEPT !.failures = IF @ < MaxRows THEN @ + 1 ELSE @]
        BY <1>9, <3>3 DEF FailureRecorded
      <4> QED
        BY <3>1, <4>1
    <3> QED
      BY <3>2, <3>3
  <2>6. fanOuts' \in Seq(FanOut)
    <3>1. Len(fanOuts) \in Nat /\ DOMAIN fanOuts = 1..Len(fanOuts)
      BY LenProperties DEF TypeOK
    <3>2. ASSUME NEW i \in DOMAIN fanOuts PROVE [fanOuts[i] EXCEPT !.past = TRUE] \in FanOut
      <4>1. fanOuts[i] \in FanOut
        BY <3>1, ElementOfSeq DEF TypeOK
      <4> QED
        BY <4>1 DEF FanOut
    <3>3. [i \in DOMAIN fanOuts |-> [fanOuts[i] EXCEPT !.past = TRUE]] \in Seq(FanOut)
      BY <3>1, <3>2
    <3> QED
      BY <1>9, <3>3 DEF FailureRecorded, TypeOK
  <2> QED
    BY <1>9, <2>2, <2>4, <2>5, <2>6 DEF FailureRecorded, TypeOK, Steps, RowsFit, settings
<1>10. CASE FailureRefused
  BY <1>10 DEF FailureRefused, TypeOK, Steps, RowsFit, settings, ghosts
<1>11. CASE OutageSent
  <2>1. FailureStreak \in 0..MaxRows /\ fanOuts \in Seq(FanOut)
    BY StreakInRows DEF TypeOK
  <2>2. fanOuts' \in Seq(FanOut)
    BY <1>11, <2>1, SentIs DEF OutageSent, Events
  <2> QED
    BY <1>11, <2>2 DEF OutageSent, TypeOK, Steps, RowsFit, settings, ghosts
<1>12. CASE StreakRefused
  BY <1>12, ExcusedIs DEF StreakRefused, TypeOK, Steps, RowsFit, settings, ghosts
<1> QED
  BY <1>1, <1>2, <1>3, <1>4, <1>5, <1>6, <1>7, <1>8, <1>9, <1>10, <1>11, <1>12

LEMMA DisturbsIs ==
    ASSUME TypeOK, NEW i, Disturbs(i)
    PROVE  told' \in [Recipients -> Heard] /\ tampered' \in BOOLEAN
<1>1. told \in [Recipients -> Heard] /\ tampered \in BOOLEAN
  BY DEF TypeOK
<1>2. CASE told' = Excused(Recipients) /\ tampered' = TRUE
  BY <1>1, <1>2, ExcusedIs
<1>3. CASE UNCHANGED <<told, tampered>>
  BY <1>1, <1>3
<1> QED
  BY <1>2, <1>3 DEF Disturbs

LEMMA TypesOfRest ==
    ASSUME TypeOK, RowsFit,
           \/ \E i \in DOMAIN fanOuts, q \in Recipients : Delivered(i, q) \/ Undelivered(i, q)
           \/ \E q \in Recipients, after \in Lengths \cup {Off} : RecipientChanged(q, after)
           \/ AlertsChanged \/ SweptOld \/ HistoryCleared
           \/ \E i \in DOMAIN rows : RowDeleted(i)
           \/ \E i \in 0..Len(rows), outcome \in {"ok", "failed"} : RowImported(i, outcome)
           \/ Restarted
           \/ UNCHANGED vars
    PROVE  TypeOK' /\ RowsFit'
<1> USE DEF Off
<1>0. fanOuts \in Seq(FanOut) /\ told \in [Recipients -> Heard]
  BY DEF TypeOK
<1>1. ASSUME NEW i \in DOMAIN fanOuts, NEW q \in Recipients, Delivered(i, q)
      PROVE  TypeOK' /\ RowsFit'
  <2>1. q \in fanOuts[i].to /\ Leaves(i, q) /\ told' = Told(i, q)
    BY <1>1 DEF Delivered
  <2>2. fanOuts' \in Seq(FanOut) /\ told' \in [Recipients -> Heard]
    BY <1>0, <2>1, LeavesIs, ToldIs
  <2> QED
    BY <1>1, <2>2 DEF Delivered, TypeOK, RowsFit, settings, test
<1>2. ASSUME NEW i \in DOMAIN fanOuts, NEW q \in Recipients, Undelivered(i, q)
      PROVE  TypeOK' /\ RowsFit'
  <2>1. q \in fanOuts[i].to /\ Leaves(i, q) /\ told' = Excused({q})
    BY <1>2 DEF Undelivered
  <2>2. fanOuts' \in Seq(FanOut) /\ told' \in [Recipients -> Heard]
    BY <1>0, <2>1, LeavesIs, ExcusedIs
  <2> QED
    BY <1>2, <2>2 DEF Undelivered, TypeOK, RowsFit, settings, test
<1>3. ASSUME NEW q \in Recipients, NEW after \in Lengths \cup {Off}, RecipientChanged(q, after)
      PROVE  TypeOK' /\ RowsFit'
  <2>1. told' \in [Recipients -> Heard]
    BY <1>0, <1>3, ExcusedIs DEF RecipientChanged
  <2> QED
    BY <1>3, <2>1 DEF RecipientChanged, TypeOK, RowsFit, test
<1>4. CASE AlertsChanged
  <2>1. told' \in [Recipients -> Heard]
    BY <1>0, <1>4, ExcusedIs DEF AlertsChanged
  <2> QED
    BY <1>4, <2>1 DEF AlertsChanged, TypeOK, RowsFit, test
<1>5. CASE SweptOld
  <2>1. rows # <<>>
    BY <1>5 DEF SweptOld
  <2>2. Tail(rows) \in Seq(Outcomes) /\ Len(Tail(rows)) = Len(rows) - 1
    BY <2>1, StreakInRows, HeadTailProperties
  <2>3. rows' \in Seq({"ok", "failed"}) /\ Len(rows') <= Len(rows)
    BY <1>5, <2>2, StreakInRows DEF SweptOld, Outcomes
  <2> QED
    BY <1>5, <2>3, StreakInRows DEF SweptOld, TypeOK, RowsFit, settings, test, ghosts
<1>6. CASE HistoryCleared
  <2>1. rows' \in Seq({"ok", "failed"}) /\ Len(rows') = 0 /\ 0 <= MaxRows /\ 0 < MaxRows
    BY <1>6 DEF HistoryCleared
  <2>2. told' \in [Recipients -> Heard] /\ tampered' \in BOOLEAN
    BY <1>6, DisturbsIs DEF HistoryCleared
  <2> QED
    BY <1>6, <2>1, <2>2 DEF HistoryCleared, TypeOK, RowsFit, settings, test
<1>7. ASSUME NEW i \in DOMAIN rows, RowDeleted(i) PROVE TypeOK' /\ RowsFit'
  <2>1. i \in 1..Len(rows)
    BY StreakInRows, LenProperties
  <2>2. rows' \in Seq(Outcomes) /\ Len(rows') = Len(rows) - 1
    BY <1>7, <2>1, StreakInRows, RemovalIs DEF RowDeleted
  <2>3. rows' \in Seq({"ok", "failed"}) /\ Len(rows') <= Len(rows)
    BY <2>2, StreakInRows DEF Outcomes
  <2>4. told' \in [Recipients -> Heard] /\ tampered' \in BOOLEAN
    BY <1>7, DisturbsIs DEF RowDeleted
  <2>5. UNCHANGED <<test, fanOuts, settings, episode>>
    BY <1>7 DEF RowDeleted
  <2> QED
    BY <2>2, <2>3, <2>4, <2>5, StreakInRows DEF TypeOK, RowsFit, settings, test
<1>8. ASSUME NEW i \in 0..Len(rows), NEW o \in {"ok", "failed"}, RowImported(i, o)
      PROVE  TypeOK' /\ RowsFit'
  <2>1. rows' \in Seq(Outcomes) /\ Len(rows') = Len(rows) + 1
    BY <1>8, StreakInRows, InsertionIs DEF RowImported, Outcomes, Inserted
  <2>2. Len(rows) < MaxRows - 1 /\ UNCHANGED <<test, fanOuts, settings, episode>>
    BY <1>8 DEF RowImported
  <2>3. rows' \in Seq({"ok", "failed"}) /\ Len(rows') < MaxRows /\ Len(rows') \in Nat
    BY <2>1, <2>2, StreakInRows DEF Outcomes
  <2>4. told' \in [Recipients -> Heard] /\ tampered' \in BOOLEAN
    BY <1>8, DisturbsIs DEF RowImported
  <2> QED
    BY <2>2, <2>3, <2>4 DEF TypeOK, RowsFit, settings, test
<1>9. CASE Restarted
  <2>1. told' \in [Recipients -> Heard]
    BY <1>0, <1>9, ExcusedIs DEF Restarted
  <2>2. fanOuts' \in Seq(FanOut)
    BY <1>9 DEF Restarted
  <2>3. 0 \in 0..MaxRows
    OBVIOUS
  <2> QED
    BY <1>9, <2>1, <2>2, <2>3 DEF Restarted, TypeOK, RowsFit, settings, Steps
<1>10. CASE UNCHANGED vars
  BY <1>10 DEF vars, TypeOK, RowsFit, settings, test, ghosts
<1> QED
  BY <1>1, <1>2, <1>3, <1>4, <1>5, <1>6, <1>7, <1>8, <1>9, <1>10

-----------------------------------------------------------------------------
(* The streak and the episode.                                             *)

\* An action that leaves the rows and the episode as they are.
LEMMA StreakStands ==
    ASSUME TypeOK, StreakKnown, UNCHANGED <<rows, episode, tampered>>,
           \A r \in Recipients : told[r].excused => told'[r].excused
    PROVE  StreakKnown'
<1>1. FailureStreak' = FailureStreak
  BY DEF FailureStreak, NewestSuccess
<1>2. CASE tampered
  BY <1>2 DEF StreakKnown
<1>3. CASE ~tampered
  BY <1>1, <1>3 DEF StreakKnown, Agrees
<1> QED
  BY <1>2, <1>3

\* A row comes or goes, before the newest success or behind the streak's back.
LEMMA StreakDisturbed ==
    ASSUME TypeOK, StreakKnown, UNCHANGED episode, NEW i, Disturbs(i),
           ~(i >= NewestSuccess) => FailureStreak' = FailureStreak
    PROVE  StreakKnown'
<1>1. CASE i >= NewestSuccess
  <2>1. told' = Excused(Recipients) /\ tampered'
    BY <1>1 DEF Disturbs
  <2>2. \A r \in Recipients : told'[r].excused
    BY <2>1, ExcusedIs DEF TypeOK
  <2> QED
    BY <2>1, <2>2 DEF StreakKnown
<1>2. CASE ~(i >= NewestSuccess)
  <2>1. UNCHANGED <<told, tampered>>
    BY <1>2 DEF Disturbs
  <2>2. FailureStreak' = FailureStreak
    BY <1>2
  <2>3. CASE tampered
    BY <2>1, <2>3 DEF StreakKnown
  <2>4. CASE ~tampered
    BY <2>1, <2>2, <2>4 DEF StreakKnown, Agrees
  <2> QED
    BY <2>3, <2>4
<1> QED
  BY <1>1, <1>2

LEMMA StreakOfTest ==
    ASSUME TypeOK, RowsFit, StepFits, StreakKnown,
           \/ TestStarts \/ TestMeasures \/ TestFails
           \/ EndedRead \/ EndedRefused \/ SuccessRecorded \/ SuccessRefused \/ RecoverySent
           \/ FailureRecorded \/ FailureRefused \/ OutageSent \/ StreakRefused
    PROVE  StepFits' /\ StreakKnown'
<1>0. told \in [Recipients -> Heard] /\ episode \in [failures : 0..MaxRows, over : BOOLEAN]
  BY DEF TypeOK
<1>1. CASE TestStarts \/ TestMeasures \/ TestFails \/ EndedRead \/ SuccessRefused
           \/ RecoverySent \/ FailureRefused \/ OutageSent
  <2>1. UNCHANGED <<rows, episode, told, tampered>>
    BY <1>1 DEF TestStarts, TestMeasures, TestFails, EndedRead, SuccessRefused, RecoverySent,
                FailureRefused, OutageSent, ghosts
  <2>2. step' \notin {"counting", "recorded"}
    BY <1>1 DEF TestStarts, TestMeasures, TestFails, EndedRead, SuccessRefused, RecoverySent,
                FailureRefused, OutageSent, Caught
  <2>3. StreakKnown'
    BY <2>1, StreakStands
  <2> QED
    BY <2>1, <2>2, <2>3 DEF StepFits
<1>2. CASE EndedRefused \/ StreakRefused
  <2>1. UNCHANGED <<rows, episode, tampered>> /\ told' = Excused(Recipients)
    BY <1>2 DEF EndedRefused, StreakRefused
  <2>2. step' \notin {"counting", "recorded"}
    BY <1>2 DEF EndedRefused, StreakRefused
  <2>3. StreakKnown'
    BY <1>0, <2>1, ExcusedIs, StreakStands
  <2> QED
    BY <2>1, <2>2, <2>3 DEF StepFits
<1>3. CASE SuccessRecorded
  <2>1. /\ rows' = Append(rows, "ok") /\ step' = "recorded" /\ tampered' = FALSE
        /\ episode' = [episode EXCEPT !.over = TRUE]
    BY <1>3 DEF SuccessRecorded
  <2>2. rows' \in Seq(Outcomes) /\ Streak(rows', 0)
    BY <2>1, StreakInRows, StreakOfAppend
  <2>3. FailureStreak' = 0
    BY <2>2, StreakAfter
  <2>4. episode'.over = TRUE
    BY <1>0, <2>1
  <2> QED
    BY <2>1, <2>3, <2>4 DEF StepFits, StreakKnown
<1>4. CASE FailureRecorded
  <2>1. step = "failed" /\ step' = "counting" /\ rows' = Append(rows, "failed") /\ tampered' = tampered
    BY <1>4 DEF FailureRecorded
  <2>2. rows' \in Seq(Outcomes) /\ Streak(rows', FailureStreak + 1)
    BY <2>1, StreakInRows, StreakOfAppend
  <2>3. FailureStreak \in 0..Len(rows) /\ Len(rows) < MaxRows /\ Len(rows) \in Nat
    BY <2>1, StreakInRows DEF RowsFit
  <2>4. FailureStreak' = FailureStreak + 1
    BY <2>2, <2>3, StreakAfter
  <2>5. CASE episode.over
    <3>1. /\ episode' = [failures |-> 1, over |-> FALSE]
          /\ told' = [r \in Recipients |-> NothingHeard(tampered \/ ~(watched /\ alerts))]
      BY <1>4, <2>5 DEF FailureRecorded
    <3>2. episode'.failures = 1 /\ episode'.over = FALSE
      BY <3>1
    <3>3. CASE tampered
      <4>1. \A r \in Recipients : told'[r].excused
        BY <3>1, <3>3 DEF NothingHeard
      <4> QED
        BY <2>1, <3>2, <3>3, <4>1 DEF StepFits, StreakKnown
    <3>4. CASE ~tampered
      <4>1. FailureStreak = 0
        BY <2>5, <3>4 DEF StreakKnown
      <4> QED
        BY <2>1, <2>4, <3>2, <3>4, <4>1 DEF StepFits, StreakKnown, Agrees
    <3> QED
      BY <3>3, <3>4
  <2>6. CASE ~episode.over
    <3>1. /\ episode' = [episode EXCEPT !.failures = IF @ < MaxRows THEN @ + 1 ELSE @]
          /\ told' = told
      BY <1>4, <2>6 DEF FailureRecorded
    <3>2. /\ episode'.failures = IF episode.failures < MaxRows THEN episode.failures + 1
                                 ELSE episode.failures
          /\ episode'.over = episode.over /\ episode.failures \in 0..MaxRows
      BY <1>0, <3>1
    <3>3. CASE tampered
      BY <2>1, <2>6, <3>1, <3>2, <3>3 DEF StepFits, StreakKnown
    <3>4. CASE ~tampered
      <4>1. Agrees(FailureStreak)
        BY <2>6, <3>4 DEF StreakKnown
      <4>2. Agrees(FailureStreak)'
        BY <2>3, <2>4, <3>2, <4>1 DEF Agrees
      <4> QED
        BY <2>1, <2>6, <3>2, <3>4, <4>2 DEF StepFits, StreakKnown
    <3> QED
      BY <3>3, <3>4
  <2> QED
    BY <2>5, <2>6
<1> QED
  BY <1>1, <1>2, <1>3, <1>4

LEMMA StreakOfRest ==
    ASSUME TypeOK, RowsFit, StepFits, StreakKnown,
           \/ \E i \in DOMAIN fanOuts, q \in Recipients : Delivered(i, q) \/ Undelivered(i, q)
           \/ \E q \in Recipients, after \in Lengths \cup {Off} : RecipientChanged(q, after)
           \/ AlertsChanged \/ SweptOld \/ HistoryCleared
           \/ \E i \in DOMAIN rows : RowDeleted(i)
           \/ \E i \in 0..Len(rows), outcome \in {"ok", "failed"} : RowImported(i, outcome)
           \/ Restarted
           \/ UNCHANGED vars
    PROVE  StepFits' /\ StreakKnown'
<1>0. told \in [Recipients -> Heard] /\ episode \in [failures : 0..MaxRows, over : BOOLEAN]
  BY DEF TypeOK
<1>1. ASSUME NEW i \in DOMAIN fanOuts, NEW q \in Recipients, Delivered(i, q)
      PROVE  StepFits' /\ StreakKnown'
  <2>1. /\ q \in fanOuts[i].to /\ told' = Told(i, q)
        /\ UNCHANGED <<rows, step, episode, tampered>>
    BY <1>1 DEF Delivered, test
  <2>2. StreakKnown'
    BY <2>1, ToldIs, StreakStands
  <2> QED
    BY <2>1, <2>2 DEF StepFits
<1>2. ASSUME NEW i \in DOMAIN fanOuts, NEW q \in Recipients, Undelivered(i, q)
      PROVE  StepFits' /\ StreakKnown'
  <2>1. told' = Excused({q}) /\ UNCHANGED <<rows, step, episode, tampered>>
    BY <1>2 DEF Undelivered, test
  <2>2. StreakKnown'
    BY <1>0, <2>1, ExcusedIs, StreakStands
  <2> QED
    BY <2>1, <2>2 DEF StepFits
<1>3. ASSUME NEW q \in Recipients, NEW after \in Lengths \cup {Off}, RecipientChanged(q, after)
      PROVE  StepFits' /\ StreakKnown'
  <2>1. told' = Excused({q}) /\ UNCHANGED <<rows, step, episode, tampered>>
    BY <1>3 DEF RecipientChanged, test
  <2>2. StreakKnown'
    BY <1>0, <2>1, ExcusedIs, StreakStands
  <2> QED
    BY <2>1, <2>2 DEF StepFits
<1>4. CASE AlertsChanged
  <2>1. told' = Excused(Recipients) /\ UNCHANGED <<rows, step, episode, tampered>>
    BY <1>4 DEF AlertsChanged, test
  <2>2. StreakKnown'
    BY <1>0, <2>1, ExcusedIs, StreakStands
  <2> QED
    BY <2>1, <2>2 DEF StepFits
<1>5. CASE SweptOld
  <2>1. Len(rows) > MaxKept /\ rows' = Tail(rows) /\ UNCHANGED <<step, episode, told, tampered>>
    BY <1>5 DEF SweptOld, test, ghosts
  <2>2. rows # <<>>
    BY <2>1
  <2> DEFINE n == IF FailureStreak = Len(rows) THEN FailureStreak - 1 ELSE FailureStreak
  <2>3. rows' \in Seq(Outcomes) /\ Streak(rows', n)
    BY <2>1, <2>2, StreakInRows, StreakOfTail
  <2>4. n \in Int
    BY StreakInRows
  <2> HIDE DEF n
  <2>5. FailureStreak' = n
    BY <2>3, <2>4, StreakAfter
  <2> USE DEF n
  <2>6. Len(rows) \in Nat /\ FailureStreak \in 0..Len(rows)
    BY StreakInRows
  <2>7. CASE tampered
    BY <2>1, <2>7 DEF StepFits, StreakKnown
  <2>8. CASE ~tampered /\ episode.over
    BY <2>1, <2>5, <2>6, <2>8 DEF StepFits, StreakKnown
  <2>9. CASE ~tampered /\ ~episode.over
    <3>1. Agrees(FailureStreak)
      BY <2>9 DEF StreakKnown
    <3>2. Agrees(FailureStreak)'
      BY <1>0, <2>1, <2>5, <2>6, <3>1 DEF Agrees
    <3> QED
      BY <2>1, <2>9, <3>2 DEF StepFits, StreakKnown
  <2> QED
    BY <2>7, <2>8, <2>9
<1>6. CASE HistoryCleared
  <2>1. Disturbs(Len(rows)) /\ UNCHANGED <<step, episode>>
    BY <1>6 DEF HistoryCleared, test
  <2>2. Len(rows) >= NewestSuccess
    BY StreakInRows
  <2>3. StreakKnown'
    BY <2>1, <2>2, StreakDisturbed
  <2> QED
    BY <2>1, <2>3 DEF StepFits
<1>7. ASSUME NEW i \in DOMAIN rows, RowDeleted(i) PROVE StepFits' /\ StreakKnown'
  <2>1. /\ rows' = SubSeq(rows, 1, i - 1) \o SubSeq(rows, i + 1, Len(rows))
        /\ Disturbs(i) /\ UNCHANGED <<step, episode>>
    BY <1>7 DEF RowDeleted, test
  <2>2. i \in 1..Len(rows) /\ i \in Int
    BY StreakInRows, LenProperties
  <2>3. ASSUME ~(i >= NewestSuccess) PROVE FailureStreak' = FailureStreak
    <3>1. i < NewestIn(rows)
      BY <2>2, <2>3, StreakInRows
    <3>2. rows' \in Seq(Outcomes)
      BY <2>1, <2>2, StreakInRows, RemovalIs
    <3>3. Streak(rows', Len(rows) - NewestIn(rows))
      BY <2>1, <2>2, <3>1, StreakInRows, StreakOfRemoval
    <3>4. FailureStreak = Len(rows) - NewestIn(rows) /\ FailureStreak \in Int
      BY StreakInRows DEF FailureStreak
    <3> QED
      BY <3>2, <3>3, <3>4, StreakAfter
  <2>4. StreakKnown'
    BY <2>1, <2>3, StreakDisturbed
  <2> QED
    BY <2>1, <2>4 DEF StepFits
<1>8. ASSUME NEW i \in 0..Len(rows), NEW o \in {"ok", "failed"}, RowImported(i, o)
      PROVE  StepFits' /\ StreakKnown'
  <2>1. /\ rows' = Inserted(rows, i, o)
        /\ Disturbs(i) /\ UNCHANGED <<step, episode>>
    BY <1>8 DEF RowImported, test, Inserted
  <2>2. i \in Int /\ o \in Outcomes
    BY StreakInRows DEF Outcomes
  <2>3. ASSUME ~(i >= NewestSuccess) PROVE FailureStreak' = FailureStreak
    <3>1. i < NewestIn(rows)
      BY <2>2, <2>3, StreakInRows
    <3>2. rows' \in Seq(Outcomes)
      BY <2>1, <2>2, StreakInRows, InsertionIs
    <3>3. Streak(rows', Len(rows) - NewestIn(rows))
      BY <2>1, <2>2, <3>1, StreakInRows, StreakOfInsertion
    <3>4. FailureStreak = Len(rows) - NewestIn(rows) /\ FailureStreak \in Int
      BY StreakInRows DEF FailureStreak
    <3> QED
      BY <3>2, <3>3, <3>4, StreakAfter
  <2>4. StreakKnown'
    BY <2>1, <2>3, StreakDisturbed
  <2> QED
    BY <2>1, <2>4 DEF StepFits
<1>9. CASE Restarted
  <2>1. /\ step' = "idle" /\ UNCHANGED <<rows, episode, tampered>>
        /\ \E whom : told' = Excused(whom)
    BY <1>9 DEF Restarted
  <2>2. StreakKnown'
    BY <1>0, <2>1, ExcusedIs, StreakStands
  <2> QED
    BY <2>1, <2>2 DEF StepFits
<1>10. CASE UNCHANGED vars
  <2>1. UNCHANGED <<rows, step, episode, told, tampered>>
    BY <1>10 DEF vars, test, ghosts
  <2>2. StreakKnown'
    BY <2>1, StreakStands
  <2> QED
    BY <2>1, <2>2 DEF StepFits
<1> QED
  BY <1>1, <1>2, <1>3, <1>4, <1>5, <1>6, <1>7, <1>8, <1>9, <1>10

-----------------------------------------------------------------------------
(* What each recipient has heard, and is about to hear.                    *)

LEMMA NobodyListens ==
    ASSUME \A r \in Recipients : told'[r].excused
    PROVE  Stories'
BY DEF Stories, Listening

LEMMA StoryKept ==
    ASSUME NEW r \in Recipients, NEW event \in Events, Story(r, event),
           OnWay(r, event)' = OnWay(r, event), HeardOf(r, event)' = HeardOf(r, event),
           Due(r, event)' <=> Due(r, event)
    PROVE  Story(r, event)'
BY Zenon DEF Story

\* An action of which those who still listen hear nothing.
LEMMA StoriesStand ==
    ASSUME TypeOK, Stories, UNCHANGED <<fanOuts, outageAfter, episode>>,
           \A r \in Recipients : told'[r].excused \/ told'[r] = told[r],
           step' = "counting" <=> step = "counting",
           step' = "recorded" <=> step = "recorded",
           step = "recorded" => ended' = ended,
           ASSUME NEW r \in Recipients, Listening(r), Followed PROVE Followed'
    PROVE  Stories'
<1> SUFFICES ASSUME NEW r \in Recipients, Listening(r)'
             PROVE  Followed' /\ \A event \in Events : Story(r, event)'
  BY DEF Stories
<1>1. told'[r] = told[r] /\ Listening(r)
  BY DEF Listening
<1>2. Followed /\ \A event \in Events : Story(r, event)
  BY <1>1 DEF Stories
<1>3. Followed'
  BY <1>1, <1>2
<1>4. ASSUME NEW event \in Events PROVE Story(r, event)'
  <2>1. OnWay(r, event)' = OnWay(r, event)
    BY DEF OnWay, Reaches, AnnouncesOutage, AnnouncesRecovery
  <2>2. HeardOf(r, event)' = HeardOf(r, event)
    BY <1>1 DEF HeardOf
  <2>3. Due(r, event)' <=> Due(r, event)
    BY DEF Due
  <2> QED
    BY <1>2, <2>1, <2>2, <2>3, StoryKept
<1> QED
  BY <1>3, <1>4

\* Somebody listens, so the rows tell how long the episode is.
LEMMA StreakIsKnown ==
    ASSUME TypeOK, StreakKnown, NEW r \in Recipients, Listening(r)
    PROVE  IF episode.over THEN FailureStreak = 0 ELSE Agrees(FailureStreak)
BY DEF StreakKnown, Listening

LEMMA Numbers ==
    ASSUME TypeOK, NEW r \in Recipients
    PROVE  /\ outageAfter[r] \in Nat /\ episode.failures \in 0..MaxRows /\ episode.over \in BOOLEAN
           /\ ended \in 0..MaxRows /\ told[r] \in Heard
<1>1. outageAfter[r] \in Lengths \cup {0}
  BY DEF TypeOK, Off
<1>2. outageAfter[r] \in Nat
  <2>1. \A n \in Lengths : n \in Nat
    BY LengthsAssumption
  <2>2. CASE outageAfter[r] \in Lengths
    BY <2>1, <2>2
  <2>3. CASE outageAfter[r] = 0
    BY <2>3
  <2> QED
    BY <1>1, <2>2, <2>3
<1>3. episode.failures \in 0..MaxRows /\ episode.over \in BOOLEAN
  BY DEF TypeOK
<1> QED
  BY <1>2, <1>3 DEF TypeOK

LEMMA StoriesOfReads ==
    ASSUME IInv,
           \/ TestStarts \/ TestMeasures \/ TestFails
           \/ EndedRead \/ EndedRefused \/ SuccessRefused \/ FailureRefused \/ StreakRefused
    PROVE  Stories'
<1> USE DEF IInv
<1>1. CASE EndedRefused \/ StreakRefused
  <2>1. told' = Excused(Recipients)
    BY <1>1 DEF EndedRefused, StreakRefused
  <2>2. \A r \in Recipients : told'[r].excused
    BY <2>1, ExcusedIs DEF TypeOK
  <2> QED
    BY <2>2, NobodyListens
<1>2. CASE TestStarts \/ TestMeasures \/ TestFails \/ EndedRead \/ SuccessRefused \/ FailureRefused
  <2>1. UNCHANGED <<fanOuts, outageAfter, alerts, episode, told>>
    BY <1>2 DEF TestStarts, TestMeasures, TestFails, EndedRead, SuccessRefused, FailureRefused,
                settings, ghosts
  <2>2. /\ step \notin {"counting", "recorded"} /\ step' \notin {"counting", "recorded"}
        /\ step' = "recording" => EndedRead
    BY <1>2 DEF TestStarts, TestMeasures, TestFails, EndedRead, SuccessRefused, FailureRefused, Caught
  <2>3. ASSUME NEW r \in Recipients, Listening(r), Followed PROVE Followed'
    <3>1. episode.failures > 0 => alerts /\ (step' # "idle" => watched')
      <4>1. CASE TestStarts
        BY <2>3, <4>1 DEF Followed, TestStarts
      <4>2. CASE TestMeasures \/ TestFails \/ EndedRead \/ SuccessRefused
        BY <2>3, <4>2 DEF Followed, TestMeasures, TestFails, EndedRead, SuccessRefused
      <4>3. CASE FailureRefused
        BY <2>3, <4>3 DEF Followed, FailureRefused
      <4> QED
        BY <1>2, <4>1, <4>2, <4>3
    <3>2. step' = "recording" => IF episode.over THEN ended' = 0 ELSE Agrees(ended)'
      <4>1. CASE EndedRead
        <5>1. ended' = FailureStreak
          BY <4>1 DEF EndedRead
        <5>2. IF episode.over THEN FailureStreak = 0 ELSE Agrees(FailureStreak)
          BY <2>3, StreakIsKnown
        <5> QED
          BY <2>1, <5>1, <5>2 DEF Agrees
      <4> QED
        BY <2>2, <4>1
    <3> QED
      BY <2>1, <2>2, <3>1, <3>2 DEF Followed
  <2>4. /\ step' = "counting" <=> step = "counting"
        /\ step' = "recorded" <=> step = "recorded"
        /\ step = "recorded" => ended' = ended
    BY <2>2
  <2> QED
    BY <2>1, <2>3, <2>4, StoriesStand
<1> QED
  BY <1>1, <1>2

LEMMA StoriesOfRows ==
    ASSUME IInv,
           \/ AlertsChanged \/ SweptOld \/ HistoryCleared
           \/ \E i \in DOMAIN rows : RowDeleted(i)
           \/ \E i \in 0..Len(rows), outcome \in {"ok", "failed"} : RowImported(i, outcome)
           \/ UNCHANGED vars
    PROVE  Stories'
<1> USE DEF IInv
<1>1. CASE AlertsChanged
  <2>1. told' = Excused(Recipients)
    BY <1>1 DEF AlertsChanged
  <2>2. \A r \in Recipients : told'[r].excused
    BY <2>1, ExcusedIs DEF TypeOK
  <2> QED
    BY <2>2, NobodyListens
<1>2. CASE ~AlertsChanged
  <2>1. /\ UNCHANGED <<step, ended, watched, fanOuts, outageAfter, alerts, episode>>
        /\ UNCHANGED told \/ \E i : Disturbs(i)
    BY <1>2 DEF SweptOld, HistoryCleared, RowDeleted, RowImported, vars, test, settings, ghosts
  <2>2. UNCHANGED told \/ told' = Excused(Recipients)
    BY <2>1 DEF Disturbs
  <2>3. \A r \in Recipients : told'[r].excused \/ told'[r] = told[r]
    BY <2>2, ExcusedIs DEF TypeOK
  <2>4. ASSUME NEW r \in Recipients, Listening(r), Followed PROVE Followed'
    BY <2>1, <2>4 DEF Followed, Agrees
  <2> QED
    BY <2>1, <2>3, <2>4, StoriesStand
<1> QED
  BY <1>1, <1>2

\* A success ends the episode: the recovery is due once its message is sent, and
\* there is one to send if the streak it read is the episode's.
LEMMA StoriesOfSuccess ==
    ASSUME IInv, SuccessRecorded
    PROVE  Stories'
<1> USE DEF IInv
<1>1. /\ step = "recording" /\ step' = "recorded" /\ UNCHANGED <<ended, watched, fanOuts, told>>
      /\ UNCHANGED <<outageAfter, alerts>> /\ episode' = [episode EXCEPT !.over = TRUE]
  BY DEF SuccessRecorded, settings
<1> SUFFICES ASSUME NEW r \in Recipients, Listening(r)'
             PROVE  Followed' /\ \A event \in Events : Story(r, event)'
  BY DEF Stories
<1>2. Listening(r)
  BY <1>1 DEF Listening
<1>3. Followed /\ \A event \in Events : Story(r, event)
  BY <1>2 DEF Stories
<1>4. /\ outageAfter[r] \in Nat /\ outageAfter[r] < MaxKept /\ ended \in Nat
      /\ episode.failures \in Nat /\ episode'.failures = episode.failures /\ episode'.over = TRUE
  BY <1>1, <1>2, Numbers DEF Listening, TypeOK
<1>5. IF episode.over THEN ended = 0 ELSE Agrees(ended)
  BY <1>1, <1>3 DEF Followed
<1>6. Followed'
  BY <1>1, <1>3, <1>4, <1>5 DEF Followed, Agrees
<1>7. ASSUME NEW event \in Events PROVE Story(r, event)'
  <2>1. OnWay(r, event)' = OnWay(r, event)
    BY <1>1 DEF OnWay, Reaches, AnnouncesOutage, AnnouncesRecovery
  <2>2. HeardOf(r, event)' = HeardOf(r, event)
    BY <1>1 DEF HeardOf
  <2>3. Due(r, event)' <=> Due(r, event)
    <3>1. CASE event = "outage"
      BY <1>1, <1>4, <3>1 DEF Due
    <3>2. CASE event = "recovered" /\ episode.over
      BY <1>1, <1>4, <1>5, <3>2 DEF Due
    <3>3. CASE event = "recovered" /\ ~episode.over
      <4>1. Agrees(ended) /\ episode.failures > 0
        BY <1>5, <3>3 DEF StepFits
      <4>2. outageAfter[r] # Off /\ episode.failures >= outageAfter[r] => ended > 0
        BY <1>4, <4>1 DEF Agrees, Off
      <4> QED
        BY <1>1, <1>4, <3>3, <4>2 DEF Due
    <3> QED
      BY <3>1, <3>2, <3>3 DEF Events
  <2> QED
    BY <1>3, <2>1, <2>2, <2>3, StoryKept
<1> QED
  BY <1>6, <1>7

\* A message is sent to a recipient that it will reach just when it falls due.
LEMMA StorySent ==
    ASSUME TypeOK, NEW sent \in Events, NEW n \in 1..MaxRows,
           fanOuts' = Append(fanOuts, [event |-> sent, streak |-> n,
                                       to |-> Recipients, past |-> FALSE]),
           UNCHANGED <<outageAfter, told>>,
           NEW r \in Recipients, NEW event \in Events, Story(r, event),
           IF event = sent /\ outageAfter[r] # Off
              /\ (IF event = "outage" THEN n = outageAfter[r] ELSE n >= outageAfter[r])
           THEN ~Due(r, event) /\ Due(r, event)'
           ELSE Due(r, event)' <=> Due(r, event)
    PROVE  Story(r, event)'
<1> DEFINE Reached == event = sent /\ outageAfter[r] # Off
                      /\ (IF event = "outage" THEN n = outageAfter[r] ELSE n >= outageAfter[r])
           N == Len(fanOuts)
<1>1. OnWay(r, event)' = OnWay(r, event) \cup (IF Reached THEN {N + 1} ELSE {})
  BY OnWaySent DEF TypeOK
<1>2. HeardOf(r, event)' = HeardOf(r, event)
  BY DEF HeardOf
<1>3. HeardOf(r, event) \in 0..2
  BY Numbers DEF HeardOf, Heard
<1>4. CASE Reached
  <2>1. ~Due(r, event) /\ Due(r, event)'
    BY <1>4
  <2>2. OnWay(r, event) = {} /\ HeardOf(r, event) # 1 /\ HeardOf(r, event) < 2
    BY <2>1 DEF Story
  <2>3. HeardOf(r, event)' = 0
    BY <1>2, <1>3, <2>2
  <2>4. OnWay(r, event)' = {N + 1}
    BY <1>1, <1>4, <2>2
  <2> HIDE DEF N
  <2> QED
    BY <2>1, <2>3, <2>4 DEF Story
<1>5. CASE ~Reached
  <2>1. Due(r, event)' <=> Due(r, event)
    BY <1>5
  <2>2. OnWay(r, event)' = OnWay(r, event)
    BY <1>1, <1>5
  <2> QED
    BY <1>2, <2>1, <2>2, StoryKept
<1> QED
  BY <1>4, <1>5

LEMMA StoriesOfOutage ==
    ASSUME IInv, OutageSent
    PROVE  Stories'
<1> USE DEF IInv
<1>1. /\ step = "counting" /\ step' = "idle" /\ Sent("outage", FailureStreak)
      /\ UNCHANGED <<outageAfter, alerts, episode, told>>
  BY DEF OutageSent, settings, ghosts
<1> SUFFICES ASSUME NEW r \in Recipients, Listening(r)'
             PROVE  Followed' /\ \A event \in Events : Story(r, event)'
  BY DEF Stories
<1>2. Listening(r)
  BY <1>1 DEF Listening
<1>3. Followed /\ \A event \in Events : Story(r, event)
  BY <1>2 DEF Stories
<1>4. /\ outageAfter[r] \in Nat /\ outageAfter[r] < MaxKept
      /\ episode.failures \in Nat /\ episode.failures > 0 /\ ~episode.over
  BY <1>1, <1>2, Numbers DEF Listening, StepFits
<1>5. Agrees(FailureStreak)
  BY <1>2, <1>4, StreakIsKnown
<1>6. FailureStreak \in 1..MaxRows
  BY <1>4, <1>5, StreakInRows DEF Agrees
<1>7. watched /\ alerts
  BY <1>1, <1>3, <1>4 DEF Followed
<1>8. fanOuts' = Append(fanOuts, [event |-> "outage", streak |-> FailureStreak,
                                  to |-> Recipients, past |-> FALSE])
  <2>1. fanOuts \in Seq(FanOut) /\ FailureStreak \in 0..MaxRows /\ FailureStreak > 0
        /\ Recipients # {}
    BY <1>6 DEF TypeOK
  <2> QED
    BY <1>1, <1>7, <2>1, SentIs DEF Events
<1>9. Followed'
  BY <1>1, <1>7 DEF Followed
<1>10. ASSUME NEW event \in Events PROVE Story(r, event)'
  <2>1. CASE event = "outage"
    <3>1. FailureStreak = outageAfter[r] <=> episode.failures = outageAfter[r]
      BY <1>4, <1>5, <1>6 DEF Agrees
    <3>2. Due(r, event)' <=> outageAfter[r] # Off /\ episode.failures >= outageAfter[r]
      BY <1>1, <2>1 DEF Due
    <3>3. Due(r, event) <=> /\ outageAfter[r] # Off /\ episode.failures >= outageAfter[r]
                            /\ episode.failures # outageAfter[r]
      BY <1>1, <2>1 DEF Due
    <3>4. IF event = "outage" /\ outageAfter[r] # Off
             /\ (IF event = "outage" THEN FailureStreak = outageAfter[r]
                 ELSE FailureStreak >= outageAfter[r])
          THEN ~Due(r, event) /\ Due(r, event)'
          ELSE Due(r, event)' <=> Due(r, event)
      BY <1>4, <2>1, <3>1, <3>2, <3>3
    <3> QED
      BY <1>1, <1>3, <1>6, <1>8, <3>4, StorySent DEF Events
  <2>2. CASE event = "recovered"
    <3>1. ~Due(r, event) /\ ~Due(r, event)'
      BY <1>1, <1>4, <2>2 DEF Due
    <3>2. IF event = "outage" /\ outageAfter[r] # Off
             /\ (IF event = "outage" THEN FailureStreak = outageAfter[r]
                 ELSE FailureStreak >= outageAfter[r])
          THEN ~Due(r, event) /\ Due(r, event)'
          ELSE Due(r, event)' <=> Due(r, event)
      BY <2>2, <3>1
    <3> QED
      BY <1>1, <1>3, <1>6, <1>8, <3>2, StorySent DEF Events
  <2> QED
    BY <2>1, <2>2 DEF Events
<1> QED
  BY <1>9, <1>10

LEMMA StoriesOfRecovery ==
    ASSUME IInv, RecoverySent
    PROVE  Stories'
<1> USE DEF IInv
<1>1. /\ step = "recorded" /\ step' = "idle" /\ Sent("recovered", ended) /\ ended' = 0
      /\ UNCHANGED <<outageAfter, alerts, episode, told>>
  BY DEF RecoverySent, settings, ghosts
<1> SUFFICES ASSUME NEW r \in Recipients, Listening(r)'
             PROVE  Followed' /\ \A event \in Events : Story(r, event)'
  BY DEF Stories
<1>2. Listening(r)
  BY <1>1 DEF Listening
<1>3. Followed /\ \A event \in Events : Story(r, event)
  BY <1>2 DEF Stories
<1>4. /\ outageAfter[r] \in Nat /\ outageAfter[r] < MaxKept /\ ended \in 0..MaxRows
      /\ episode.failures \in Nat /\ episode.over
  BY <1>1, <1>2, Numbers DEF Listening, StepFits
<1>5. Followed'
  BY <1>1, <1>3 DEF Followed
<1>6. CASE ended = 0
  <2>1. fanOuts' = fanOuts
    BY <1>1, <1>4, <1>6, SentIs DEF TypeOK, Events
  <2>2. ASSUME NEW event \in Events PROVE Story(r, event)'
    <3>1. OnWay(r, event)' = OnWay(r, event)
      BY <1>1, <2>1 DEF OnWay, Reaches, AnnouncesOutage, AnnouncesRecovery
    <3>2. HeardOf(r, event)' = HeardOf(r, event)
      BY <1>1 DEF HeardOf
    <3>3. Due(r, event)' <=> Due(r, event)
      BY <1>1, <1>6 DEF Due
    <3> QED
      BY <1>3, <3>1, <3>2, <3>3, StoryKept
  <2> QED
    BY <1>5, <2>2
<1>7. CASE ended > 0
  <2>1. Agrees(ended) /\ ended \in 1..MaxRows
    BY <1>1, <1>3, <1>4, <1>7 DEF Followed
  <2>2. episode.failures > 0
    BY <1>4, <2>1 DEF Agrees
  <2>3. watched
    BY <1>1, <1>3, <2>2 DEF Followed
  <2>4. fanOuts' = Append(fanOuts, [event |-> "recovered", streak |-> ended,
                                    to |-> Recipients, past |-> FALSE])
    <3>1. fanOuts \in Seq(FanOut) /\ Recipients # {}
      BY DEF TypeOK
    <3> QED
      BY <1>1, <1>4, <1>7, <2>3, <3>1, SentIs DEF Events
  <2>5. ASSUME NEW event \in Events PROVE Story(r, event)'
    <3>1. CASE event = "recovered"
      <4>1. ended >= outageAfter[r] <=> episode.failures >= outageAfter[r]
        BY <1>4, <2>1 DEF Agrees
      <4>2. ~Due(r, event)
        BY <1>1, <1>7, <3>1 DEF Due
      <4>3. Due(r, event)' <=> outageAfter[r] # Off /\ episode.failures >= outageAfter[r]
        BY <1>1, <1>4, <3>1 DEF Due
      <4>4. IF event = "recovered" /\ outageAfter[r] # Off
               /\ (IF event = "outage" THEN ended = outageAfter[r] ELSE ended >= outageAfter[r])
            THEN ~Due(r, event) /\ Due(r, event)'
            ELSE Due(r, event)' <=> Due(r, event)
        BY <3>1, <4>1, <4>2, <4>3
      <4> QED
        BY <1>1, <1>3, <2>1, <2>4, <4>4, StorySent DEF Events
    <3>2. CASE event = "outage"
      <4>1. Due(r, event)' <=> Due(r, event)
        BY <1>1, <3>2 DEF Due
      <4>2. IF event = "recovered" /\ outageAfter[r] # Off
               /\ (IF event = "outage" THEN ended = outageAfter[r] ELSE ended >= outageAfter[r])
            THEN ~Due(r, event) /\ Due(r, event)'
            ELSE Due(r, event)' <=> Due(r, event)
        BY <3>2, <4>1
      <4> QED
        BY <1>1, <1>3, <2>1, <2>4, <4>2, StorySent DEF Events
    <3> QED
      BY <3>1, <3>2 DEF Events
  <2> QED
    BY <1>5, <2>5
<1> QED
  BY <1>4, <1>6, <1>7

\* A failure opens an episode of which nobody has heard, or makes one longer:
\* then it changes what is due only by the message it has yet to send.
LEMMA StoriesOfFailure ==
    ASSUME IInv, FailureRecorded
    PROVE  Stories'
<1> USE DEF IInv
<1>1. step = "failed" /\ step' = "counting" /\ UNCHANGED <<ended, watched, outageAfter, alerts>>
  BY DEF FailureRecorded, settings
<1> SUFFICES ASSUME NEW r \in Recipients, Listening(r)'
             PROVE  Followed' /\ \A event \in Events : Story(r, event)'
  BY DEF Stories
<1>2. /\ outageAfter[r] \in Nat /\ outageAfter[r] < MaxKept
      /\ episode.failures \in 0..MaxRows /\ episode.over \in BOOLEAN
  BY <1>1, Numbers DEF Listening
<1>3. CASE episode.over
  <2>1. /\ episode' = [failures |-> 1, over |-> FALSE]
        /\ told' = [q \in Recipients |-> NothingHeard(tampered \/ ~(watched /\ alerts))]
        /\ fanOuts' = [i \in DOMAIN fanOuts |-> [fanOuts[i] EXCEPT !.past = TRUE]]
    BY <1>3 DEF FailureRecorded
  <2>2. episode'.failures = 1 /\ episode'.over = FALSE
    BY <2>1
  <2>3. told'[r] = NothingHeard(tampered \/ ~(watched /\ alerts))
    BY <2>1
  <2>4. watched /\ alerts
    <3>1. told'[r].excused = (tampered \/ ~(watched /\ alerts))
      BY <2>3 DEF NothingHeard
    <3>2. ~told'[r].excused
      BY DEF Listening
    <3> QED
      BY <3>1, <3>2
  <2>5. Followed'
    BY <1>1, <2>4 DEF Followed
  <2>6. ASSUME NEW event \in Events PROVE Story(r, event)'
    <3>1. OnWay(r, event)' = {}
      <4>1. \A i \in DOMAIN fanOuts : fanOuts[i] \in FanOut
        BY LenProperties, ElementOfSeq DEF TypeOK
      <4>2. \A i \in DOMAIN fanOuts' : fanOuts'[i].past = TRUE
        BY <2>1, <4>1 DEF FanOut
      <4> QED
        BY <4>2 DEF OnWay
    <3>2. HeardOf(r, event)' = 0
      BY <2>3 DEF HeardOf, NothingHeard
    <3>3. ~Due(r, event)'
      <4>1. CASE event = "outage"
        BY <1>1, <1>2, <2>2, <4>1 DEF Due, Off
      <4>2. CASE event = "recovered"
        BY <2>2, <4>2 DEF Due
      <4> QED
        BY <4>1, <4>2 DEF Events
    <3> QED
      BY <3>1, <3>2, <3>3 DEF Story
  <2> QED
    BY <2>5, <2>6
<1>4. CASE ~episode.over
  <2>1. /\ episode' = [episode EXCEPT !.failures = IF @ < MaxRows THEN @ + 1 ELSE @]
        /\ UNCHANGED <<told, fanOuts>>
    BY <1>4 DEF FailureRecorded
  <2>2. /\ episode'.over = episode.over
        /\ episode'.failures = IF episode.failures < MaxRows THEN episode.failures + 1
                               ELSE episode.failures
    BY <2>1 DEF TypeOK
  <2>3. Listening(r)
    BY <1>1, <2>1 DEF Listening
  <2>4. Followed /\ \A event \in Events : Story(r, event)
    BY <2>3 DEF Stories
  <2>5. episode.failures > 0
    BY <1>4 DEF StepFits
  <2>6. Followed'
    BY <1>1, <2>4, <2>5 DEF Followed
  <2>7. ASSUME NEW event \in Events PROVE Story(r, event)'
    <3>1. OnWay(r, event)' = OnWay(r, event)
      BY <1>1, <2>1 DEF OnWay, Reaches, AnnouncesOutage, AnnouncesRecovery
    <3>2. HeardOf(r, event)' = HeardOf(r, event)
      BY <2>1 DEF HeardOf
    <3>3. Due(r, event)' <=> Due(r, event)
      <4>1. CASE event = "outage"
        BY <1>1, <1>2, <2>2, <4>1 DEF Due
      <4>2. CASE event = "recovered"
        BY <1>4, <2>2, <4>2 DEF Due
      <4> QED
        BY <4>1, <4>2 DEF Events
    <3> QED
      BY <2>4, <3>1, <3>2, <3>3, StoryKept
  <2> QED
    BY <2>6, <2>7
<1> QED
  BY <1>3, <1>4

\* A message has its turn with a recipient: it is heard, or it was not for it.
LEMMA StoriesOfDelivery ==
    ASSUME IInv, NEW i \in DOMAIN fanOuts, NEW q \in Recipients, Delivered(i, q)
    PROVE  Stories'
<1> USE DEF IInv
<1>1. /\ q \in fanOuts[i].to /\ told' = Told(i, q) /\ Leaves(i, q)
      /\ UNCHANGED <<step, ended, watched, outageAfter, alerts, episode>>
  BY DEF Delivered, test, settings
<1> SUFFICES ASSUME NEW r \in Recipients, Listening(r)'
             PROVE  Followed' /\ \A event \in Events : Story(r, event)'
  BY DEF Stories
<1>2. /\ told'[r].excused = told[r].excused
      /\ r # q => told'[r] = told[r]
  BY <1>1, ToldIs
<1>3. Listening(r)
  BY <1>1, <1>2 DEF Listening
<1>4. Followed /\ \A event \in Events : Story(r, event)
  BY <1>3 DEF Stories
<1>5. Followed'
  BY <1>1, <1>4 DEF Followed, Agrees
<1>6. fanOuts \in Seq(FanOut) /\ told \in [Recipients -> Heard] /\ fanOuts[i] \in FanOut
  BY LenProperties, ElementOfSeq DEF TypeOK
<1>7. fanOuts[i].event \in Events /\ fanOuts[i].past \in BOOLEAN
  BY <1>6 DEF FanOut, Events
<1>8. ASSUME NEW event \in Events PROVE Story(r, event)'
  <2>1. /\ (\A j, k \in OnWay(r, event) : j = k) => (\A j, k \in OnWay(r, event)' : j = k)
        /\ OnWay(r, event)' # {} <=> \E k \in OnWay(r, event) : ~(r = q /\ k = i)
    BY <1>1, <1>6, OnWayLeaves
  <2>2. Due(r, event)' <=> Due(r, event)
    BY <1>1 DEF Due
  <2>3. Story(r, event)
    BY <1>4
  <2>4. CASE r # q
    <3>1. HeardOf(r, event)' = HeardOf(r, event)
      BY <1>2, <2>4 DEF HeardOf
    <3>2. OnWay(r, event)' # {} <=> OnWay(r, event) # {}
      BY <2>1, <2>4
    <3> QED
      BY <2>1, <2>2, <2>3, <3>1, <3>2 DEF Story
  <2>5. CASE r = q /\ i \notin OnWay(r, event)
    <3>1. HeardOf(r, event)' = HeardOf(r, event)
      <4>1. CASE fanOuts[i].past \/ ~Reaches(fanOuts[i], r)
        BY <1>1, <2>5, <4>1 DEF Told, HeardOf
      <4>2. CASE ~fanOuts[i].past /\ Reaches(fanOuts[i], r)
        <5>1. fanOuts[i].event # event
          BY <1>1, <2>5, <4>2 DEF OnWay
        <5>2. CASE told[r].excused
          BY <1>1, <2>5, <5>2 DEF Told, HeardOf
        <5>3. CASE ~told[r].excused /\ event = "outage"
          <6>1. told' = [told EXCEPT ![q].recoveries = AtMostTwo(@ + 1)]
            BY <1>1, <2>5, <4>2, <5>1, <5>3 DEF Told
          <6> QED
            BY <1>6, <2>5, <5>3, <6>1 DEF HeardOf, Heard
        <5>4. CASE ~told[r].excused /\ event = "recovered"
          <6>1. told' = [told EXCEPT ![q].outages = AtMostTwo(@ + 1)]
            BY <1>1, <1>7, <2>5, <4>2, <5>1, <5>4 DEF Told, Events
          <6> QED
            BY <1>6, <2>5, <5>4, <6>1 DEF HeardOf, Heard
        <5> QED
          BY <5>2, <5>3, <5>4 DEF Events
      <4> QED
        BY <4>1, <4>2
    <3>2. OnWay(r, event)' # {} <=> OnWay(r, event) # {}
      BY <2>1, <2>5
    <3> QED
      BY <2>1, <2>2, <2>3, <3>1, <3>2 DEF Story
  <2>6. CASE r = q /\ i \in OnWay(r, event)
    <3>1. /\ ~fanOuts[i].past /\ Reaches(fanOuts[i], r) /\ fanOuts[i].event = event
          /\ OnWay(r, event) # {}
      BY <2>6 DEF OnWay
    <3>2. HeardOf(r, event) = 0 /\ Due(r, event)
      BY <2>3, <3>1 DEF Story
    <3>3. ~told[r].excused
      BY <1>3 DEF Listening
    <3>4. told' = IF event = "outage" THEN [told EXCEPT ![q].outages = AtMostTwo(@ + 1)]
                  ELSE [told EXCEPT ![q].recoveries = AtMostTwo(@ + 1)]
      BY <1>1, <2>6, <3>1, <3>3 DEF Told
    <3>5. AtMostTwo(0 + 1) = 1
      BY DEF AtMostTwo
    <3>6. HeardOf(r, event)' = 1
      <4>1. CASE event = "outage"
        BY <1>6, <2>6, <3>2, <3>4, <3>5, <4>1 DEF HeardOf, Heard
      <4>2. CASE event = "recovered"
        BY <1>6, <2>6, <3>2, <3>4, <3>5, <4>2 DEF HeardOf, Heard
      <4> QED
        BY <4>1, <4>2 DEF Events
    <3>7. \A j, k \in OnWay(r, event) : j = k
      BY <2>3 DEF Story
    <3>8. OnWay(r, event)' = {}
      BY <2>1, <2>6, <3>7
    <3> QED
      BY <2>2, <3>2, <3>6, <3>8 DEF Story
  <2> QED
    BY <2>4, <2>5, <2>6
<1> QED
  BY <1>5, <1>8

LEMMA StoriesOfLoss ==
    ASSUME IInv, NEW i \in DOMAIN fanOuts, NEW q \in Recipients, Undelivered(i, q)
    PROVE  Stories'
<1> USE DEF IInv
<1>1. /\ q \in fanOuts[i].to /\ told' = Excused({q}) /\ Leaves(i, q)
      /\ UNCHANGED <<step, ended, watched, outageAfter, alerts, episode>>
  BY DEF Undelivered, test, settings
<1> SUFFICES ASSUME NEW r \in Recipients, Listening(r)'
             PROVE  Followed' /\ \A event \in Events : Story(r, event)'
  BY DEF Stories
<1>2. IF r \in {q} THEN told'[r].excused ELSE told'[r] = told[r]
  BY <1>1, ExcusedIs DEF TypeOK
<1>3. r # q /\ told'[r] = told[r]
  BY <1>2 DEF Listening
<1>4. Listening(r)
  BY <1>1, <1>3 DEF Listening
<1>5. Followed /\ \A event \in Events : Story(r, event)
  BY <1>4 DEF Stories
<1>6. Followed'
  BY <1>1, <1>5 DEF Followed, Agrees
<1>7. ASSUME NEW event \in Events PROVE Story(r, event)'
  <2>1. /\ (\A j, k \in OnWay(r, event) : j = k) => (\A j, k \in OnWay(r, event)' : j = k)
        /\ OnWay(r, event)' # {} <=> \E k \in OnWay(r, event) : ~(r = q /\ k = i)
    BY <1>1, OnWayLeaves DEF TypeOK
  <2>2. Due(r, event)' <=> Due(r, event)
    BY <1>1 DEF Due
  <2>3. HeardOf(r, event)' = HeardOf(r, event)
    BY <1>3 DEF HeardOf
  <2>4. OnWay(r, event)' # {} <=> OnWay(r, event) # {}
    BY <1>3, <2>1
  <2> QED
    BY <1>5, <2>1, <2>2, <2>3, <2>4 DEF Story
<1> QED
  BY <1>6, <1>7

\* The number is read when a message has its turn: one that changes makes no
\* promise about this episode.
LEMMA StoriesOfChange ==
    ASSUME IInv, NEW q \in Recipients, NEW after \in Lengths \cup {Off}, RecipientChanged(q, after)
    PROVE  Stories'
<1> USE DEF IInv
<1>1. /\ outageAfter' = [outageAfter EXCEPT ![q] = after] /\ told' = Excused({q})
      /\ UNCHANGED <<step, ended, watched, fanOuts, alerts, episode>>
  BY DEF RecipientChanged, test
<1> SUFFICES ASSUME NEW r \in Recipients, Listening(r)'
             PROVE  Followed' /\ \A event \in Events : Story(r, event)'
  BY DEF Stories
<1>2. IF r \in {q} THEN told'[r].excused ELSE told'[r] = told[r]
  BY <1>1, ExcusedIs DEF TypeOK
<1>3. r # q /\ told'[r] = told[r]
  BY <1>2 DEF Listening
<1>4. outageAfter'[r] = outageAfter[r]
  BY <1>1, <1>3 DEF TypeOK
<1>5. Listening(r)
  BY <1>3, <1>4 DEF Listening
<1>6. Followed /\ \A event \in Events : Story(r, event)
  BY <1>5 DEF Stories
<1>7. Followed'
  BY <1>1, <1>6 DEF Followed, Agrees
<1>8. ASSUME NEW event \in Events PROVE Story(r, event)'
  <2>1. OnWay(r, event)' = OnWay(r, event)
    BY <1>1, <1>4 DEF OnWay, Reaches, AnnouncesOutage, AnnouncesRecovery
  <2>2. HeardOf(r, event)' = HeardOf(r, event)
    BY <1>3 DEF HeardOf
  <2>3. Due(r, event)' <=> Due(r, event)
    BY <1>1, <1>4 DEF Due
  <2> QED
    BY <1>6, <2>1, <2>2, <2>3, StoryKept
<1> QED
  BY <1>7, <1>8

\* A restart loses what was on its way, and the message of a test that had
\* recorded its row: to everybody else nothing was due but what it has heard.
LEMMA StoriesOfRestart ==
    ASSUME IInv, Restarted
    PROVE  Stories'
<1> USE DEF IInv
<1>1. /\ step' = "idle" /\ fanOuts' = <<>>
      /\ UNCHANGED <<outageAfter, alerts, episode>>
      /\ told' = Excused(IF step \in {"recorded", "counting"} THEN Recipients
                         ELSE UNION {fanOuts[i].to : i \in DOMAIN fanOuts})
  BY DEF Restarted, settings
<1>2. CASE step \in {"recorded", "counting"}
  <2>1. told' = Excused(Recipients)
    BY <1>1, <1>2
  <2>2. \A r \in Recipients : told'[r].excused
    BY <2>1, ExcusedIs DEF TypeOK
  <2> QED
    BY <2>2, NobodyListens
<1>3. CASE step \notin {"recorded", "counting"}
  <2> DEFINE whom == UNION {fanOuts[i].to : i \in DOMAIN fanOuts}
  <2>1. told' = Excused(whom)
    BY <1>1, <1>3
  <2> SUFFICES ASSUME NEW r \in Recipients, Listening(r)'
               PROVE  Followed' /\ \A event \in Events : Story(r, event)'
    BY DEF Stories
  <2>2. IF r \in whom THEN told'[r].excused ELSE told'[r] = told[r]
    BY <2>1, ExcusedIs DEF TypeOK
  <2>3. r \notin whom /\ told'[r] = told[r]
    BY <2>2 DEF Listening
  <2>4. Listening(r)
    BY <1>1, <2>3 DEF Listening
  <2>5. Followed /\ \A event \in Events : Story(r, event)
    BY <2>4 DEF Stories
  <2>6. Followed'
    BY <1>1, <2>5 DEF Followed
  <2>7. ASSUME NEW event \in Events PROVE Story(r, event)'
    <3>1. OnWay(r, event) = {} /\ OnWay(r, event)' = {}
      BY <1>1, <2>3 DEF OnWay
    <3>2. HeardOf(r, event)' = HeardOf(r, event)
      BY <2>3 DEF HeardOf
    <3>3. Due(r, event)' <=> Due(r, event)
      BY <1>1, <1>3 DEF Due
    <3> QED
      BY <2>5, <3>1, <3>2, <3>3, StoryKept
  <2> QED
    BY <2>6, <2>7
<1> QED
  BY <1>2, <1>3

-----------------------------------------------------------------------------
(* The theorems.                                                           *)

LEMMA InvInit ==
    ASSUME Init
    PROVE  IInv
<1> USE DEF Init, Off
<1>1. TypeOK
  <2>1. <<>> \in Seq({"ok", "failed"}) /\ Len(<<>>) = 0 /\ <<>> \in Seq(FanOut) /\ 0 \in 0..MaxRows
    OBVIOUS
  <2>2. NothingHeard(FALSE) \in Heard
    BY DEF NothingHeard, Heard
  <2>3. told \in [Recipients -> Heard]
    BY <2>2
  <2>4. episode \in [failures : 0..MaxRows, over : BOOLEAN]
    BY <2>1
  <2>5. rows \in Seq({"ok", "failed"}) /\ Len(rows) <= MaxRows /\ fanOuts \in Seq(FanOut)
    BY <2>1
  <2>6. outageAfter \in [Recipients -> Lengths \cup {Off}]
    OBVIOUS
  <2> QED
    BY <2>1, <2>3, <2>4, <2>5, <2>6 DEF TypeOK, Steps
<1>2. RowsFit /\ StepFits
  BY DEF RowsFit, StepFits
<1>3. StreakKnown
  <2>1. Len(rows) = 0 /\ FailureStreak \in 0..Len(rows)
    BY <1>1, StreakInRows
  <2>2. FailureStreak = 0
    BY <2>1
  <2> QED
    BY <2>2 DEF StreakKnown
<1>4. Stories
  <2> SUFFICES ASSUME NEW r \in Recipients, Listening(r)
               PROVE  Followed /\ \A event \in Events : Story(r, event)
    BY DEF Stories
  <2>1. Followed
    BY DEF Followed
  <2>2. ASSUME NEW event \in Events PROVE Story(r, event)
    <3>1. OnWay(r, event) = {} /\ HeardOf(r, event) = 0
      BY DEF OnWay, HeardOf, NothingHeard
    <3>2. ~Due(r, event)
      <4>1. outageAfter[r] \in Nat /\ episode.failures = 0
        BY <1>1, Numbers
      <4> QED
        BY <4>1 DEF Due
    <3> QED
      BY <3>1, <3>2 DEF Story
  <2> QED
    BY <2>1, <2>2
<1> QED
  BY <1>1, <1>2, <1>3, <1>4 DEF IInv

LEMMA InvNext ==
    ASSUME IInv, [Next]_vars
    PROVE  IInv'
<1>1. CASE \/ TestStarts \/ TestMeasures \/ TestFails
           \/ EndedRead \/ EndedRefused \/ SuccessRecorded \/ SuccessRefused \/ RecoverySent
           \/ FailureRecorded \/ FailureRefused \/ OutageSent \/ StreakRefused
  <2>1. TypeOK' /\ RowsFit'
    BY <1>1, TypesOfTest DEF IInv
  <2>2. StepFits' /\ StreakKnown'
    BY <1>1, StreakOfTest DEF IInv
  <2>3. Stories'
    BY <1>1, StoriesOfReads, StoriesOfSuccess, StoriesOfRecovery, StoriesOfFailure, StoriesOfOutage
  <2> QED
    BY <2>1, <2>2, <2>3 DEF IInv
<1>2. CASE \/ \E i \in DOMAIN fanOuts, q \in Recipients : Delivered(i, q) \/ Undelivered(i, q)
           \/ \E q \in Recipients, after \in Lengths \cup {Off} : RecipientChanged(q, after)
           \/ AlertsChanged \/ SweptOld \/ HistoryCleared
           \/ \E i \in DOMAIN rows : RowDeleted(i)
           \/ \E i \in 0..Len(rows), outcome \in {"ok", "failed"} : RowImported(i, outcome)
           \/ Restarted
           \/ UNCHANGED vars
  <2>1. TypeOK' /\ RowsFit'
    BY <1>2, TypesOfRest DEF IInv
  <2>2. StepFits' /\ StreakKnown'
    BY <1>2, StreakOfRest DEF IInv
  <2>3. Stories'
    BY <1>2, StoriesOfDelivery, StoriesOfLoss, StoriesOfChange, StoriesOfRows, StoriesOfRestart
  <2> QED
    BY <2>1, <2>2, <2>3 DEF IInv
<1> QED
  BY <1>1, <1>2 DEF Next

LEMMA InvHolds == Spec => []IInv
<1>1. Init => IInv
  BY InvInit
<1>2. IInv /\ [Next]_vars => IInv'
  BY InvNext
<1> QED
  BY <1>1, <1>2, PTL DEF Spec

\* The types, for any recipients, numbers, retention and bounds.
THEOREM TypeCorrect == Spec => []TypeOK
<1>1. IInv => TypeOK
  BY DEF IInv
<1> QED
  BY <1>1, InvHolds, PTL

\* Nobody is told twice of one downtime, nor of its end, whatever the order of
\* the messages, the sweeps and the restarts (util/outage.js, "once").
THEOREM ToldOnce == Spec => []OneOutage
<1>1. IInv => OneOutage
  <2> SUFFICES ASSUME IInv, NEW r \in Recipients, Listening(r)
               PROVE  told[r].outages < 2 /\ told[r].recoveries < 2
    BY DEF OneOutage
  <2>1. Story(r, "outage") /\ Story(r, "recovered")
    BY DEF IInv, Stories, Events
  <2> QED
    BY <2>1 DEF Story, HeardOf
<1> QED
  BY <1>1, InvHolds, PTL

\* With nothing on its way, what is due has been heard.
LEMMA HeardWhenQuiet ==
    ASSUME IInv, Quiet, NEW r \in Recipients, Listening(r)
    PROVE  /\ told[r].outages \in {0, 1} /\ told[r].recoveries \in {0, 1}
           /\ told[r].outages = 1 <=>
                outageAfter[r] # Off /\ episode.failures >= outageAfter[r]
           /\ told[r].recoveries = 1 <=>
                outageAfter[r] # Off /\ episode.failures >= outageAfter[r] /\ episode.over
<1>1. Story(r, "outage") /\ Story(r, "recovered")
  BY DEF IInv, Stories, Events
<1>2. OnWay(r, "outage") = {} /\ OnWay(r, "recovered") = {}
  BY DEF Quiet, OnWay
<1>3. HeardOf(r, "outage") = told[r].outages /\ HeardOf(r, "recovered") = told[r].recoveries
  BY DEF HeardOf
<1>4. told[r].outages \in 0..2 /\ told[r].recoveries \in 0..2
  BY Numbers DEF IInv, Heard
<1>5. told[r].outages < 2 /\ told[r].recoveries < 2
  BY <1>1, <1>3 DEF Story
<1>6. told[r].outages = 1 <=> Due(r, "outage")
  BY <1>1, <1>2, <1>3 DEF Story
<1>7. told[r].recoveries = 1 <=> Due(r, "recovered")
  BY <1>1, <1>2, <1>3 DEF Story
<1>8. Due(r, "outage") <=> outageAfter[r] # Off /\ episode.failures >= outageAfter[r]
  BY DEF Due, Quiet
<1>9. Due(r, "recovered") <=>
        outageAfter[r] # Off /\ episode.failures >= outageAfter[r] /\ episode.over
  BY DEF Due, Quiet
<1> QED
  BY <1>4, <1>5, <1>6, <1>7, <1>8, <1>9

\* Once everything has been said, a recipient has heard of the outage exactly
\* when the line failed as often in a row as it asked for.
THEOREM OutageTold == Spec => []OutageIsTold
<1>1. IInv => OutageIsTold
  BY HeardWhenQuiet DEF OutageIsTold
<1> QED
  BY <1>1, InvHolds, PTL

\* And of the recovery exactly when the line is back and it was told that it had
\* gone.
THEOREM RecoveryOwed == Spec => []RecoveryIsOwed
<1>1. IInv => RecoveryIsOwed
  <2> SUFFICES ASSUME IInv, Quiet, NEW r \in Recipients, Listening(r)
               PROVE  told[r].recoveries = IF episode.over THEN told[r].outages ELSE 0
    BY DEF RecoveryIsOwed
  <2>1. told[r].outages \in {0, 1} /\ told[r].recoveries \in {0, 1}
    BY HeardWhenQuiet
  <2>2. told[r].recoveries = 1 <=> told[r].outages = 1 /\ episode.over
    BY HeardWhenQuiet
  <2> QED
    BY <2>1, <2>2
<1> QED
  BY <1>1, InvHolds, PTL
=============================================================================
