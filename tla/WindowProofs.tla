----------------------------- MODULE WindowProofs -----------------------------
(***************************************************************************)
(* The two limiters, of the TSEI gateway and of messages, for any limit,   *)
(* window and number of requests, and what is said of an answer that is    *)
(* put together from several reads.                                        *)
(***************************************************************************)
EXTENDS TseiProfileA, Messages, TLAPS, FiniteSetTheorems, SequenceTheorems

-----------------------------------------------------------------------------
(* The sliding window of the gateway. *)

\* The window holds the last of the admissions, and those it does not have expired.
\* Of two admissions that are MaxAttempts apart, the first had expired at the second.
WindowInv ==
    /\ clock \in Nat \ {0}
    /\ attemptTimes \in Seq(Nat) /\ admitted \in Seq(Nat)
    /\ Len(attemptTimes) <= Len(admitted)
    /\ \A i \in 1..Len(admitted) : admitted[i] <= clock
    /\ \A i, j \in 1..Len(admitted) : i <= j => admitted[i] <= admitted[j]
    /\ \A i \in 1..Len(attemptTimes) :
           attemptTimes[i] = admitted[Len(admitted) - Len(attemptTimes) + i]
    /\ \A i \in 1..Len(admitted) :
           i <= Len(admitted) - Len(attemptTimes) => admitted[i] + AttemptWindow <= clock
    /\ \A i, j \in 1..Len(admitted) :
           i + MaxAttempts <= j => admitted[i] + AttemptWindow <= admitted[j]

LEMMA WindowStart == TseiInit => WindowInv
BY DEF TseiInit, ClockInit, WindowInv

\* The loop leaves the end of the sequence.
LEMMA LeftIsSuffix ==
    ASSUME NEW s \in Seq(Nat), NEW n \in 0..Len(s)
    PROVE  LET left == SubSeq(s, n + 1, Len(s)) IN
           /\ left \in Seq(Nat) /\ Len(left) = Len(s) - n
           /\ \A i \in 1..Len(left) : left[i] = s[n + i]
<1>1. n + 1 \in 1..(Len(s) + 1) /\ Len(s) \in ((n + 1) - 1)..Len(s) /\ Len(s) \in Nat /\ n \in Nat
  BY LenProperties
<1>2. /\ SubSeq(s, n + 1, Len(s)) \in Seq(Nat)
      /\ Len(SubSeq(s, n + 1, Len(s))) = Len(s) - (n + 1) + 1
      /\ \A i \in 1..(Len(s) - (n + 1) + 1) : SubSeq(s, n + 1, Len(s))[i] = s[(n + 1) + i - 1]
  BY <1>1, SubSeqProperties
<1> QED
  BY <1>1, <1>2

\* Attempts that leave the window have expired, and leave as many free as they were.
LEMMA AdmitStep ==
    ASSUME WindowInv, NEW p \in Posts, Admit(p), UNCHANGED clock
    PROVE  WindowInv'
<1> USE DEF WindowInv
<1>1. PICK n \in 0..Len(attemptTimes) :
          LET left == SubSeq(attemptTimes, n + 1, Len(attemptTimes)) IN
          /\ Shifted(n)
          /\ IF Len(left) >= MaxAttempts
             THEN attemptTimes' = left /\ UNCHANGED admitted
             ELSE attemptTimes' = Append(left, clock) /\ admitted' = Append(admitted, clock)
  BY DEF Admit
<1> DEFINE left == SubSeq(attemptTimes, n + 1, Len(attemptTimes))
           k == Len(admitted) - Len(attemptTimes)
<1>2. /\ left \in Seq(Nat) /\ Len(left) = Len(attemptTimes) - n /\ Len(left) \in Nat
      /\ \A i \in 1..Len(left) : left[i] = attemptTimes[n + i]
  BY LeftIsSuffix, LenProperties
<1> HIDE DEF left
<1>3. /\ k \in Nat /\ Len(admitted) \in Nat /\ Len(attemptTimes) \in Nat /\ n \in Nat
      /\ Len(admitted) - Len(left) = k + n /\ Len(left) <= Len(admitted)
  BY <1>2, LenProperties
<1>4. /\ MaxAttempts \in Nat /\ AttemptWindow \in Nat
      /\ \A i \in 1..Len(admitted) : admitted[i] \in Nat
  BY TseiAssumption, ElementOfSeq
<1>5. \A i \in 1..Len(left) : left[i] = admitted[k + n + i]
  <2> SUFFICES ASSUME NEW i \in 1..Len(left) PROVE left[i] = admitted[k + n + i]
    OBVIOUS
  <2>1. n + i \in 1..Len(attemptTimes) /\ left[i] = attemptTimes[n + i]
    BY <1>2, <1>3
  <2> QED
    BY <1>3, <2>1
<1>6. \A i \in 1..Len(admitted) : i <= k + n => admitted[i] + AttemptWindow <= clock
  <2> SUFFICES ASSUME NEW i \in 1..Len(admitted), i <= k + n
               PROVE  admitted[i] + AttemptWindow <= clock
    OBVIOUS
  <2>1. CASE i <= k
    BY <2>1
  <2>2. CASE i > k
    <3>1. i - k \in 1..n /\ i - k \in 1..Len(attemptTimes)
      BY <1>3, <2>2
    <3>2. attemptTimes[i - k] = admitted[i]
      BY <1>3, <3>1
    <3>3. clock - admitted[i] >= AttemptWindow
      BY <1>1, <3>1, <3>2 DEF Shifted, Expired
    <3> QED
      BY <1>4, <3>3
  <2> QED
    BY <1>3, <2>1, <2>2
<1>7. CASE Len(left) >= MaxAttempts
  <2>1. attemptTimes' = left /\ admitted' = admitted
    BY <1>1, <1>7 DEF left
  <2> QED
    BY <1>2, <1>3, <1>5, <1>6, <2>1
<1>8. CASE ~(Len(left) >= MaxAttempts)
  <2>1. attemptTimes' = Append(left, clock) /\ admitted' = Append(admitted, clock)
    BY <1>1, <1>8 DEF left
  <2>2. /\ attemptTimes' \in Seq(Nat) /\ Len(attemptTimes') = Len(left) + 1
        /\ \A i \in 1..Len(left) : attemptTimes'[i] = left[i]
        /\ attemptTimes'[Len(left) + 1] = clock
    BY <1>2, <2>1, AppendProperties
  <2>3. /\ admitted' \in Seq(Nat) /\ Len(admitted') = Len(admitted) + 1
        /\ \A i \in 1..Len(admitted) : admitted'[i] = admitted[i]
        /\ admitted'[Len(admitted) + 1] = clock
    BY <2>1, AppendProperties
  <2>9. /\ Len(admitted') = Len(admitted) + 1 /\ Len(attemptTimes') = Len(left) + 1
         /\ Len(admitted) = k + n + Len(left) /\ k + n \in Nat /\ Len(left) \in Nat
    BY <1>2, <1>3, <2>2, <2>3
  <2> HIDE DEF k
  <2>4. ASSUME NEW i \in 1..Len(admitted')
        PROVE  \/ i = Len(admitted) + 1 /\ admitted'[i] = clock
               \/ i \in 1..Len(admitted) /\ admitted'[i] = admitted[i] /\ admitted[i] \in Nat
                  /\ admitted[i] <= clock
    BY <1>3, <1>4, <2>3
  <2>5. /\ \A i \in 1..Len(admitted') : admitted'[i] <= clock'
        /\ \A i, j \in 1..Len(admitted') : i <= j => admitted'[i] <= admitted'[j]
    <3>1. \A i \in 1..Len(admitted') : admitted'[i] <= clock'
      BY <1>3, <2>4
    <3>2. ASSUME NEW i \in 1..Len(admitted'), NEW j \in 1..Len(admitted'), i <= j
          PROVE  admitted'[i] <= admitted'[j]
      <4>1. CASE j = Len(admitted) + 1
        BY <2>3, <3>1, <4>1
      <4>2. CASE j # Len(admitted) + 1
        <5>1. i \in 1..Len(admitted) /\ j \in 1..Len(admitted)
          BY <1>3, <2>3, <3>2, <4>2
        <5> QED
          BY <2>3, <3>2, <5>1
      <4> QED
        BY <4>1, <4>2
    <3> QED
      BY <3>1, <3>2
  <2>6. ASSUME NEW i \in 1..Len(attemptTimes')
        PROVE  attemptTimes'[i] = admitted'[Len(admitted') - Len(attemptTimes') + i]
    <3>1. Len(admitted') - Len(attemptTimes') + i = k + n + i
      BY <2>9
    <3>2. CASE i = Len(left) + 1
      <4>1. k + n + i = Len(admitted) + 1
        BY <2>9, <3>2
      <4> QED
        BY <2>2, <2>3, <3>1, <3>2, <4>1
    <3>3. CASE i # Len(left) + 1
      <4>1. i \in 1..Len(left)
        BY <2>9, <3>3
      <4>2. k + n + i \in 1..Len(admitted)
        BY <2>9, <4>1
      <4> QED
        BY <1>5, <2>2, <2>3, <3>1, <4>1, <4>2
    <3> QED
      BY <3>2, <3>3
  <2>7. ASSUME NEW i \in 1..Len(admitted'), i <= Len(admitted') - Len(attemptTimes')
        PROVE  admitted'[i] + AttemptWindow <= clock'
    <3>1. i <= k + n /\ i \in 1..Len(admitted)
      BY <2>7, <2>9
    <3> QED
      BY <1>6, <2>3, <3>1
  <2>8. \A i, j \in 1..Len(admitted') :
            i + MaxAttempts <= j => admitted'[i] + AttemptWindow <= admitted'[j]
    <3> SUFFICES ASSUME NEW i \in 1..Len(admitted'), NEW j \in 1..Len(admitted'),
                        i + MaxAttempts <= j
                 PROVE  admitted'[i] + AttemptWindow <= admitted'[j]
      OBVIOUS
    <3>1. CASE j = Len(admitted) + 1
      <4>1. MaxAttempts > Len(left)
        BY <1>2, <1>4, <1>8
      <4>2. i <= k + n /\ i \in 1..Len(admitted)
        <5>1. i + MaxAttempts <= k + n + Len(left) + 1 /\ i \in Nat /\ i >= 1
          BY <2>9, <3>1
        <5> QED
          BY <1>4, <2>9, <4>1, <5>1
      <4> QED
        BY <1>6, <2>3, <3>1, <4>2
    <3>2. CASE j # Len(admitted) + 1
      <4>1. i \in 1..Len(admitted) /\ j \in 1..Len(admitted)
        BY <1>3, <1>4, <2>3, <3>2
      <4> QED
        BY <2>3, <4>1
    <3> QED
      BY <3>1, <3>2
  <2> QED
    BY <1>2, <1>3, <2>2, <2>3, <2>4, <2>5, <2>6, <2>7, <2>8
<1> QED
  BY <1>7, <1>8

\* What the window needs of a step: the clock does not go back.
LEMMA LaterStep ==
    ASSUME WindowInv, clock' \in Nat, clock <= clock', UNCHANGED <<attemptTimes, admitted>>
    PROVE  WindowInv'
<1>1. \A i \in 1..Len(admitted) : admitted[i] \in Nat
  BY ElementOfSeq DEF WindowInv
<1>2. clock \in Nat /\ clock # 0 /\ clock' \in Nat \ {0} /\ AttemptWindow \in Nat
  BY TseiAssumption DEF WindowInv
<1>3. \A i \in 1..Len(admitted) : admitted[i] <= clock'
  BY <1>1, <1>2 DEF WindowInv
<1>4. ASSUME NEW i \in 1..Len(admitted), i <= Len(admitted) - Len(attemptTimes)
      PROVE  admitted[i] + AttemptWindow <= clock'
  <2>1. admitted[i] + AttemptWindow <= clock
    BY <1>4 DEF WindowInv
  <2> QED
    BY <1>1, <1>2, <2>1
<1> QED
  BY <1>2, <1>3, <1>4 DEF WindowInv

\* A restart forgets both, so the history begins again with the window.
LEMMA ForgottenStep ==
    ASSUME WindowInv, attemptTimes' = <<>>, admitted' = <<>>, UNCHANGED clock
    PROVE  WindowInv'
BY DEF WindowInv

LEMMA WindowStep ==
    ASSUME WindowInv, [TseiNext]_tseiVars
    PROVE  WindowInv'
<1>1. clock \in Nat
  BY DEF WindowInv
<1>2. ASSUME NEW p \in Posts, Admit(p), UNCHANGED clock PROVE WindowInv'
  BY <1>2, AdmitStep
<1>3. CASE TseiRestart /\ UNCHANGED clock
  BY <1>3, ForgottenStep DEF TseiRestart
<1>4. CASE TseiTick
  BY <1>1, <1>4, LaterStep DEF TseiTick, Advance
<1>5. ASSUME UNCHANGED <<clock, attemptTimes, admitted>> PROVE WindowInv'
  BY <1>1, <1>5, LaterStep
<1>6. ASSUME NEW p \in Posts, UNCHANGED clock,
             \/ StoreObservation(p) \/ ReadValues(p) \/ ReadAttestations(p) \/ Answered(p)
             \/ Query(p)
      PROVE  WindowInv'
  BY <1>5, <1>6 DEF StoreObservation, ReadValues, ReadAttestations, Answered, Query
<1>7. CASE ObserveOther /\ UNCHANGED clock
  BY <1>5, <1>7 DEF ObserveOther
<1> QED
  BY <1>2, <1>3, <1>4, <1>5, <1>6, <1>7 DEF TseiNext, tseiVars

\* A set of positive numbers that is not empty has a least one.
LEMMA LeastOf ==
    ASSUME NEW S \in SUBSET Nat, S # {}
    PROVE  \E m \in S : \A i \in S : m <= i
<1> DEFINE Below == {1..i : i \in S}
<1>1. Below # {} /\ Below \subseteq FiniteSubsetsOf(Nat)
  <2>1. \A i \in S : IsFiniteSet(1..i) /\ 1..i \in SUBSET Nat
    <3> SUFFICES ASSUME NEW i \in S PROVE IsFiniteSet(1..i) /\ 1..i \in SUBSET Nat
      OBVIOUS
    <3>1. i \in Int /\ 1 \in Int /\ 1..i \in SUBSET Nat
      OBVIOUS
    <3> QED
      BY <3>1, FS_Interval
  <2> QED
    BY <2>1 DEF FiniteSubsetsOf
<1>2. PICK least \in Below : \A some \in Below : ~ (<<some, least>> \in StrictSubsetOrdering(Nat))
  BY <1>1, WFMin, FS_StrictSubsetOrderingWellFounded
<1>3. PICK m \in S : least = 1..m
  OBVIOUS
<1>4. ASSUME NEW i \in S PROVE m <= i
  <2>1. SUFFICES ASSUME i < m PROVE FALSE
    OBVIOUS
  <2>2. 1..i \in Below /\ 1..i \subseteq 1..m /\ 1..i # 1..m
    <3>1. m \in 1..m /\ m \notin 1..i
      BY <2>1
    <3> QED
      BY <2>1, <3>1
  <2>3. <<1..i, 1..m>> \in StrictSubsetOrdering(Nat)
    BY <2>2 DEF StrictSubsetOrdering
  <2> QED
    BY <1>2, <1>3, <2>2, <2>3
<1> QED
  BY <1>3, <1>4

\* Two admissions in one span are less than MaxAttempts apart.
LEMMA FewInAnySpan ==
    ASSUME WindowInv, NEW t \in 1..MaxClock
    PROVE  Cardinality({i \in DOMAIN admitted : admitted[i] \in t..(t + AttemptWindow - 1)})
               <= MaxAttempts
<1> DEFINE S == {i \in DOMAIN admitted : admitted[i] \in t..(t + AttemptWindow - 1)}
<1>1. /\ MaxAttempts \in Nat /\ AttemptWindow \in Nat /\ t \in Int
      /\ DOMAIN admitted = 1..Len(admitted) /\ Len(admitted) \in Nat
      /\ \A i \in 1..Len(admitted) : admitted[i] \in Nat
  BY TseiAssumption, LenProperties, ElementOfSeq DEF WindowInv
<1>2. CASE S = {}
  BY <1>1, <1>2, FS_EmptySet
<1>3. CASE S # {}
  <2>1. S \in SUBSET Nat
    BY <1>1
  <2>2. PICK m \in S : \A i \in S : m <= i
    BY <1>3, <2>1, LeastOf
  <2>3. m \in Nat /\ m \in 1..Len(admitted) /\ admitted[m] >= t /\ admitted[m] \in Nat
    BY <1>1, <2>1
  <2>4. ASSUME NEW i \in S PROVE i \in m..(m + MaxAttempts - 1)
    <3>1. i \in 1..Len(admitted) /\ admitted[i] <= t + AttemptWindow - 1 /\ admitted[i] \in Nat
      BY <1>1
    <3>2. m <= i
      BY <2>2
    <3>3. ~(m + MaxAttempts <= i)
      <4>1. SUFFICES ASSUME m + MaxAttempts <= i PROVE FALSE
        OBVIOUS
      <4>2. admitted[m] + AttemptWindow <= admitted[i]
        BY <2>3, <3>1, <4>1 DEF WindowInv
      <4> QED
        BY <1>1, <2>3, <3>1, <4>2
    <3> QED
      BY <1>1, <2>3, <3>1, <3>2, <3>3
  <2> HIDE DEF S
  <2>5. /\ IsFiniteSet(m..(m + MaxAttempts - 1))
        /\ Cardinality(m..(m + MaxAttempts - 1)) = MaxAttempts
    <3>1. m \in Int /\ m + MaxAttempts - 1 \in Int
      BY <1>1, <2>3
    <3>2. /\ IsFiniteSet(m..(m + MaxAttempts - 1))
          /\ Cardinality(m..(m + MaxAttempts - 1)) =
                 IF m > m + MaxAttempts - 1 THEN 0 ELSE (m + MaxAttempts - 1) - m + 1
      BY <3>1, FS_Interval
    <3> QED
      BY <1>1, <2>3, <3>2
  <2>6. S \in SUBSET (m..(m + MaxAttempts - 1))
    BY <2>4
  <2>7. Cardinality(S) <= MaxAttempts
    BY <2>5, <2>6, FS_Subset
  <2> QED
    BY <2>7 DEF S
<1> QED
  BY <1>2, <1>3

\* Whatever the limit and the window, and however many requests were admitted and ran
\* out of the window: no span of its length, at whatever instant it begins, has more
\* of them than the limit of the gateway.
THEOREM WindowNeverOverrun == TseiSpec => []SlidingWindow
<1>1. TseiInit => WindowInv
  BY WindowStart
<1>2. WindowInv /\ [TseiNext]_tseiVars => WindowInv'
  BY WindowStep
<1>3. WindowInv => SlidingWindow
  BY FewInAnySpan DEF SlidingWindow
<1> QED
  BY <1>1, <1>2, <1>3, PTL DEF TseiSpec

-----------------------------------------------------------------------------
(* The answer of the gateway. *)

Observations == Receipts \X (Others \cup {Gateway})

PostType ==
    [at : {"none", "body", "stored", "read", "answered"}, before : SUBSET Observations,
     values : SUBSET Receipts, answer : SUBSET Observations]

\* A value that is already in the answer is there with all its attestations of before,
\* and a value of before that is not is still to be read.
AnswerInv ==
    /\ observed \subseteq Observations
    /\ posts \in [Posts -> PostType]
    /\ \A p \in Posts :
        /\ posts[p].at \in {"stored", "read"} => posts[p].before \subseteq observed
        /\ posts[p].at = "stored" => posts[p].answer = {}
        /\ posts[p].at = "read" =>
               /\ ValuesIn(posts[p].before) \subseteq posts[p].values
               /\ \A pair \in posts[p].before :
                      pair[1] \in ValuesIn(posts[p].answer) => pair \in posts[p].answer
        /\ posts[p].at = "answered" => posts[p].before \subseteq posts[p].answer

LEMMA AnswerStart == TseiInit => AnswerInv
BY DEF TseiInit, AnswerInv, NoPost, PostType, Observations

\* A step that leaves the records, or adds to them, and changes one request at most.
LEMMA AnswerStep ==
    ASSUME AnswerInv, [TseiNext]_tseiVars
    PROVE  AnswerInv'
<1> USE DEF Post
<1>1. ASSUME UNCHANGED <<observed, posts>> PROVE AnswerInv'
  BY <1>1 DEF AnswerInv, ValuesIn
<1>2. ASSUME NEW p \in Posts, Admit(p) PROVE AnswerInv'
  <2>1. observed' = observed /\ posts' \in {posts, [posts EXCEPT ![p] = [NoPost EXCEPT !.at = "body"]]}
    BY <1>2 DEF Admit
  <2>2. CASE posts' = posts
    BY <1>1, <2>1, <2>2
  <2>3. CASE posts' = [posts EXCEPT ![p] = [NoPost EXCEPT !.at = "body"]]
    BY <2>1, <2>3 DEF AnswerInv, NoPost, PostType, ValuesIn
  <2> QED
    BY <2>1, <2>2, <2>3
<1>3. ASSUME NEW p \in Posts, posts' = [posts EXCEPT ![p] = NoPost], UNCHANGED observed
      PROVE  AnswerInv'
  BY <1>3 DEF AnswerInv, NoPost, PostType, ValuesIn
<1>4. ASSUME NEW p \in Posts, NEW some, observed \subseteq some, observed' = some,
             some \subseteq Observations,
             posts' = [posts EXCEPT ![p] = [NoPost EXCEPT !.at = "stored", !.before = some]]
      PROVE  AnswerInv'
  BY <1>4 DEF AnswerInv, NoPost, PostType, ValuesIn
<1>5. ASSUME NEW p \in Posts, StoreObservation(p) PROVE AnswerInv'
  <2>1. PICK v \in Receipts \cup {Malformed} :
            IF v = Malformed THEN Post(p, NoPost) /\ UNCHANGED observed ELSE
            /\ observed' = observed \cup {<<v, Gateway>>}
            /\ Post(p, [NoPost EXCEPT !.at = "stored", !.before = observed'])
    BY <1>5 DEF StoreObservation
  <2>2. CASE v = Malformed
    BY <1>3, <2>1, <2>2
  <2>3. CASE v # Malformed
    <3>1. observed' \subseteq Observations
      BY <2>1, <2>3 DEF AnswerInv, Observations
    <3> QED
      BY <1>4, <2>1, <2>3, <3>1
  <2> QED
    BY <2>2, <2>3
<1>6. ASSUME NEW p \in Posts, ReadValues(p) PROVE AnswerInv'
  <2>1. /\ posts[p].at = "stored" /\ observed' = observed
        /\ posts' = [posts EXCEPT ![p] =
               [posts[p] EXCEPT !.at = "read", !.values = ValuesIn(observed)]]
    BY <1>6 DEF ReadValues
  <2>2. ValuesIn(observed) \in SUBSET Receipts
    BY DEF AnswerInv, Observations, ValuesIn
  <2>3. ValuesIn(posts[p].before) \subseteq ValuesIn(observed) /\ ValuesIn(posts[p].answer) = {}
    BY <2>1 DEF AnswerInv, ValuesIn
  <2>4. posts[p] \in PostType /\ posts \in [Posts -> PostType]
    BY DEF AnswerInv
  <2> DEFINE new == [posts[p] EXCEPT !.at = "read", !.values = ValuesIn(observed)]
  <2>5. /\ new \in PostType /\ new.at = "read" /\ new.values = ValuesIn(observed)
        /\ new.before = posts[p].before /\ new.answer = posts[p].answer
    BY <2>2, <2>4 DEF PostType
  <2> HIDE DEF new
  <2>6. /\ posts' = [posts EXCEPT ![p] = new] /\ posts' \in [Posts -> PostType] /\ posts'[p] = new
        /\ \A q \in Posts : q # p => posts'[q] = posts[q]
    BY <2>1, <2>4, <2>5 DEF new
  <2> QED
    BY <2>1, <2>3, <2>5, <2>6 DEF AnswerInv
<1>7. ASSUME NEW p \in Posts, ReadAttestations(p) PROVE AnswerInv'
  <2> DEFINE left == posts[p].values \ ValuesIn(posts[p].answer)
             next == CHOOSE value \in left : TRUE
             more == posts[p].answer \cup {pair \in observed : pair[1] = next}
  <2>1. posts[p] \in PostType /\ posts \in [Posts -> PostType] /\ observed \subseteq Observations
    BY DEF AnswerInv
  <2>2. posts[p].at = "read" /\ posts[p].before \subseteq observed /\ observed' = observed
    BY <1>7 DEF ReadAttestations, AnswerInv
  <2>3. CASE left = {}
    <3> DEFINE new == [posts[p] EXCEPT !.at = "answered", !.values = {}]
    <3>1. /\ new \in PostType /\ new.at = "answered"
          /\ new.before = posts[p].before /\ new.answer = posts[p].answer
      BY <2>1 DEF PostType
    <3>2. posts' = [posts EXCEPT ![p] = new]
      BY <1>7, <2>3 DEF ReadAttestations
    <3> HIDE DEF new
    <3>3. /\ posts' \in [Posts -> PostType] /\ posts'[p] = new
          /\ \A q \in Posts : q # p => posts'[q] = posts[q]
      BY <2>1, <3>1, <3>2
    <3>4. posts[p].before \subseteq posts[p].answer
      BY <2>2, <2>3 DEF AnswerInv, ValuesIn
    <3> QED
      BY <2>1, <2>2, <3>1, <3>3, <3>4 DEF AnswerInv
  <2>4. CASE left # {}
    <3> DEFINE new == [posts[p] EXCEPT !.answer = more]
    <3>1. posts' = [posts EXCEPT ![p] = [posts[p] EXCEPT
                        !.answer = @ \cup {pair \in observed : pair[1] = next}]]
      BY <1>7, <2>4 DEF ReadAttestations
    <3>2. posts' = [posts EXCEPT ![p] = new]
      BY <2>1, <3>1 DEF PostType
    <3> HIDE DEF next
    <3>3. more \in SUBSET Observations
      BY <2>1 DEF PostType
    <3>4. /\ new \in PostType /\ new.at = "read" /\ new.values = posts[p].values
          /\ new.before = posts[p].before /\ new.answer = more
      BY <2>1, <2>2, <3>3 DEF PostType
    <3>5. \A pair \in posts[p].before : pair[1] \in ValuesIn(more) => pair \in more
      BY <2>2 DEF AnswerInv, ValuesIn
    <3> HIDE DEF new, more
    <3>6. /\ posts' \in [Posts -> PostType] /\ posts'[p] = new
          /\ \A q \in Posts : q # p => posts'[q] = posts[q]
      BY <2>1, <3>2, <3>4
    <3> QED
      BY <2>1, <2>2, <3>4, <3>5, <3>6 DEF AnswerInv
  <2> QED
    BY <2>3, <2>4
<1>8. ASSUME NEW p \in Posts, Query(p) PROVE AnswerInv'
  BY <1>4, <1>8 DEF Query, AnswerInv
<1>9. CASE ObserveOther
  <2>1. observed \subseteq observed' /\ observed' \subseteq Observations /\ posts' = posts
    BY <1>9 DEF ObserveOther, AnswerInv, Observations
  <2> QED
    BY <2>1 DEF AnswerInv
<1>10. CASE TseiRestart
  BY <1>10 DEF TseiRestart, AnswerInv, NoPost, PostType, ValuesIn
<1> QED
  <2>1. ASSUME NEW p \in Posts, Answered(p) PROVE AnswerInv'
    BY <1>3, <2>1 DEF Answered
  <2>2. CASE TseiTick
    BY <1>1, <2>2 DEF TseiTick
  <2> QED
    BY <1>1, <1>2, <1>5, <1>6, <1>7, <1>8, <1>9, <1>10, <2>1, <2>2 DEF TseiNext, tseiVars

\* An answer that was put together from several reads, with the records of other nodes
\* arriving between them, has every observation that the store held when the request
\* had stored its own.
THEOREM AnswersHideNothing == TseiSpec => []AnswerComplete
<1>1. TseiInit => AnswerInv
  BY AnswerStart
<1>2. AnswerInv /\ [TseiNext]_tseiVars => AnswerInv'
  BY AnswerStep
<1>3. AnswerInv => AnswerComplete
  BY DEF AnswerInv, AnswerComplete
<1> QED
  BY <1>1, <1>2, <1>3, PTL DEF TseiSpec

-----------------------------------------------------------------------------
(* The limiter of messages.  What it keeps of one signer, and the rows the  *)
(* node has of it, are followed as values: rows, of which those after start *)
(* are of this start of the process, times and now.                         *)

Row == [message : Nat, from : Members, at : Nat]

Within(times, now) == {time \in times : now - time[1] < RateLimitWindow}

NotBefore(times, t) == {time \in times : time[1] >= t}

RowsOf(rows, start, s, t) ==
    {i \in (start + 1)..Len(rows) : rows[i].from = s /\ rows[i].at >= t}

RowsInSpan(rows, start, s, t) ==
    {i \in (start + 1)..Len(rows) :
        rows[i].from = s /\ rows[i].at \in t..(t + RateLimitWindow - 1)}

NextTime(times, now) == <<now, Cardinality(Within(times, now)) + 1>>

\* As long as it matters, each row has a time of its own that is still counted; and
\* the times of one instant are numbered apart.
Limited(rows, start, times, now, s) ==
    /\ now \in Nat /\ rows \in Seq(Row) /\ start \in 0..Len(rows)
    /\ \A i \in 1..Len(rows) : rows[i].at <= now
    /\ times \in SUBSET (Nat \X Nat) /\ IsFiniteSet(times)
    /\ \A time \in times :
           time[1] <= now /\ (time[1] = now => time[2] <= Cardinality(Within(times, now)))
    /\ \A t \in Nat : now - t < RateLimitWindow =>
           Cardinality(RowsOf(rows, start, s, t)) <= Cardinality(NotBefore(times, t))
    /\ \A t \in Nat : Cardinality(RowsInSpan(rows, start, s, t)) <= RateLimitMax

\* Sets of rows and of times are finite.
LEMMA LimitedFinite ==
    ASSUME NEW rows \in Seq(Row), NEW start \in Nat, NEW s, NEW t \in Nat
    PROVE  /\ IsFiniteSet(RowsOf(rows, start, s, t))
           /\ Cardinality(RowsOf(rows, start, s, t)) \in Nat
           /\ IsFiniteSet(RowsInSpan(rows, start, s, t))
           /\ Cardinality(RowsInSpan(rows, start, s, t)) \in Nat
           /\ RowsInSpan(rows, start, s, t) \subseteq RowsOf(rows, start, s, t)
<1>1. start + 1 \in Int /\ Len(rows) \in Int
  BY LenProperties
<1>2. IsFiniteSet((start + 1)..Len(rows))
  BY <1>1, FS_Interval
<1>3. /\ RowsOf(rows, start, s, t) \in SUBSET ((start + 1)..Len(rows))
      /\ RowsInSpan(rows, start, s, t) \in SUBSET ((start + 1)..Len(rows))
  BY DEF RowsOf, RowsInSpan
<1>4. IsFiniteSet(RowsOf(rows, start, s, t)) /\ IsFiniteSet(RowsInSpan(rows, start, s, t))
  BY <1>2, <1>3, FS_Subset
<1>5. RowsInSpan(rows, start, s, t) \subseteq RowsOf(rows, start, s, t)
  BY DEF RowsInSpan, RowsOf
<1> QED
  BY <1>4, <1>5, FS_CardinalityType

LEMMA TimesFinite ==
    ASSUME NEW times, IsFiniteSet(times), NEW t
    PROVE  /\ IsFiniteSet(NotBefore(times, t)) /\ Cardinality(NotBefore(times, t)) \in Nat
           /\ IsFiniteSet(Within(times, t)) /\ Cardinality(Within(times, t)) \in Nat
<1>1. NotBefore(times, t) \in SUBSET times /\ Within(times, t) \in SUBSET times
  BY DEF NotBefore, Within
<1>2. IsFiniteSet(NotBefore(times, t)) /\ IsFiniteSet(Within(times, t))
  BY <1>1, FS_Subset
<1> QED
  BY <1>2, FS_CardinalityType

LEMMA OneMore ==
    ASSUME NEW S, IsFiniteSet(S), NEW x
    PROVE  Cardinality(S \cup {x}) <= Cardinality(S) + 1
<1>1. Cardinality(S) \in Nat
  BY FS_CardinalityType
<1>2. Cardinality(S \cup {x}) \in {Cardinality(S), Cardinality(S) + 1}
  BY FS_AddElement
<1> QED
  BY <1>1, <1>2

\* Time passes.
LEMMA LimitedLater ==
    ASSUME NEW rows, NEW start, NEW times, NEW now, NEW s, Limited(rows, start, times, now, s),
           NEW later \in Nat, now <= later
    PROVE  Limited(rows, start, times, later, s)
<1>1. CASE later = now
  BY <1>1
<1>2. CASE later # now
  <2>1. now \in Nat /\ now < later /\ rows \in Seq(Row) /\ times \in SUBSET (Nat \X Nat)
    BY <1>2 DEF Limited
  <2>2. \A i \in 1..Len(rows) : rows[i].at <= later
    <3> SUFFICES ASSUME NEW i \in 1..Len(rows) PROVE rows[i].at <= later
      OBVIOUS
    <3>1. rows[i].at \in Nat /\ rows[i].at <= now
      <4>1. rows[i] \in Row
        BY <2>1, ElementOfSeq
      <4> QED
        BY <4>1 DEF Limited, Row
    <3> QED
      BY <2>1, <3>1
  <2>3. \A time \in times : time[1] <= later /\ time[1] # later
    <3> SUFFICES ASSUME NEW time \in times PROVE time[1] <= later /\ time[1] # later
      OBVIOUS
    <3>1. time[1] \in Nat /\ time[1] <= now
      BY <2>1 DEF Limited
    <3> QED
      BY <2>1, <3>1
  <2>4. \A t \in Nat : later - t < RateLimitWindow => now - t < RateLimitWindow
    BY <2>1, MessagesAssumption
  <2>5. /\ later \in Nat /\ rows \in Seq(Row) /\ start \in 0..Len(rows)
        /\ times \in SUBSET (Nat \X Nat) /\ IsFiniteSet(times)
        /\ \A t \in Nat : Cardinality(RowsInSpan(rows, start, s, t)) <= RateLimitMax
    BY DEF Limited
  <2>6. \A t \in Nat : later - t < RateLimitWindow =>
            Cardinality(RowsOf(rows, start, s, t)) <= Cardinality(NotBefore(times, t))
    BY <2>4 DEF Limited
  <2> QED
    BY <2>2, <2>3, <2>5, <2>6 DEF Limited
<1> QED
  BY <1>1, <1>2

\* The process starts again.
LEMMA LimitedRestart ==
    ASSUME NEW rows, NEW start, NEW times, NEW now, NEW s, Limited(rows, start, times, now, s)
    PROVE  Limited(rows, Len(rows), {}, now, s)
<1>1. Len(rows) \in Nat
  BY LenProperties DEF Limited
<1>2. \A t \in Nat : RowsOf(rows, Len(rows), s, t) = {} /\ RowsInSpan(rows, Len(rows), s, t) = {}
  BY <1>1 DEF RowsOf, RowsInSpan
<1>3. \A t : NotBefore({}, t) = {}
  BY DEF NotBefore
<1>4. Cardinality({}) = 0 /\ IsFiniteSet({})
  BY FS_EmptySet
<1> QED
  <2>1. \A t \in Nat : /\ Cardinality(RowsOf(rows, Len(rows), s, t)) = 0
                         /\ Cardinality(NotBefore({}, t)) = 0
                         /\ Cardinality(RowsInSpan(rows, Len(rows), s, t)) = 0
    BY <1>2, <1>3, <1>4
  <2>2. /\ now \in Nat /\ rows \in Seq(Row) /\ Len(rows) \in 0..Len(rows)
        /\ \A i \in 1..Len(rows) : rows[i].at <= now
    BY <1>1 DEF Limited
  <2>3. /\ \A t \in Nat : Cardinality(RowsOf(rows, Len(rows), s, t)) <= Cardinality(NotBefore({}, t))
        /\ \A t \in Nat : Cardinality(RowsInSpan(rows, Len(rows), s, t)) <= RateLimitMax
    BY <2>1, MessagesAssumption
  <2> QED
    BY <1>4, <2>2, <2>3 DEF Limited

\* A row of another signer.
LEMMA LimitedOther ==
    ASSUME NEW rows, NEW start, NEW times, NEW now, NEW s, Limited(rows, start, times, now, s),
           NEW row \in Row, row.from # s, row.at = now
    PROVE  Limited(Append(rows, row), start, times, now, s)
<1> DEFINE more == Append(rows, row)
<1>1. rows \in Seq(Row) /\ start \in 0..Len(rows) /\ Len(rows) \in Nat /\ now \in Nat
  BY LenProperties DEF Limited
<1>2. /\ more \in Seq(Row) /\ Len(more) = Len(rows) + 1 /\ more[Len(rows) + 1] = row
      /\ \A i \in 1..Len(rows) : more[i] = rows[i]
  BY <1>1, AppendProperties
<1> HIDE DEF more
<1>3. \A i \in 1..Len(more) : (i \in 1..Len(rows) /\ more[i] = rows[i]) \/ more[i] = row
  BY <1>1, <1>2
<1>4. \A i \in (start + 1)..Len(more) : more[i].from = s => i \in (start + 1)..Len(rows)
  BY <1>1, <1>2, <1>3
<1>5. \A i \in (start + 1)..Len(rows) : i \in (start + 1)..Len(more) /\ more[i] = rows[i]
  BY <1>1, <1>2
<1>6. \A t \in Nat : RowsOf(more, start, s, t) = RowsOf(rows, start, s, t)
  BY <1>4, <1>5 DEF RowsOf
<1>7. \A t \in Nat : RowsInSpan(more, start, s, t) = RowsInSpan(rows, start, s, t)
  BY <1>4, <1>5 DEF RowsInSpan
<1>8. \A i \in 1..Len(more) : more[i].at <= now
  BY <1>1, <1>3 DEF Limited
<1>9. start \in 0..Len(more)
  BY <1>1, <1>2
<1>10. Limited(more, start, times, now, s)
  BY <1>2, <1>6, <1>7, <1>8, <1>9 DEF Limited
<1> QED
  BY <1>10 DEF more

\* A message is counted: the times of the window, and one more.
LEMMA LimitedCounted ==
    ASSUME NEW rows, NEW start, NEW times, NEW now, NEW s, Limited(rows, start, times, now, s)
    PROVE  LET counted == Within(times, now) \cup {NextTime(times, now)} IN
           /\ Limited(rows, start, counted, now, s)
           /\ \A t \in Nat : now - t < RateLimitWindow /\ t <= now =>
                  Cardinality(NotBefore(counted, t)) = Cardinality(NotBefore(times, t)) + 1
<1> DEFINE recent == Within(times, now)
           next == NextTime(times, now)
           counted == recent \cup {next}
<1>1. /\ now \in Nat /\ times \in SUBSET (Nat \X Nat) /\ IsFiniteSet(times)
      /\ \A time \in times :
             time[1] <= now /\ (time[1] = now => time[2] <= Cardinality(recent))
      /\ RateLimitWindow \in Nat \ {0}
  BY MessagesAssumption DEF Limited
<1>2. IsFiniteSet(recent) /\ Cardinality(recent) \in Nat
  BY <1>1, TimesFinite
<1>3. next = <<now, Cardinality(recent) + 1>> /\ next \in Nat \X Nat
  BY <1>1, <1>2 DEF NextTime
<1>4. next \notin times
  <2>1. SUFFICES ASSUME next \in times PROVE FALSE
    OBVIOUS
  <2>2. Cardinality(recent) + 1 <= Cardinality(recent)
    BY <1>1, <1>3, <2>1
  <2> QED
    BY <1>2, <2>2
<1>5. recent \subseteq times /\ \A time \in times : time \in recent <=> now - time[1] < RateLimitWindow
  BY DEF Within
<1> HIDE DEF recent, next
<1>6. /\ IsFiniteSet(counted) /\ Cardinality(counted) = Cardinality(recent) + 1
      /\ counted \in SUBSET (Nat \X Nat)
  BY <1>1, <1>2, <1>3, <1>4, <1>5, FS_AddElement
<1>7. Within(counted, now) = counted
  BY <1>1, <1>3, <1>5 DEF Within
<1>8. ASSUME NEW time \in counted
      PROVE  time[1] <= now /\ (time[1] = now => time[2] <= Cardinality(counted))
  <2>1. CASE time = next
    BY <1>1, <1>2, <1>3, <1>6, <2>1
  <2>2. CASE time \in recent
    <3>1. time \in times /\ time[2] \in Nat
      BY <1>1, <1>5, <2>2
    <3>2. time[1] = now => time[2] <= Cardinality(recent)
      BY <1>1, <3>1
    <3> QED
      BY <1>1, <1>2, <1>6, <3>1, <3>2
  <2> QED
    BY <2>1, <2>2
<1>9. ASSUME NEW t \in Nat, now - t < RateLimitWindow
      PROVE  /\ NotBefore(times, t) \subseteq recent
             /\ NotBefore(counted, t) =
                    NotBefore(times, t) \cup (IF t <= now THEN {next} ELSE {})
  <2>1. \A time \in times : time[1] >= t => time \in recent
    <3> SUFFICES ASSUME NEW time \in times, time[1] >= t PROVE time \in recent
      OBVIOUS
    <3>1. time[1] \in Nat
      BY <1>1
    <3>2. now - time[1] < RateLimitWindow
      BY <1>1, <1>9, <3>1
    <3> QED
      BY <1>5, <3>2
  <2>2. next[1] = now
    BY <1>3
  <2> QED
    BY <1>1, <1>5, <2>1, <2>2 DEF NotBefore
<1>10. ASSUME NEW t \in Nat, now - t < RateLimitWindow, t <= now
       PROVE  Cardinality(NotBefore(counted, t)) = Cardinality(NotBefore(times, t)) + 1
  <2>1. NotBefore(counted, t) = NotBefore(times, t) \cup {next} /\ next \notin NotBefore(times, t)
    BY <1>4, <1>9, <1>10 DEF NotBefore
  <2>2. IsFiniteSet(NotBefore(times, t))
    BY <1>1, TimesFinite
  <2> QED
    BY <2>1, <2>2, FS_AddElement
<1>11. ASSUME NEW t \in Nat, now - t < RateLimitWindow
       PROVE  Cardinality(RowsOf(rows, start, s, t)) <= Cardinality(NotBefore(counted, t))
  <2>1. Cardinality(RowsOf(rows, start, s, t)) <= Cardinality(NotBefore(times, t))
    BY <1>11 DEF Limited
  <2>2. NotBefore(times, t) \in SUBSET NotBefore(counted, t)
    BY <1>9, <1>11
  <2>3. Cardinality(NotBefore(times, t)) <= Cardinality(NotBefore(counted, t))
    BY <1>6, <2>2, TimesFinite, FS_Subset
  <2>4. /\ Cardinality(NotBefore(times, t)) \in Nat /\ Cardinality(NotBefore(counted, t)) \in Nat
        /\ Cardinality(RowsOf(rows, start, s, t)) \in Nat
    <3>1. rows \in Seq(Row) /\ start \in Nat
      BY LenProperties DEF Limited
    <3> QED
      BY <1>1, <1>6, <3>1, TimesFinite, LimitedFinite
  <2> QED
    BY <2>1, <2>3, <2>4
<1>12. Limited(rows, start, counted, now, s)
  <2>1. /\ rows \in Seq(Row) /\ start \in 0..Len(rows)
        /\ \A i \in 1..Len(rows) : rows[i].at <= now
        /\ \A t \in Nat : Cardinality(RowsInSpan(rows, start, s, t)) <= RateLimitMax
    BY DEF Limited
  <2> HIDE DEF counted
  <2> QED
    BY <1>1, <1>6, <1>7, <1>8, <1>11, <2>1 DEF Limited
<1> QED
  BY <1>10, <1>12 DEF recent, next

\* A row of the signer, after fewer than the limit were counted, and counted itself.
LEMMA LimitedRow ==
    ASSUME NEW rows, NEW start, NEW times, NEW now, NEW s, Limited(rows, start, times, now, s),
           Cardinality(Within(times, now)) < RateLimitMax,
           NEW row \in Row, row.from = s, row.at = now
    PROVE  Limited(Append(rows, row), start, Within(times, now) \cup {NextTime(times, now)}, now, s)
<1> DEFINE more == Append(rows, row)
           counted == Within(times, now) \cup {NextTime(times, now)}
           last == Len(rows) + 1
<1>1. /\ rows \in Seq(Row) /\ start \in 0..Len(rows) /\ Len(rows) \in Nat /\ now \in Nat
      /\ start \in Nat /\ IsFiniteSet(times)
      /\ \A i \in 1..Len(rows) : rows[i].at <= now
      /\ RateLimitWindow \in Nat \ {0} /\ RateLimitMax \in Nat
  BY LenProperties, MessagesAssumption DEF Limited
<1>2. /\ more \in Seq(Row) /\ Len(more) = last /\ more[last] = row
      /\ \A i \in 1..Len(rows) : more[i] = rows[i]
  BY <1>1, AppendProperties
<1>3. /\ Limited(rows, start, counted, now, s)
      /\ \A t \in Nat : now - t < RateLimitWindow /\ t <= now =>
             Cardinality(NotBefore(counted, t)) = Cardinality(NotBefore(times, t)) + 1
  BY LimitedCounted
<1> HIDE DEF more, counted
<1>4. /\ \A i \in (start + 1)..Len(more) :
             \/ i \in (start + 1)..Len(rows) /\ more[i] = rows[i]
             \/ i = last /\ more[i] = row
      /\ \A i \in (start + 1)..Len(rows) : i \in (start + 1)..Len(more) /\ more[i] = rows[i]
      /\ last \in (start + 1)..Len(more)
  <2>1. last \in (start + 1)..Len(more)
    BY <1>1, <1>2
  <2>2. \A i \in (start + 1)..Len(rows) : i \in 1..Len(rows) /\ i \in (start + 1)..Len(more)
    BY <1>1, <1>2
  <2>3. \A i \in (start + 1)..Len(more) : i \in (start + 1)..Len(rows) \/ i = last
    BY <1>1, <1>2
  <2> QED
    BY <1>2, <2>1, <2>2, <2>3
<1> HIDE DEF last
<1>5. ASSUME NEW t \in Nat
      PROVE  /\ Cardinality(RowsOf(rows, start, s, t)) \in Nat
             /\ Cardinality(RowsInSpan(rows, start, s, t)) \in Nat
             /\ RowsInSpan(rows, start, s, t) \subseteq RowsOf(rows, start, s, t)
             /\ RowsOf(more, start, s, t) = RowsOf(rows, start, s, t)
                                               \cup (IF t <= now THEN {last} ELSE {})
             /\ RowsInSpan(more, start, s, t) = RowsInSpan(rows, start, s, t)
                    \cup (IF now \in t..(t + RateLimitWindow - 1) THEN {last} ELSE {})
             /\ Cardinality(RowsOf(rows, start, s, t) \cup {last})
                    <= Cardinality(RowsOf(rows, start, s, t)) + 1
             /\ Cardinality(RowsInSpan(rows, start, s, t) \cup {last})
                    <= Cardinality(RowsInSpan(rows, start, s, t)) + 1
             /\ Cardinality(RowsInSpan(rows, start, s, t)) <= Cardinality(RowsOf(rows, start, s, t))
  <2>1. /\ IsFiniteSet(RowsOf(rows, start, s, t)) /\ IsFiniteSet(RowsInSpan(rows, start, s, t))
        /\ Cardinality(RowsOf(rows, start, s, t)) \in Nat
        /\ Cardinality(RowsInSpan(rows, start, s, t)) \in Nat
        /\ RowsInSpan(rows, start, s, t) \subseteq RowsOf(rows, start, s, t)
    BY <1>1, LimitedFinite
  <2>2. Cardinality(RowsOf(rows, start, s, t) \cup {last})
            <= Cardinality(RowsOf(rows, start, s, t)) + 1
    BY <2>1, OneMore
  <2>3. Cardinality(RowsInSpan(rows, start, s, t) \cup {last})
            <= Cardinality(RowsInSpan(rows, start, s, t)) + 1
    BY <2>1, OneMore
  <2>4. Cardinality(RowsInSpan(rows, start, s, t)) <= Cardinality(RowsOf(rows, start, s, t))
    BY <2>1, FS_Subset
  <2>5. RowsOf(more, start, s, t) = RowsOf(rows, start, s, t)
                                        \cup (IF t <= now THEN {last} ELSE {})
    BY <1>1, <1>2, <1>4 DEF RowsOf
  <2>6. RowsInSpan(more, start, s, t) = RowsInSpan(rows, start, s, t)
            \cup (IF now \in t..(t + RateLimitWindow - 1) THEN {last} ELSE {})
    BY <1>1, <1>2, <1>4 DEF RowsInSpan
  <2> QED
    BY <2>1, <2>2, <2>3, <2>4, <2>5, <2>6
<1>6. ASSUME NEW t \in Nat
      PROVE  Cardinality(NotBefore(times, t)) \in Nat /\ Cardinality(NotBefore(counted, t)) \in Nat
  BY <1>1, <1>3, TimesFinite DEF Limited
<1>7. ASSUME NEW t \in Nat, now - t < RateLimitWindow
      PROVE  Cardinality(RowsOf(more, start, s, t)) <= Cardinality(NotBefore(counted, t))
  <2>1. CASE t <= now
    <3>1. Cardinality(RowsOf(more, start, s, t)) <= Cardinality(RowsOf(rows, start, s, t)) + 1
      BY <1>5, <2>1
    <3>2. Cardinality(RowsOf(rows, start, s, t)) <= Cardinality(NotBefore(times, t))
      BY <1>7 DEF Limited
    <3>3. Cardinality(NotBefore(counted, t)) = Cardinality(NotBefore(times, t)) + 1
      BY <1>3, <1>7, <2>1
    <3>4. Cardinality(RowsOf(more, start, s, t)) \in Nat
      BY <1>1, <1>2, LimitedFinite
    <3>5. /\ Cardinality(RowsOf(rows, start, s, t)) \in Nat
          /\ Cardinality(NotBefore(times, t)) \in Nat
          /\ Cardinality(NotBefore(counted, t)) \in Nat
      BY <1>5, <1>6
    <3> QED
      BY <3>1, <3>2, <3>3, <3>4, <3>5
  <2>2. CASE ~(t <= now)
    <3>1. RowsOf(more, start, s, t) = RowsOf(rows, start, s, t)
      BY <1>5, <2>2
    <3>2. Cardinality(RowsOf(rows, start, s, t)) <= Cardinality(NotBefore(counted, t))
      BY <1>3, <1>7 DEF Limited
    <3> QED
      BY <3>1, <3>2
  <2> QED
    BY <2>1, <2>2
<1>8. ASSUME NEW t \in Nat
      PROVE  Cardinality(RowsInSpan(more, start, s, t)) <= RateLimitMax
  <2>1. CASE now \in t..(t + RateLimitWindow - 1)
    <3>1. now - t < RateLimitWindow /\ t <= now
      BY <1>1, <2>1
    <3>2. Cardinality(RowsOf(rows, start, s, t)) <= Cardinality(NotBefore(times, t))
      BY <3>1 DEF Limited
    <3>3. Cardinality(NotBefore(times, t)) <= Cardinality(Within(times, now))
      <4>1. NotBefore(times, t) \in SUBSET Within(times, now)
        <5> SUFFICES ASSUME NEW time \in times, time[1] >= t
                     PROVE  now - time[1] < RateLimitWindow
          BY DEF NotBefore, Within
        <5>1. time[1] \in Nat
          BY DEF Limited
        <5> QED
          BY <1>1, <3>1, <5>1
      <4> QED
        BY <1>1, <4>1, TimesFinite, FS_Subset
    <3>4. Cardinality(RowsInSpan(more, start, s, t)) <= Cardinality(RowsInSpan(rows, start, s, t)) + 1
      BY <1>5, <2>1
    <3>5. /\ Cardinality(RowsInSpan(more, start, s, t)) \in Nat
          /\ Cardinality(Within(times, now)) \in Nat
      BY <1>1, <1>2, LimitedFinite, TimesFinite
    <3>6. /\ Cardinality(RowsOf(rows, start, s, t)) \in Nat
          /\ Cardinality(RowsInSpan(rows, start, s, t)) \in Nat
          /\ Cardinality(RowsInSpan(rows, start, s, t)) <= Cardinality(RowsOf(rows, start, s, t))
          /\ Cardinality(NotBefore(times, t)) \in Nat
          /\ Cardinality(Within(times, now)) < RateLimitMax /\ RateLimitMax \in Nat
      BY <1>1, <1>5, <1>6
    <3> QED
      BY <3>2, <3>3, <3>4, <3>5, <3>6
  <2>2. CASE ~(now \in t..(t + RateLimitWindow - 1))
    <3>1. RowsInSpan(more, start, s, t) = RowsInSpan(rows, start, s, t)
      BY <1>5, <2>2
    <3> QED
      BY <3>1 DEF Limited
  <2> QED
    BY <2>1, <2>2
<1>9. \A i \in 1..Len(more) : more[i].at <= now
  <2>1. \A i \in 1..Len(more) : i \in 1..Len(rows) \/ i = Len(rows) + 1
    BY <1>1, <1>2 DEF last
  <2> QED
    BY <1>1, <1>2, <2>1 DEF last
<1>10. start \in 0..Len(more)
  BY <1>1, <1>2 DEF last
<1>11. /\ counted \in SUBSET (Nat \X Nat) /\ IsFiniteSet(counted)
       /\ \A time \in counted :
              time[1] <= now /\ (time[1] = now => time[2] <= Cardinality(Within(counted, now)))
  BY <1>3 DEF Limited
<1>12. Limited(more, start, counted, now, s)
  BY <1>1, <1>2, <1>7, <1>8, <1>9, <1>10, <1>11 DEF Limited
<1> QED
  BY <1>12 DEF more, counted

Sending ==
    [by : Members, at : Nat, waiting : SUBSET Members, sent : SUBSET Members,
     failed : SUBSET Members]

MessagesInv ==
    /\ clock \in Nat
    /\ rateLimits \in [Members -> [Members -> SUBSET (Nat \X Nat)]]
    /\ inbox \in [Members -> Seq(Row)]
    /\ since \in [Members -> Nat]
    /\ broadcasts \in Seq(Sending)
    /\ \A n, s \in Members : Limited(inbox[n], since[n], rateLimits[n][s], clock, s)

LEMMA MessagesStart == MessagesInit => MessagesInv
<1> SUFFICES ASSUME MessagesInit PROVE MessagesInv
  OBVIOUS
<1> USE DEF MessagesInit, ClockInit, NoTimes
<1>1. ASSUME NEW n \in Members, NEW s \in Members
      PROVE  Limited(inbox[n], since[n], rateLimits[n][s], clock, s)
  <2>1. inbox[n] = <<>> /\ since[n] = 0 /\ rateLimits[n][s] = {} /\ clock = 1
    BY <1>1
  <2>2. /\ IsFiniteSet({}) /\ Cardinality({}) = 0
        /\ \A t \in Nat : RowsOf(<<>>, 0, s, t) = {} /\ RowsInSpan(<<>>, 0, s, t) = {}
                          /\ NotBefore({}, t) = {}
    BY FS_EmptySet DEF RowsOf, RowsInSpan, NotBefore
  <2>5. \A t \in Nat : /\ Cardinality(RowsOf(<<>>, 0, s, t)) = 0
                       /\ Cardinality(RowsInSpan(<<>>, 0, s, t)) = 0
                       /\ Cardinality(NotBefore({}, t)) = 0
    BY <2>2
  <2>3. \A t \in Nat : /\ Cardinality(RowsOf(<<>>, 0, s, t)) <= Cardinality(NotBefore({}, t))
                       /\ Cardinality(RowsInSpan(<<>>, 0, s, t)) <= RateLimitMax
    BY <2>5, MessagesAssumption
  <2>4. <<>> \in Seq(Row) /\ Len(<<>>) = 0 /\ 0 \in 0..Len(<<>>) /\ 1 \in Nat
    OBVIOUS
  <2> QED
    BY <2>1, <2>2, <2>3, <2>4 DEF Limited
<1>2. /\ rateLimits \in [Members -> [Members -> SUBSET (Nat \X Nat)]]
      /\ inbox \in [Members -> Seq(Row)] /\ since \in [Members -> Nat] /\ clock \in Nat
      /\ broadcasts = <<>>
  OBVIOUS
<1> QED
  BY <1>1, <1>2 DEF MessagesInv

\* The post of a message reaches a node.
LEMMA ReceiveStep ==
    ASSUME MessagesInv, NEW b \in DOMAIN broadcasts, NEW n \in Members, Receive(b, n),
           UNCHANGED clock
    PROVE  /\ inbox' \in [Members -> Seq(Row)]
           /\ rateLimits' \in [Members -> [Members -> SUBSET (Nat \X Nat)]]
           /\ \A m, r \in Members : Limited(inbox'[m], since'[m], rateLimits'[m][r], clock', r)
<1> DEFINE s == broadcasts[b].by
           admitted_ == s \in known[n] /\ Cardinality(Recent(n, s)) < RateLimitMax
           ok == admitted_ /\ clock - broadcasts[b].at <= StaleAfter
           row == [message |-> b, from |-> s, at |-> clock]
<1>1. /\ rateLimits' = IF ~admitted_ THEN rateLimits ELSE [rateLimits EXCEPT ![n][s] = Counted(n, s)]
      /\ inbox' = IF ~ok THEN inbox ELSE [inbox EXCEPT ![n] = Append(@, row)]
      /\ since' = since /\ clock' = clock
  BY DEF Receive
<1>2. s \in Members /\ row \in Row /\ row.from = s /\ row.at = clock
  <2>1. broadcasts[b].by \in Members /\ b \in Nat /\ clock \in Nat
    <3>1. broadcasts \in Seq(Sending) /\ clock \in Nat
      BY DEF MessagesInv
    <3>2. b \in 1..Len(broadcasts) /\ Len(broadcasts) \in Nat
      BY <3>1, LenProperties
    <3>3. broadcasts[b] \in Sending
      BY <3>1, <3>2, ElementOfSeq
    <3> QED
      BY <3>1, <3>2, <3>3 DEF Sending
  <2> QED
    BY <2>1 DEF Row
<1>3. /\ Recent(n, s) = Within(rateLimits[n][s], clock)
      /\ Counted(n, s) = Within(rateLimits[n][s], clock) \cup {NextTime(rateLimits[n][s], clock)}
  BY DEF Counted, Recent, Within, NextTime
<1>4. /\ \A m, r \in Members : Limited(inbox[m], since[m], rateLimits[m][r], clock, r)
      /\ inbox \in [Members -> Seq(Row)]
      /\ rateLimits \in [Members -> [Members -> SUBSET (Nat \X Nat)]]
  BY DEF MessagesInv
<1>7. Limited(inbox[n], since[n], rateLimits[n][s], clock, s)
  BY <1>2, <1>4
<1>5. CASE ~admitted_
  BY <1>1, <1>4, <1>5
<1>6. CASE admitted_
  <2> DEFINE limited(m, r) == IF m = n /\ r = s THEN Counted(n, s) ELSE rateLimits[m][r]
  <2>1. Limited(inbox[n], since[n], Counted(n, s), clock, s)
    BY <1>3, <1>7, LimitedCounted
  <2>2. Counted(n, s) \in SUBSET (Nat \X Nat)
    BY <2>1 DEF Limited
  <2>3. /\ rateLimits' \in [Members -> [Members -> SUBSET (Nat \X Nat)]]
        /\ \A m, r \in Members : rateLimits'[m][r] = limited(m, r)
    BY <1>1, <1>2, <1>4, <1>6, <2>2
  <2>4. CASE ~ok
    BY <1>1, <1>4, <2>1, <2>3, <2>4
  <2>5. CASE ok
    <3>1. inbox' = [inbox EXCEPT ![n] = Append(inbox[n], row)]
      BY <1>1, <2>5
    <3> HIDE DEF row, ok
    <3>2. Append(inbox[n], row) \in Seq(Row)
      BY <1>2, <1>4, AppendProperties
    <3>3. /\ inbox' \in [Members -> Seq(Row)]
          /\ \A m \in Members : inbox'[m] = IF m = n THEN Append(inbox[n], row) ELSE inbox[m]
      BY <1>4, <3>1, <3>2
    <3>4. Limited(Append(inbox[n], row), since[n], Counted(n, s), clock, s)
      <4>1. Cardinality(Within(rateLimits[n][s], clock)) < RateLimitMax
        BY <1>3, <1>6
      <4> QED
        BY <1>2, <1>3, <1>7, <4>1, LimitedRow
    <3>5. ASSUME NEW r \in Members, r # s
          PROVE  Limited(Append(inbox[n], row), since[n], rateLimits[n][r], clock, r)
      BY <1>2, <1>4, <3>5, LimitedOther
    <3>6. ASSUME NEW m \in Members, NEW r \in Members
          PROVE  Limited(inbox'[m], since'[m], rateLimits'[m][r], clock', r)
      <4>1. CASE m # n
        BY <1>1, <1>4, <2>3, <3>3, <4>1
      <4>2. CASE m = n /\ r = s
        BY <1>1, <2>3, <3>3, <3>4, <4>2
      <4>3. CASE m = n /\ r # s
        BY <1>1, <2>3, <3>3, <3>5, <4>3
      <4> QED
        BY <4>1, <4>2, <4>3
    <3> QED
      BY <2>3, <3>3, <3>6
  <2> QED
    BY <2>4, <2>5
<1> QED
  BY <1>5, <1>6

\* An answer changes only who is waited for, and who is counted as what.
LEMMA AnswerToPost ==
    ASSUME MessagesInv, NEW b \in DOMAIN broadcasts, NEW n \in Members, NEW ok, Answer(b, n, ok)
    PROVE  /\ broadcasts' \in Seq(Sending) /\ DOMAIN broadcasts' = DOMAIN broadcasts
           /\ \A c \in DOMAIN broadcasts : \A m \in broadcasts'[c].sent :
                  m \in broadcasts[c].sent \/ (c = b /\ m = n /\ ok)
<1>1. broadcasts \in Seq(Sending)
  BY DEF MessagesInv
<1>2. CASE n \notin broadcasts[b].waiting
  BY <1>1, <1>2 DEF Answer
<1>3. CASE n \in broadcasts[b].waiting
  <2> DEFINE new == [broadcasts[b] EXCEPT !.waiting = @ \ {n},
                         !.sent = IF ok THEN @ \cup {n} ELSE @,
                         !.failed = IF ok THEN @ ELSE @ \cup {n}]
  <2>1. broadcasts[b] \in Sending
    BY <1>1, ElementOfSeq, LenProperties
  <2>2. new \in Sending /\ new.sent = IF ok THEN broadcasts[b].sent \cup {n} ELSE broadcasts[b].sent
    BY <2>1 DEF Sending
  <2>3. broadcasts' = [broadcasts EXCEPT ![b] = new]
    BY <1>3, <2>1 DEF Answer, Sending
  <2> HIDE DEF new
  <2>4. broadcasts' \in Seq(Sending) /\ DOMAIN broadcasts' = DOMAIN broadcasts
    BY <1>1, <2>2, <2>3, ExceptSeq, LenProperties
  <2>5. \A c \in DOMAIN broadcasts : broadcasts'[c] = IF c = b THEN new ELSE broadcasts[c]
    BY <1>1, <2>3
  <2> QED
    BY <2>2, <2>4, <2>5
<1> QED
  BY <1>2, <1>3

LEMMA NodeRestartStep ==
    ASSUME MessagesInv, NEW n \in Members, MemberRestart(n), UNCHANGED clock
    PROVE  MessagesInv' /\ inbox' = inbox /\ DOMAIN broadcasts' = DOMAIN broadcasts
           /\ \A b \in DOMAIN broadcasts : broadcasts'[b].sent = broadcasts[b].sent
<1> USE DEF MessagesInv
<1>1. /\ rateLimits' = [rateLimits EXCEPT ![n] = NoTimes]
      /\ since' = [since EXCEPT ![n] = Len(inbox[n])]
      /\ inbox' = inbox /\ clock' = clock
  BY DEF MemberRestart
<1>2. Len(inbox[n]) \in Nat
  BY LenProperties
<1>3. /\ rateLimits' \in [Members -> [Members -> SUBSET (Nat \X Nat)]]
      /\ since' \in [Members -> Nat]
      /\ \A m, s \in Members : rateLimits'[m][s] = IF m = n THEN {} ELSE rateLimits[m][s]
      /\ \A m \in Members : since'[m] = IF m = n THEN Len(inbox[n]) ELSE since[m]
  BY <1>1, <1>2 DEF NoTimes
<1>4. ASSUME NEW m \in Members, NEW s \in Members
      PROVE  Limited(inbox'[m], since'[m], rateLimits'[m][s], clock', s)
  <2>1. Limited(inbox[m], since[m], rateLimits[m][s], clock, s)
    OBVIOUS
  <2>2. CASE m = n
    <3>1. Limited(inbox[m], Len(inbox[m]), {}, clock, s)
      BY <2>1, LimitedRestart
    <3> QED
      BY <1>1, <1>3, <2>2, <3>1
  <2>3. CASE m # n
    BY <1>1, <1>3, <2>1, <2>3
  <2> QED
    BY <2>2, <2>3
<1>5. /\ broadcasts' \in Seq(Sending) /\ DOMAIN broadcasts' = DOMAIN broadcasts
      /\ \A b \in DOMAIN broadcasts : broadcasts'[b].sent = broadcasts[b].sent
  <2> DEFINE new(b) == IF broadcasts[b].by = n THEN [broadcasts[b] EXCEPT !.waiting = {}]
                       ELSE broadcasts[b]
  <2>1. broadcasts' = [b \in DOMAIN broadcasts |-> new(b)]
    BY DEF MemberRestart
  <2>2. \A b \in DOMAIN broadcasts : new(b) \in Sending /\ new(b).sent = broadcasts[b].sent
    <3> SUFFICES ASSUME NEW b \in DOMAIN broadcasts
                 PROVE  new(b) \in Sending /\ new(b).sent = broadcasts[b].sent
      OBVIOUS
    <3>1. broadcasts[b] \in Sending
      BY ElementOfSeq, LenProperties
    <3> QED
      BY <3>1 DEF Sending
  <2>3. DOMAIN broadcasts = 1..Len(broadcasts) /\ Len(broadcasts) \in Nat
    BY LenProperties
  <2> HIDE DEF new
  <2>4. broadcasts' \in Seq(Sending)
    BY <2>1, <2>2, <2>3, IsASeq
  <2> QED
    BY <2>1, <2>2, <2>4
<1> QED
  BY <1>1, <1>3, <1>4, <1>5

LEMMA MessagesStep ==
    ASSUME MessagesInv, [MessagesNext]_messageVars
    PROVE  MessagesInv'
<1>1. ASSUME UNCHANGED <<clock, rateLimits, inbox, since>>, broadcasts' \in Seq(Sending)
      PROVE  MessagesInv'
  BY <1>1 DEF MessagesInv
<1>2. ASSUME NEW n \in Members, Broadcast(n), UNCHANGED clock PROVE MessagesInv'
  <2>1. [by |-> n, at |-> clock, waiting |-> Members \ {n}, sent |-> {}, failed |-> {}] \in Sending
    BY DEF MessagesInv, Sending
  <2>2. broadcasts' \in Seq(Sending)
    BY <1>2, <2>1, AppendProperties DEF Broadcast, MessagesInv
  <2> QED
    BY <1>1, <1>2, <2>2 DEF Broadcast
<1>3. ASSUME NEW n \in Members, Learn(n), UNCHANGED clock PROVE MessagesInv'
  BY <1>1, <1>3 DEF Learn, MessagesInv
<1>4. ASSUME NEW n \in Members, MemberRestart(n), UNCHANGED clock PROVE MessagesInv'
  BY <1>4, NodeRestartStep
<1>5. ASSUME NEW b \in DOMAIN broadcasts, NEW n \in Members, Receive(b, n), UNCHANGED clock
      PROVE  MessagesInv'
  <2>1. broadcasts' \in Seq(Sending)
    <3>1. CASE UNCHANGED broadcasts
      BY <3>1 DEF MessagesInv
    <3>2. CASE \E ok : Answer(b, n, ok)
      BY <3>2, AnswerToPost
    <3> QED
      BY <1>5, <3>1, <3>2 DEF Receive
  <2>2. since' = since /\ clock' = clock
    BY <1>5 DEF Receive
  <2> QED
    BY <1>5, <2>1, <2>2, ReceiveStep DEF MessagesInv
<1>6. CASE GiveUpStep
  BY <1>1, <1>6, AnswerToPost DEF GiveUpStep, GiveUp
<1>7. CASE MessagesTick
  <2>1. clock' \in Nat /\ clock <= clock'
    BY <1>7 DEF MessagesTick, Advance, MessagesInv
  <2>2. UNCHANGED <<rateLimits, inbox, since, broadcasts>>
    BY <1>7 DEF MessagesTick
  <2>3. ASSUME NEW n \in Members, NEW s \in Members
        PROVE  Limited(inbox[n], since[n], rateLimits[n][s], clock', s)
    <3>1. Limited(inbox[n], since[n], rateLimits[n][s], clock, s)
      BY DEF MessagesInv
    <3> QED
      BY <2>1, <3>1, LimitedLater
  <2> QED
    BY <2>1, <2>2, <2>3 DEF MessagesInv
<1>8. CASE UNCHANGED messageVars
  BY <1>1, <1>8 DEF messageVars, MessagesInv
<1> QED
  BY <1>2, <1>3, <1>4, <1>5, <1>6, <1>7, <1>8 DEF MessagesNext

\* Whatever the limit and the hour are, and however often messages are posted again,
\* late or after the signer was removed and pinned anew: between two starts of a node
\* no span of the window's length has more rows of one signer than the limit.
THEOREM MessagesStayLimited == MessagesSpec => []HourlyLimit
<1>1. MessagesInit => MessagesInv
  BY MessagesStart
<1>2. MessagesInv /\ [MessagesNext]_messageVars => MessagesInv'
  BY MessagesStep
<1>3. MessagesInv => HourlyLimit
  BY DEF MessagesInv, HourlyLimit, Limited, RowsInSpan
<1> QED
  BY <1>1, <1>2, <1>3, PTL DEF MessagesSpec

\* A peer that is counted as sent has the message in its table, whichever of the
\* answers to a post are lost, and whatever each node does afterwards.
THEOREM SentIsStored == MessagesSpec => []SentWereStored
<1>1. MessagesInit => SentWereStored
  BY DEF MessagesInit, SentWereStored
<1>2. MessagesInv /\ SentWereStored /\ [MessagesNext]_messageVars => SentWereStored'
  <2> SUFFICES ASSUME MessagesInv, SentWereStored, [MessagesNext]_messageVars
               PROVE  SentWereStored'
    OBVIOUS
  <2> USE DEF SentWereStored
  <2>1. ASSUME UNCHANGED <<inbox, broadcasts>> PROVE SentWereStored'
    BY <2>1
  <2>2. ASSUME NEW n \in Members, Broadcast(n) PROVE SentWereStored'
    <3> DEFINE new == [by |-> n, at |-> clock, waiting |-> Members \ {n}, sent |-> {}, failed |-> {}]
    <3>1. broadcasts \in Seq(Sending) /\ new \in Sending /\ new.sent = {} /\ inbox' = inbox
          /\ broadcasts' = Append(broadcasts, new)
      BY <2>2 DEF MessagesInv, Sending, Broadcast
    <3> HIDE DEF new
    <3>2. /\ DOMAIN broadcasts' = 1..(Len(broadcasts) + 1) /\ Len(broadcasts) \in Nat
          /\ DOMAIN broadcasts = 1..Len(broadcasts)
          /\ \A b \in 1..Len(broadcasts) : broadcasts'[b] = broadcasts[b]
          /\ broadcasts'[Len(broadcasts) + 1] = new
      BY <3>1, AppendProperties, LenProperties
    <3>3. \A b \in DOMAIN broadcasts' : b \in DOMAIN broadcasts \/ b = Len(broadcasts) + 1
      BY <3>2
    <3> QED
      BY <3>1, <3>2, <3>3
  <2>3. ASSUME NEW b \in DOMAIN broadcasts, NEW n \in Members, Receive(b, n), UNCHANGED clock
        PROVE  SentWereStored'
    <3> DEFINE s == broadcasts[b].by
               ok == /\ s \in known[n] /\ Cardinality(Recent(n, s)) < RateLimitMax
                     /\ clock - broadcasts[b].at <= StaleAfter
               row == [message |-> b, from |-> s, at |-> clock]
    <3>1. /\ inbox' = IF ~ok THEN inbox ELSE [inbox EXCEPT ![n] = Append(@, row)]
          /\ Answer(b, n, ok) \/ UNCHANGED broadcasts
      BY <2>3 DEF Receive
    <3>2. inbox \in [Members -> Seq(Row)] /\ inbox' \in [Members -> Seq(Row)] /\ row.message = b
          /\ row \in Row
      <4>1. b \in Nat /\ clock \in Nat
        BY LenProperties DEF MessagesInv
      <4>2. broadcasts[b] \in Sending
        BY ElementOfSeq, LenProperties DEF MessagesInv
      <4> QED
        BY <2>3, <4>1, <4>2, ReceiveStep DEF MessagesInv, Row, Sending
    <3> HIDE DEF ok, row
    <3>3. ASSUME NEW m \in Members, NEW i \in DOMAIN inbox[m]
          PROVE  i \in DOMAIN inbox'[m] /\ inbox'[m][i] = inbox[m][i]
      <4>1. CASE ~ok \/ m # n
        BY <3>1, <3>2, <4>1
      <4>2. CASE ok /\ m = n
        <5>1. inbox'[m] = Append(inbox[m], row) /\ inbox[m] \in Seq(Row)
          BY <3>1, <3>2, <4>2
        <5> QED
          BY <3>2, <5>1, AppendProperties, LenProperties
      <4> QED
        BY <4>1, <4>2
    <3>4. ASSUME ok PROVE \E i \in DOMAIN inbox'[n] : inbox'[n][i].message = b
      <4>1. inbox'[n] = Append(inbox[n], row) /\ inbox[n] \in Seq(Row)
        BY <3>1, <3>2, <3>4
      <4>2. /\ Len(inbox[n]) + 1 \in DOMAIN inbox'[n]
            /\ inbox'[n][Len(inbox[n]) + 1] = row
        BY <3>2, <4>1, AppendProperties, LenProperties
      <4> QED
        BY <3>2, <4>2
    <3>7. ASSUME NEW c \in DOMAIN broadcasts PROVE broadcasts[c].sent \subseteq Members
      <4>1. broadcasts[c] \in Sending
        BY ElementOfSeq, LenProperties DEF MessagesInv
      <4> QED
        BY <4>1 DEF Sending
    <3>5. CASE UNCHANGED broadcasts
      <4> SUFFICES ASSUME NEW c \in DOMAIN broadcasts, NEW m \in broadcasts[c].sent
                   PROVE  \E i \in DOMAIN inbox'[m] : inbox'[m][i].message = c
        BY <3>5
      <4>1. m \in Members
        BY <3>7
      <4> QED
        BY <3>3, <4>1
    <3>6. CASE Answer(b, n, ok)
      <4>1. /\ DOMAIN broadcasts' = DOMAIN broadcasts
            /\ \A c \in DOMAIN broadcasts : \A m \in broadcasts'[c].sent :
                   m \in broadcasts[c].sent \/ (c = b /\ m = n /\ ok)
        BY <3>6, AnswerToPost
      <4> SUFFICES ASSUME NEW c \in DOMAIN broadcasts, NEW m \in broadcasts'[c].sent
                   PROVE  \E i \in DOMAIN inbox'[m] : inbox'[m][i].message = c
        BY <4>1
      <4>2. CASE m \in broadcasts[c].sent
        <5>1. m \in Members
          BY <3>7, <4>2
        <5> QED
          BY <3>3, <4>2, <5>1
      <4> QED
        BY <3>4, <4>1, <4>2
    <3> QED
      BY <3>1, <3>5, <3>6
  <2>4. ASSUME NEW n \in Members, MemberRestart(n), UNCHANGED clock PROVE SentWereStored'
    BY <2>4, NodeRestartStep
  <2>5. CASE GiveUpStep
    <3>1. PICK b \in DOMAIN broadcasts, n \in Members : GiveUp(b, n)
      BY <2>5 DEF GiveUpStep
    <3>2. /\ DOMAIN broadcasts' = DOMAIN broadcasts /\ inbox' = inbox
          /\ \A c \in DOMAIN broadcasts : \A m \in broadcasts'[c].sent : m \in broadcasts[c].sent
      BY <3>1, AnswerToPost DEF GiveUp
    <3> QED
      BY <3>2
  <2> QED
    BY <2>1, <2>2, <2>3, <2>4, <2>5 DEF MessagesNext, Learn, MessagesTick, messageVars
<1> QED
  BY <1>1, <1>2, MessagesStart, MessagesStep, PTL DEF MessagesSpec

=============================================================================
