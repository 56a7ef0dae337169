----------------------------- MODULE TseiProfileA -----------------------------
(***************************************************************************)
(* The gateway for TSEI receipts (integrations/tseiProfileARouter.ts): a   *)
(* receipt is admitted by a sliding window, signed, stored as an           *)
(* observation of its instance, and answered with all that the store holds *)
(* of that instance.  One instance is followed; the value of a receipt is  *)
(* the digest of its bytes.  The handlers are cut where they await.        *)
(***************************************************************************)
EXTENDS NodeClock, Sequences, FiniteSets

CONSTANTS
    Receipts,           \* values
    Gateway, Others,    \* who signs: this node, and the nodes it syncs from
    Malformed,          \* what is no receipt, or too long
    Posts,              \* requests at a time
    MaxAttempts, AttemptWindow,
    MaxAdmitted         \* bound on the requests admitted between two starts

ASSUME TseiAssumption == {MaxAttempts, AttemptWindow} \subseteq Nat

VARIABLES
    enabled,        \* the secret and the key are set
    attemptTimes,   \* the admissions the window still holds
    admitted,       \* history: all since the start
    observed,       \* <<value, signer>>: the records and attestations of the instance
    posts

tseiVars == <<clock, enabled, attemptTimes, admitted, observed, posts>>

NoPost == [at |-> "none", before |-> {}, values |-> {}, answer |-> {}]

TseiInit ==
    /\ ClockInit
    /\ enabled \in BOOLEAN
    /\ attemptTimes = <<>> /\ admitted = <<>>
    /\ observed = {}
    /\ posts = [p \in Posts |-> NoPost]

-----------------------------------------------------------------------------
ValuesIn(pairs) == {pair[1] : pair \in pairs}

Post(p, to) == posts' = [posts EXCEPT ![p] = to]

\* Mutant: an attempt leaves the window one unit early.
ExpiredEarly(time) == clock - time >= AttemptWindow - 1

Expired(time) == clock - time >= AttemptWindow

\* The loop shifts n attempts out: those before the first that has not expired.
Shifted(n) ==
    /\ \A i \in 1..n : Expired(attemptTimes[i])
    /\ n < Len(attemptTimes) => ~Expired(attemptTimes[n + 1])

\* Authenticated, and counted before its body is read: what is refused later counts.
Admit(p) ==
    /\ enabled /\ posts[p].at = "none"
    /\ Len(admitted) < MaxAdmitted
    /\ \E n \in 0..Len(attemptTimes) :
        LET left == SubSeq(attemptTimes, n + 1, Len(attemptTimes)) IN
        /\ Shifted(n)
        /\ IF Len(left) >= MaxAttempts
           THEN attemptTimes' = left /\ UNCHANGED <<admitted, posts>>
           ELSE /\ attemptTimes' = Append(left, clock)
                /\ admitted' = Append(admitted, clock)
                /\ Post(p, [NoPost EXCEPT !.at = "body"])
    /\ UNCHANGED <<enabled, observed>>

\* The body is read: 413 or 400, or the receipt is signed and inserted, with no other
\* state read on the way.  before is what the answer must show.
StoreObservation(p) ==
    /\ posts[p].at = "body"
    /\ \E v \in Receipts \cup {Malformed} :
           IF v = Malformed THEN Post(p, NoPost) /\ UNCHANGED observed ELSE
           /\ observed' = observed \cup {<<v, Gateway>>}
           /\ Post(p, [NoPost EXCEPT !.at = "stored", !.before = observed'])
    /\ UNCHANGED <<enabled, attemptTimes, admitted>>

\* Mutant: a resolution policy answers with one value.
ReadResolved(p) ==
    /\ posts[p].at = "stored"
    /\ Post(p, [posts[p] EXCEPT !.at = "read", !.values =
                    IF observed = {} THEN {} ELSE {CHOOSE v \in ValuesIn(observed) : TRUE}])
    /\ UNCHANGED <<enabled, attemptTimes, admitted, observed>>

\* getRecordsByInputHash: all values, raw.
ReadValues(p) ==
    /\ posts[p].at = "stored"
    /\ Post(p, [posts[p] EXCEPT !.at = "read", !.values = ValuesIn(observed)])
    /\ UNCHANGED <<enabled, attemptTimes, admitted, observed>>

\* The attestations of one value after the other, as they are then.
ReadAttestations(p) ==
    /\ posts[p].at = "read"
    /\ LET left == posts[p].values \ ValuesIn(posts[p].answer) IN
       IF left = {} THEN Post(p, [posts[p] EXCEPT !.at = "answered", !.values = {}])
       ELSE LET next == CHOOSE value \in left : TRUE IN
            Post(p, [posts[p] EXCEPT !.answer = @ \cup {pair \in observed : pair[1] = next}])
    /\ UNCHANGED <<enabled, attemptTimes, admitted, observed>>

Answered(p) ==
    /\ posts[p].at = "answered"
    /\ Post(p, NoPost)
    /\ UNCHANGED <<enabled, attemptTimes, admitted, observed>>

\* GET /observations/:inputHash reads what is there, as a post does.
Query(p) ==
    /\ posts[p].at = "none"
    /\ Post(p, [NoPost EXCEPT !.at = "stored", !.before = observed])
    /\ UNCHANGED <<enabled, attemptTimes, admitted, observed>>

\* A sync stores an observation of another node.
ObserveOther ==
    /\ \E v \in Receipts, s \in Others : observed' = observed \cup {<<v, s>>}
    /\ UNCHANGED <<enabled, attemptTimes, admitted, posts>>

\* The window is in memory.
TseiRestart ==
    /\ attemptTimes' = <<>> /\ admitted' = <<>>
    /\ posts' = [p \in Posts |-> NoPost]
    /\ UNCHANGED <<enabled, observed>>

TseiTick == Advance /\ UNCHANGED <<enabled, attemptTimes, admitted, observed, posts>>

TseiNext ==
    \/ /\ \/ \E p \in Posts :
              \/ Admit(p) \/ StoreObservation(p) \/ ReadValues(p)
              \/ ReadAttestations(p) \/ Answered(p) \/ Query(p)
          \/ ObserveOther \/ TseiRestart
       /\ UNCHANGED clock
    \/ TseiTick

TseiSpec == TseiInit /\ [][TseiNext]_tseiVars

-----------------------------------------------------------------------------
\* Any span of the window's length, wherever it begins, has at most MaxAttempts of
\* the attempts that were let through to the parser and the signer.
SlidingWindow ==
    \A t \in 1..MaxClock :
        Cardinality({i \in DOMAIN admitted : admitted[i] \in t..(t + AttemptWindow - 1)}) <= MaxAttempts

\* An answer shows every value, with every attestation, that the store held when its
\* own was written, although it is put together from several reads: divergence that
\* is known is never hidden from the one who adds to it.
AnswerComplete ==
    \A p \in Posts : posts[p].at = "answered" => posts[p].before \subseteq posts[p].answer
=============================================================================
