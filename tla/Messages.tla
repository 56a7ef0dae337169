------------------------------- MODULE Messages -------------------------------
(***************************************************************************)
(* Messages between the nodes of a mesh (mesh/messages.ts): a node signs   *)
(* one and posts it to every peer; a peer stores it if it knows the        *)
(* signer, has had few messages of it lately and the message is fresh.     *)
(* A post or its answer may be lost or late, and whoever has a message may *)
(* post it again.  The count of recent messages is in memory.              *)
(*                                                                         *)
(* The handler awaits the recovery of the signer before it looks at any    *)
(* state, so that it is one step; clocks agree, and a time is in minutes.  *)
(***************************************************************************)
EXTENDS NodeClock, Sequences, FiniteSets

CONSTANTS
    Members,            \* nodes, each with the others in its peers table
    RateLimitMax,       \* 10 messages
    RateLimitWindow,    \* in an hour
    StaleAfter,         \* ten minutes
    MaxBroadcasts, MaxInbox     \* bounds

ASSUME MessagesAssumption == RateLimitMax \in Nat /\ RateLimitWindow \in Nat \ {0}

VARIABLES
    known,          \* the peers whose signer a node has on record
    rateLimits,     \* the times of the messages that were counted, by signer, numbered
    inbox,          \* the rows of messages
    since,          \* of which these were stored before the last start
    broadcasts      \* by whom and when, and what became of each post

messageVars == <<clock, known, rateLimits, inbox, since, broadcasts>>

NoTimes == [s \in Members |-> {}]

MessagesInit ==
    /\ ClockInit
    /\ known \in [Members -> SUBSET Members] /\ \A n \in Members : n \notin known[n]
    /\ rateLimits = [n \in Members |-> NoTimes]
    /\ inbox = [n \in Members |-> <<>>]
    /\ since = [n \in Members |-> 0]
    /\ broadcasts = <<>>

-----------------------------------------------------------------------------
\* Mutant: the limiter drops a time one unit early.
RecentEarly(n, s) == {time \in rateLimits[n][s] : clock - time[1] < RateLimitWindow - 1}

Recent(n, s) == {time \in rateLimits[n][s] : clock - time[1] < RateLimitWindow}

\* Two messages of one instant are two times.
Counted(n, s) == Recent(n, s) \cup {<<clock, Cardinality(Recent(n, s)) + 1>>}

\* broadcastMessage: one post to each peer, all at once.
Broadcast(n) ==
    /\ Len(broadcasts) < MaxBroadcasts
    /\ broadcasts' = Append(broadcasts, [by |-> n, at |-> clock, waiting |-> Members \ {n},
                                         sent |-> {}, failed |-> {}])
    /\ UNCHANGED <<known, rateLimits, inbox, since>>

\* Mutant: any answer counts as sent.
AnswerAsSent(b, n, ok) ==
    broadcasts' = IF n \notin broadcasts[b].waiting THEN broadcasts ELSE
        [broadcasts EXCEPT ![b].waiting = @ \ {n}, ![b].sent = @ \cup {n}]

\* The answer to the post, unless nobody waits for it.
Answer(b, n, ok) ==
    broadcasts' = IF n \notin broadcasts[b].waiting THEN broadcasts ELSE
        [broadcasts EXCEPT ![b].waiting = @ \ {n},
                           ![b].sent = IF ok THEN @ \cup {n} ELSE @,
                           ![b].failed = IF ok THEN @ ELSE @ \cup {n}]

\* The limiter counts a message before its age is looked at.
Receive(b, n) ==
    LET s == broadcasts[b].by
        admitted == s \in known[n] /\ Cardinality(Recent(n, s)) < RateLimitMax
        ok == admitted /\ clock - broadcasts[b].at <= StaleAfter
    IN
    /\ n # s
    /\ Len(inbox[n]) < MaxInbox
    /\ rateLimits' = IF ~admitted THEN rateLimits ELSE
                         [rateLimits EXCEPT ![n][s] = Counted(n, s)]
    /\ inbox' = IF ~ok THEN inbox ELSE
                    [inbox EXCEPT ![n] = Append(@, [message |-> b, from |-> s, at |-> clock])]
    /\ Answer(b, n, ok) \/ UNCHANGED broadcasts
    /\ UNCHANGED <<known, since>>

\* Mutant: without the signal a post fails only when it cannot be sent.
GiveUpAtOnce(b, n) ==
    /\ n \in broadcasts[b].waiting
    /\ clock = broadcasts[b].at
    /\ Answer(b, n, FALSE)
    /\ UNCHANGED <<known, rateLimits, inbox, since>>

\* The post, or its answer, takes more than eight seconds or fails.
GiveUp(b, n) ==
    /\ n \in broadcasts[b].waiting
    /\ Answer(b, n, FALSE)
    /\ UNCHANGED <<known, rateLimits, inbox, since>>

\* A sync pins the signer of a peer, or the administrator removes the peer.
Learn(n) ==
    /\ \E s \in Members \ {n} :
           known' = [known EXCEPT ![n] = IF s \in @ THEN @ \ {s} ELSE @ \cup {s}]
    /\ UNCHANGED <<rateLimits, inbox, since, broadcasts>>

\* The process of a node starts again: its counts and its posts are gone.
MemberRestart(n) ==
    /\ rateLimits' = [rateLimits EXCEPT ![n] = NoTimes]
    /\ since' = [since EXCEPT ![n] = Len(inbox[n])]
    /\ broadcasts' = [b \in DOMAIN broadcasts |->
                         IF broadcasts[b].by = n THEN [broadcasts[b] EXCEPT !.waiting = {}]
                         ELSE broadcasts[b]]
    /\ UNCHANGED <<known, inbox>>

MessagesTick == Advance /\ UNCHANGED <<known, rateLimits, inbox, since, broadcasts>>

GiveUpStep == UNCHANGED clock /\ \E b \in DOMAIN broadcasts, n \in Members : GiveUp(b, n)

MessagesNext ==
    \/ /\ \/ \E n \in Members : Broadcast(n) \/ Learn(n) \/ MemberRestart(n)
          \/ \E b \in DOMAIN broadcasts, n \in Members : Receive(b, n)
       /\ UNCHANGED clock
    \/ GiveUpStep
    \/ MessagesTick

\* The timeout of a post fires.
MessagesFairness == WF_messageVars(GiveUpStep)

MessagesSpec == MessagesInit /\ [][MessagesNext]_messageVars /\ MessagesFairness

-----------------------------------------------------------------------------
\* From one start of a node to the next, no hour, wherever it begins, has more rows
\* of one signer than the limit, whatever is posted late, again, or refused as stale
\* in between.
HourlyLimit ==
    \A n \in Members, s \in Members, t \in 1..MaxClock :
        Cardinality({i \in (since[n] + 1)..Len(inbox[n]) :
                        /\ inbox[n][i].from = s
                        /\ inbox[n][i].at \in t..(t + RateLimitWindow - 1)}) <= RateLimitMax

\* The dashboard counts a post as sent only if the peer has stored the message; one
\* it counts as failed may have been stored too.
SentWereStored ==
    \A b \in DOMAIN broadcasts : \A n \in broadcasts[b].sent :
        \E i \in DOMAIN inbox[n] : inbox[n][i].message = b

\* sendMessage is always answered, also when several are sent at once: no peer can
\* keep one waiting.
BroadcastEnds ==
    (\E b \in DOMAIN broadcasts : broadcasts[b].waiting # {})
        ~> \A b \in DOMAIN broadcasts : broadcasts[b].waiting = {}
=============================================================================
