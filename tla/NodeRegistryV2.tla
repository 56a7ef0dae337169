---------------------------- MODULE NodeRegistryV2 ----------------------------
(***************************************************************************)
(* contracts/NodeRegistryV2.sol: the registry of gateway signers and their *)
(* node type.  The signature covers the URL only, so whoever holds a       *)
(* signature of a node may register it under any type; the URL itself and  *)
(* the registration time decide nothing here and are left out.             *)
(***************************************************************************)
EXTENDS Naturals, Sequences, SequencesExt

CONSTANT Nodes          \* the gateway signers

NodeType == {"Origin", "Router", "Hybrid"}

VARIABLES
    nodeType,   \* nodeType[n], "None" while registeredAt is 0
    signers     \* _signers, in order of first registration

registryVars == <<nodeType, signers>>

RegistryInit ==
    /\ nodeType = [n \in Nodes |-> "None"]
    /\ signers = <<>>

RegistryTypeOK ==
    /\ nodeType \in [Nodes -> NodeType \cup {"None"}]
    /\ signers \in Seq(Nodes)

\* Mutant: every registration pushes the signer.
RegisterPushesAlways(n, type) ==
    /\ nodeType' = [nodeType EXCEPT ![n] = type]
    /\ signers' = Append(signers, n)

Register(n, type) ==
    /\ nodeType' = [nodeType EXCEPT ![n] = type]
    /\ signers' = IF nodeType[n] = "None" THEN Append(signers, n) ELSE signers

\* require(registered); Router || Hybrid: the check submitCommit makes.
MayCommit(n) == nodeType[n] \in {"Router", "Hybrid"}

\* Mutant: the end of the page taken as its last offset.
GetNodesShort(offset, limit) ==
    SubSeq(signers, offset + 1,
           IF offset + limit >= Len(signers) THEN Len(signers) ELSE offset + limit - 1)

\* getNodes(offset, limit): one page of the list.
GetNodes(offset, limit) ==
    SubSeq(signers, offset + 1,
           IF offset + limit > Len(signers) THEN Len(signers) ELSE offset + limit)

\* Every registered signer is listed exactly once, however often it
\* re-registers: the page walk of a client that follows nodeCount() sees it once.
SignersListedOnce ==
    /\ IsInjective(signers)
    /\ ToSet(signers) = {n \in Nodes : nodeType[n] # "None"}

\* Page p, from 0, of the list read in pages of limit.
Page(p, limit) == GetNodes(p * limit, limit)

\* Reading the list in pages of any size gives the whole list and nothing else: a
\* page holds at most limit signers, each the one of its own position, and every
\* position is on some page, so no signer is skipped or repeated at a boundary.
PagesCoverList ==
    \A limit \in 1..Len(signers) + 1 :
        /\ \A p \in 0..Len(signers) :
               /\ Len(Page(p, limit)) <= limit
               /\ \A j \in 1..Len(Page(p, limit)) :
                      /\ p * limit + j \in 1..Len(signers)
                      /\ Page(p, limit)[j] = signers[p * limit + j]
        /\ \A i \in 1..Len(signers) : \E p \in 0..Len(signers) :
               \E j \in 1..Len(Page(p, limit)) : p * limit + j = i
=============================================================================
