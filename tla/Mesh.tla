--------------------------------- MODULE Mesh ---------------------------------
(***************************************************************************)
(* What the nodes of a mesh say to each other: the pull of records and the *)
(* messages.  The messages of all nodes need of a sync only that it pins   *)
(* and unpins signers, which Messages lets happen at any time, so that the *)
(* two share no state: a behaviour follows one while the other rests, and  *)
(* what is explored is the sum of their states, not the product.           *)
(***************************************************************************)
EXTENDS MeshSync, Messages

VARIABLE followed

meshVars == <<followed, vars, messageVars>>

MeshInit ==
    /\ followed \in {"records", "messages"}
    /\ Init /\ (followed # "records" => keyOf = CHOOSE k \in [Peers -> Signers] :
                                                    \A p \in Peers : k[p] \in Keys[p])
    /\ MessagesInit /\ (followed # "messages" => \A n \in Members : known[n] = {})

MeshNext ==
    /\ UNCHANGED followed
    /\ \/ followed = "records" /\ Next /\ UNCHANGED messageVars
       \/ followed = "messages" /\ MessagesNext /\ UNCHANGED vars

\* Every fetch and every post ends.
MeshSpec == MeshInit /\ [][MeshNext]_meshVars /\ Fairness /\ MessagesFairness
=============================================================================
