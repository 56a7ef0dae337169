--------------------------------- MODULE Node ---------------------------------
(***************************************************************************)
(* The components of one node, but for its part in the mesh.  They share   *)
(* the clock of the process and no other state that is modelled, so their  *)
(* steps commute and each property is about one of them: a behaviour       *)
(* follows the one in focus while the others rest, and what is explored is *)
(* the sum of their states, not the product.                               *)
(***************************************************************************)
EXTENDS RecordStore, Migrations, SnapshotFreeze, AdminAccess, TseiProfileA, JoinRequests,
        Anchoring

CONSTANT Focuses    \* the components that are followed

VARIABLE focus

\* The variables of each component without the clock.
stores == <<vars, migrationVars>>

freezes == <<settled, stored, pinned, repins, hasKey, snapshots, freezing, replies>>

access == <<configVars, nonces, drawn, sessions, attempts, accepted, claimants>>

gateway == <<enabled, attemptTimes, admitted, observed, posts>>

nodeVars ==
    <<focus, clock, stores, freezes, access, gateway, joinVars, anchorVars>>

\* The components at rest are in one of their initial states.
NodeInit ==
    /\ focus \in Focuses
    /\ Init /\ (focus # "records" => records = {})
    /\ MigrationsInit /\ (focus # "migrations" => applied = 0)
    /\ SnapshotInit /\ (focus # "snapshot" => ~hasKey /\ \A s \in Origins : pinned[s] = NoAddress)
    /\ AdminInit /\ (focus # "admin" => env = CHOOSE e \in Environments : TRUE)
    /\ TseiInit /\ (focus # "tsei" => ~enabled)
    /\ JoinInit /\ AnchorInit

\* A component whose steps leave the others alone.
Followed(component, others) == focus = component /\ UNCHANGED <<focus, others>>

NodeNext ==
    \/ Followed("records", <<clock, migrationVars, freezes, access, gateway, joinVars, anchorVars>>) /\ Next
    \/ Followed("migrations", <<clock, vars, freezes, access, gateway, joinVars, anchorVars>>) /\ MigrationsNext
    \/ Followed("snapshot", <<stores, access, gateway, joinVars, anchorVars>>) /\ SnapshotNext
    \/ Followed("admin", <<stores, freezes, gateway, joinVars, anchorVars>>) /\ AdminNext
    \/ Followed("tsei", <<stores, freezes, access, joinVars, anchorVars>>) /\ TseiNext
    \/ Followed("join", <<clock, stores, freezes, access, gateway, anchorVars>>) /\ JoinNext
    \/ Followed("anchor", <<clock, stores, freezes, access, gateway, joinVars>>) /\ AnchorNext

\* The restart that a save schedules happens.
NodeSpec == NodeInit /\ [][NodeNext]_nodeVars /\ AdminFairness
=============================================================================
