------------------------------ MODULE BondVault ------------------------------
(***************************************************************************)
(* What a contract that holds bonds promises, whatever its windows, hashes *)
(* and callers: a bond is posted once, leaves the vault once, and leaves   *)
(* it either slashed before its owner revealed or claimed after; the vault *)
(* holds a full bond for each one that has not left.                       *)
(***************************************************************************)
EXTENDS Integers

CONSTANTS
    Bonds,  \* the bonds that may be posted
    Price   \* what each of them is worth

VARIABLES
    phase,  \* the life of each bond
    vault   \* what the contract holds

Phases == {"none", "posted", "revealed", "slashed", "claimed"}

VaultInit ==
    /\ phase = [b \in Bonds |-> "none"]
    /\ vault = 0

Move(b, from, to, change) ==
    /\ phase[b] = from
    /\ phase' = [phase EXCEPT ![b] = to]
    /\ vault' = vault + change

VaultNext ==
    \E b \in Bonds :
        \/ Move(b, "none", "posted", Price)
        \/ Move(b, "posted", "revealed", 0)
        \/ Move(b, "posted", "slashed", 0 - Price)
        \/ Move(b, "revealed", "claimed", 0 - Price)

VaultSpec == VaultInit /\ [][VaultNext]_<<phase, vault>>
=============================================================================
