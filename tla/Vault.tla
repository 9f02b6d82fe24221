--------------------------------- MODULE Vault ---------------------------------
(***************************************************************************)
(* What the application lock promises of the local data, without keys,     *)
(* files or timing (clients/core/src/crypto_store/app_lock.ts).            *)
(*                                                                         *)
(* phase is what the rest of the application sees: "off" (no lock, data in *)
(* plain), "shut", "open" and "gone" (wiped).  doors are the durable ways  *)
(* to the master key, proof says that a code or a finger has been accepted *)
(* and the lock is on its way to opening, and plain that unprotected rows  *)
(* are on the disk.                                                        *)
(***************************************************************************)
VARIABLES phase, doors, proof, plain

vaultVars == <<phase, doors, proof, plain>>

VaultTypeOK ==
    /\ phase \in {"off", "shut", "open", "gone"}
    /\ doors \in SUBSET {"code", "bio"}
    /\ proof \in BOOLEAN /\ plain \in BOOLEAN

VaultInit == phase = "off" /\ doors = {} /\ proof = FALSE /\ plain \in BOOLEAN

-----------------------------------------------------------------------------

\* Only an application without a lock writes plain rows.
Keep ==
    /\ phase = "off" /\ plain' = TRUE
    /\ UNCHANGED <<phase, doors, proof>>

\* The door closes before there is a key to it; the person who sets the code
\* has proved that he knows it.
Protect ==
    /\ phase = "off" /\ phase' = "shut"
    /\ UNCHANGED <<doors, proof, plain>>
Install ==
    /\ phase = "shut" /\ doors = {} /\ doors' = {"code"} /\ proof' = TRUE
    /\ UNCHANGED <<phase, plain>>
GiveUp ==
    /\ phase = "shut" /\ doors = {} /\ phase' = "off"
    /\ UNCHANGED <<doors, proof, plain>>

Prove ==
    /\ phase = "shut" /\ doors # {} /\ proof' = TRUE
    /\ UNCHANGED <<phase, doors, plain>>
Conclude ==
    /\ proof' = FALSE /\ UNCHANGED <<phase, doors, plain>>

\* Rows are sealed under the key of a proof, and nothing opens before they are.
Seal ==
    /\ proof /\ plain' = FALSE /\ UNCHANGED <<phase, doors, proof>>
Open ==
    /\ phase = "shut" /\ proof /\ doors # {} /\ ~plain /\ phase' = "open"
    /\ proof' \in BOOLEAN /\ UNCHANGED <<doors, plain>>
Shut ==
    /\ phase = "open" /\ phase' = "shut" /\ proof' = FALSE
    /\ UNCHANGED <<doors, plain>>

\* The second door can only be added from inside, and is used up on its own.
AddDoor ==
    /\ phase = "open" /\ doors = {"code"} /\ doors' = {"code", "bio"}
    /\ UNCHANGED <<phase, proof, plain>>
DropDoor ==
    /\ "code" \in doors /\ doors' = {"code"} /\ proof' \in {FALSE, proof}
    /\ UNCHANGED <<phase, plain>>

\* Erasure takes every door at once, and only a reset leads out of it.
Erase ==
    /\ phase \in {"shut", "open"} /\ doors # {}
    /\ phase' = "gone" /\ doors' = {} /\ proof' = FALSE
    /\ UNCHANGED plain
Reset ==
    /\ phase = "gone" /\ phase' = "off" /\ plain' \in {FALSE, plain}
    /\ UNCHANGED <<doors, proof>>
Clean ==
    /\ doors = {} /\ plain' = FALSE
    /\ UNCHANGED <<phase, doors, proof>>

VaultNext ==
    \/ Keep \/ Protect \/ Install \/ GiveUp \/ Prove \/ Conclude \/ Seal \/ Open \/ Shut
    \/ AddDoor \/ DropDoor \/ Erase \/ Reset \/ Clean

VaultSpec == VaultInit /\ [][VaultNext]_vaultVars

-----------------------------------------------------------------------------

(* What the promises come to: an open vault has no plain row and still has  *)
(* the door of the code, the second door is never left without the first,   *)
(* a proof belongs to a vault with a door, and nothing leads to the key of  *)
(* an erased or absent vault.                                               *)
Guarded ==
    /\ phase = "open" => "code" \in doors /\ ~plain
    /\ "bio" \in doors => "code" \in doors
    /\ proof => phase \in {"shut", "open"} /\ doors # {}
    /\ phase \in {"off", "gone"} => doors = {}

(* An erased key does not come back: whoever has lost every door finds the  *)
(* vault off before it is open again.                                       *)
NoReturn == (phase = "gone" => phase' \in {"gone", "off"})
            /\ (phase = "open" => phase' # "off")
StaysErased == [][NoReturn]_vaultVars
================================================================================
