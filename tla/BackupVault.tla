---------------------------- MODULE BackupVault ----------------------------
(***************************************************************************)
(* The backup vault of the data guard and the database syscalls on it.     *)
(*                                                                         *)
(* A backup is a directory: a copy of a workspace file, taken portion by   *)
(* portion, a restore plan and a manifest that is written last, with the   *)
(* checksum of the copy.  The file copied is not locked, so a copy may mix *)
(* the states it went through meanwhile.  A plan is handed out in three    *)
(* steps, between which others may go on: the manifest is found and        *)
(* loaded, the copy is hashed as it then is, and the plan returned.        *)
(*                                                                         *)
(* To find a backup the manifests of all are parsed, in the order the      *)
(* directory lists them: one that is half written, by a process at work or *)
(* by one that died, may end the search with an error.  That search hands  *)
(* out nothing, and is a step that changes nothing.  Migration and restore *)
(* are disabled in the code: a plan is all that comes of a backup.         *)
(***************************************************************************)
EXTENDS Integers

CONSTANTS
  Backups,       \* identifiers; each is drawn afresh
  Versions,      \* what the source may hold
  Portions,      \* the portions in which a file is copied
  Hole,          \* a portion a file does not hold
  Readers,       \* processes that ask for plans
  NoReading,     \* a reader at rest
  MaxSaves,      \* bound on the times the source is rewritten
  MaxDamage,     \* bound on the times a copy is changed afterwards
  MaxVaultDeaths \* bound on the processes that die

ASSUME VaultAssumptions ==
  /\ Versions # {} /\ Hole \notin Versions
  /\ Portions # {}
  /\ MaxSaves \in Nat
  /\ MaxDamage \in Nat
  /\ MaxVaultDeaths \in Nat

VARIABLES
  source,  \* what the file holds, in all its portions
  backup,  \* backup[b]: its directory and how far its creation has come
  reading, \* what each reader has of the backup it asked for
  plans,   \* the shadow and restore plans handed out
  strain   \* what has happened, for the properties only

vaultVars == <<source, backup, reading, plans, strain>>

\* What a copy may hold, portion by portion.
CopiedFiles == [Portions -> Versions \union {Hole}]

EmptyFile == [portion \in Portions |-> Hole]

AllThere(file) == \A portion \in Portions : file[portion] # Hole

OneState(file) == \E version \in Versions : \A portion \in Portions : file[portion] \in {Hole, version}

\* sum is the content that the checksum of the manifest was computed of.
NoBackup == [stage |-> "absent", alive |-> FALSE, copy |-> EmptyFile, sum |-> EmptyFile]

\* The manifest is half written at "manifest", and there from "sealing" on.
VaultStages == {"absent", "copying", "copied", "summed", "manifest", "sealing", "done"}

\* read is what was read of the source for each copy; in early are the copies
\* changed before their checksum was taken, in mixed those under way when the
\* source was saved.
VaultInit ==
  /\ source \in Versions
  /\ backup = [b \in Backups |-> NoBackup]
  /\ reading = [d \in Readers |-> NoReading]
  /\ plans = {}
  /\ strain = [saves |-> 0, damage |-> 0, deaths |-> 0, read |-> [b \in Backups |-> EmptyFile],
               early |-> {}, mixed |-> {}]

-----------------------------------------------------------------------------
(* Creating a backup. *)

\* A new directory; the copy begins.
StartCopy(b) ==
  /\ backup[b].stage = "absent"
  /\ backup' = [backup EXCEPT ![b].stage = "copying", ![b].alive = TRUE]
  /\ UNCHANGED <<source, reading, plans, strain>>

CopyPortion(b, portion) ==
  /\ backup[b].stage = "copying" /\ backup[b].alive
  /\ backup[b].copy[portion] = Hole
  /\ backup' = [backup EXCEPT ![b].copy[portion] = source]
  /\ strain' = [strain EXCEPT !.read[b][portion] = source]
  /\ UNCHANGED <<source, reading, plans>>

EndCopy(b) ==
  /\ backup[b].stage = "copying" /\ backup[b].alive
  /\ AllThere(backup[b].copy)
  /\ backup' = [backup EXCEPT ![b].stage = "copied"]
  /\ UNCHANGED <<source, reading, plans, strain>>

\* The checksum is that of the copy; the restore plan is written.
Checksum(b) ==
  /\ backup[b].stage = "copied" /\ backup[b].alive
  /\ backup' = [backup EXCEPT ![b].stage = "summed", ![b].sum = backup[b].copy]
  /\ UNCHANGED <<source, reading, plans, strain>>

OpenManifest(b) ==
  /\ backup[b].stage = "summed" /\ backup[b].alive
  /\ backup' = [backup EXCEPT ![b].stage = "manifest"]
  /\ UNCHANGED <<source, reading, plans, strain>>

WriteManifest(b) ==
  /\ backup[b].stage = "manifest" /\ backup[b].alive
  /\ backup' = [backup EXCEPT ![b].stage = "sealing"]
  /\ UNCHANGED <<source, reading, plans, strain>>

\* The files are made read-only and the manifest is returned.
Seal(b) ==
  /\ backup[b].stage = "sealing" /\ backup[b].alive
  /\ backup' = [backup EXCEPT ![b].stage = "done", ![b].alive = FALSE]
  /\ UNCHANGED <<source, reading, plans, strain>>

\* What was copied and written by then stays.
VaultDeath(b) ==
  /\ backup[b].alive
  /\ strain.deaths < MaxVaultDeaths
  /\ backup' = [backup EXCEPT ![b].alive = FALSE]
  /\ strain' = [strain EXCEPT !.deaths = @ + 1]
  /\ UNCHANGED <<source, reading, plans>>

-----------------------------------------------------------------------------
(* What happens around the vault. *)

\* The file is saved again; a copy under way reads the rest from what is new.
SaveSource(version) ==
  /\ version # source
  /\ strain.saves < MaxSaves
  /\ source' = version
  /\ strain' = [strain EXCEPT !.saves = @ + 1,
                              !.mixed = @ \union {b \in Backups : /\ backup[b].stage = "copying"
                                                                  /\ backup[b].alive}]
  /\ UNCHANGED <<backup, reading, plans>>

\* Somebody changes, shortens or removes a copy that is not being written.
Damage(b, file) ==
  /\ backup[b].stage # "absent"
  /\ ~(backup[b].stage = "copying" /\ backup[b].alive)
  /\ file # backup[b].copy
  /\ strain.damage < MaxDamage
  /\ backup' = [backup EXCEPT ![b].copy = file]
  /\ strain' = [strain EXCEPT !.damage = @ + 1,
                              !.early = IF backup[b].stage \in {"copying", "copied"}
                                        THEN @ \union {b} ELSE @]
  /\ UNCHANGED <<source, reading, plans>>

-----------------------------------------------------------------------------
(* Reading the vault: database.restore_shadow and restore_plan. *)

HasManifest(b) == backup[b].stage \in {"sealing", "done"}

\* The manifest of b is found, and its checksum loaded.
LookUp(d, b) ==
  /\ reading[d] = NoReading
  /\ HasManifest(b)
  /\ reading' = [reading EXCEPT ![d] = [backup |-> b, sum |-> backup[b].sum, file |-> EmptyFile,
                                        verified |-> FALSE]]
  /\ UNCHANGED <<source, backup, plans, strain>>

\* Mutant: the manifest is loaded and its own word for it taken, as load does.
MatchesByItsWord(sum, file) == TRUE

\* The checksum of the manifest is that of the file, all of which is there.
Matches(sum, file) == sum = file

\* The copy is hashed as it now is; what does not match is refused.
Hash(d) ==
  /\ reading[d] # NoReading /\ ~reading[d].verified
  /\ LET file == backup[reading[d].backup].copy
     IN  reading' = [reading EXCEPT ![d] = IF Matches(reading[d].sum, file)
                                           THEN [@ EXCEPT !.file = file, !.verified = TRUE]
                                           ELSE NoReading]
  /\ UNCHANGED <<source, backup, plans, strain>>

\* The plan is returned, whatever has become of the copy since.
HandOut(d) ==
  /\ reading[d] # NoReading /\ reading[d].verified
  /\ plans' = plans \union {[backup |-> reading[d].backup, file |-> reading[d].file]}
  /\ reading' = [reading EXCEPT ![d] = NoReading]
  /\ UNCHANGED <<source, backup, strain>>

VaultNext ==
  \/ \E b \in Backups : StartCopy(b) \/ EndCopy(b) \/ Checksum(b) \/ OpenManifest(b)
                          \/ WriteManifest(b) \/ Seal(b)
  \/ \E b \in Backups, portion \in Portions : CopyPortion(b, portion)
  \/ \E b \in Backups : VaultDeath(b)
  \/ \E version \in Versions : SaveSource(version)
  \/ \E b \in Backups, file \in CopiedFiles : Damage(b, file)
  \/ \E d \in Readers, b \in Backups : LookUp(d, b)
  \/ \E d \in Readers : Hash(d) \/ HandOut(d)

VaultSpec == VaultInit /\ [][VaultNext]_vaultVars

-----------------------------------------------------------------------------
(* Properties. *)

BackupRecords ==
  [stage : VaultStages, alive : BOOLEAN, copy : CopiedFiles, sum : CopiedFiles]

Readings == [backup : Backups, sum : CopiedFiles, file : CopiedFiles, verified : BOOLEAN]

Strains ==
  [saves : 0..MaxSaves, damage : 0..MaxDamage, deaths : 0..MaxVaultDeaths,
   read : [Backups -> CopiedFiles], early : SUBSET Backups, mixed : SUBSET Backups]

VaultTypeOK ==
  /\ source \in Versions
  /\ backup \in [Backups -> BackupRecords]
  /\ reading \in [Readers -> Readings \union {NoReading}]
  /\ plans \subseteq [backup : Backups, file : CopiedFiles]
  /\ strain \in Strains

\* The copy a plan was verified on held, when it was hashed, every portion as
\* it was read from the source, and unless the source was saved meanwhile one
\* state of it: no death between the writes, and no change to the copy before,
\* between or after the steps of verifying, gets anything less a plan.  What is
\* changed after the last portion and before the checksum is beyond the code,
\* which hashes the copy and not the source, and so is what is changed once the
\* copy was hashed.  (BackupVault.create and verify, shadow_plan, restore_plan.)
PlansRestOnWhole ==
  \A p \in plans :
    p.backup \notin strain.early =>
      /\ p.file = strain.read[p.backup] /\ AllThere(p.file)
      /\ p.backup \notin strain.mixed => OneState(p.file)
=============================================================================
