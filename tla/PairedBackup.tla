---------------------------- MODULE PairedBackup ----------------------------
(***************************************************************************)
(* The paired backup of database and Git storage around the provisioning of *)
(* a repository: the tool (src/server/src/scripts/operations-backup.ts,     *)
(* infrastructure/operations/backup.ts, quiescence.ts), the pilot operator  *)
(* that stops the services for it (src/deploy/pilot/pilot.py), and what is  *)
(* verified of the pair before it is used (restore-verifier.ts).            *)
(*                                                                         *)
(* The database is dumped in one snapshot; the disk is archived after it    *)
(* and counted before it; the manifest counts the rows of the database as   *)
(* they are in the end.  The tool does not look whether anybody works: that *)
(* the services are stopped is the operator's procedure.  Paths, names of   *)
(* databases, checksums of files and the rows of other tables are left out. *)
(***************************************************************************)
EXTENDS RepositoryProvisioning, FiniteSets

CONSTANT MaxBackups   \* bound on the backups that are begun
ASSUME BackupAssumption == MaxBackups \in Nat

VARIABLES
    followed,  \* does the operator stop the services for this backup?
    up,        \* do the services run?
    begun,     \* backups begun
    phase,     \* how far the tool is
    dump,      \* database.dump: the rows
    archive,   \* git-storage.tar: the directories
    counted    \* the manifest's counts: of the disk, then of the rows

backupVars == <<followed, up, begun, phase, dump, archive, counted>>
pairVars == <<vars, backupVars>>

Rows == [status |-> status, attempt |-> attempt, maxAttempt |-> maxAttempt, owner |-> owner,
         expired |-> expired, keyed |-> keyed, storage |-> storage, provisioned |-> provisioned]
Disk == [staging |-> staging, final |-> final, quarantined |-> quarantined]

(* inspectGitStorageTree: how many directories carry the marker, and how many
   are in quarantine. *)
StorageInventory(d) ==
    [markers |-> Cardinality({x \in {"staging", "final"} : Marked(d[x])})
                 + Cardinality({x \in d.quarantined : Marked(x)}),
     quarantine |-> Cardinality(d.quarantined)]

Nothing == <<>>

PairInit ==
    /\ Init
    /\ followed \in BOOLEAN /\ up = TRUE /\ begun = 0 /\ phase = "none"
    /\ dump = Nothing /\ archive = Nothing /\ counted = Nothing

-----------------------------------------------------------------------------
(* The services.  A worker that is told to stop finishes its job first; a     *)
(* dead one has nothing to finish.                                           *)

Stop ==
    /\ followed /\ up /\ phase \in {"none", "failed"} /\ begun < MaxBackups
    /\ \A w \in Workers : pc[w] \in {"idle", "dead"}
    /\ up' = FALSE /\ phase' = "none"
    /\ UNCHANGED <<vars, followed, begun, dump, archive, counted>>

Start ==
    /\ ~up /\ phase \in {"done", "failed"}
    /\ up' = TRUE
    /\ UNCHANGED <<vars, followed, begun, phase, dump, archive, counted>>

-----------------------------------------------------------------------------
(* The tool.                                                                *)

(* assessQuiescence.
   Mutant: only directories are looked at. *)
QuiescentFilesOnly == staging = "absent"
Quiescent == status # "RUNNING" /\ storage # "PROVISIONING" /\ staging = "absent"

(* The plan and the inventory, or a refusal. *)
Plan ==
    /\ phase \in {"none", "failed"} /\ begun < MaxBackups
    /\ up = ~followed
    /\ begun' = begun + 1
    /\ phase' = IF Quiescent THEN "planned" ELSE "failed"
    /\ counted' = IF Quiescent THEN [disk |-> StorageInventory(Disk), storage |-> "PENDING"]
                  ELSE Nothing
    /\ UNCHANGED <<vars, followed, up, dump, archive>>

Dump ==
    /\ phase = "planned"
    /\ dump' = Rows
    /\ phase' = "dumped"
    /\ UNCHANGED <<vars, followed, up, begun, archive, counted>>

Archive ==
    /\ phase = "dumped"
    /\ archive' = Disk
    /\ phase' = "archived"
    /\ UNCHANGED <<vars, followed, up, begun, dump, counted>>

(* buildManifest: the rows as they are by now. *)
BuildManifest ==
    /\ phase = "archived"
    /\ counted' = [disk |-> counted.disk, storage |-> storage]
    /\ phase' = "listed"
    /\ UNCHANGED <<vars, followed, up, begun, dump, archive>>

(* The checksum comes last: a directory without it is no backup. *)
Seal ==
    /\ phase = "listed"
    /\ phase' = "done"
    /\ UNCHANGED <<vars, followed, up, begun, dump, archive, counted>>

(* A command fails and the directory is removed, or the tool is killed. *)
Abandon ==
    /\ phase \in {"planned", "dumped", "archived", "listed"}
    /\ phase' = "failed"
    /\ dump' = Nothing /\ archive' = Nothing /\ counted' = Nothing
    /\ UNCHANGED <<vars, followed, up, begun>>

Tool == Plan \/ Dump \/ Archive \/ BuildManifest \/ Seal

-----------------------------------------------------------------------------
(* While the services are down, only time passes. *)
Serve(w) == up /\ WorkerStep(w) /\ UNCHANGED backupVars
Others ==
    /\ \/ up /\ \E w \in Workers : WorkerDies(w)
       \/ LeaseExpires
       \/ up /\ AdminRetry
       \/ up /\ Push
    /\ UNCHANGED backupVars

PairNext ==
    \/ \E w \in Workers : Serve(w)
    \/ Others
    \/ Stop \/ Start \/ Tool \/ Abandon

PairSpec == PairInit /\ [][PairNext]_pairVars

(* An operator who has stopped the services goes on and starts them again. *)
FairPairSpec ==
    /\ PairSpec
    /\ WF_pairVars(LeaseExpires /\ UNCHANGED backupVars)
    /\ \A w \in Workers : WF_pairVars(Serve(w))
    /\ WF_pairVars(~up /\ (Tool \/ Start))

-----------------------------------------------------------------------------
(* verifyRepositoryCorrespondence, of the pair restored elsewhere: a READY
   repository is where its row says, and there is no other. *)
Corresponds(rows, disk) == rows.storage = "READY" <=> Marked(disk.final)

(* buildRestoreEvidence: the counts of the manifest are found again. *)
PassesVerification ==
    /\ counted.disk = StorageInventory(archive)
    /\ counted.storage = dump.storage
    /\ Corresponds(dump, archive)

PairTypes ==
    /\ followed \in BOOLEAN /\ up \in BOOLEAN /\ begun \in 0..MaxBackups
    /\ phase \in {"none", "planned", "dumped", "archived", "listed", "done", "failed"}

(* The system as it would be after a restore of the pair. *)
Restored == INSTANCE RepositoryProvisioning WITH
    status <- dump.status, attempt <- dump.attempt, maxAttempt <- dump.maxAttempt,
    owner <- dump.owner, expired <- dump.expired, keyed <- dump.keyed,
    storage <- dump.storage, provisioned <- dump.provisioned,
    staging <- archive.staging, final <- archive.final, quarantined <- archive.quarantined

(* A pushed repository whose row is not READY would be provisioned again, found
   not to be empty, and moved to quarantine. *)
PushedIsServed == archive.final = "pushed" => dump.storage = "READY"

(* A completed backup is one recovery point, if the services were stopped for it
   or if it passes verification: its rows are true of its disk and what students
   pushed would be served.  A job is RUNNING in no backup of stopped services. *)
BackupSound ==
    phase = "done" =>
        /\ followed \/ PassesVerification => Restored!RowsTrue /\ PushedIsServed
        /\ followed => dump.status # "RUNNING" /\ archive.staging = "absent"
=============================================================================
