--------------------------- MODULE AzureBlobLease ---------------------------
(***************************************************************************)
(* The lock blob in Azure Blob Storage, an external service, as            *)
(* runtime/blob-lease-store.mjs uses it: its lease and its content.  A     *)
(* lease id is a fresh UUID of one operation, so the operation stands for  *)
(* it.  A lease that has expired still remembers its last holder, who may  *)
(* renew or release it until somebody else acquires the blob; a write with *)
(* a lease id needs the lease to be live.                                  *)
(***************************************************************************)
EXTENDS Naturals

CONSTANTS
  Operations,   \* calls of runWithTenantLock
  Nobody,       \* no lease
  Duration      \* leaseDurationSeconds

VARIABLES
  holder,  \* the lease id of the blob, or Nobody
  until,   \* when that lease expires
  record,  \* whose record the blob holds, Nobody for a released one
  clock

blobVars == <<holder, until, record>>

BlobInit == holder = Nobody /\ until = 0 /\ record = Nobody /\ clock = 0

HasLease(o) == holder = o /\ clock < until

AcquireLease(o) ==
  /\ holder = Nobody \/ until <= clock
  /\ holder' = o /\ until' = clock + Duration
  /\ UNCHANGED record

RenewLease(o) ==
  /\ holder = o
  /\ until' = clock + Duration
  /\ UNCHANGED <<holder, record>>

ReleaseLease(o) ==
  /\ holder = o
  /\ holder' = Nobody
  /\ UNCHANGED <<until, record>>

\* A slip: the write does not carry the lease id.
WriteUnprotected(o, owner) ==
  /\ record' = owner
  /\ UNCHANGED <<holder, until>>

\* PUT of the record with x-ms-lease-id.
WriteRecord(o, owner) ==
  /\ HasLease(o)
  /\ record' = owner
  /\ UNCHANGED <<holder, until>>
=============================================================================
