---------------------------- MODULE StorageQuota ----------------------------
(***************************************************************************)
(* Object storage and its per-user quota (internal/userstorage and         *)
(* internal/api/oss_materialize.go).  Three calls put objects and charge   *)
(* them to a user: reference images of a request, references of a template *)
(* (both inside an HTTP request), and the outputs of a finished generation *)
(* (inside runJob).  Objects live in a bucket, charges in MySQL, and       *)
(* nothing but the order of the calls ties the two together.               *)
(***************************************************************************)
EXTENDS Integers, FiniteSets

CONSTANTS
  Users,
  Uploads,      \* upload calls, each made at most once
  MaxSlots,     \* images in one call
  ImageBytes,   \* size of an image and of a thumbnail
  ThumbBytes,
  InitQuota,    \* users.storage_quota_bytes DEFAULT
  MaxInt,       \* largest int64
  Quotas,       \* values an administrator sets, int64
  Deltas,       \* values an administrator adds, int64
  NoUpload,     \* holder of a lock that is free
  MaxFaults     \* bound on failed calls (database or bucket) and process restarts

ASSUME ConstantsOK ==
  /\ IsFiniteSet(Uploads)
  /\ MaxSlots \in Nat \ {0}
  /\ ImageBytes \in Nat /\ ThumbBytes \in Nat
  /\ MaxInt \in Nat /\ InitQuota \in 0..MaxInt
  /\ Quotas \cup Deltas \subseteq -(MaxInt + 1)..MaxInt
  /\ NoUpload \notin Uploads
  /\ MaxFaults \in Nat

VARIABLES
  used, quota,  \* the two columns of users
  lock,         \* who holds the row lock on a user (SELECT ... FOR UPDATE)
  ledger,       \* user_storage_objects, by object key
  objects,      \* keys in the bucket
  call,         \* progress and locals of each upload call
  faults

vars == <<used, quota, lock, ledger, objects, call, faults>>

\* References of a request and of a template are uploaded in the same way.
Kinds == {"reference", "output"}
Key == [upload : Uploads, slot : 1..MaxSlots, part : {"image", "thumb"}]
Image(r, i) == [upload |-> r, slot |-> i, part |-> "image"]
Thumb(r, i) == [upload |-> r, slot |-> i, part |-> "thumb"]

InProgress == {"check", "put", "append", "charge", "undo"}

Call == [pc      : {"idle", "done", "failed", "dead"} \cup InProgress,
         user    : Users,
         kind    : Kinds,
         n       : 1..MaxSlots,      \* images to upload
         slot    : 1..MaxSlots + 1,  \* the next one
         keys    : SUBSET Key,       \* what a failure deletes
         rows    : SUBSET Key,       \* what is charged at the end
         room    : Int,              \* quota - used as read under the lock
         outcome : {"none", "charged", "quota", "error", "unknown"},
         live    : BOOLEAN]          \* the request context is not cancelled

TypeOK ==
  /\ used \in [Users -> Nat]
  /\ quota \in [Users -> 0..MaxInt]
  /\ lock \in [Users -> Uploads \cup {NoUpload}]
  /\ ledger \in SUBSET Key
  /\ objects \in SUBSET Key
  /\ call \in [Uploads -> Call]
  /\ faults \in 0..MaxFaults

Init ==
  /\ used = [u \in Users |-> 0]
  /\ quota = [u \in Users |-> InitQuota]
  /\ lock = [u \in Users |-> NoUpload]
  /\ ledger = {}
  /\ objects = {}
  /\ \E u \in Users :
       call = [r \in Uploads |->
                [pc |-> "idle", user |-> u, kind |-> "output", n |-> 1, slot |-> 1,
                 keys |-> {}, rows |-> {}, room |-> 0, outcome |-> "none", live |-> TRUE]]
  /\ faults = 0

Parts(rows, part) == {k \in rows : k.part = part}

\* Bytes of a set of objects.
Bytes(rows) ==
  ImageBytes * Cardinality(Parts(rows, "image")) + ThumbBytes * Cardinality(Parts(rows, "thumb"))

Owner(k) == call[k.upload].user

\* A call to MySQL or to the bucket fails, or the process restarts.
Fault == faults < MaxFaults /\ faults' = faults + 1

\* A call made under a cancelled context fails without being sent.
Fails(r) == IF call[r].live THEN Fault ELSE UNCHANGED faults

At(r, pc) == call[r].pc = pc
Goto(r, pc) == call' = [call EXCEPT ![r].pc = pc]
GiveUp(r) == call' = [call EXCEPT ![r].pc = "undo", ![r].outcome = "error", ![r].room = 0]
-----------------------------------------------------------------------------
(* One upload *)

\* Only calls whose size is known beforehand check the quota first.
Begin(r, u, kind, n) ==
  /\ At(r, "idle")
  /\ call' = [call EXCEPT ![r].pc = IF kind = "output" THEN "put" ELSE "check",
                          ![r].user = u, ![r].kind = kind, ![r].n = n]
  /\ UNCHANGED <<used, quota, lock, ledger, objects, faults>>

\* CheckQuota reads without a lock.
CheckQuota(r) ==
  /\ At(r, "check") /\ call[r].live
  /\ LET u == call[r].user IN
     IF used[u] + call[r].n * ImageBytes <= quota[u]
     THEN Goto(r, "put")
     ELSE call' = [call EXCEPT ![r].pc = "failed", ![r].outcome = "quota"]
  /\ UNCHANGED <<used, quota, lock, ledger, objects, faults>>

CheckQuotaFails(r) ==
  /\ At(r, "check")
  /\ Fails(r)
  /\ call' = [call EXCEPT ![r].pc = "failed", ![r].outcome = "error"]
  /\ UNCHANGED <<used, quota, lock, ledger, objects>>

Uploading(r) == At(r, "put") /\ call[r].slot <= call[r].n

\* Put and resolveObjectHTTPSURL succeed.  The thumbnail of an output may be
\* skipped, put and charged, or fail and be left uncharged.
PutImage(r) ==
  /\ Uploading(r) /\ call[r].live
  /\ LET image == Image(r, call[r].slot)
         thumb == Thumb(r, call[r].slot) IN
     \/ /\ objects' = objects \cup {image}
        /\ call' = [call EXCEPT ![r].keys = @ \cup {image}, ![r].rows = @ \cup {image},
                                ![r].slot = @ + 1]
        /\ UNCHANGED faults
     \/ /\ call[r].kind = "output"
        /\ objects' = objects \cup {image, thumb}
        /\ call' = [call EXCEPT ![r].keys = @ \cup {image, thumb},
                                ![r].rows = @ \cup {image, thumb}, ![r].slot = @ + 1]
        /\ UNCHANGED faults
     \/ /\ call[r].kind = "output"
        /\ Fault
        /\ objects' \in {objects \cup {image}, objects \cup {image, thumb}}
        /\ call' = [call EXCEPT ![r].keys = @ \cup {image, thumb},
                                ![r].rows = @ \cup {image}, ![r].slot = @ + 1]
  /\ UNCHANGED <<used, quota, lock, ledger>>

\* An output that cannot be fetched keeps its upstream URL.
SkipImage(r) ==
  /\ Uploading(r)
  /\ call[r].kind = "output"
  /\ call' = [call EXCEPT ![r].slot = @ + 1]
  /\ UNCHANGED <<used, quota, lock, ledger, objects, faults>>

\* An inline output that does not decode ends the call.
Undecodable(r) ==
  /\ Uploading(r)
  /\ call[r].kind = "output"
  /\ GiveUp(r)
  /\ UNCHANGED <<used, quota, lock, ledger, objects, faults>>

\* Put reports an error, having stored the object or not, or no URL can be made
\* for it.
PutFails(r) ==
  /\ Uploading(r)
  /\ Fails(r)
  /\ LET image == Image(r, call[r].slot) IN
     /\ objects' \in {objects} \cup (IF call[r].live THEN {objects \cup {image}} ELSE {})
     /\ call' = [call EXCEPT ![r].pc = "undo", ![r].outcome = "error",
                             ![r].keys = @ \cup {image}]
  /\ UNCHANGED <<used, quota, lock, ledger>>

\* `if db != nil && len(ledger) > 0`
Uploaded(r) ==
  /\ At(r, "put") /\ call[r].slot > call[r].n
  /\ call' = [call EXCEPT ![r].pc = IF call[r].rows = {} THEN "done" ELSE "append", ![r].slot = 1]
  /\ UNCHANGED <<used, quota, lock, ledger, objects, faults>>
-----------------------------------------------------------------------------
(* AppendLedgerAfterUpload *)

ReadRoom(r) ==
  call' = [call EXCEPT ![r].pc = "charge", ![r].room = quota[call[r].user] - used[call[r].user]]

\* Mutant: SELECT without FOR UPDATE.
LockUser_NoLock(r) ==
  /\ At(r, "append") /\ call[r].live
  /\ ReadRoom(r)
  /\ UNCHANGED <<used, quota, lock, ledger, objects, faults>>

\* SELECT ... FOR UPDATE
LockUser(r) ==
  /\ At(r, "append") /\ call[r].live
  /\ lock[call[r].user] = NoUpload
  /\ lock' = [lock EXCEPT ![call[r].user] = r]
  /\ ReadRoom(r)
  /\ UNCHANGED <<used, quota, ledger, objects, faults>>

LockUserFails(r) ==
  /\ At(r, "append")
  /\ Fails(r)
  /\ GiveUp(r)
  /\ UNCHANGED <<used, quota, lock, ledger, objects>>

Unlock(r) == lock' = [lock EXCEPT ![call[r].user] = NoUpload]

Fits(r) == Bytes(call[r].rows) <= call[r].room

\* Mutant: the thumbnails are entered in the ledger and not counted.
ApplyCharge_NoThumbs(r) ==
  /\ ledger' = ledger \cup call[r].rows
  /\ used' = [used EXCEPT ![call[r].user] = @ + Bytes(Parts(call[r].rows, "image"))]

\* The inserts and the bump of storage_used_bytes, committed.
ApplyCharge(r) ==
  /\ ledger' = ledger \cup call[r].rows
  /\ used' = [used EXCEPT ![call[r].user] = @ + Bytes(call[r].rows)]

\* Mutant: compensation runs after success too.
Charge_ThenUndo(r) ==
  /\ At(r, "charge") /\ call[r].live
  /\ Fits(r)
  /\ ApplyCharge(r)
  /\ Unlock(r)
  /\ call' = [call EXCEPT ![r].pc = "undo", ![r].outcome = "charged", ![r].room = 0]
  /\ UNCHANGED <<quota, objects, faults>>

Charge(r) ==
  /\ At(r, "charge") /\ call[r].live
  /\ Fits(r)
  /\ ApplyCharge(r)
  /\ Unlock(r)
  /\ call' = [call EXCEPT ![r].pc = "done", ![r].outcome = "charged", ![r].keys = {}, ![r].room = 0]
  /\ UNCHANGED <<quota, objects, faults>>

\* Mutant: ErrQuotaExceeded returned without deleting the objects.
QuotaExceeded_NoUndo(r) ==
  /\ At(r, "charge") /\ call[r].live
  /\ ~Fits(r)
  /\ Unlock(r)
  /\ call' = [call EXCEPT ![r].pc = "failed", ![r].outcome = "quota", ![r].room = 0]
  /\ UNCHANGED <<used, quota, ledger, objects, faults>>

QuotaExceeded(r) ==
  /\ At(r, "charge") /\ call[r].live
  /\ ~Fits(r)
  /\ Unlock(r)
  /\ call' = [call EXCEPT ![r].pc = "undo", ![r].outcome = "quota", ![r].room = 0]
  /\ UNCHANGED <<used, quota, ledger, objects, faults>>

\* Mutant: no transaction; the rows inserted before the failure stay.
ChargeFails_Partial(r) ==
  /\ At(r, "charge")
  /\ Fails(r)
  /\ Unlock(r)
  /\ GiveUp(r)
  /\ ledger' = ledger \cup call[r].rows
  /\ UNCHANGED <<used, quota, objects>>

\* Mutant: the transaction is left open on an error.
ChargeFails_NoRollback(r) ==
  /\ At(r, "charge")
  /\ Fails(r)
  /\ GiveUp(r)
  /\ UNCHANGED <<used, quota, lock, ledger, objects>>

\* A statement fails, or the context is cancelled: the transaction rolls back.
ChargeFails(r) ==
  /\ At(r, "charge")
  /\ Fails(r)
  /\ Unlock(r)
  /\ GiveUp(r)
  /\ UNCHANGED <<used, quota, ledger, objects>>

\* Commit is applied by the server, but its answer is lost.
CommitUnknown(r) ==
  /\ At(r, "charge") /\ call[r].live
  /\ Fits(r)
  /\ Fault
  /\ ApplyCharge(r)
  /\ Unlock(r)
  /\ call' = [call EXCEPT ![r].pc = "undo", ![r].outcome = "unknown", ![r].room = 0]
  /\ UNCHANGED <<quota, objects>>
-----------------------------------------------------------------------------
(* deleteOSSObjects: under the context of the call, errors ignored *)

Before(k, o) == k.slot < o.slot \/ (k.slot = o.slot /\ k.part = "image")

\* Keys are deleted in the order they were put.
ToDelete(r, k) == At(r, "undo") /\ k \in call[r].keys /\ \A o \in call[r].keys \ {k} : Before(k, o)

Forget(r, k) == call' = [call EXCEPT ![r].keys = @ \ {k}]

DeleteObject(r, k) ==
  /\ ToDelete(r, k) /\ call[r].live
  /\ objects' = objects \ {k}
  /\ Forget(r, k)
  /\ UNCHANGED <<used, quota, lock, ledger, faults>>

DeleteFails(r, k) ==
  /\ ToDelete(r, k)
  /\ Fails(r)
  /\ Forget(r, k)
  /\ UNCHANGED <<used, quota, lock, ledger, objects>>

Undone(r) ==
  /\ At(r, "undo") /\ call[r].keys = {}
  /\ Goto(r, "failed")
  /\ UNCHANGED <<used, quota, lock, ledger, objects, faults>>
-----------------------------------------------------------------------------
(* The environment *)

\* The client goes away: r.Context() of the handler is cancelled.  Outputs are
\* uploaded under a background context.
Disconnect(r) ==
  /\ call[r].pc \in InProgress /\ call[r].kind # "output" /\ call[r].live
  /\ call' = [call EXCEPT ![r].live = FALSE]
  /\ UNCHANGED <<used, quota, lock, ledger, objects, faults>>

\* Transactions of a dead process are rolled back; the bucket is not.
Crash ==
  /\ Fault
  /\ call' = [r \in Uploads |->
                IF call[r].pc \in InProgress
                THEN [call[r] EXCEPT !.pc = "dead", !.slot = 1, !.keys = {}, !.room = 0, !.live = TRUE]
                ELSE call[r]]
  /\ lock' = [u \in Users |-> NoUpload]
  /\ UNCHANGED <<used, quota, ledger, objects>>

AdminSetQuota(u, q) ==
  /\ q >= 0
  /\ lock[u] = NoUpload
  /\ quota' = [quota EXCEPT ![u] = q]
  /\ UNCHANGED <<used, lock, ledger, objects, call, faults>>

\* Two's complement addition of int64.
Wrap(x) == ((x + MaxInt + 1) % (2 * (MaxInt + 1))) - (MaxInt + 1)

\* Mutant: the sum is not checked.
AdminAdjustQuota_Unchecked(u, delta) ==
  /\ lock[u] = NoUpload
  /\ quota' = [quota EXCEPT ![u] = Wrap(quota[u] + delta)]
  /\ UNCHANGED <<used, lock, ledger, objects, call, faults>>

AdminAdjustQuota(u, delta) ==
  /\ lock[u] = NoUpload
  /\ LET newQuota == Wrap(quota[u] + delta) IN
     /\ newQuota >= 0
     /\ quota' = [quota EXCEPT ![u] = newQuota]
  /\ UNCHANGED <<used, lock, ledger, objects, call, faults>>
-----------------------------------------------------------------------------
Append(r) ==
  \/ LockUser(r) \/ LockUserFails(r)
  \/ Charge(r) \/ QuotaExceeded(r) \/ ChargeFails(r) \/ CommitUnknown(r)

Undo(r) ==
  \/ \E k \in call[r].keys : DeleteObject(r, k) \/ DeleteFails(r, k)
  \/ Undone(r)

Upload(r) ==
  \/ CheckQuota(r) \/ CheckQuotaFails(r)
  \/ PutImage(r) \/ SkipImage(r) \/ Undecodable(r) \/ PutFails(r) \/ Uploaded(r)
  \/ Append(r)
  \/ Undo(r)

Next ==
  \/ \E r \in Uploads : Upload(r) \/ Disconnect(r)
  \/ \E r \in Uploads, u \in Users, kind \in Kinds, n \in 1..MaxSlots : Begin(r, u, kind, n)
  \/ \E u \in Users, q \in Quotas : AdminSetQuota(u, q)
  \/ \E u \in Users, d \in Deltas : AdminAdjustQuota(u, d)
  \/ Crash

Spec == Init /\ [][Next]_vars

\* A call that has begun keeps running (every remote call returns or fails).
FairSpec == Spec /\ \A r \in Uploads : WF_vars(Upload(r))
-----------------------------------------------------------------------------
(* Properties *)

\* users.storage_used_bytes is the sum of the user's ledger rows, whatever
\* uploads interleave and wherever they fail.
UsedIsLedgerSum ==
  \A u \in Users : used[u] = Bytes({k \in ledger : Owner(k) = u})

\* No step takes a user's usage above the quota in force: the unlocked
\* CheckQuota may be stale, the locked recheck is not.
NeverChargedOverQuota ==
  [][\A u \in Users : used'[u] > used[u] => used'[u] <= quota[u]]_vars

\* What the ledger holds of each upload.
Bill == [r \in Uploads |-> Bytes({k \in ledger : k.upload = r})]

\* The account each user is promised.
Account == INSTANCE UsageSpec WITH MaxQuota <- MaxInt, bill <- Bill

\* "records objects and increments storage_used_bytes in one transaction" (quota.go), seen from
\* outside: whatever is read, put, retried or lost in between, an upload is charged in one step,
\* at most once, never refunded, and within the quota in force at that step.
ChargesAreAtomic == Account!Spec

\* What is charged exists: compensation never deletes a charged object, unless
\* the commit had been applied and reported as an error.
ChargedIsStored ==
  \A k \in ledger : k \in objects \/ call[k.upload].outcome = "unknown"

\* An upload is charged entirely or not at all, and a failed one is not charged.
AllOrNothing ==
  \A r \in Uploads :
    LET charged == {k \in ledger : k.upload = r} IN
    charged # {} => charged = call[r].rows /\ call[r].outcome \in {"charged", "unknown"}

\* An object nobody is charged for belongs to an upload still in progress, or to
\* one whose compensation could not run: disconnected, crashed, or a failed call.
NoFreeStorage ==
  \A k \in objects :
    \/ k \in ledger
    \/ call[k.upload].pc \in InProgress
    \/ ~call[k.upload].live
    \/ faults > 0

\* "On failure, callers should delete uploaded objects" (quota.go): a failed
\* upload leaves nothing behind, even if its client has gone.
FailureDeletesObjects ==
  \A r \in Uploads : call[r].pc = "failed" => \A k \in objects : k.upload # r

\* Every upload ends: no wait on a user's row lock is for ever.
UploadsEnd ==
  \A r \in Uploads : call[r].pc \in InProgress ~> call[r].pc \in {"done", "failed", "dead"}
-----------------------------------------------------------------------------
(* The inductive invariant behind the safety properties *)

Uncharged == {"idle", "check", "put", "append", "charge"}

\* An upload touches its own keys only, and finitely many.
OwnKeys(r) ==
  /\ IsFiniteSet(call[r].rows)
  /\ \A k \in call[r].rows \cup call[r].keys : k.upload = r

\* The transaction holds the row lock, so what it read is still true.
Locked(r) ==
  call[r].pc = "charge" =>
    LET u == call[r].user IN lock[u] = r /\ call[r].room = quota[u] - used[u]

\* The outcome tells what is in the ledger.
Accounted(r) ==
  LET charged == {k \in ledger : k.upload = r} IN
  /\ call[r].pc \in Uncharged => call[r].outcome = "none"
  /\ call[r].outcome \in {"charged", "unknown"} => charged = call[r].rows
  /\ call[r].outcome \notin {"charged", "unknown"} => charged = {}

\* What is about to be charged, or was, is in the bucket.
Stored(r) ==
  /\ call[r].pc \in {"idle", "check"} => call[r].rows = {}
  /\ call[r].pc \in {"put", "append", "charge"} => call[r].rows \subseteq objects
  /\ call[r].outcome = "charged" => call[r].pc = "done" /\ call[r].rows \subseteq objects

\* While nothing fails, every object is a row or a key of its upload.
Tracked(r) ==
  LET mine == {k \in objects : k.upload = r} IN
  faults = 0 =>
    /\ call[r].pc \in Uncharged => mine \subseteq call[r].rows /\ mine \subseteq call[r].keys
    /\ call[r].pc = "undo" /\ call[r].live => mine \subseteq call[r].keys
    /\ call[r].pc = "failed" /\ call[r].live => mine = {}
    /\ call[r].pc = "done" => mine \subseteq call[r].rows /\ (mine # {} => call[r].outcome = "charged")
    /\ call[r].pc # "dead"

IInv ==
  /\ TypeOK
  /\ IsFiniteSet(ledger)
  /\ \A r \in Uploads :
       OwnKeys(r) /\ Locked(r) /\ Accounted(r) /\ Stored(r) /\ Tracked(r)
  /\ UsedIsLedgerSum
=============================================================================
