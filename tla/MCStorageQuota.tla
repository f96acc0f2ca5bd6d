--------------------------- MODULE MCStorageQuota ---------------------------
(* Small instances of StorageQuota for TLC. *)
EXTENDS StorageQuota

CONSTANTS r1, r2, u1

TwoUploads == {r1, r2}
OneUpload == {r1}
OneUser == {u1}

\* Quota 5 with images of 2 and thumbnails of 1: any upload but the largest fits
\* alone, the next to largest exactly.  The deltas reach below zero and past
\* MaxInt.
AdminQuotas == {0}
AdminDeltas == {-6, 5}
=============================================================================
