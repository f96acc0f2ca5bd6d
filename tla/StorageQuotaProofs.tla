------------------------- MODULE StorageQuotaProofs -------------------------
(***************************************************************************)
(* Theorems about StorageQuota, for every number of uploads, users, slots, *)
(* failures and restarts, and every size and quota.                        *)
(***************************************************************************)
EXTENDS StorageQuota, FiniteSetTheorems, TLAPS

-----------------------------------------------------------------------------
(* Bytes of a finite set of objects *)

LEMMA PartsFinite ==
  ASSUME NEW S, IsFiniteSet(S), NEW part
  PROVE  /\ IsFiniteSet(Parts(S, part))
         /\ Cardinality(Parts(S, part)) \in Nat
<1>1. Parts(S, part) \subseteq S
  BY DEF Parts
<1>2. IsFiniteSet(Parts(S, part))
  BY <1>1, FS_Subset
<1> QED
  BY <1>2, FS_CardinalityType

LEMMA BytesType ==
  ASSUME NEW S, IsFiniteSet(S)
  PROVE  Bytes(S) \in Nat
<1>1. Cardinality(Parts(S, "image")) \in Nat /\ Cardinality(Parts(S, "thumb")) \in Nat
  BY PartsFinite
<1> QED
  BY <1>1, ConstantsOK DEF Bytes

LEMMA BytesEmpty == Bytes({}) = 0
<1>1. Parts({}, "image") = {} /\ Parts({}, "thumb") = {}
  BY DEF Parts
<1>2. Cardinality({}) = 0
  BY FS_EmptySet
<1>3. ImageBytes \in Nat /\ ThumbBytes \in Nat
  BY ConstantsOK
<1> QED
  BY <1>1, <1>2, <1>3 DEF Bytes

LEMMA PartsUnion ==
  ASSUME NEW S, IsFiniteSet(S), NEW T, IsFiniteSet(T), S \cap T = {}, NEW part
  PROVE  Cardinality(Parts(S \cup T, part))
           = Cardinality(Parts(S, part)) + Cardinality(Parts(T, part))
<1>1. /\ Parts(S \cup T, part) = Parts(S, part) \cup Parts(T, part)
      /\ Parts(S, part) \cap Parts(T, part) = {}
  BY DEF Parts
<1>2. IsFiniteSet(Parts(S, part)) /\ IsFiniteSet(Parts(T, part))
  BY PartsFinite
<1>3. Cardinality(Parts(S, part)) \in Nat /\ Cardinality(Parts(T, part)) \in Nat
  BY PartsFinite
<1>4. Cardinality(Parts(S, part) \cup Parts(T, part))
        = Cardinality(Parts(S, part)) + Cardinality(Parts(T, part))
            - Cardinality(Parts(S, part) \cap Parts(T, part))
  BY <1>2, FS_Union
<1>5. Cardinality(Parts(S, part) \cap Parts(T, part)) = 0
  BY <1>1, FS_EmptySet
<1>6. Cardinality(Parts(S, part) \cup Parts(T, part))
        = Cardinality(Parts(S, part)) + Cardinality(Parts(T, part))
  BY <1>3, <1>4, <1>5
<1> QED
  BY <1>1, <1>6, Zenon

LEMMA BytesUnion ==
  ASSUME NEW S, IsFiniteSet(S), NEW T, IsFiniteSet(T), S \cap T = {}
  PROVE  Bytes(S \cup T) = Bytes(S) + Bytes(T)
<1> DEFINE is == Cardinality(Parts(S, "image"))
           it == Cardinality(Parts(T, "image"))
           ts == Cardinality(Parts(S, "thumb"))
           tt == Cardinality(Parts(T, "thumb"))
<1>1. is \in Nat /\ it \in Nat /\ ts \in Nat /\ tt \in Nat
  BY PartsFinite
<1>2. ImageBytes \in Nat /\ ThumbBytes \in Nat
  BY ConstantsOK
<1>3. /\ Cardinality(Parts(S \cup T, "image")) = is + it
      /\ Cardinality(Parts(S \cup T, "thumb")) = ts + tt
  BY PartsUnion
<1> HIDE DEF is, it, ts, tt
<1>4. ImageBytes * (is + it) = ImageBytes * is + ImageBytes * it
  BY <1>1, <1>2
<1>5. ThumbBytes * (ts + tt) = ThumbBytes * ts + ThumbBytes * tt
  BY <1>1, <1>2
<1>6. /\ ImageBytes * is \in Nat /\ ImageBytes * it \in Nat
      /\ ThumbBytes * ts \in Nat /\ ThumbBytes * tt \in Nat
  BY <1>1, <1>2
<1>7. /\ Bytes(S) = ImageBytes * is + ThumbBytes * ts
      /\ Bytes(T) = ImageBytes * it + ThumbBytes * tt
  BY DEF Bytes, is, it, ts, tt
<1>8. Bytes(S \cup T) = ImageBytes * (is + it) + ThumbBytes * (ts + tt)
  BY <1>3 DEF Bytes
<1> QED
  BY <1>4, <1>5, <1>6, <1>7, <1>8
-----------------------------------------------------------------------------
(* Type correctness *)

\* A step that replaces the record of one call.
Becomes(r, c) == call' = [call EXCEPT ![r] = c]

LEMMA CallStep ==
  ASSUME call \in [Uploads -> Call], NEW r \in Uploads, NEW c \in Call, Becomes(r, c)
  PROVE  /\ call' \in [Uploads -> Call]
         /\ call'[r] = c
         /\ \A q \in Uploads : q # r => call'[q] = call[q]
BY DEF Becomes

LEMMA KeyType ==
  ASSUME NEW r \in Uploads, NEW i \in 1..MaxSlots
  PROVE  /\ Image(r, i) \in Key /\ Thumb(r, i) \in Key
         /\ Image(r, i).upload = r /\ Thumb(r, i).upload = r
BY DEF Image, Thumb, Key

LEMMA WrapType ==
  ASSUME NEW x \in Int
  PROVE  Wrap(x) \in -(MaxInt + 1)..MaxInt
<1>1. MaxInt \in Nat
  BY ConstantsOK
<1>2. 2 * (MaxInt + 1) \in Nat \ {0} /\ x + MaxInt + 1 \in Int
  BY <1>1
<1> DEFINE m == 2 * (MaxInt + 1)
           y == x + MaxInt + 1
<1>3. y % m \in 0..(m - 1)
  <2> HIDE DEF m, y
  <2>1. m \in Nat \ {0} /\ y \in Int
    BY <1>2 DEF m, y
  <2> QED
    BY <2>1
<1>4. Wrap(x) = (y % m) - (MaxInt + 1)
  BY DEF Wrap
<1>5. m = 2 * MaxInt + 2
  BY <1>1
<1> HIDE DEF m, y
<1> QED
  BY <1>1, <1>3, <1>4, <1>5

LEMMA GoType ==
  ASSUME NEW c \in Call,
         NEW pc \in {"idle", "done", "failed", "dead"} \cup InProgress,
         NEW outcome \in {"none", "charged", "quota", "error", "unknown"}
  PROVE  /\ [c EXCEPT !.pc = pc] \in Call
         /\ [c EXCEPT !.pc = pc, !.slot = 1] \in Call
         /\ [c EXCEPT !.pc = pc, !.outcome = outcome] \in Call
         /\ [c EXCEPT !.pc = pc, !.outcome = outcome, !.room = 0] \in Call
         /\ [c EXCEPT !.pc = pc, !.outcome = outcome, !.keys = {}, !.room = 0] \in Call
         /\ [c EXCEPT !.live = FALSE] \in Call
<1>0. 1 \in 1..MaxSlots + 1 /\ 0 \in Int /\ {} \in SUBSET Key /\ FALSE \in BOOLEAN
  BY ConstantsOK
<1> USE <1>0 DEF Call
<1>1. [c EXCEPT !.pc = pc] \in Call
  OBVIOUS
<1>2. [c EXCEPT !.pc = pc, !.slot = 1] \in Call
  OBVIOUS
<1>3. [c EXCEPT !.pc = pc, !.outcome = outcome] \in Call
  OBVIOUS
<1>4. [c EXCEPT !.pc = pc, !.outcome = outcome, !.room = 0] \in Call
  OBVIOUS
<1>5. [c EXCEPT !.pc = pc, !.outcome = outcome, !.keys = {}, !.room = 0] \in Call
  OBVIOUS
<1>6. [c EXCEPT !.live = FALSE] \in Call
  OBVIOUS
<1> QED
  BY <1>1, <1>2, <1>3, <1>4, <1>5, <1>6

LEMMA InitType == Init => TypeOK
<1> SUFFICES ASSUME Init PROVE TypeOK
  OBVIOUS
<1>1. ASSUME NEW u \in Users
      PROVE  [pc |-> "idle", user |-> u, kind |-> "output", n |-> 1, slot |-> 1, keys |-> {},
              rows |-> {}, room |-> 0, outcome |-> "none", live |-> TRUE] \in Call
  <2>1. 1 \in 1..MaxSlots /\ 1 \in 1..MaxSlots + 1
    BY ConstantsOK
  <2> QED
    BY <2>1 DEF Call, Kinds
<1>2. call \in [Uploads -> Call]
  <2>1. PICK u \in Users :
          call = [r \in Uploads |->
                   [pc |-> "idle", user |-> u, kind |-> "output", n |-> 1, slot |-> 1,
                    keys |-> {}, rows |-> {}, room |-> 0, outcome |-> "none", live |-> TRUE]]
    BY DEF Init
  <2> QED
    BY <1>1, <2>1
<1>3. quota \in [Users -> 0..MaxInt] /\ used \in [Users -> Nat]
  BY ConstantsOK DEF Init
<1>4. lock \in [Users -> Uploads \cup {NoUpload}]
  BY DEF Init
<1>5. faults \in 0..MaxFaults /\ ledger \in SUBSET Key /\ objects \in SUBSET Key
  BY ConstantsOK DEF Init
<1> QED
  BY <1>2, <1>3, <1>4, <1>5 DEF TypeOK

\* The steps of a call that touch neither lock nor ledger nor the columns.
Local(r) ==
  \/ CheckQuota(r) \/ CheckQuotaFails(r) \/ PutImage(r) \/ SkipImage(r) \/ Undecodable(r)
  \/ PutFails(r) \/ Uploaded(r) \/ Undo(r) \/ Disconnect(r) \/ LockUserFails(r)
  \/ \E u \in Users, kind \in Kinds, n \in 1..MaxSlots : Begin(r, u, kind, n)

LEMMA FaultType ==
  ASSUME TypeOK, NEW r \in Uploads, Fault \/ Fails(r) \/ UNCHANGED faults
  PROVE  faults' \in 0..MaxFaults
BY ConstantsOK DEF TypeOK, Fault, Fails

LEMMA GrowType ==
  ASSUME NEW c \in Call, NEW K \in SUBSET Key, NEW R \in SUBSET Key, c.slot <= c.n
  PROVE  [c EXCEPT !.keys = c.keys \cup K, !.rows = c.rows \cup R, !.slot = c.slot + 1] \in Call
<1>1. c.slot + 1 \in 1..MaxSlots + 1
  BY ConstantsOK DEF Call
<1>2. c.keys \cup K \in SUBSET Key /\ c.rows \cup R \in SUBSET Key
  BY DEF Call
<1> QED
  BY <1>1, <1>2 DEF Call

\* What the steps of a call that put images do to its record and to the bucket.
LEMMA PutShape ==
  ASSUME TypeOK, NEW r \in Uploads, PutImage(r)
  PROVE  \E K, R \in SUBSET {Image(r, call[r].slot), Thumb(r, call[r].slot)} :
           /\ R \subseteq K /\ K # {}
           /\ R \subseteq objects'
           /\ objects \subseteq objects' /\ objects' \subseteq objects \cup K
           /\ faults' = 0 => R = K
           /\ Becomes(r, [call[r] EXCEPT !.keys = call[r].keys \cup K,
                                         !.rows = call[r].rows \cup R,
                                         !.slot = call[r].slot + 1])
<1> DEFINE i == Image(r, call[r].slot)
           t == Thumb(r, call[r].slot)
           After(K, R) == [call[r] EXCEPT !.keys = call[r].keys \cup K,
                                          !.rows = call[r].rows \cup R,
                                          !.slot = call[r].slot + 1]
<1>1. CASE objects' = objects \cup {i} /\ Becomes(r, After({i}, {i}))
  <2> WITNESS {i} \in SUBSET {i, t}, {i} \in SUBSET {i, t}
  <2>2. {i} \subseteq objects' /\ objects \subseteq objects' /\ objects' \subseteq objects \cup {i}
    BY <1>1
  <2>3. Becomes(r, [call[r] EXCEPT !.keys = call[r].keys \cup {i},
                                   !.rows = call[r].rows \cup {i},
                                   !.slot = call[r].slot + 1])
    BY <1>1
  <2>4. {i} \subseteq {i} /\ {i} # {}
    OBVIOUS
  <2> HIDE DEF i, t
  <2> QED
    BY <2>2, <2>3, <2>4
<1>2. CASE objects' = objects \cup {i, t} /\ Becomes(r, After({i, t}, {i, t}))
  <2> WITNESS {i, t} \in SUBSET {i, t}, {i, t} \in SUBSET {i, t}
  <2>2. {i, t} \subseteq objects' /\ objects \subseteq objects' /\ objects' \subseteq objects \cup {i, t}
    BY <1>2
  <2>3. Becomes(r, [call[r] EXCEPT !.keys = call[r].keys \cup {i, t},
                                   !.rows = call[r].rows \cup {i, t},
                                   !.slot = call[r].slot + 1])
    BY <1>2
  <2>4. {i, t} \subseteq {i, t} /\ {i, t} # {}
    OBVIOUS
  <2> HIDE DEF i, t
  <2> QED
    BY <2>2, <2>3, <2>4
<1>3. CASE /\ Fault
           /\ objects' \in {objects \cup {i}, objects \cup {i, t}}
           /\ Becomes(r, After({i, t}, {i}))
  <2>1. faults' # 0
    BY <1>3 DEF Fault, TypeOK
  <2> WITNESS {i, t} \in SUBSET {i, t}, {i} \in SUBSET {i, t}
  <2>2. {i} \subseteq objects' /\ objects \subseteq objects' /\ objects' \subseteq objects \cup {i, t}
    BY <1>3
  <2>3. Becomes(r, [call[r] EXCEPT !.keys = call[r].keys \cup {i, t},
                                   !.rows = call[r].rows \cup {i},
                                   !.slot = call[r].slot + 1])
    BY <1>3
  <2>4. {i} \subseteq {i, t} /\ {i, t} # {}
    OBVIOUS
  <2> HIDE DEF i, t
  <2> QED
    BY <2>2, <2>3, <2>4, <2>1
<1> QED
  BY <1>1, <1>2, <1>3 DEF PutImage, Becomes


LEMMA AdjustType ==
  ASSUME TypeOK, NEW u \in Users, NEW d \in Deltas, AdminAdjustQuota(u, d)
  PROVE  quota' \in [Users -> 0..MaxInt]
<1>1. quota[u] + d \in Int
  BY ConstantsOK DEF TypeOK
<1> DEFINE w == Wrap(quota[u] + d)
<1>2. w \in -(MaxInt + 1)..MaxInt
  BY <1>1, WrapType
<1>3. w >= 0 /\ quota' = [quota EXCEPT ![u] = w]
  BY DEF AdminAdjustQuota
<1> HIDE DEF w
<1>4. w \in 0..MaxInt
  BY <1>2, <1>3, ConstantsOK
<1> QED
  BY <1>3, <1>4 DEF TypeOK

\* A step of a call, by itself or against the lock and the columns, keeps the
\* types once the new record of the call has one.
LEMMA CallType ==
  ASSUME TypeOK, NEW r \in Uploads, NEW c \in Call, Becomes(r, c),
         used' \in [Users -> Nat], quota' \in [Users -> 0..MaxInt],
         lock' \in [Users -> Uploads \cup {NoUpload}],
         ledger' \in SUBSET Key, objects' \in SUBSET Key,
         Fault \/ Fails(r) \/ UNCHANGED faults
  PROVE  TypeOK'
<1>1. call' \in [Uploads -> Call]
  BY CallStep DEF TypeOK
<1>2. faults' \in 0..MaxFaults
  BY FaultType
<1> QED
  BY <1>1, <1>2 DEF TypeOK

LEMMA BeginType ==
  ASSUME TypeOK, NEW r \in Uploads, NEW u \in Users, NEW kind \in Kinds, NEW n \in 1..MaxSlots,
         Begin(r, u, kind, n)
  PROVE  TypeOK'
<1>0. PICK pc \in {"put", "check"} :
        call' = [call EXCEPT ![r].pc = pc, ![r].user = u, ![r].kind = kind, ![r].n = n]
  BY DEF Begin
<1> DEFINE c == [call[r] EXCEPT !.pc = pc, !.user = u, !.kind = kind, !.n = n]
<1>1. c \in Call
  <2>1. call[r] \in Call /\ pc \in {"idle", "done", "failed", "dead"} \cup InProgress
    BY <1>0 DEF TypeOK, InProgress
  <2> QED
    BY <2>1 DEF Call
<1>2. Becomes(r, c)
  BY <1>0 DEF Becomes
<1> HIDE DEF c
<1> QED
  BY <1>1, <1>2, CallType DEF Begin, TypeOK

LEMMA LocalType ==
  ASSUME TypeOK, NEW r \in Uploads, Local(r)
  PROVE  TypeOK'
<1>0. call[r] \in Call
  BY DEF TypeOK
<1>1. CASE CheckQuota(r)
  <2>1. CASE Goto(r, "put")
    <3> DEFINE c == [call[r] EXCEPT !.pc = "put"]
    <3>1. c \in Call /\ Becomes(r, c)
      BY <1>0, <2>1, GoType DEF Goto, Becomes, InProgress
    <3> HIDE DEF c
    <3> QED
      BY <1>1, <3>1, CallType DEF CheckQuota, TypeOK
  <2>2. CASE call' = [call EXCEPT ![r].pc = "failed", ![r].outcome = "quota"]
    <3> DEFINE c == [call[r] EXCEPT !.pc = "failed", !.outcome = "quota"]
    <3>1. c \in Call /\ Becomes(r, c)
      BY <1>0, <2>2, GoType DEF Becomes
    <3> HIDE DEF c
    <3> QED
      BY <1>1, <3>1, CallType DEF CheckQuota, TypeOK
  <2> QED
    BY <1>1, <2>1, <2>2 DEF CheckQuota
<1>2. CASE CheckQuotaFails(r)
  <2> DEFINE c == [call[r] EXCEPT !.pc = "failed", !.outcome = "error"]
  <2>1. c \in Call /\ Becomes(r, c)
    BY <1>0, <1>2, GoType DEF CheckQuotaFails, Becomes
  <2> HIDE DEF c
  <2> QED
    BY <1>2, <2>1, CallType DEF CheckQuotaFails, TypeOK
<1>3. CASE PutImage(r)
  <2>1. call[r].slot \in 1..MaxSlots /\ call[r].slot <= call[r].n
    BY <1>0, <1>3, ConstantsOK DEF PutImage, Uploading, Call
  <2>2. PICK K, R \in SUBSET {Image(r, call[r].slot), Thumb(r, call[r].slot)} :
          /\ R \subseteq K
          /\ objects' \subseteq objects \cup K
          /\ Becomes(r, [call[r] EXCEPT !.keys = call[r].keys \cup K,
                                        !.rows = call[r].rows \cup R,
                                        !.slot = call[r].slot + 1])
    BY <1>3, PutShape
  <2>3. K \in SUBSET Key /\ R \in SUBSET Key
    BY <2>1, <2>2, KeyType
  <2> DEFINE c == [call[r] EXCEPT !.keys = call[r].keys \cup K,
                                  !.rows = call[r].rows \cup R,
                                  !.slot = call[r].slot + 1]
  <2>4. c \in Call
    BY <1>0, <2>1, <2>3, GrowType
  <2>5. Becomes(r, c)
    BY <2>2
  <2> HIDE DEF c
  <2> QED
    BY <1>3, <2>2, <2>3, <2>4, <2>5, CallType DEF PutImage, TypeOK
<1>4. CASE SkipImage(r)
  <2> DEFINE c == [call[r] EXCEPT !.slot = call[r].slot + 1]
  <2>1. call[r].slot + 1 \in 1..MaxSlots + 1
    BY <1>0, <1>4, ConstantsOK DEF SkipImage, Uploading, Call
  <2>2. c \in Call
    BY <1>0, <2>1 DEF Call
  <2>3. Becomes(r, c)
    BY <1>4 DEF SkipImage, Becomes
  <2> HIDE DEF c
  <2> QED
    BY <1>4, <2>2, <2>3, CallType DEF SkipImage, TypeOK
<1>5. CASE Undecodable(r) \/ LockUserFails(r)
  <2> DEFINE c == [call[r] EXCEPT !.pc = "undo", !.outcome = "error", !.room = 0]
  <2>1. c \in Call /\ Becomes(r, c)
    BY <1>0, <1>5, GoType DEF Undecodable, LockUserFails, GiveUp, Becomes, InProgress
  <2> HIDE DEF c
  <2> QED
    BY <1>5, <2>1, CallType DEF Undecodable, LockUserFails, TypeOK
<1>6. CASE PutFails(r)
  <2>1. call[r].slot \in 1..MaxSlots
    BY <1>0, <1>6, ConstantsOK DEF PutFails, Uploading, Call
  <2> DEFINE image == Image(r, call[r].slot)
             c == [call[r] EXCEPT !.pc = "undo", !.outcome = "error",
                                  !.keys = call[r].keys \cup {image}]
  <2>2. image \in Key
    BY <2>1, KeyType
  <2>3. objects' \in SUBSET Key
    <3> HIDE DEF image
    <3>1. objects' \in {objects, objects \cup {image}}
      BY <1>6 DEF PutFails, image
    <3> QED
      BY <2>2, <3>1 DEF TypeOK
  <2>4. c \in Call
    <3> HIDE DEF image
    <3> QED
      BY <1>0, <2>2 DEF Call, InProgress
  <2>5. Becomes(r, c)
    BY <1>6 DEF PutFails, Becomes
  <2> HIDE DEF c, image
  <2> QED
    BY <1>6, <2>3, <2>4, <2>5, CallType DEF PutFails, TypeOK
<1>7. CASE Uploaded(r)
  <2>1. PICK pc \in {"done", "append"} :
          Becomes(r, [call[r] EXCEPT !.pc = pc, !.slot = 1])
    BY <1>7 DEF Uploaded, Becomes
  <2> DEFINE c == [call[r] EXCEPT !.pc = pc, !.slot = 1]
  <2>2. c \in Call
    BY <1>0, GoType DEF InProgress
  <2>3. Becomes(r, c)
    BY <2>1
  <2> HIDE DEF c
  <2> QED
    BY <1>7, <2>2, <2>3, CallType DEF Uploaded, TypeOK
<1>8. ASSUME NEW k \in call[r].keys, DeleteObject(r, k) \/ DeleteFails(r, k) PROVE TypeOK'
  <2> DEFINE c == [call[r] EXCEPT !.keys = call[r].keys \ {k}]
  <2>1. c \in Call
    BY <1>0 DEF Call
  <2>2. Becomes(r, c)
    BY <1>8 DEF DeleteObject, DeleteFails, Forget, Becomes
  <2> HIDE DEF c
  <2> QED
    BY <1>8, <2>1, <2>2, CallType DEF DeleteObject, DeleteFails, TypeOK
<1>9. CASE Undone(r)
  <2> DEFINE c == [call[r] EXCEPT !.pc = "failed"]
  <2>1. c \in Call /\ Becomes(r, c)
    BY <1>0, <1>9, GoType DEF Undone, Goto, Becomes
  <2> HIDE DEF c
  <2> QED
    BY <1>9, <2>1, CallType DEF Undone, TypeOK
<1>10. CASE Disconnect(r)
  <2> DEFINE c == [call[r] EXCEPT !.live = FALSE]
  <2>1. c \in Call /\ Becomes(r, c)
    BY <1>0, <1>10, GoType DEF Disconnect, Becomes
  <2> HIDE DEF c
  <2> QED
    BY <1>10, <2>1, CallType DEF Disconnect, TypeOK
<1> QED
  BY <1>1, <1>2, <1>3, <1>4, <1>5, <1>6, <1>7, <1>8, <1>9, <1>10, BeginType DEF Local, Undo

-----------------------------------------------------------------------------
(* The inductive invariant, one call at a time *)

Good(r) == OwnKeys(r) /\ Locked(r) /\ Accounted(r) /\ Stored(r) /\ Tracked(r)

\* A call that a step leaves alone, with what belongs to it.
LEMMA Untouched ==
  ASSUME IInv, NEW q \in Uploads, call'[q] = call[q], ledger' \in SUBSET Key,
         objects' \in SUBSET Key,
         \A k \in Key : k.upload = q => /\ k \in objects' <=> k \in objects
                                        /\ k \in ledger' <=> k \in ledger,
         faults' = 0 => faults = 0,
         LET u == call[q].user IN
           call[q].pc = "charge" => lock'[u] = lock[u] /\ quota'[u] = quota[u] /\ used'[u] = used[u]
  PROVE  Good(q)'
<1>1. call[q] \in Call /\ Good(q)
  BY DEF IInv, TypeOK, Good
<1>2. call[q].rows \subseteq Key
  BY <1>1 DEF Call
<1>3. OwnKeys(q)'
  BY <1>1 DEF Good, OwnKeys
<1>4. Locked(q)'
  BY <1>1 DEF Good, Locked
<1>5. {k \in ledger' : k.upload = q} = {k \in ledger : k.upload = q}
  BY DEF IInv, TypeOK
<1>6. {k \in objects' : k.upload = q} = {k \in objects : k.upload = q}
  BY DEF IInv, TypeOK
<1>7. Accounted(q)'
  BY <1>1, <1>5 DEF Good, Accounted
<1>8. call[q].rows \subseteq objects => call[q].rows \subseteq objects'
  BY <1>1, <1>2 DEF Good, OwnKeys
<1>9. Stored(q)'
  BY <1>1, <1>8 DEF Good, Stored
<1>10. Tracked(q)'
  BY <1>1, <1>6 DEF Good, Tracked
<1> QED
  BY <1>3, <1>4, <1>7, <1>9, <1>10 DEF Good

LEMMA SumKept ==
  ASSUME IInv, UNCHANGED <<used, ledger>>,
         \A q \in Uploads : \/ call'[q].user = call[q].user
                            \/ {k \in ledger : k.upload = q} = {}
  PROVE  UsedIsLedgerSum'
<1>1. ASSUME NEW k \in ledger PROVE Owner(k)' = Owner(k)
  <2>1. k.upload \in Uploads
    BY DEF IInv, TypeOK, Key
  <2>2. k \in {o \in ledger : o.upload = k.upload}
    OBVIOUS
  <2> QED
    BY <2>1, <2>2 DEF Owner
<1>2. ASSUME NEW u \in Users PROVE used'[u] = Bytes({k \in ledger' : Owner(k)' = u})
  <2>1. {k \in ledger' : Owner(k)' = u} = {k \in ledger : Owner(k) = u}
    BY <1>1
  <2> QED
    BY <2>1, Zenon DEF IInv, UsedIsLedgerSum
<1> QED
  BY <1>2 DEF UsedIsLedgerSum

\* A local step of a call is seen by no other call.
LEMMA LocalFrame ==
  ASSUME IInv, NEW r \in Uploads, Local(r)
  PROVE  /\ UNCHANGED <<used, quota, lock, ledger>>
         /\ \A q \in Uploads : q # r => call'[q] = call[q]
         /\ \A k \in Key : k.upload # r => (k \in objects' <=> k \in objects)
         /\ faults' = 0 => faults = 0
         /\ call'[r].user = call[r].user \/ {k \in ledger : k.upload = r} = {}
<1>0. /\ call \in [Uploads -> Call] /\ call[r] \in Call /\ faults \in Nat
      /\ Good(r)
  BY ConstantsOK DEF IInv, TypeOK, Good
<1>1. Fault => faults' # 0
  BY <1>0 DEF Fault
<1>2. Fails(r) => (faults' = 0 => faults = 0)
  BY <1>1 DEF Fails
<1>3. CASE CheckQuota(r)
  <2>1. \/ call' = [call EXCEPT ![r].pc = "put"]
        \/ call' = [call EXCEPT ![r].pc = "failed", ![r].outcome = "quota"]
    BY <1>3 DEF CheckQuota, Goto
  <2> QED
    BY <1>0, <1>3, <2>1 DEF CheckQuota, Call
<1>4. CASE CheckQuotaFails(r)
  BY <1>0, <1>2, <1>4 DEF CheckQuotaFails, Call
<1>5. CASE PutImage(r)
  <2>1. call[r].slot \in 1..MaxSlots
    BY <1>0, <1>5, ConstantsOK DEF PutImage, Uploading, Call
  <2>2. PICK K, R \in SUBSET {Image(r, call[r].slot), Thumb(r, call[r].slot)} :
          /\ objects \subseteq objects' /\ objects' \subseteq objects \cup K
          /\ Becomes(r, [call[r] EXCEPT !.keys = call[r].keys \cup K,
                                        !.rows = call[r].rows \cup R,
                                        !.slot = call[r].slot + 1])
    BY <1>5, PutShape DEF IInv
  <2>3. \A k \in K : k.upload = r
    BY <2>1, KeyType
  <2>4. UNCHANGED faults \/ Fault
    BY <1>5 DEF PutImage
  <2>5. call'[r].user = call[r].user /\ \A q \in Uploads : q # r => call'[q] = call[q]
    BY <1>0, <2>2 DEF Becomes, Call
  <2> QED
    BY <1>1, <1>5, <2>2, <2>3, <2>4, <2>5 DEF PutImage
<1>6. CASE SkipImage(r)
  BY <1>0, <1>6 DEF SkipImage, Call
<1>7. CASE Undecodable(r)
  BY <1>0, <1>7 DEF Undecodable, GiveUp, Call
<1>8. CASE PutFails(r)
  <2>1. call[r].slot \in 1..MaxSlots
    BY <1>0, <1>8, ConstantsOK DEF PutFails, Uploading, Call
  <2> DEFINE image == Image(r, call[r].slot)
  <2>2. image.upload = r
    BY <2>1, KeyType
  <2>3. objects' \in {objects, objects \cup {image}}
    BY <1>8 DEF PutFails
  <2>4. call'[r].user = call[r].user /\ \A q \in Uploads : q # r => call'[q] = call[q]
    BY <1>0, <1>8 DEF PutFails, Call
  <2> HIDE DEF image
  <2> QED
    BY <1>2, <1>8, <2>2, <2>3, <2>4 DEF PutFails
<1>9. CASE Uploaded(r)
  <2>1. PICK pc \in {"done", "append"} : call' = [call EXCEPT ![r].pc = pc, ![r].slot = 1]
    BY <1>9 DEF Uploaded
  <2> QED
    BY <1>0, <1>9, <2>1 DEF Uploaded, Call
<1>10. ASSUME NEW k \in call[r].keys, DeleteObject(r, k) \/ DeleteFails(r, k)
       PROVE  /\ UNCHANGED <<used, quota, lock, ledger>>
              /\ \A q \in Uploads : q # r => call'[q] = call[q]
              /\ \A o \in Key : o.upload # r => (o \in objects' <=> o \in objects)
              /\ faults' = 0 => faults = 0
              /\ call'[r].user = call[r].user
  <2>1. k.upload = r
    BY <1>0 DEF Good, OwnKeys
  <2>2. call'[r].user = call[r].user /\ \A q \in Uploads : q # r => call'[q] = call[q]
    BY <1>0, <1>10 DEF DeleteObject, DeleteFails, Forget, Call
  <2>3. objects' = objects \/ objects' = objects \ {k}
    BY <1>10 DEF DeleteObject, DeleteFails
  <2> QED
    BY <1>2, <1>10, <2>1, <2>2, <2>3 DEF DeleteObject, DeleteFails
<1>11. CASE Undone(r)
  BY <1>0, <1>11 DEF Undone, Goto, Call
<1>12. CASE Disconnect(r)
  BY <1>0, <1>12 DEF Disconnect, Call
<1>13. CASE LockUserFails(r)
  BY <1>0, <1>2, <1>13 DEF LockUserFails, GiveUp, Call
<1>14. ASSUME NEW u \in Users, NEW kind \in Kinds, NEW n \in 1..MaxSlots, Begin(r, u, kind, n)
       PROVE  /\ UNCHANGED <<used, quota, lock, ledger>>
              /\ \A q \in Uploads : q # r => call'[q] = call[q]
              /\ \A k \in Key : k.upload # r => (k \in objects' <=> k \in objects)
              /\ faults' = 0 => faults = 0
              /\ {k \in ledger : k.upload = r} = {}
  <2>1. {k \in ledger : k.upload = r} = {}
    BY <1>0, <1>14 DEF Begin, At, Good, Accounted, Uncharged
  <2>2. \A q \in Uploads : q # r => call'[q] = call[q]
    BY <1>0, <1>14 DEF Begin
  <2> QED
    BY <1>14, <2>1, <2>2 DEF Begin
<1> QED
  BY <1>3, <1>4, <1>5, <1>6, <1>7, <1>8, <1>9, <1>10, <1>11, <1>12, <1>13, <1>14 DEF Local, Undo


\* What the ledger holds for one call.
Charged(r) == {k \in ledger : k.upload = r}

LEMMA GoodFacts ==
  ASSUME IInv, NEW r \in Uploads
  PROVE  /\ call \in [Uploads -> Call] /\ call[r] \in Call /\ faults \in Nat
         /\ OwnKeys(r) /\ Locked(r) /\ Accounted(r) /\ Stored(r) /\ Tracked(r)
BY ConstantsOK DEF IInv, TypeOK

\* A step that moves a call without charging it.
LEMMA Moved ==
  ASSUME IInv, NEW r \in Uploads,
         UNCHANGED <<ledger, objects>>, faults' = 0 => faults = 0,
         call'[r].rows = call[r].rows, call'[r].keys = call[r].keys,
         call[r].pc \in Uncharged \/ call'[r].outcome = call[r].outcome,
         call'[r].outcome \notin {"charged", "unknown"} \/ call'[r].outcome = call[r].outcome,
         call'[r].pc \in Uncharged => call'[r].outcome = "none" /\ call[r].pc \in Uncharged,
         call'[r].pc # "charge",
         call'[r].pc \in {"idle", "check"} => call[r].pc \in {"idle", "check"},
         call'[r].pc \in {"put", "append"} => call[r].pc \in Uncharged,
         call'[r].outcome # "charged" \/ call'[r].pc = call[r].pc,
         Tracked(r)'
  PROVE  Good(r)'
<1>0. /\ call[r] \in Call
      /\ OwnKeys(r) /\ Locked(r) /\ Accounted(r) /\ Stored(r) /\ Tracked(r)
  BY GoodFacts
<1>1. OwnKeys(r)'
  BY <1>0 DEF OwnKeys
<1>2. Locked(r)'
  BY <1>0 DEF Locked
<1>3. Accounted(r)'
  BY <1>0 DEF Accounted, Uncharged
<1>4. Stored(r)'
  BY <1>0 DEF Stored, Accounted, Uncharged
<1> QED
  BY <1>1, <1>2, <1>3, <1>4 DEF Good

LEMMA PairFinite ==
  ASSUME NEW a, NEW b
  PROVE  IsFiniteSet({a, b})
<1>1. IsFiniteSet({a}) /\ IsFiniteSet({b})
  BY FS_Singleton
<1>2. IsFiniteSet({a} \cup {b})
  BY <1>1, FS_Union
<1>3. {a, b} = {a} \cup {b}
  OBVIOUS
<1> QED
  BY <1>2, <1>3, Zenon

LEMMA LocalGood ==
  ASSUME IInv, NEW r \in Uploads, Local(r)
  PROVE  Good(r)'
<1>0. /\ call \in [Uploads -> Call] /\ call[r] \in Call /\ faults \in Nat
      /\ OwnKeys(r) /\ Locked(r) /\ Accounted(r) /\ Stored(r) /\ Tracked(r)
  BY GoodFacts
<1>f. Fault => faults' # 0
  BY <1>0 DEF Fault
<1>g. Fails(r) => (faults' = 0 => faults = 0 /\ ~call[r].live)
  BY <1>0, <1>f DEF Fails
<1>1. CASE CheckQuota(r)
  <2>1. \/ call' = [call EXCEPT ![r].pc = "put"]
        \/ call' = [call EXCEPT ![r].pc = "failed", ![r].outcome = "quota"]
    BY <1>1 DEF CheckQuota, Goto
  <2>2. /\ \/ call'[r].pc = "put" /\ call'[r].outcome = call[r].outcome
           \/ call'[r].pc = "failed" /\ call'[r].outcome = "quota"
        /\ call'[r].rows = call[r].rows /\ call'[r].keys = call[r].keys
        /\ call'[r].live = call[r].live
    BY <1>0, <2>1 DEF Call
  <2>3. /\ call[r].pc = "check" /\ call[r].outcome = "none" /\ call[r].rows = {}
        /\ UNCHANGED <<ledger, objects, faults>>
    BY <1>0, <1>1 DEF CheckQuota, At, Accounted, Stored, Uncharged
  <2>4. Tracked(r)'
    BY <1>0, <2>2, <2>3 DEF Tracked, Uncharged
  <2> QED
    BY <2>2, <2>3, <2>4, Moved DEF Uncharged
<1>2. CASE CheckQuotaFails(r)
  <2>1. /\ call'[r].pc = "failed" /\ call'[r].outcome = "error"
        /\ call'[r].rows = call[r].rows /\ call'[r].keys = call[r].keys
        /\ call'[r].live = call[r].live
    BY <1>0, <1>2 DEF CheckQuotaFails, Call
  <2>2. /\ call[r].pc = "check" /\ call[r].outcome = "none" /\ call[r].rows = {}
        /\ UNCHANGED <<ledger, objects>>
        /\ faults' = 0 => faults = 0
    BY <1>0, <1>g, <1>2 DEF CheckQuotaFails, At, Accounted, Stored, Uncharged
  <2>3. Tracked(r)'
    BY <1>0, <2>1, <2>2 DEF Tracked, Uncharged
  <2> QED
    BY <2>1, <2>2, <2>3, Moved DEF Uncharged
<1>3. CASE PutImage(r)
  <2>1. call[r].slot \in 1..MaxSlots
    BY <1>0, <1>3, ConstantsOK DEF PutImage, Uploading, Call
  <2>2. PICK K, R \in SUBSET {Image(r, call[r].slot), Thumb(r, call[r].slot)} :
          /\ R \subseteq K
          /\ R \subseteq objects'
          /\ objects \subseteq objects' /\ objects' \subseteq objects \cup K
          /\ faults' = 0 => R = K
          /\ Becomes(r, [call[r] EXCEPT !.keys = call[r].keys \cup K,
                                        !.rows = call[r].rows \cup R,
                                        !.slot = call[r].slot + 1])
    BY <1>3, PutShape DEF IInv
  <2>3. \A k \in K : k.upload = r
    BY <2>1, KeyType
  <2>4. /\ call'[r].pc = "put" /\ call'[r].outcome = "none" /\ call[r].pc = "put"
        /\ call'[r].keys = call[r].keys \cup K /\ call'[r].rows = call[r].rows \cup R
        /\ call'[r].live = call[r].live /\ UNCHANGED ledger
        /\ call[r].outcome = "none"
    BY <1>0, <1>3, <2>2 DEF PutImage, Uploading, At, Becomes, Call, Accounted, Uncharged
  <2>5. IsFiniteSet(call[r].rows \cup R)
    <3>1. IsFiniteSet({Image(r, call[r].slot), Thumb(r, call[r].slot)})
      BY PairFinite
    <3>2. IsFiniteSet(R)
      BY <2>2, <3>1, FS_Subset
    <3>3. IsFiniteSet(call[r].rows)
      BY <1>0 DEF OwnKeys
    <3> QED
      BY <3>2, <3>3, FS_Union
  <2>6. OwnKeys(r)'
    BY <1>0, <2>2, <2>3, <2>4, <2>5 DEF OwnKeys
  <2>7. Locked(r)'
    BY <2>4 DEF Locked
  <2>8. Accounted(r)'
    BY <1>0, <2>4 DEF Accounted, Uncharged
  <2>9. Stored(r)'
    BY <1>0, <2>2, <2>4 DEF Stored
  <2>10. faults' = 0 => faults = 0
    BY <1>f, <1>3 DEF PutImage
  <2>11. Tracked(r)'
    BY <1>0, <2>2, <2>4, <2>10 DEF Tracked, Uncharged
  <2> QED
    BY <2>6, <2>7, <2>8, <2>9, <2>11 DEF Good
<1>4. CASE SkipImage(r)
  <2>1. /\ call'[r].pc = call[r].pc /\ call'[r].outcome = call[r].outcome
        /\ call'[r].rows = call[r].rows /\ call'[r].keys = call[r].keys
        /\ call'[r].live = call[r].live /\ call[r].pc = "put"
        /\ UNCHANGED <<ledger, objects, faults>>
    BY <1>0, <1>4 DEF SkipImage, Uploading, At, Call
  <2>2. call[r].outcome = "none"
    BY <1>0, <2>1 DEF Accounted, Uncharged
  <2>3. Tracked(r)'
    BY <1>0, <2>1 DEF Tracked
  <2> QED
    BY <2>1, <2>2, <2>3, Moved DEF Uncharged
<1>5. CASE Undecodable(r) \/ LockUserFails(r)
  <2>1. /\ call'[r].pc = "undo" /\ call'[r].outcome = "error"
        /\ call'[r].rows = call[r].rows /\ call'[r].keys = call[r].keys
        /\ call'[r].live = call[r].live /\ call[r].pc \in {"put", "append"}
        /\ UNCHANGED <<ledger, objects>>
    BY <1>0, <1>5 DEF Undecodable, LockUserFails, GiveUp, Uploading, At, Call
  <2>2. faults' = 0 => faults = 0
    BY <1>g, <1>5 DEF Undecodable, LockUserFails
  <2>3. Tracked(r)'
    BY <1>0, <2>1, <2>2 DEF Tracked, Uncharged
  <2> QED
    BY <2>1, <2>2, <2>3, Moved DEF Uncharged
<1>6. CASE PutFails(r)
  <2>1. call[r].slot \in 1..MaxSlots
    BY <1>0, <1>6, ConstantsOK DEF PutFails, Uploading, Call
  <2> DEFINE image == Image(r, call[r].slot)
  <2>2. image.upload = r
    BY <2>1, KeyType
  <2>3. /\ call'[r].pc = "undo" /\ call'[r].outcome = "error" /\ call[r].pc = "put"
        /\ call'[r].rows = call[r].rows /\ call'[r].keys = call[r].keys \cup {image}
        /\ call'[r].live = call[r].live
        /\ UNCHANGED ledger
        /\ objects' \in {objects, objects \cup {image}}
    BY <1>0, <1>6 DEF PutFails, Uploading, At, Call
  <2>4. faults' = 0 => faults = 0
    BY <1>g, <1>6 DEF PutFails
  <2>5. call[r].outcome = "none"
    BY <1>0, <2>3 DEF Accounted, Uncharged
  <2> HIDE DEF image
  <2>6. OwnKeys(r)'
    BY <1>0, <2>2, <2>3 DEF OwnKeys
  <2>7. Locked(r)'
    BY <2>3 DEF Locked
  <2>8. Accounted(r)'
    BY <1>0, <2>3, <2>5 DEF Accounted, Uncharged
  <2>9. Stored(r)'
    BY <1>0, <2>3 DEF Stored
  <2>10. Tracked(r)'
    BY <1>0, <2>3, <2>4 DEF Tracked, Uncharged
  <2> QED
    BY <2>6, <2>7, <2>8, <2>9, <2>10 DEF Good
<1>7. CASE Uploaded(r)
  <2>1. /\ call'[r].pc = IF call[r].rows = {} THEN "done" ELSE "append"
        /\ call'[r].outcome = call[r].outcome
        /\ call'[r].rows = call[r].rows /\ call'[r].keys = call[r].keys
        /\ call'[r].live = call[r].live /\ call[r].pc = "put"
        /\ UNCHANGED <<ledger, objects, faults>>
    BY <1>0, <1>7 DEF Uploaded, At, Call
  <2>2. call[r].outcome = "none"
    BY <1>0, <2>1 DEF Accounted, Uncharged
  <2>3. Tracked(r)'
    BY <1>0, <2>1 DEF Tracked, Uncharged
  <2> QED
    BY <2>1, <2>2, <2>3, Moved DEF Uncharged
<1>8. ASSUME NEW k \in call[r].keys, DeleteObject(r, k) \/ DeleteFails(r, k) PROVE Good(r)'
  <2>1. /\ call'[r].pc = "undo" /\ call[r].pc = "undo" /\ call'[r].outcome = call[r].outcome
        /\ call'[r].rows = call[r].rows /\ call'[r].keys = call[r].keys \ {k}
        /\ call'[r].live = call[r].live
        /\ UNCHANGED ledger
    BY <1>0, <1>8 DEF DeleteObject, DeleteFails, Forget, ToDelete, At, Call
  <2>2. \/ objects' = objects \ {k} /\ faults' = faults
        \/ UNCHANGED objects /\ (faults' = 0 => faults = 0 /\ ~call[r].live)
    BY <1>g, <1>8 DEF DeleteObject, DeleteFails
  <2>3. OwnKeys(r)'
    BY <1>0, <2>1 DEF OwnKeys
  <2>4. Locked(r)'
    BY <2>1 DEF Locked
  <2>5. Accounted(r)'
    BY <1>0, <2>1 DEF Accounted, Uncharged
  <2>6. Stored(r)'
    BY <1>0, <2>1 DEF Stored
  <2>7. Tracked(r)'
    BY <1>0, <2>1, <2>2 DEF Tracked, Uncharged
  <2> QED
    BY <2>3, <2>4, <2>5, <2>6, <2>7 DEF Good
<1>9. CASE Undone(r)
  <2>1. /\ call'[r].pc = "failed" /\ call[r].pc = "undo" /\ call'[r].outcome = call[r].outcome
        /\ call'[r].rows = call[r].rows /\ call'[r].keys = call[r].keys /\ call[r].keys = {}
        /\ call'[r].live = call[r].live
        /\ UNCHANGED <<ledger, objects, faults>>
    BY <1>0, <1>9 DEF Undone, Goto, At, Call
  <2>2. call[r].outcome # "charged"
    BY <1>0, <2>1 DEF Stored
  <2>3. Tracked(r)'
    BY <1>0, <2>1 DEF Tracked, Uncharged
  <2> QED
    BY <2>1, <2>2, <2>3, Moved DEF Uncharged
<1>10. CASE Disconnect(r)
  <2>1. /\ call'[r].pc = call[r].pc /\ call'[r].outcome = call[r].outcome
        /\ call'[r].rows = call[r].rows /\ call'[r].keys = call[r].keys
        /\ call'[r].user = call[r].user /\ call'[r].room = call[r].room
        /\ call'[r].live = FALSE
        /\ UNCHANGED <<ledger, objects, faults, lock, quota, used>>
    BY <1>0, <1>10 DEF Disconnect, Call
  <2>2. OwnKeys(r)'
    BY <1>0, <2>1 DEF OwnKeys
  <2>3. Locked(r)'
    BY <1>0, <2>1 DEF Locked
  <2>4. Accounted(r)'
    BY <1>0, <2>1 DEF Accounted
  <2>5. Stored(r)'
    BY <1>0, <2>1 DEF Stored
  <2>6. Tracked(r)'
    BY <1>0, <2>1 DEF Tracked, Uncharged
  <2> QED
    BY <2>2, <2>3, <2>4, <2>5, <2>6 DEF Good
<1>11. ASSUME NEW u \in Users, NEW kind \in Kinds, NEW n \in 1..MaxSlots, Begin(r, u, kind, n)
       PROVE  Good(r)'
  <2>1. /\ call'[r].pc \in {"put", "check"} /\ call[r].pc = "idle"
        /\ call'[r].outcome = call[r].outcome
        /\ call'[r].rows = call[r].rows /\ call'[r].keys = call[r].keys
        /\ call'[r].live = call[r].live
        /\ UNCHANGED <<ledger, objects, faults>>
    BY <1>0, <1>11 DEF Begin, At, Call
  <2>2. call[r].outcome = "none"
    BY <1>0, <2>1 DEF Accounted, Uncharged
  <2>3. Tracked(r)'
    BY <1>0, <2>1 DEF Tracked, Uncharged
  <2> QED
    BY <2>1, <2>2, <2>3, Moved DEF Uncharged
<1> QED
  BY <1>1, <1>2, <1>3, <1>4, <1>5, <1>6, <1>7, <1>8, <1>9, <1>10, <1>11 DEF Local, Undo

-----------------------------------------------------------------------------
(* The charge *)

LEMMA RoomType ==
  ASSUME NEW c \in Call, NEW room \in Int
  PROVE  [c EXCEPT !.pc = "charge", !.room = room] \in Call
BY DEF Call, InProgress

LEMMA LockUserGood ==
  ASSUME IInv, NEW r \in Uploads, LockUser(r)
  PROVE  /\ TypeOK'
         /\ \A q \in Uploads : Good(q)'
         /\ IsFiniteSet(ledger)' /\ UsedIsLedgerSum'
<1>0. /\ call \in [Uploads -> Call] /\ call[r] \in Call /\ faults \in Nat
      /\ OwnKeys(r) /\ Locked(r) /\ Accounted(r) /\ Stored(r) /\ Tracked(r)
  BY GoodFacts
<1> DEFINE u == call[r].user
           c == [call[r] EXCEPT !.pc = "charge", !.room = quota[u] - used[u]]
<1>1. u \in Users /\ quota[u] - used[u] \in Int /\ lock \in [Users -> Uploads \cup {NoUpload}]
  BY <1>0, ConstantsOK DEF IInv, TypeOK, Call
<1>2. c \in Call
  BY <1>0, <1>1, RoomType
<1>3. Becomes(r, c)
  BY DEF LockUser, ReadRoom, Becomes
<1>4. /\ call'[r].pc = "charge" /\ call[r].pc = "append"
      /\ call'[r].outcome = call[r].outcome /\ call'[r].user = u
      /\ call'[r].rows = call[r].rows /\ call'[r].keys = call[r].keys
      /\ call'[r].live = call[r].live /\ call'[r].room = quota[u] - used[u]
      /\ \A q \in Uploads : q # r => call'[q] = call[q]
  BY <1>0 DEF LockUser, ReadRoom, At, Call
<1>5. /\ UNCHANGED <<used, quota, ledger, objects, faults>>
      /\ lock' = [lock EXCEPT ![u] = r] /\ lock[u] = NoUpload
  BY DEF LockUser
<1>6. TypeOK'
  <2> HIDE DEF c, u
  <2>1. lock' \in [Users -> Uploads \cup {NoUpload}]
    BY <1>1, <1>5
  <2> QED
    BY <1>2, <1>3, <1>5, <2>1, CallType DEF IInv, TypeOK
<1>7. Good(r)'
  <2> HIDE DEF c
  <2>1. OwnKeys(r)'
    BY <1>0, <1>4 DEF OwnKeys
  <2>2. Locked(r)'
    BY <1>1, <1>4, <1>5 DEF Locked
  <2>3. Accounted(r)'
    BY <1>0, <1>4, <1>5 DEF Accounted, Uncharged
  <2>4. Stored(r)'
    BY <1>0, <1>4, <1>5 DEF Stored
  <2>5. Tracked(r)'
    BY <1>0, <1>4, <1>5 DEF Tracked, Uncharged
  <2> QED
    BY <2>1, <2>2, <2>3, <2>4, <2>5 DEF Good
<1>8. ASSUME NEW q \in Uploads, q # r PROVE Good(q)'
  <2>1. call[q].pc = "charge" => lock[call[q].user] = q
    BY <1>8, GoodFacts DEF Locked
  <2>2. call[q].pc = "charge" => call[q].user # u
    BY <1>5, <2>1, ConstantsOK
  <2>3. call[q].user \in Users
    BY <1>8, GoodFacts DEF Call
  <2>4. call[q].pc = "charge" => lock'[call[q].user] = lock[call[q].user]
    BY <1>1, <1>5, <2>2, <2>3
  <2>5. /\ call'[q] = call[q]
        /\ ledger' = ledger /\ objects' = objects /\ faults' = faults
        /\ ledger' \in SUBSET Key /\ objects' \in SUBSET Key
        /\ quota' = quota /\ used' = used
    BY <1>4, <1>5, <1>8 DEF IInv, TypeOK
  <2> HIDE DEF c, u
  <2> QED
    BY <2>4, <2>5, <1>8, Untouched
<1>9. UsedIsLedgerSum'
  <2> HIDE DEF c
  <2> QED
    BY <1>4, <1>5, SumKept
<1> QED
  BY <1>5, <1>6, <1>7, <1>8, <1>9 DEF IInv

\* The steps that end the transaction.
Settle(r) == Charge(r) \/ QuotaExceeded(r) \/ ChargeFails(r) \/ CommitUnknown(r)

\* Ending the transaction of r disturbs no other call.
LEMMA SettleOthers ==
  ASSUME IInv, NEW r \in Uploads, Settle(r)
  PROVE  /\ UNCHANGED <<quota, objects>>
         /\ faults' = 0 => faults = 0
         /\ lock' \in [Users -> Uploads \cup {NoUpload}]
         /\ \A q \in Uploads : q # r => call'[q] = call[q]
         /\ \A q \in Uploads : q # r => Good(q)'
<1>0. /\ call \in [Uploads -> Call] /\ call[r] \in Call /\ faults \in Nat
      /\ OwnKeys(r) /\ Locked(r) /\ Accounted(r) /\ Stored(r) /\ Tracked(r)
  BY GoodFacts
<1> DEFINE u == call[r].user
<1>1. u \in Users /\ lock \in [Users -> Uploads \cup {NoUpload}] /\ used \in [Users -> Nat]
      /\ ledger \in SUBSET Key /\ objects \in SUBSET Key
  BY <1>0 DEF IInv, TypeOK, Call
<1>2. lock[u] = r
  BY <1>0 DEF Settle, Charge, QuotaExceeded, ChargeFails, CommitUnknown, At, Locked
<1>3. UNCHANGED <<quota, objects>> /\ lock' = [lock EXCEPT ![u] = NoUpload]
  BY DEF Settle, Charge, QuotaExceeded, ChargeFails, CommitUnknown, Unlock
<1>4. faults' = 0 => faults = 0
  BY <1>0 DEF Settle, Charge, QuotaExceeded, ChargeFails, CommitUnknown, Fails, Fault
<1>5. \A q \in Uploads : q # r => call'[q] = call[q]
  BY <1>0 DEF Settle, Charge, QuotaExceeded, ChargeFails, CommitUnknown, GiveUp
<1>6. \/ UNCHANGED <<used, ledger>>
      \/ /\ ledger' = ledger \cup call[r].rows
         /\ used' = [used EXCEPT ![u] = used[u] + Bytes(call[r].rows)]
  BY DEF Settle, Charge, QuotaExceeded, ChargeFails, CommitUnknown, ApplyCharge
<1>7. call[r].rows \subseteq Key /\ \A k \in call[r].rows : k.upload = r
  BY <1>0 DEF Call, OwnKeys
<1>8. ASSUME NEW q \in Uploads, q # r PROVE Good(q)'
  <2>1. call[q].pc = "charge" => lock[call[q].user] = q
    BY <1>8, GoodFacts DEF Locked
  <2>2. call[q].pc = "charge" => call[q].user # u
    BY <1>2, <1>8, <2>1
  <2>3. call[q].user \in Users
    BY <1>8, GoodFacts DEF Call
  <2> HIDE DEF u
  <2>4. call[q].pc = "charge" => /\ lock'[call[q].user] = lock[call[q].user]
                                 /\ used'[call[q].user] = used[call[q].user]
    BY <1>1, <1>3, <1>6, <2>2, <2>3
  <2>5. /\ ledger' \in SUBSET Key
        /\ \A k \in Key : k.upload = q => (k \in ledger' <=> k \in ledger)
    BY <1>1, <1>6, <1>7, <1>8
  <2> QED
    BY <1>1, <1>3, <1>4, <1>5, <1>8, <2>4, <2>5, Untouched
<1> HIDE DEF u
<1>9. lock' \in [Users -> Uploads \cup {NoUpload}]
  BY <1>1, <1>3
<1> QED
  BY <1>3, <1>4, <1>5, <1>8, <1>9

\* Charging keeps the sum, the types and the finiteness of the ledger.
LEMMA ApplyChargeGood ==
  ASSUME IInv, NEW r \in Uploads, At(r, "charge"), ApplyCharge(r),
         \A q \in Uploads : call'[q].user = call[q].user
  PROVE  /\ used' \in [Users -> Nat]
         /\ ledger' \in SUBSET Key
         /\ IsFiniteSet(ledger)'
         /\ UsedIsLedgerSum'
         /\ Charged(r)' = call[r].rows
<1>0. /\ call[r] \in Call
      /\ OwnKeys(r) /\ Accounted(r)
  BY GoodFacts
<1>1. /\ used \in [Users -> Nat] /\ ledger \in SUBSET Key /\ IsFiniteSet(ledger)
      /\ call[r].user \in Users /\ call[r].rows \subseteq Key /\ IsFiniteSet(call[r].rows)
      /\ \A k \in call[r].rows : k.upload = r
  BY <1>0 DEF IInv, TypeOK, Call, OwnKeys
<1>2. {k \in ledger : k.upload = r} = {}
  BY <1>0 DEF At, Accounted, Uncharged
<1> DEFINE add == Bytes(call[r].rows)
<1>3. add \in Nat
  BY <1>1, BytesType
<1>4. ledger' = ledger \cup call[r].rows
  BY DEF ApplyCharge
<1>5. used' = [used EXCEPT ![call[r].user] = used[call[r].user] + add]
  BY DEF ApplyCharge
<1> HIDE DEF add
<1>6. used' \in [Users -> Nat]
  BY <1>1, <1>3, <1>5
<1>7. IsFiniteSet(ledger')
  BY <1>1, <1>4, FS_Union
<1>8. ASSUME NEW k \in ledger' PROVE Owner(k)' = Owner(k)
  <2>1. k.upload \in Uploads
    BY <1>1, <1>4 DEF Key
  <2> QED
    BY <2>1 DEF Owner
<1>9. \A k \in call[r].rows : Owner(k) = call[r].user
  BY <1>1 DEF Owner
<1>10. ASSUME NEW v \in Users PROVE used'[v] = Bytes({k \in ledger' : Owner(k)' = v})
  <2> DEFINE old == {k \in ledger : Owner(k) = v}
  <2>1. used[v] = Bytes(old)
    BY DEF IInv, UsedIsLedgerSum
  <2>2. CASE v = call[r].user
    <3>1. {k \in ledger' : Owner(k)' = v} = old \cup call[r].rows
      BY <1>4, <1>8, <1>9, <2>2
    <3>2. old \cap call[r].rows = {}
      BY <1>1, <1>2
    <3>3. IsFiniteSet(old)
      BY <1>1, FS_Subset
    <3> HIDE DEF old
    <3>4. Bytes(old \cup call[r].rows) = Bytes(old) + Bytes(call[r].rows)
      BY <1>1, <3>2, <3>3, BytesUnion
    <3>5. used'[v] = used[v] + add
      BY <1>1, <1>5, <2>2
    <3>6. used'[v] = Bytes(old \cup call[r].rows)
      BY <2>1, <3>4, <3>5 DEF add
    <3> QED
      BY <3>1, <3>6, Zenon
  <2>3. CASE v # call[r].user
    <3>1. {k \in ledger' : Owner(k)' = v} = old
      BY <1>4, <1>8, <1>9, <2>3
    <3>2. used'[v] = used[v]
      BY <1>1, <1>5, <2>3
    <3> QED
      BY <2>1, <3>1, <3>2, Zenon
  <2> QED
    BY <2>2, <2>3
<1>11. Charged(r)' = call[r].rows
  BY <1>1, <1>2, <1>4 DEF Charged
<1> QED
  BY <1>1, <1>4, <1>6, <1>7, <1>10, <1>11 DEF UsedIsLedgerSum


LEMMA SettleGood ==
  ASSUME IInv, NEW r \in Uploads, Settle(r)
  PROVE  /\ TypeOK'
         /\ \A q \in Uploads : Good(q)'
         /\ IsFiniteSet(ledger)' /\ UsedIsLedgerSum'
<1>0. /\ call \in [Uploads -> Call] /\ call[r] \in Call /\ faults \in Nat
      /\ OwnKeys(r) /\ Locked(r) /\ Accounted(r) /\ Stored(r) /\ Tracked(r)
  BY GoodFacts
<1>1. /\ UNCHANGED <<quota, objects>>
      /\ faults' = 0 => faults = 0
      /\ lock' \in [Users -> Uploads \cup {NoUpload}]
      /\ \A q \in Uploads : q # r => call'[q] = call[q]
      /\ \A q \in Uploads : q # r => Good(q)'
  BY SettleOthers
<1>2. call[r].pc = "charge" /\ call[r].outcome = "none"
  BY <1>0 DEF Settle, Charge, QuotaExceeded, ChargeFails, CommitUnknown, At, Accounted, Uncharged
<1>3. CASE Charge(r)
  <2> DEFINE c == [call[r] EXCEPT !.pc = "done", !.outcome = "charged", !.keys = {}, !.room = 0]
  <2>1. c \in Call
    BY <1>0, GoType
  <2>2. Becomes(r, c)
    BY <1>3 DEF Charge, Becomes
  <2>3. /\ call'[r].pc = "done" /\ call'[r].outcome = "charged" /\ call'[r].keys = {}
        /\ call'[r].rows = call[r].rows /\ call'[r].user = call[r].user
        /\ UNCHANGED faults
    BY <1>0, <1>3 DEF Charge, Call
  <2> HIDE DEF c
  <2>4. /\ used' \in [Users -> Nat] /\ ledger' \in SUBSET Key
        /\ IsFiniteSet(ledger)' /\ UsedIsLedgerSum' /\ Charged(r)' = call[r].rows
    BY <1>1, <1>3, <2>3, ApplyChargeGood DEF Charge
  <2>5. TypeOK'
    BY <1>1, <2>1, <2>2, <2>3, <2>4, CallType DEF IInv, TypeOK
  <2>6. OwnKeys(r)'
    BY <1>0, <2>3 DEF OwnKeys
  <2>7. Locked(r)'
    BY <2>3 DEF Locked
  <2>8. Accounted(r)'
    BY <2>3, <2>4 DEF Accounted, Uncharged, Charged
  <2>9. Stored(r)'
    BY <1>0, <1>1, <1>2, <2>3 DEF Stored
  <2>10. Tracked(r)'
    BY <1>0, <1>1, <1>2, <2>3 DEF Tracked, Uncharged
  <2>11. Good(r)'
    BY <2>6, <2>7, <2>8, <2>9, <2>10 DEF Good
  <2> QED
    BY <1>1, <2>4, <2>5, <2>11
<1>4. CASE CommitUnknown(r)
  <2> DEFINE c == [call[r] EXCEPT !.pc = "undo", !.outcome = "unknown", !.room = 0]
  <2>1. c \in Call
    BY <1>0, GoType DEF InProgress
  <2>2. Becomes(r, c)
    BY <1>4 DEF CommitUnknown, Becomes
  <2>3. /\ call'[r].pc = "undo" /\ call'[r].outcome = "unknown" /\ call'[r].keys = call[r].keys
        /\ call'[r].rows = call[r].rows /\ call'[r].user = call[r].user
        /\ Fault
    BY <1>0, <1>4 DEF CommitUnknown, Call
  <2> HIDE DEF c
  <2>4. /\ used' \in [Users -> Nat] /\ ledger' \in SUBSET Key
        /\ IsFiniteSet(ledger)' /\ UsedIsLedgerSum' /\ Charged(r)' = call[r].rows
    BY <1>1, <1>4, <2>3, ApplyChargeGood DEF CommitUnknown
  <2>5. TypeOK'
    BY <1>1, <2>1, <2>2, <2>3, <2>4, CallType DEF IInv, TypeOK
  <2>6. OwnKeys(r)'
    BY <1>0, <2>3 DEF OwnKeys
  <2>7. Locked(r)'
    BY <2>3 DEF Locked
  <2>8. Accounted(r)'
    BY <2>3, <2>4 DEF Accounted, Uncharged, Charged
  <2>9. Stored(r)'
    BY <2>3 DEF Stored
  <2>10. Tracked(r)'
    BY <1>0, <2>3 DEF Tracked, Fault
  <2>11. Good(r)'
    BY <2>6, <2>7, <2>8, <2>9, <2>10 DEF Good
  <2> QED
    BY <1>1, <2>4, <2>5, <2>11
<1>5. CASE QuotaExceeded(r) \/ ChargeFails(r)
  <2>1. PICK outcome \in {"quota", "error"} :
          Becomes(r, [call[r] EXCEPT !.pc = "undo", !.outcome = outcome, !.room = 0])
    BY <1>5 DEF QuotaExceeded, ChargeFails, GiveUp, Becomes
  <2> DEFINE c == [call[r] EXCEPT !.pc = "undo", !.outcome = outcome, !.room = 0]
  <2>2. c \in Call
    BY <1>0, GoType DEF InProgress
  <2>3. Becomes(r, c)
    BY <2>1
  <2>4. /\ call'[r].pc = "undo" /\ call'[r].outcome = outcome /\ call'[r].keys = call[r].keys
        /\ call'[r].rows = call[r].rows /\ call'[r].user = call[r].user
        /\ call'[r].live = call[r].live
    BY <1>0, <2>1 DEF Becomes, Call
  <2>5. UNCHANGED <<used, quota, ledger, objects>> /\ (Fails(r) \/ UNCHANGED faults)
    BY <1>5 DEF QuotaExceeded, ChargeFails
  <2> HIDE DEF c
  <2>6. TypeOK'
    BY <1>1, <2>2, <2>3, <2>5, CallType DEF IInv, TypeOK
  <2>7. Tracked(r)'
    BY <1>0, <1>1, <1>2, <2>4, <2>5 DEF Tracked, Uncharged
  <2>8. Good(r)'
    BY <1>1, <1>2, <2>4, <2>5, <2>7, Moved DEF Uncharged
  <2>9. UsedIsLedgerSum'
    BY <1>1, <2>4, <2>5, SumKept
  <2>10. IsFiniteSet(ledger)'
    BY <2>5 DEF IInv
  <2> QED
    BY <1>1, <2>6, <2>8, <2>9, <2>10
<1> QED
  BY <1>3, <1>4, <1>5 DEF Settle
-----------------------------------------------------------------------------
(* The environment *)

LEMMA CrashGood ==
  ASSUME IInv, Crash
  PROVE  /\ TypeOK'
         /\ \A q \in Uploads : Good(q)'
         /\ IsFiniteSet(ledger)' /\ UsedIsLedgerSum'
<1> DEFINE Dead(c) == [c EXCEPT !.pc = "dead", !.slot = 1, !.keys = {}, !.room = 0, !.live = TRUE]
<1>1. ASSUME NEW c \in Call
      PROVE  /\ Dead(c) \in Call
             /\ Dead(c).pc = "dead" /\ Dead(c).keys = {} /\ Dead(c).rows = c.rows
             /\ Dead(c).outcome = c.outcome /\ Dead(c).user = c.user
  <2>1. 1 \in 1..MaxSlots + 1 /\ 0 \in Int /\ {} \in SUBSET Key /\ TRUE \in BOOLEAN
    BY ConstantsOK
  <2>2. Dead(c) \in Call
    BY <2>1 DEF Call
  <2>3. /\ Dead(c).pc = "dead" /\ Dead(c).keys = {} /\ Dead(c).rows = c.rows
        /\ Dead(c).outcome = c.outcome /\ Dead(c).user = c.user
    BY DEF Call
  <2> QED
    BY <2>2, <2>3
<1>2. ASSUME NEW q \in Uploads
      PROVE  /\ call[q] \in Call
             /\ call'[q] = IF call[q].pc \in InProgress THEN Dead(call[q]) ELSE call[q]
  BY GoodFacts DEF Crash
<1>3. call' \in [Uploads -> Call]
  <2>1. \A q \in Uploads : call'[q] \in Call
    <3> HIDE DEF Dead
    <3> QED
      BY <1>1, <1>2
  <2>2. call' = [q \in Uploads |-> call'[q]]
    BY DEF Crash
  <2> QED
    BY <2>1, <2>2
<1>4. /\ UNCHANGED <<used, quota, ledger, objects>>
      /\ lock' \in [Users -> Uploads \cup {NoUpload}]
      /\ faults' # 0 /\ faults' \in 0..MaxFaults
  <2>1. faults' # 0 /\ faults' \in 0..MaxFaults
    <3>1. Fault
      BY DEF Crash
    <3> QED
      BY <3>1, ConstantsOK DEF Fault, IInv, TypeOK
  <2>2. lock' = [u \in Users |-> NoUpload] /\ UNCHANGED <<used, quota, ledger, objects>>
    BY DEF Crash
  <2>3. lock' \in [Users -> Uploads \cup {NoUpload}]
    BY <2>2
  <2> QED
    BY <2>1, <2>2, <2>3
<1>5. TypeOK'
  BY <1>3, <1>4 DEF IInv, TypeOK
<1>6. ASSUME NEW q \in Uploads
      PROVE  Good(q)' /\ call'[q].user = call[q].user
  <2>0. /\ call[q] \in Call
        /\ OwnKeys(q) /\ Locked(q) /\ Accounted(q) /\ Stored(q) /\ Tracked(q)
    BY GoodFacts
  <2>1. CASE call[q].pc \in InProgress
    <3>1. /\ call'[q].pc = "dead" /\ call'[q].keys = {} /\ call'[q].rows = call[q].rows
          /\ call'[q].outcome = call[q].outcome /\ call'[q].user = call[q].user
      <4>1. call[q] \in Call /\ call'[q] = Dead(call[q])
        BY <1>2, <2>1
      <4> HIDE DEF Dead
      <4> QED
        BY <1>1, <4>1
    <3>2. OwnKeys(q)'
      BY <2>0, <3>1 DEF OwnKeys
    <3>3. Locked(q)'
      BY <3>1 DEF Locked
    <3>4. Accounted(q)'
      BY <1>4, <2>0, <3>1 DEF Accounted, Uncharged
    <3>5. Stored(q)'
      BY <2>0, <2>1, <3>1 DEF Stored, InProgress
    <3>6. Tracked(q)'
      BY <1>4 DEF Tracked
    <3> QED
      BY <3>1, <3>2, <3>3, <3>4, <3>5, <3>6 DEF Good
  <2>2. CASE call[q].pc \notin InProgress
    <3>1. call'[q] = call[q] /\ call[q].pc # "charge"
      BY <1>2, <2>2 DEF InProgress
    <3>2. ledger' \in SUBSET Key /\ objects' \in SUBSET Key
      BY <1>5 DEF TypeOK
    <3>3. Good(q)'
      BY <1>4, <3>1, <3>2, Untouched
    <3> QED
      BY <3>1, <3>3
  <2> QED
    BY <2>1, <2>2
<1>7. UsedIsLedgerSum'
  BY <1>4, <1>6, SumKept
<1> QED
  BY <1>4, <1>5, <1>6, <1>7 DEF IInv

LEMMA AdminGood ==
  ASSUME IInv, NEW u \in Users,
         \/ \E q \in Quotas : AdminSetQuota(u, q)
         \/ \E d \in Deltas : AdminAdjustQuota(u, d)
  PROVE  /\ TypeOK'
         /\ \A q \in Uploads : Good(q)'
         /\ IsFiniteSet(ledger)' /\ UsedIsLedgerSum'
<1>1. /\ UNCHANGED <<used, lock, ledger, objects, call, faults>>
      /\ lock[u] = NoUpload
      /\ \A v \in Users : v # u => quota'[v] = quota[v]
  BY DEF AdminSetQuota, AdminAdjustQuota, IInv, TypeOK
<1>2. quota' \in [Users -> 0..MaxInt]
  <2>1. ASSUME NEW q \in Quotas, AdminSetQuota(u, q) PROVE quota' \in [Users -> 0..MaxInt]
    <3>1. q \in 0..MaxInt
      BY <2>1, ConstantsOK DEF AdminSetQuota
    <3> QED
      BY <2>1, <3>1 DEF AdminSetQuota, IInv, TypeOK
  <2> QED
    BY <2>1, AdjustType DEF IInv
<1>3. TypeOK'
  BY <1>1, <1>2 DEF IInv, TypeOK
<1>4. ASSUME NEW q \in Uploads PROVE Good(q)'
  <2>1. call[q] \in Call /\ Locked(q)
    BY GoodFacts
  <2>2. call[q].pc = "charge" => call[q].user \in Users /\ call[q].user # u
    BY <1>1, <2>1, ConstantsOK DEF Locked, Call
  <2>3. ledger' \in SUBSET Key /\ objects' \in SUBSET Key
    BY <1>3 DEF TypeOK
  <2> QED
    BY <1>1, <2>2, <2>3, Untouched
<1>5. UsedIsLedgerSum'
  BY <1>1, SumKept
<1> QED
  BY <1>1, <1>3, <1>4, <1>5 DEF IInv

LEMMA LocalStep ==
  ASSUME IInv, NEW r \in Uploads, Local(r)
  PROVE  /\ TypeOK'
         /\ \A q \in Uploads : Good(q)'
         /\ IsFiniteSet(ledger)' /\ UsedIsLedgerSum'
<1>1. TypeOK'
  BY LocalType DEF IInv
<1>2. /\ UNCHANGED <<used, quota, lock, ledger>>
      /\ \A q \in Uploads : q # r => call'[q] = call[q]
      /\ \A k \in Key : k.upload # r => (k \in objects' <=> k \in objects)
      /\ faults' = 0 => faults = 0
      /\ call'[r].user = call[r].user \/ {k \in ledger : k.upload = r} = {}
  BY LocalFrame
<1>3. ASSUME NEW q \in Uploads, q # r PROVE Good(q)'
  <2>1. ledger' \in SUBSET Key /\ objects' \in SUBSET Key
    BY <1>1 DEF TypeOK
  <2> QED
    BY <1>2, <1>3, <2>1, Untouched
<1>4. Good(r)'
  BY LocalGood
<1>5. UsedIsLedgerSum'
  BY <1>2, SumKept
<1> QED
  BY <1>1, <1>2, <1>3, <1>4, <1>5 DEF IInv
-----------------------------------------------------------------------------
(* The theorems *)

LEMMA InitIInv == Init => IInv
<1> SUFFICES ASSUME Init PROVE IInv
  OBVIOUS
<1>1. TypeOK
  BY InitType
<1>2. IsFiniteSet({})
  BY FS_EmptySet
<1>3. PICK u \in Users :
        call = [r \in Uploads |->
                 [pc |-> "idle", user |-> u, kind |-> "output", n |-> 1, slot |-> 1,
                  keys |-> {}, rows |-> {}, room |-> 0, outcome |-> "none", live |-> TRUE]]
  BY DEF Init
<1>4. ledger = {} /\ objects = {} /\ used = [v \in Users |-> 0]
  BY DEF Init
<1>5. ASSUME NEW r \in Uploads
      PROVE  OwnKeys(r) /\ Locked(r) /\ Accounted(r) /\ Stored(r) /\ Tracked(r)
  <2>1. /\ call[r].pc = "idle" /\ call[r].rows = {} /\ call[r].keys = {}
        /\ call[r].outcome = "none"
    BY <1>3
  <2>2. OwnKeys(r) /\ Locked(r) /\ Stored(r)
    BY <1>2, <2>1 DEF OwnKeys, Locked, Stored
  <2>3. Accounted(r)
    BY <1>4, <2>1 DEF Accounted
  <2>4. Tracked(r)
    BY <1>4, <2>1 DEF Tracked
  <2> QED
    BY <2>2, <2>3, <2>4
<1>6. UsedIsLedgerSum
  <2> SUFFICES ASSUME NEW v \in Users PROVE used[v] = Bytes({k \in ledger : Owner(k) = v})
    BY DEF UsedIsLedgerSum
  <2>1. {k \in ledger : Owner(k) = v} = {}
    BY <1>4
  <2>2. used[v] = 0
    BY <1>4
  <2> QED
    BY <2>1, <2>2, BytesEmpty, Zenon
<1> QED
  BY <1>1, <1>2, <1>4, <1>5, <1>6 DEF IInv

LEMMA StepIInv == IInv /\ [Next]_vars => IInv'
<1> SUFFICES ASSUME IInv, [Next]_vars PROVE IInv'
  OBVIOUS
<1> DEFINE Kept == /\ TypeOK'
                   /\ \A q \in Uploads : Good(q)'
                   /\ IsFiniteSet(ledger)' /\ UsedIsLedgerSum'
<1>1. ASSUME NEW r \in Uploads, Upload(r) \/ Disconnect(r) PROVE Kept
  <2>1. Local(r) \/ LockUser(r) \/ Settle(r)
    BY <1>1 DEF Upload, Append, Local, Settle
  <2> QED
    BY <2>1, LocalStep, LockUserGood, SettleGood
<1>2. ASSUME NEW r \in Uploads, NEW u \in Users, NEW kind \in Kinds, NEW n \in 1..MaxSlots,
             Begin(r, u, kind, n)
      PROVE  Kept
  <2>1. Local(r)
    BY <1>2 DEF Local
  <2> QED
    BY <2>1, LocalStep
<1>3. ASSUME NEW u \in Users, NEW q \in Quotas, AdminSetQuota(u, q) PROVE Kept
  BY <1>3, AdminGood
<1>4. ASSUME NEW u \in Users, NEW d \in Deltas, AdminAdjustQuota(u, d) PROVE Kept
  BY <1>4, AdminGood
<1>5. ASSUME Crash PROVE Kept
  BY <1>5, CrashGood
<1>6. ASSUME UNCHANGED vars PROVE Kept
  <2>1. UNCHANGED <<used, quota, lock, ledger, objects, call, faults>>
    BY <1>6 DEF vars
  <2>2. TypeOK'
    BY <2>1 DEF IInv, TypeOK
  <2>3. ASSUME NEW q \in Uploads PROVE Good(q)'
    <3>1. ledger' \in SUBSET Key /\ objects' \in SUBSET Key
      BY <2>2 DEF TypeOK
    <3> QED
      BY <2>1, <3>1, Untouched
  <2>4. UsedIsLedgerSum'
    BY <2>1, SumKept
  <2> QED
    BY <2>1, <2>2, <2>3, <2>4 DEF IInv
<1>7. Kept
  BY <1>1, <1>2, <1>3, <1>4, <1>5, <1>6 DEF Next
<1> QED
  BY <1>7 DEF IInv, Good


\* Every reachable state satisfies the inductive invariant: a call touches its
\* own keys only, the row lock guards what was read under it, the outcome of a
\* call tells what the ledger holds for it, and used_bytes is the ledger's sum.
THEOREM Inductive == Spec => []IInv
BY InitIInv, StepIInv, PTL DEF Spec

\* The two columns of users, the lock, the ledger, the bucket and every call keep
\* their types; in particular no quota an administrator sets or adjusts leaves
\* 0..MaxInt, whatever the int64 addition wraps to.
THEOREM TypeCorrect == Spec => []TypeOK
<1>1. IInv => TypeOK
  BY DEF IInv
<1> QED
  BY <1>1, Inductive, PTL

\* users.storage_used_bytes is the sum of the user's rows in
\* user_storage_objects, for any number of concurrent uploads, failed statements,
\* lost commits and restarts.
THEOREM SumCorrect == Spec => []UsedIsLedgerSum
<1>1. IInv => UsedIsLedgerSum
  BY DEF IInv
<1> QED
  BY <1>1, Inductive, PTL

\* deleteOSSObjects never deletes an object that is charged, unless the commit
\* had been applied and reported as an error.
THEOREM ChargedStored == Spec => []ChargedIsStored
<1>1. IInv => ChargedIsStored
  <2> SUFFICES ASSUME IInv, NEW k \in ledger,
                      call[k.upload].outcome # "unknown"
               PROVE  k \in objects
    BY DEF ChargedIsStored
  <2>1. k.upload \in Uploads
    BY DEF IInv, TypeOK, Key
  <2>2. Accounted(k.upload) /\ Stored(k.upload)
    BY <2>1 DEF IInv
  <2>3. call[k.upload].outcome = "charged" /\ k \in call[k.upload].rows
    BY <2>2 DEF Accounted
  <2> QED
    BY <2>2, <2>3 DEF Stored
<1> QED
  BY <1>1, Inductive, PTL

\* AppendLedgerAfterUpload charges all the rows of a call or none, and a call it
\* refused is not charged.
THEOREM ChargedWhole == Spec => []AllOrNothing
<1>1. IInv => AllOrNothing
  <2> SUFFICES ASSUME IInv, NEW r \in Uploads, {k \in ledger : k.upload = r} # {}
               PROVE  /\ {k \in ledger : k.upload = r} = call[r].rows
                      /\ call[r].outcome \in {"charged", "unknown"}
    BY DEF AllOrNothing
  <2>1. Accounted(r)
    BY DEF IInv
  <2> QED
    BY <2>1 DEF Accounted
<1> QED
  BY <1>1, Inductive, PTL

\* While no call fails and nobody disconnects, every object in the bucket is
\* charged or belongs to a call in progress.
THEOREM NothingFree == Spec => []NoFreeStorage
<1>1. IInv => NoFreeStorage
  <2> SUFFICES ASSUME IInv, NEW k \in objects,
                      k \notin ledger, call[k.upload].pc \notin InProgress,
                      call[k.upload].live, ~(faults > 0)
               PROVE  FALSE
    BY DEF NoFreeStorage
  <2> DEFINE r == k.upload
  <2>1. r \in Uploads
    BY DEF IInv, TypeOK, Key
  <2>2. call[r] \in Call /\ Accounted(r) /\ Stored(r) /\ Tracked(r)
    BY <2>1, GoodFacts
  <2>3. faults = 0
    BY ConstantsOK DEF IInv, TypeOK
  <2>4. k \in {o \in objects : o.upload = r}
    OBVIOUS
  <2>5. k \notin {o \in ledger : o.upload = r}
    OBVIOUS
  <2>6. call[r].pc \in {"idle", "done", "failed"}
    BY <2>2, <2>3 DEF Call, Tracked
  <2> HIDE DEF r
  <2>7. CASE call[r].pc = "idle"
    BY <2>2, <2>3, <2>4, <2>7 DEF Tracked, Stored, Uncharged
  <2>8. CASE call[r].pc = "failed"
    BY <2>2, <2>3, <2>4, <2>8 DEF Tracked, r
  <2>9. CASE call[r].pc = "done"
    BY <2>2, <2>3, <2>4, <2>5, <2>9 DEF Tracked, Accounted
  <2> QED
    BY <2>6, <2>7, <2>8, <2>9
<1> QED
  BY <1>1, Inductive, PTL

\* No step takes a user's usage above the quota in force: what a call read under
\* the row lock is still the quota and the usage when it commits.
THEOREM NeverOverQuota == Spec => NeverChargedOverQuota
<1> DEFINE Allowed == \A u \in Users : used'[u] > used[u] => used'[u] <= quota[u]
<1>1. IInv /\ [Next]_vars => [Allowed]_vars
  <2> SUFFICES ASSUME IInv, Next PROVE Allowed
    BY DEF vars
  <2>1. ASSUME UNCHANGED used PROVE Allowed
    <3> SUFFICES ASSUME NEW u \in Users PROVE ~(used'[u] > used[u])
      OBVIOUS
    <3>1. used[u] \in Nat /\ used'[u] = used[u]
      BY <2>1 DEF IInv, TypeOK
    <3> QED
      BY <3>1
  <2>2. ASSUME NEW r \in Uploads, Charge(r) \/ CommitUnknown(r) PROVE Allowed
    <3> DEFINE v == call[r].user
               add == Bytes(call[r].rows)
    <3>1. call[r] \in Call /\ Locked(r) /\ OwnKeys(r)
      BY GoodFacts
    <3>2. add \in Nat
      BY <3>1, BytesType DEF OwnKeys
    <3>3. v \in Users /\ used \in [Users -> Nat] /\ quota[v] \in Int
      BY <3>1, ConstantsOK DEF Call, IInv, TypeOK
    <3>4. add <= quota[v] - used[v]
      BY <2>2, <3>1 DEF Charge, CommitUnknown, At, Fits, Locked
    <3>5. used' = [used EXCEPT ![v] = used[v] + add]
      BY <2>2 DEF Charge, CommitUnknown, ApplyCharge
    <3> HIDE DEF v, add
    <3> SUFFICES ASSUME NEW u \in Users, used'[u] > used[u] PROVE used'[u] <= quota[u]
      OBVIOUS
    <3>6. u = v
      BY <3>3, <3>5
    <3> QED
      BY <3>2, <3>3, <3>4, <3>5, <3>6
  <2>3. ASSUME NEW r \in Uploads, Upload(r) \/ Disconnect(r) PROVE Allowed
    <3>1. CASE Local(r)
      BY <2>1, <3>1, LocalFrame
    <3>2. CASE LockUser(r) \/ QuotaExceeded(r) \/ ChargeFails(r)
      BY <2>1, <3>2 DEF LockUser, QuotaExceeded, ChargeFails
    <3> QED
      BY <2>2, <2>3, <3>1, <3>2 DEF Upload, Append, Local
  <2>4. ASSUME NEW r \in Uploads, NEW u \in Users, NEW kind \in Kinds, NEW n \in 1..MaxSlots,
               Begin(r, u, kind, n)
        PROVE  Allowed
    BY <2>1, <2>4 DEF Begin
  <2>5. ASSUME NEW u \in Users, NEW q \in Quotas, AdminSetQuota(u, q) PROVE Allowed
    BY <2>1, <2>5 DEF AdminSetQuota
  <2>6. ASSUME NEW u \in Users, NEW d \in Deltas, AdminAdjustQuota(u, d) PROVE Allowed
    BY <2>1, <2>6 DEF AdminAdjustQuota
  <2>7. ASSUME Crash PROVE Allowed
    BY <2>1, <2>7 DEF Crash
  <2> QED
    BY <2>3, <2>4, <2>5, <2>6, <2>7 DEF Next
<1> QED
  BY <1>1, Inductive, PTL DEF Spec, NeverChargedOverQuota

-----------------------------------------------------------------------------
(* StorageQuota implements UsageSpec: the transaction of an upload is one   *)
(* step of the account, and every other step leaves the account alone.      *)

LEMMA SameBill ==
  ASSUME UNCHANGED ledger
  PROVE  Bill' = Bill
BY DEF Bill

LEMMA ChargeRefines ==
  ASSUME IInv, NEW r \in Uploads, Charge(r) \/ CommitUnknown(r)
  PROVE  [Account!Next]_(Account!vars)
<1> DEFINE v == call[r].user
           rows == call[r].rows
           add == Bytes(rows)
           held(q) == {k \in ledger : k.upload = q}
<1>1. call[r] \in Call /\ Locked(r) /\ OwnKeys(r) /\ Accounted(r) /\ At(r, "charge")
  BY GoodFacts DEF Charge, CommitUnknown
<1>2. add \in Nat
  BY <1>1, BytesType DEF OwnKeys
<1>3. v \in Users /\ used \in [Users -> Nat] /\ quota[v] \in Int
  BY <1>1, ConstantsOK DEF Call, IInv, TypeOK
<1>4. add <= quota[v] - used[v]
  BY <1>1 DEF Charge, CommitUnknown, At, Fits, Locked
<1>5. used' = [used EXCEPT ![v] = used[v] + add] /\ ledger' = ledger \cup rows /\ quota' = quota
  BY DEF Charge, CommitUnknown, ApplyCharge
<1>6. held(r) = {}
  BY <1>1 DEF Accounted, At, Uncharged
<1>7. \A k \in rows : k.upload = r
  BY <1>1 DEF OwnKeys
<1>8. {k \in ledger' : k.upload = r} = rows
  BY <1>5, <1>6, <1>7
<1>9. ASSUME NEW q \in Uploads, q # r
      PROVE  {k \in ledger' : k.upload = q} = held(q)
  BY <1>5, <1>7, <1>9
<1>10. Bill[r] = 0
  BY <1>6, BytesEmpty DEF Bill
<1>11. Bill' = [Bill EXCEPT ![r] = add]
  <2>1. \A q \in Uploads : Bytes({k \in ledger' : k.upload = q}) = IF q = r THEN add ELSE Bill[q]
    BY <1>8, <1>9 DEF Bill
  <2> HIDE DEF add
  <2>2. Bill' = [q \in Uploads |-> Bytes({k \in ledger' : k.upload = q})]
    BY DEF Bill, Bytes, Parts
  <2>3. Bill' = [q \in Uploads |-> IF q = r THEN add ELSE Bill[q]]
    BY <2>1, <2>2
  <2> QED
    BY <2>3 DEF Bill
<1> HIDE DEF v, rows, add, held
<1>12. CASE add = 0
  <2>1. used' = used
    BY <1>3, <1>5, <1>12
  <2>2. Bill' = Bill
    BY <1>10, <1>11, <1>12 DEF Bill
  <2> QED
    BY <1>5, <2>1, <2>2 DEF Account!vars
<1>13. CASE add # 0
  <2>1. add \in 1..quota[v] - used[v]
    BY <1>2, <1>3, <1>4, <1>13
  <2>2. Account!Charge(r, v)
    BY <1>5, <1>10, <1>11, <2>1 DEF Account!Charge
  <2> QED
    BY <1>3, <2>2 DEF Account!Next
<1> QED
  BY <1>12, <1>13

LEMMA QuotaRefines ==
  ASSUME IInv, IInv', NEW u \in Users, UNCHANGED <<used, ledger>>,
         NEW q, quota' = [quota EXCEPT ![u] = q]
  PROVE  Account!Next
<1>1. quota' \in [Users -> 0..MaxInt] /\ quota \in [Users -> 0..MaxInt]
  BY DEF IInv, TypeOK
<1>2. q \in 0..MaxInt
  BY <1>1
<1>3. Account!SetQuota(u)
  BY <1>2, SameBill DEF Account!SetQuota
<1> QED
  BY <1>3 DEF Account!Next

LEMMA StepRefines ==
  ASSUME IInv, [Next]_vars
  PROVE  [Account!Next]_(Account!vars)
<1>0. IInv'
  BY StepIInv
<1>1. CASE UNCHANGED <<used, quota, ledger>>
  BY <1>1, SameBill DEF Account!vars
<1>2. ASSUME NEW r \in Uploads, Upload(r) \/ Disconnect(r)
      PROVE  [Account!Next]_(Account!vars)
  <2>1. CASE Local(r)
    BY <1>1, <2>1, LocalFrame
  <2>2. CASE LockUser(r) \/ QuotaExceeded(r) \/ ChargeFails(r)
    BY <1>1, <2>2 DEF LockUser, QuotaExceeded, ChargeFails
  <2> QED
    BY <1>2, <2>1, <2>2, ChargeRefines DEF Upload, Append, Local
<1>3. ASSUME NEW u \in Users, NEW q \in Quotas, AdminSetQuota(u, q) PROVE Account!Next
  BY <1>0, <1>3, QuotaRefines DEF AdminSetQuota
<1>4. ASSUME NEW u \in Users, NEW d \in Deltas, AdminAdjustQuota(u, d) PROVE Account!Next
  BY <1>0, <1>4, QuotaRefines DEF AdminAdjustQuota
<1>5. ASSUME NEW r \in Uploads, NEW u \in Users, NEW kind \in Kinds, NEW n \in 1..MaxSlots,
             Begin(r, u, kind, n)
      PROVE  [Account!Next]_(Account!vars)
  BY <1>1, <1>5 DEF Begin
<1>6. Crash => UNCHANGED <<used, quota, ledger>>
  BY DEF Crash
<1> QED
  BY <1>1, <1>2, <1>3, <1>4, <1>5, <1>6 DEF Next, vars

\* Seen through the usage, the quota and the ledger of MySQL, concurrent uploads with their
\* stale checks, locks, failures, lost answers and restarts are an account that is charged for
\* an upload in one step, once, and within its quota (AppendLedgerAfterUpload).
THEOREM ChargesOnce == Spec => ChargesAreAtomic
<1>1. Init => Account!Init
  <2> SUFFICES ASSUME Init PROVE Account!Init
    OBVIOUS
  <2>1. \A r \in Uploads : {k \in ledger : k.upload = r} = {}
    BY DEF Init
  <2>2. Bill = [r \in Uploads |-> 0]
    BY <2>1, BytesEmpty DEF Bill
  <2> QED
    BY <2>2 DEF Init, Account!Init
<1>2. IInv /\ [Next]_vars => [Account!Next]_(Account!vars)
  BY StepRefines
<1> QED
  BY <1>1, <1>2, Inductive, PTL DEF Spec, ChargesAreAtomic, Account!Spec

-----------------------------------------------------------------------------
(* Locks and progress: the safe part of UploadsEnd *)

\* Who holds the lock of a user is in the transaction that took it.
LockIsInUse ==
  \A u \in Users : lock[u] # NoUpload => At(lock[u], "charge") /\ call[lock[u]].user = u

LEMMA LocalInCharge ==
  ASSUME IInv, NEW r \in Uploads, Local(r), At(r, "charge")
  PROVE  call'[r].pc = "charge" /\ call'[r].user = call[r].user
<1>1. Disconnect(r)
  BY DEF Local, At, CheckQuota, CheckQuotaFails, PutImage, SkipImage, Undecodable, PutFails,
         Uploading, Uploaded, Undo, DeleteObject, DeleteFails, ToDelete, Undone, LockUserFails, Begin
<1> QED
  BY <1>1, GoodFacts DEF Disconnect, At, Call

LEMMA LockStep ==
  ASSUME IInv, LockIsInUse, [Next]_vars
  PROVE  LockIsInUse'
<1>0. lock \in [Users -> Uploads \cup {NoUpload}] /\ NoUpload \notin Uploads
      /\ call \in [Uploads -> Call]
  BY ConstantsOK DEF IInv, TypeOK
<1>1. ASSUME UNCHANGED <<lock, call>> PROVE LockIsInUse'
  BY <1>1 DEF LockIsInUse, At
<1>2. ASSUME NEW r \in Uploads, Local(r) PROVE LockIsInUse'
  <2> SUFFICES ASSUME NEW u \in Users, lock'[u] # NoUpload
               PROVE  call'[lock'[u]].pc = "charge" /\ call'[lock'[u]].user = u
    BY DEF LockIsInUse, At
  <2>1. lock' = lock /\ \A q \in Uploads : q # r => call'[q] = call[q]
    BY <1>2, LocalFrame
  <2>2. lock[u] \in Uploads /\ At(lock[u], "charge") /\ call[lock[u]].user = u
    BY <1>0, <2>1 DEF LockIsInUse
  <2> QED
    BY <1>2, <2>1, <2>2, LocalInCharge DEF At
<1>3. ASSUME NEW r \in Uploads, LockUser(r) PROVE LockIsInUse'
  <2> SUFFICES ASSUME NEW u \in Users, lock'[u] # NoUpload
               PROVE  call'[lock'[u]].pc = "charge" /\ call'[lock'[u]].user = u
    BY DEF LockIsInUse, At
  <2>1. lock' = [lock EXCEPT ![call[r].user] = r] /\ At(r, "append")
    BY <1>3 DEF LockUser
  <2>2. /\ call'[r].pc = "charge" /\ call'[r].user = call[r].user
        /\ \A q \in Uploads : q # r => call'[q] = call[q]
    BY <1>0, <1>3 DEF LockUser, ReadRoom, Call
  <2>3. CASE u = call[r].user
    BY <1>0, <2>1, <2>2, <2>3 DEF At
  <2>4. CASE u # call[r].user
    <3>1. lock'[u] = lock[u] /\ lock[u] \in Uploads
      BY <1>0, <2>1, <2>4
    <3>2. At(lock[u], "charge") /\ call[lock[u]].user = u /\ lock[u] # r
      BY <2>1, <3>1 DEF LockIsInUse, At
    <3> QED
      BY <2>2, <3>1, <3>2 DEF At
  <2> QED
    BY <2>3, <2>4
<1>4. ASSUME NEW r \in Uploads, Settle(r) PROVE LockIsInUse'
  <2> SUFFICES ASSUME NEW u \in Users, lock'[u] # NoUpload
               PROVE  call'[lock'[u]].pc = "charge" /\ call'[lock'[u]].user = u
    BY DEF LockIsInUse, At
  <2>1. lock' = [lock EXCEPT ![call[r].user] = NoUpload]
    BY <1>4 DEF Settle, Charge, QuotaExceeded, ChargeFails, CommitUnknown, Unlock
  <2>2. \A q \in Uploads : q # r => call'[q] = call[q]
    BY <1>4, SettleOthers
  <2>3. u # call[r].user /\ lock'[u] = lock[u] /\ lock[u] \in Uploads
    BY <1>0, <2>1
  <2>4. At(lock[u], "charge") /\ call[lock[u]].user = u
    BY <1>0, <2>3 DEF LockIsInUse
  <2> QED
    BY <2>2, <2>3, <2>4 DEF At
<1>5. ASSUME Crash PROVE LockIsInUse'
  BY <1>5 DEF Crash, LockIsInUse
<1>6. ASSUME NEW u \in Users, NEW x, AdminSetQuota(u, x) \/ AdminAdjustQuota(u, x)
      PROVE  UNCHANGED <<lock, call>>
  BY <1>6 DEF AdminSetQuota, AdminAdjustQuota
<1>7. ASSUME NEW r \in Uploads, Upload(r) \/ Disconnect(r) PROVE LockIsInUse'
  <2>1. Local(r) \/ LockUser(r) \/ Settle(r)
    BY <1>7 DEF Upload, Append, Local, Settle
  <2> QED
    BY <1>2, <1>3, <1>4, <2>1
<1>8. ASSUME NEW r \in Uploads, NEW u \in Users, NEW kind \in Kinds, NEW n \in 1..MaxSlots,
             Begin(r, u, kind, n)
      PROVE  LockIsInUse'
  <2>1. Local(r)
    BY <1>8 DEF Local
  <2> QED
    BY <1>2, <2>1
<1> QED
  BY <1>1, <1>5, <1>6, <1>7, <1>8 DEF Next, vars

\* No row lock is left behind: its holder is an upload that is still in its transaction, and
\* of that very user, whatever failed, was cancelled or restarted (`defer tx.Rollback()` in
\* AppendLedgerAfterUpload).
THEOREM NoLockIsLeft == Spec => []LockIsInUse
<1>1. Init => LockIsInUse
  BY DEF Init, LockIsInUse
<1>2. IInv /\ LockIsInUse /\ [Next]_vars => LockIsInUse'
  BY LockStep
<1> QED
  BY <1>1, <1>2, Inductive, PTL DEF Spec

\* The order of the steps of an upload; the three ends are all the same here.
Stage == [idle |-> 0, check |-> 1, put |-> 2, append |-> 3, charge |-> 4, undo |-> 5,
          done |-> 6, failed |-> 6, dead |-> 6]

\* A later step, the next image of those to put, or one object less to delete.
Onward(r) ==
  \/ Stage[call'[r].pc] > Stage[call[r].pc]
  \/ At(r, "put") /\ call'[r].pc = "put" /\ call'[r].slot > call[r].slot
  \/ /\ At(r, "undo") /\ call'[r].pc = "undo"
     /\ call'[r].keys \subseteq call[r].keys /\ call'[r].keys # call[r].keys

HangsUp(r) ==
  /\ call[r].pc \in InProgress /\ call[r].live
  /\ call'[r] = [call[r] EXCEPT !.live = FALSE]

\* Whatever happens to an upload takes it forward, but for its client's leaving, which it
\* notices once; and what has ended stays ended.
UploadGoesForward ==
  [][\A r \in Uploads : call'[r] # call[r] => Onward(r) \/ HangsUp(r)]_vars

LEMMA LaterStage ==
  ASSUME NEW r \in Uploads, call[r].pc \in DOMAIN Stage, call'[r].pc \in DOMAIN Stage,
         Stage[call'[r].pc] > Stage[call[r].pc]
  PROVE  Onward(r)
BY DEF Onward

LEMMA LocalOnward ==
  ASSUME IInv, NEW r \in Uploads, Local(r)
  PROVE  Onward(r) \/ HangsUp(r)
<1>0. /\ call \in [Uploads -> Call] /\ call[r] \in Call /\ OwnKeys(r)
      /\ call[r].slot \in Nat
  BY GoodFacts, ConstantsOK DEF Call
<1>1. CASE CheckQuota(r) \/ CheckQuotaFails(r)
  <2>1. At(r, "check") /\ call'[r].pc \in {"put", "failed"}
    BY <1>0, <1>1 DEF CheckQuota, CheckQuotaFails, Goto, Call
  <2> QED
    BY <2>1, LaterStage DEF At, Stage
<1>2. CASE PutImage(r) \/ SkipImage(r)
  <2>1. At(r, "put") /\ call'[r].pc = "put" /\ call'[r].slot = call[r].slot + 1
    BY <1>0, <1>2 DEF PutImage, SkipImage, Uploading, At, Call
  <2> QED
    BY <1>0, <2>1 DEF Onward
<1>3. CASE Undecodable(r) \/ PutFails(r) \/ LockUserFails(r)
  <2>1. call[r].pc \in {"put", "append"} /\ call'[r].pc = "undo"
    BY <1>0, <1>3 DEF Undecodable, PutFails, LockUserFails, GiveUp, Uploading, At, Call
  <2> QED
    BY <2>1, LaterStage DEF Stage
<1>4. CASE Uploaded(r)
  <2>1. At(r, "put") /\ call'[r].pc \in {"done", "append"}
    BY <1>0, <1>4 DEF Uploaded, Call
  <2> QED
    BY <2>1, LaterStage DEF At, Stage
<1>5. ASSUME NEW k \in call[r].keys, DeleteObject(r, k) \/ DeleteFails(r, k)
      PROVE  Onward(r)
  <2>1. At(r, "undo") /\ call'[r].pc = "undo" /\ call'[r].keys = call[r].keys \ {k}
    BY <1>0, <1>5 DEF DeleteObject, DeleteFails, Forget, ToDelete, At, Call
  <2> QED
    BY <2>1 DEF Onward
<1>6. CASE Undone(r)
  <2>1. At(r, "undo") /\ call'[r].pc = "failed"
    BY <1>0, <1>6 DEF Undone, Goto, Call
  <2> QED
    BY <2>1, LaterStage DEF At, Stage
<1>7. CASE Disconnect(r)
  BY <1>0, <1>7 DEF Disconnect, HangsUp
<1>8. ASSUME NEW u \in Users, NEW kind \in Kinds, NEW n \in 1..MaxSlots, Begin(r, u, kind, n)
      PROVE  Onward(r)
  <2>1. At(r, "idle") /\ call'[r].pc \in {"put", "check"}
    BY <1>0, <1>8 DEF Begin, Call
  <2> QED
    BY <2>1, LaterStage DEF At, Stage
<1> QED
  BY <1>1, <1>2, <1>3, <1>4, <1>5, <1>6, <1>7, <1>8 DEF Local, Undo

LEMMA TransactionOnward ==
  ASSUME IInv, NEW r \in Uploads, LockUser(r) \/ Settle(r)
  PROVE  Onward(r) /\ \A q \in Uploads : q # r => call'[q] = call[q]
<1>0. call \in [Uploads -> Call] /\ call[r] \in Call
  BY GoodFacts
<1>1. CASE LockUser(r)
  <2>1. At(r, "append") /\ call'[r].pc = "charge" /\ \A q \in Uploads : q # r => call'[q] = call[q]
    BY <1>0, <1>1 DEF LockUser, ReadRoom, Call
  <2> QED
    BY <2>1, LaterStage DEF At, Stage
<1>2. CASE Settle(r)
  <2>1. At(r, "charge") /\ call'[r].pc \in {"done", "undo"}
    BY <1>0, <1>2 DEF Settle, Charge, QuotaExceeded, ChargeFails, CommitUnknown, GiveUp, Call
  <2> QED
    BY <1>2, <2>1, LaterStage, SettleOthers DEF At, Stage
<1> QED
  BY <1>1, <1>2

LEMMA CrashOnward ==
  ASSUME IInv, Crash, NEW r \in Uploads, call'[r] # call[r]
  PROVE  Onward(r)
<1>1. call[r] \in Call
  BY GoodFacts
<1>2. call[r].pc \in InProgress /\ call'[r].pc = "dead"
  BY <1>1 DEF Crash, Call
<1> QED
  BY <1>2, LaterStage DEF InProgress, Stage

\* An upload never goes back, and nothing happens to it after its end: with the row locks in
\* use and finitely many images and objects, the finite measure behind UploadsEnd
\* (uploadReferenceImagesToOSS, materializeJobOutputsOSS, AppendLedgerAfterUpload).
THEOREM UploadsGoForward == Spec => UploadGoesForward
<1> DEFINE Step == \A r \in Uploads : call'[r] # call[r] => Onward(r) \/ HangsUp(r)
<1>1. ASSUME IInv, Next
      PROVE  Step
  <2> SUFFICES ASSUME NEW q \in Uploads, call'[q] # call[q]
               PROVE  Onward(q) \/ HangsUp(q)
    OBVIOUS
  <2>1. ASSUME NEW r \in Uploads, Local(r) \/ LockUser(r) \/ Settle(r)
        PROVE  Onward(q) \/ HangsUp(q)
    <3>1. q = r
      BY <1>1, <2>1, LocalFrame, TransactionOnward
    <3> QED
      BY <1>1, <2>1, <3>1, LocalOnward, TransactionOnward
  <2>2. CASE \E r \in Uploads : Upload(r) \/ Disconnect(r)
    BY <2>1, <2>2 DEF Upload, Append, Local, Settle
  <2>3. CASE \E r \in Uploads, u \in Users, kind \in Kinds, n \in 1..MaxSlots : Begin(r, u, kind, n)
    BY <2>1, <2>3 DEF Local
  <2>4. CASE \/ \E u \in Users, x \in Quotas : AdminSetQuota(u, x)
             \/ \E u \in Users, d \in Deltas : AdminAdjustQuota(u, d)
    BY <2>4 DEF AdminSetQuota, AdminAdjustQuota
  <2>5. CASE Crash
    BY <1>1, <2>5, CrashOnward
  <2> QED
    BY <1>1, <2>2, <2>3, <2>4, <2>5 DEF Next
<1>2. IInv /\ [Next]_vars => [Step]_vars
  BY <1>1
<1> QED
  BY <1>2, Inductive, PTL DEF Spec, UploadGoesForward
=============================================================================
