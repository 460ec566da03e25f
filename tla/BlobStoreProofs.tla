-------------------------- MODULE BlobStoreProofs --------------------------
(***************************************************************************)
(* For any number of contents, names, sessions and sweeps: bytes are never *)
(* removed while a row for them exists or is about to.  The argument is    *)
(* the digest's advisory lock.  An upload holds it shared from before it   *)
(* claims a row until it ends (Guarded), a sweep removes bytes only while  *)
(* it holds it alone and has seen no row (Unpromised), so a row that is    *)
(* written later belongs to an upload that took the lock after the sweep   *)
(* let go of it, and that upload put the bytes back before it wrote.       *)
(*                                                                         *)
(* No item refers to a blob row that is gone, nor does an upload lose the  *)
(* row it claimed: that is the row lock, in the second part.  The third    *)
(* puts both together: an item reads back as the bytes last uploaded       *)
(* under it, which is all ContentStore says.                               *)
(***************************************************************************)
EXTENDS BlobStore, TLAPS

\* The states in which an upload has a content, those in which it still has a
\* try left, and those in which it holds the content's lock and its bytes.
HasDigest == {"staged", "locked", "missed", "claimed", "published", "looked", "referred"}
HasTries == {"staged", "locked"}
Unlocked == {"idle", "staged"}
HasBytes == {"published", "looked", "referred", "collected"}
Holding == {"holding", "removing"}

\* A delete has claimed no row, and a session that wrote a new one knows its
\* content and the row's id.
WellFormed(t) ==
    /\ t.state \in HasDigest => t.digest # None
    /\ t.state \in HasTries => t.tries # 0
    /\ t.state \in Claimed => t.id # 0
    /\ t.state \in {"loaded", "deleted"} => t.id = 0
    /\ t.inserted => t.digest # None /\ t.id # 0 /\ t.state \notin Unlocked

Uploads == \A p \in Requests : WellFormed(tx[p])

\* A sweep has a digest exactly while it holds that digest's lock, and no
\* upload shares it then.
Guarded ==
    \A w \in Sweepers :
        /\ sweep[w].state \in Holding <=> sweep[w].digest # None
        /\ \A p \in Requests :
              sweep[w].digest # None => ~Shares(p, sweep[w].digest)

\* What a sweep is about to remove has no row.
Unpromised ==
    \A w \in Sweepers : sweep[w].state = "removing" => row[sweep[w].digest] = 0

IInv ==
    /\ TypeOK
    /\ Uploads
    /\ Guarded
    /\ Unpromised
    /\ PublishedStays
    /\ RowsHaveBytes

-----------------------------------------------------------------------------
(* One session's step.  It keeps the invariant if its record stays well     *)
(* formed, if it comes to share a digest's lock only when no sweep holds    *)
(* it, and if the bytes it relies on are on the disk.                       *)
LEMMA SessionStep ==
  ASSUME IInv, NEW p \in Requests, NEW t \in Tx, WellFormed(t),
         tx' = [tx EXCEPT ![p] = t],
         UNCHANGED <<row, item, sweep>>,
         lastId' \in 0..MaxRows, disk \subseteq disk', disk' \subseteq Digests,
         \/ t.state \in Unlocked
         \/ t.digest = tx[p].digest /\ tx[p].state \notin Unlocked
         \/ \A w \in Sweepers : sweep[w].digest # None => sweep[w].digest # t.digest,
         t.id # 0 /\ t.state \in HasBytes => t.digest \in disk'
  PROVE  IInv'
<1> USE DEF IInv
<1>1. \A q \in Requests : tx'[q] = IF q = p THEN t ELSE tx[q]
  BY DEF TypeOK
<1>2. Uploads'
  BY <1>1 DEF Uploads
<1>3. TypeOK'
  <2>1. tx' \in [Requests -> Tx]
    BY DEF TypeOK
  <2>2. \A q \in Requests : tx'[q].state \in Claimed => tx'[q].id # 0
    BY <1>2 DEF Uploads, WellFormed
  <2>3. QED BY <2>1, <2>2 DEF TypeOK
<1>4. Guarded'
  <2>1. \A q \in Requests, w \in Sweepers :
           sweep[w].digest # None => ~Shares(q, sweep[w].digest)'
    BY <1>1 DEF Guarded, Shares, Unlocked
  <2>2. QED BY <2>1 DEF Guarded, Shares
<1>5. Unpromised'
  BY DEF Unpromised
<1>6. PublishedStays'
  BY <1>1 DEF PublishedStays, HasBytes
<1>7. RowsHaveBytes'
  BY DEF RowsHaveBytes
<1>8. QED BY <1>2, <1>3, <1>4, <1>5, <1>6, <1>7

LEMMA IdleIsWellFormed == Idle \in Tx /\ WellFormed(Idle) /\ Idle.state \in Unlocked
                          /\ Idle.id = 0
  BY BlobConstants DEF Idle, Tx, TxState, WellFormed, HasDigest, HasTries, Claimed, Unlocked,
     Attempts

LEMMA InitIInv == Init => IInv
<1> SUFFICES ASSUME Init PROVE IInv
  OBVIOUS
<1>1. /\ \A p \in Requests : tx[p] = Idle
      /\ \A w \in Sweepers : sweep[w] = Resting
  BY DEF Init
<1>2. Resting \in SweepRec
  BY DEF Resting, SweepRec
<1>3. TypeOK
  <2>1. \A p \in Requests : tx[p].state \in Claimed => tx[p].id # 0
    BY <1>1 DEF Idle, Claimed
  <2>2. row \in [Digests -> 0..MaxRows] /\ item \in [Items -> 0..MaxRows]
    BY BlobConstants DEF Init
  <2>3. disk \in SUBSET Digests /\ lastId \in 0..MaxRows
    BY BlobConstants DEF Init
  <2>4. tx \in [Requests -> Tx] /\ sweep \in [Sweepers -> SweepRec]
    BY IdleIsWellFormed, <1>2 DEF Init
  <2>5. QED BY <2>1, <2>2, <2>3, <2>4 DEF TypeOK
<1>4. Uploads
  BY <1>1, IdleIsWellFormed DEF Uploads
<1>5. Guarded /\ Unpromised
  BY <1>1 DEF Guarded, Unpromised, Resting, Holding
<1>6. PublishedStays /\ RowsHaveBytes
  BY <1>1 DEF Init, PublishedStays, RowsHaveBytes, Idle
<1>7. QED BY <1>3, <1>4, <1>5, <1>6 DEF IInv

LEMMA StagePreserves ==
  ASSUME IInv, NEW p \in Requests, NEW i \in Items, NEW d \in Digests, Stage(p, i, d)
  PROVE  IInv'
<1> DEFINE t == [Idle EXCEPT !.state = "staged", !.digest = d, !.file = TRUE,
                             !.writes = {i}, !.tries = Attempts]
<1>0. {i} \in SUBSET Items /\ Attempts \in 0..Attempts
  BY DEF Attempts
<1>1. t \in Tx
  BY <1>0, IdleIsWellFormed DEF Tx, TxState
<1>2. WellFormed(t)
  BY BlobConstants DEF Idle, WellFormed, HasDigest, HasTries, Claimed, Attempts
<1>3. t.state \in Unlocked /\ t.state \notin HasBytes
  BY DEF Idle, Unlocked, HasBytes
<1>4. tx' = [tx EXCEPT ![p] = t] /\ UNCHANGED <<row, item, disk, lastId, sweep>>
  BY DEF Stage
<1> HIDE DEF t
<1>5. QED BY <1>1, <1>2, <1>3, <1>4, SessionStep DEF IInv, TypeOK

LEMMA LockDigestPreserves ==
  ASSUME IInv, NEW p \in Requests, LockDigest(p)
  PROVE  IInv'
<1> DEFINE t == [tx[p] EXCEPT !.state = "locked"]
<1>0. tx[p] \in Tx /\ WellFormed(tx[p])
  BY DEF IInv, TypeOK, Uploads
<1>1. t \in Tx
  BY <1>0 DEF LockDigest, Tx, TxState
<1>2. WellFormed(t)
  BY <1>0 DEF LockDigest, Tx, WellFormed, HasDigest, HasTries, Claimed, Unlocked
<1>3. /\ t.state \notin HasBytes
      /\ \A w \in Sweepers : sweep[w].digest # t.digest
  BY <1>0 DEF LockDigest, Tx, HasBytes, Sweeping
<1>4. tx' = [tx EXCEPT ![p] = t] /\ UNCHANGED <<row, item, disk, lastId, sweep>>
  BY DEF LockDigest
<1> HIDE DEF t
<1>5. QED BY <1>1, <1>2, <1>3, <1>4, SessionStep DEF IInv, TypeOK

LEMMA LookPreserves ==
  ASSUME IInv, NEW p \in Requests, Look(p)
  PROVE  IInv'
<1> DEFINE t == [tx[p] EXCEPT !.state = "looked",
                             !.old = {item[i] : i \in tx[p].writes} \ {0}]
<1>0. tx[p] \in Tx /\ WellFormed(tx[p])
  BY DEF IInv, TypeOK, Uploads
<1>1. t \in Tx
  <2>1. tx[p].writes \subseteq Items
    BY <1>0 DEF Tx
  <2>2. \A i \in Items : item[i] \in 0..MaxRows
    BY DEF IInv, TypeOK
  <2>3. {item[i] : i \in tx[p].writes} \ {0} \in SUBSET Ids
    BY <2>1, <2>2, BlobConstants DEF Ids
  <2>4. QED BY <1>0, <2>3 DEF Look, Tx, TxState
<1>2. WellFormed(t)
  BY <1>0 DEF Look, Tx, WellFormed, HasDigest, HasTries, Claimed, Unlocked
<1>3. /\ t.digest = tx[p].digest /\ tx[p].state \notin Unlocked
      /\ t.id # 0 /\ t.state \in HasBytes => t.digest \in disk
  BY <1>0 DEF Look, Tx, Unlocked, HasBytes, IInv, PublishedStays
<1>4. tx' = [tx EXCEPT ![p] = t] /\ UNCHANGED <<row, item, disk, lastId, sweep>>
  BY DEF Look
<1> HIDE DEF t
<1>5. QED BY <1>1, <1>2, <1>3, <1>4, SessionStep DEF IInv, TypeOK

LEMMA ReferPreserves ==
  ASSUME IInv, NEW p \in Requests, Refer(p)
  PROVE  IInv'
<1> DEFINE t == [tx[p] EXCEPT !.state = "referred"]
<1>0. tx[p] \in Tx /\ WellFormed(tx[p])
  BY DEF IInv, TypeOK, Uploads
<1>1. t \in Tx
  BY <1>0 DEF Refer, Tx, TxState
<1>2. WellFormed(t)
  BY <1>0 DEF Refer, Tx, WellFormed, HasDigest, HasTries, Claimed, Unlocked
<1>3. /\ t.digest = tx[p].digest /\ tx[p].state \notin Unlocked
      /\ t.id # 0 /\ t.state \in HasBytes => t.digest \in disk
  BY <1>0 DEF Refer, Tx, Unlocked, HasBytes, IInv, PublishedStays
<1>4. tx' = [tx EXCEPT ![p] = t] /\ UNCHANGED <<row, item, disk, lastId, sweep>>
  BY DEF Refer
<1> HIDE DEF t
<1>5. QED BY <1>1, <1>2, <1>3, <1>4, SessionStep DEF IInv, TypeOK

LEMMA DeleteRowsPreserves ==
  ASSUME IInv, NEW p \in Requests, DeleteRows(p)
  PROVE  IInv'
<1> DEFINE t == [tx[p] EXCEPT !.state = "deleted"]
<1>0. tx[p] \in Tx /\ WellFormed(tx[p])
  BY DEF IInv, TypeOK, Uploads
<1>1. t \in Tx
  BY <1>0 DEF DeleteRows, Tx, TxState
<1>2. WellFormed(t)
  BY <1>0 DEF DeleteRows, Tx, WellFormed, HasDigest, HasTries, Claimed, Unlocked
<1>3. /\ t.digest = tx[p].digest /\ tx[p].state \notin Unlocked
      /\ t.id # 0 /\ t.state \in HasBytes => t.digest \in disk
  BY <1>0 DEF DeleteRows, Tx, Unlocked, HasBytes, IInv, PublishedStays
<1>4. tx' = [tx EXCEPT ![p] = t] /\ UNCHANGED <<row, item, disk, lastId, sweep>>
  BY DEF DeleteRows
<1> HIDE DEF t
<1>5. QED BY <1>1, <1>2, <1>3, <1>4, SessionStep DEF IInv, TypeOK

LEMMA CollectPreserves ==
  ASSUME IInv, NEW p \in Requests, Collect(p)
  PROVE  IInv'
<1> DEFINE t == [tx[p] EXCEPT !.state = "collected",
                             !.locks = tx[p].old \cap Rows,
                             !.doomed = (tx[p].old \cap Rows) \ Referred(p)]
<1>0. tx[p] \in Tx /\ WellFormed(tx[p])
  BY DEF IInv, TypeOK, Uploads
<1>1. t \in Tx
  BY <1>0, BlobConstants DEF Collect, Tx, TxState, Ids, Items, IInv, TypeOK
<1>2. WellFormed(t)
  BY <1>0 DEF Collect, Tx, WellFormed, HasDigest, HasTries, Claimed, Unlocked
<1>3. /\ t.digest = tx[p].digest /\ tx[p].state \notin Unlocked
      /\ t.id # 0 /\ t.state \in HasBytes => t.digest \in disk
  BY <1>0 DEF Collect, Tx, WellFormed, Unlocked, HasBytes, IInv, PublishedStays
<1>4. tx' = [tx EXCEPT ![p] = t] /\ UNCHANGED <<row, item, disk, lastId, sweep>>
  BY DEF Collect
<1> HIDE DEF t
<1>5. QED BY <1>1, <1>2, <1>3, <1>4, SessionStep DEF IInv, TypeOK

LEMMA InsertPreserves ==
  ASSUME IInv, NEW p \in Requests, Insert(p)
  PROVE  IInv'
<1>0. /\ tx[p] \in Tx /\ WellFormed(tx[p]) /\ tx[p].state = "locked"
      /\ lastId \in 0..MaxRows /\ disk \subseteq Digests
  BY DEF IInv, TypeOK, Uploads, Insert
<1>1. CASE row[tx[p].digest] = 0
  <2> DEFINE t == [tx[p] EXCEPT !.state = "claimed", !.inserted = TRUE, !.id = lastId + 1]
  <2>1. lastId + 1 \in 0..MaxRows /\ lastId + 1 # 0
    BY <1>0, <1>1, BlobConstants DEF Insert
  <2>2. t \in Tx
    BY <1>0, <2>1 DEF Tx, TxState
  <2>3. WellFormed(t)
    BY <1>0, <2>1, BlobConstants DEF Tx, WellFormed, HasDigest, HasTries, Claimed, Unlocked
  <2>4. t.digest = tx[p].digest /\ tx[p].state \notin Unlocked /\ t.state \notin HasBytes
    BY <1>0 DEF Tx, Unlocked, HasBytes
  <2>5. tx' = [tx EXCEPT ![p] = t] /\ UNCHANGED <<row, item, disk, sweep>>
    BY <1>1 DEF Insert
  <2>6. lastId' \in 0..MaxRows
    BY <1>1, <2>1, BlobConstants DEF Insert
  <2> HIDE DEF t
  <2>7. QED BY <1>0, <2>2, <2>3, <2>4, <2>5, <2>6, SessionStep
<1>2. CASE row[tx[p].digest] # 0
  <2> DEFINE t == [tx[p] EXCEPT !.state = "missed", !.tries = tx[p].tries - 1]
  <2>1. tx[p].tries - 1 \in 0..Attempts
    BY <1>0 DEF Tx, WellFormed, HasTries, Attempts
  <2>2. t \in Tx
    BY <1>0, <2>1 DEF Tx, TxState
  <2>3. WellFormed(t)
    BY <1>0 DEF Tx, WellFormed, HasDigest, HasTries, Claimed, Unlocked
  <2>4. t.digest = tx[p].digest /\ tx[p].state \notin Unlocked /\ t.state \notin HasBytes
    BY <1>0 DEF Tx, Unlocked, HasBytes
  <2>5. tx' = [tx EXCEPT ![p] = t] /\ UNCHANGED <<row, item, disk, lastId, sweep>>
    BY <1>2 DEF Insert
  <2> HIDE DEF t
  <2>6. QED BY <1>0, <2>2, <2>3, <2>4, <2>5, SessionStep
<1>3. QED BY <1>1, <1>2

LEMMA SelectPreserves ==
  ASSUME IInv, NEW p \in Requests, Select(p)
  PROVE  IInv'
<1>0. /\ tx[p] \in Tx /\ WellFormed(tx[p]) /\ tx[p].state = "missed"
      /\ lastId \in 0..MaxRows /\ disk \subseteq Digests
      /\ tx[p].digest \in Digests
  BY DEF IInv, TypeOK, Uploads, Select, WellFormed, HasDigest, Tx
<1>1. CASE row[tx[p].digest] # 0
  <2> DEFINE t == [tx[p] EXCEPT !.state = "claimed", !.id = row[tx[p].digest]]
  <2>1. row[tx[p].digest] \in 0..MaxRows
    BY <1>0 DEF IInv, TypeOK
  <2>2. t \in Tx
    BY <1>0, <2>1 DEF Tx, TxState
  <2>3. WellFormed(t)
    BY <1>0, <1>1 DEF Tx, WellFormed, HasDigest, HasTries, Claimed, Unlocked
  <2>4. t.digest = tx[p].digest /\ tx[p].state \notin Unlocked /\ t.state \notin HasBytes
    BY <1>0 DEF Tx, Unlocked, HasBytes
  <2>5. tx' = [tx EXCEPT ![p] = t] /\ UNCHANGED <<row, item, disk, lastId, sweep>>
    BY <1>1 DEF Select
  <2> HIDE DEF t
  <2>6. QED BY <1>0, <2>2, <2>3, <2>4, <2>5, SessionStep
<1>2. CASE row[tx[p].digest] = 0
  <2> DEFINE t == [tx[p] EXCEPT !.state = "locked"]
  <2>1. tx[p].tries > 0
    BY <1>2 DEF Select
  <2>2. t \in Tx
    BY <1>0 DEF Tx, TxState
  <2>3. WellFormed(t)
    BY <1>0, <2>1 DEF Tx, WellFormed, HasDigest, HasTries, Claimed, Unlocked
  <2>4. t.digest = tx[p].digest /\ tx[p].state \notin Unlocked /\ t.state \notin HasBytes
    BY <1>0 DEF Tx, Unlocked, HasBytes
  <2>5. tx' = [tx EXCEPT ![p] = t] /\ UNCHANGED <<row, item, disk, lastId, sweep>>
    BY <1>2 DEF Select
  <2> HIDE DEF t
  <2>6. QED BY <1>0, <2>2, <2>3, <2>4, <2>5, SessionStep
<1>3. QED BY <1>1, <1>2

LEMMA PublishPreserves ==
  ASSUME IInv, NEW p \in Requests, Publish(p)
  PROVE  IInv'
<1> DEFINE t == [tx[p] EXCEPT !.state = "published", !.file = FALSE]
<1>0. /\ tx[p] \in Tx /\ WellFormed(tx[p]) /\ tx[p].state = "claimed"
      /\ tx[p].digest \in Digests
  BY DEF IInv, TypeOK, Uploads, Publish, WellFormed, HasDigest, Tx
<1>1. t \in Tx
  BY <1>0 DEF Tx, TxState
<1>2. WellFormed(t)
  BY <1>0 DEF Tx, WellFormed, HasDigest, HasTries, Claimed, Unlocked
<1>3. t.digest = tx[p].digest /\ tx[p].state \notin Unlocked
  BY <1>0 DEF Tx, Unlocked
<1>4. tx' = [tx EXCEPT ![p] = t] /\ UNCHANGED <<row, item, lastId, sweep>>
  BY DEF Publish
<1>5. disk \subseteq disk' /\ disk' \subseteq Digests /\ t.digest \in disk'
  BY <1>0, <1>3 DEF Publish, IInv, TypeOK
<1> HIDE DEF t
<1>6. QED BY <1>1, <1>2, <1>3, <1>4, <1>5, SessionStep DEF IInv, TypeOK

LEMMA LoadDeletePreserves ==
  ASSUME IInv, NEW p \in Requests, NEW targets \in SUBSET Items, NEW cascade \in BOOLEAN,
         LoadDelete(p, targets, cascade)
  PROVE  IInv'
<1> DEFINE old == {item[i] : i \in targets} \ {0}
           t == [Idle EXCEPT !.state = "loaded", !.writes = targets,
                             !.cascade = cascade, !.old = old]
<1>0. old \in SUBSET Ids
  <2>1. \A i \in Items : item[i] \in 0..MaxRows
    BY DEF IInv, TypeOK
  <2>2. QED BY <2>1, BlobConstants DEF Ids
<1>1. t \in Tx
  BY <1>0, IdleIsWellFormed DEF Tx, TxState
<1>2. WellFormed(t)
  BY <1>0 DEF Idle, WellFormed, HasDigest, HasTries, Claimed
<1>3. t.digest = None /\ t.id = 0
  BY DEF Idle
<1>4. tx' = [tx EXCEPT ![p] = t] /\ UNCHANGED <<row, item, disk, lastId, sweep>>
  BY DEF LoadDelete
<1> HIDE DEF t
<1>5. QED BY <1>1, <1>2, <1>3, <1>4, SessionStep DEF IInv, TypeOK

LEMMA AbortPreserves ==
  ASSUME IInv, NEW p \in Requests, Abort(p)
  PROVE  IInv'
<1>1. tx' = [tx EXCEPT ![p] = Idle] /\ UNCHANGED <<row, item, disk, lastId, sweep>>
  BY DEF Abort
<1>2. QED BY <1>1, IdleIsWellFormed, SessionStep DEF IInv, TypeOK

\* A commit writes the new row, if there is one, over bytes that are there, and
\* takes rows away; every other session keeps its state, its digest and its row.
LEMMA CommitPreserves ==
  ASSUME IInv, NEW p \in Requests, Commit(p)
  PROVE  IInv'
<1> DEFINE t == tx[p]
<1>1. /\ t \in Tx /\ WellFormed(t) /\ t.state = "collected"
      /\ row \in [Digests -> 0..MaxRows] /\ item \in [Items -> 0..MaxRows]
      /\ t.id \in 0..MaxRows
      /\ UNCHANGED <<disk, lastId, sweep>>
  BY DEF IInv, TypeOK, Uploads, Commit, Tx
<1>2. \A q \in Requests :
         tx'[q] = IF q = p THEN Idle ELSE [tx[q] EXCEPT !.writes = Left(q, t)]
  BY DEF Commit
<1>3. \A q \in Requests : tx'[q] \in Tx
  <2> SUFFICES ASSUME NEW q \in Requests, q # p PROVE tx'[q] \in Tx
    BY <1>2, IdleIsWellFormed
  <2>1. tx[q] \in Tx
    BY DEF IInv, TypeOK
  <2>2. Left(q, t) \in SUBSET Items
    BY <2>1 DEF Left, Tx
  <2>3. QED BY <1>2, <2>1, <2>2 DEF Tx
<1>4. \A q \in Requests \ {p} :
         /\ tx'[q].state = tx[q].state /\ tx'[q].digest = tx[q].digest
         /\ tx'[q].id = tx[q].id /\ tx'[q].tries = tx[q].tries
         /\ tx'[q].inserted = tx[q].inserted
  <2> SUFFICES ASSUME NEW q \in Requests, q # p
               PROVE  /\ tx'[q].state = tx[q].state /\ tx'[q].digest = tx[q].digest
                      /\ tx'[q].id = tx[q].id /\ tx'[q].tries = tx[q].tries
                      /\ tx'[q].inserted = tx[q].inserted
    OBVIOUS
  <2>1. tx[q] \in Tx
    BY DEF IInv, TypeOK
  <2>2. tx'[q] = [tx[q] EXCEPT !.writes = Left(q, t)]
    BY <1>2
  <2>3. QED BY <2>1, <2>2 DEF Tx
<1>5. tx'[p] = Idle
  BY <1>2
<1>6. \A d \in Digests :
         \/ row'[d] \in {0, row[d]}
         \/ row'[d] = t.id /\ t.inserted /\ t.digest = d
  BY DEF Commit
<1>7. Uploads'
  <2>1. \A q \in Requests \ {p} : WellFormed(tx'[q])
    BY <1>4 DEF IInv, Uploads, WellFormed
  <2>2. QED BY <2>1, <1>5, IdleIsWellFormed DEF Uploads, WellFormed, Unlocked, HasDigest,
            HasTries, Claimed
<1>8. TypeOK'
  <2>1. row' \in [Digests -> 0..MaxRows]
    BY <1>1, BlobConstants DEF Commit
  <2>2. item' \in [Items -> 0..MaxRows]
    BY <1>1 DEF Commit
  <2>3. tx' \in [Requests -> Tx]
    BY <1>3 DEF Commit
  <2>4. \A q \in Requests : tx'[q].state \in Claimed => tx'[q].id # 0
    BY <1>7 DEF Uploads, WellFormed
  <2>5. QED BY <1>1, <2>1, <2>2, <2>3, <2>4 DEF IInv, TypeOK
<1>9. Guarded'
  <2>1. \A q \in Requests, d \in Digests : Shares(q, d)' => Shares(q, d)
    BY <1>4, <1>5 DEF Shares, Idle
  <2>2. \A w \in Sweepers : sweep[w].digest \in Digests \cup {None}
    BY DEF IInv, TypeOK, SweepRec
  <2>3. QED BY <1>1, <2>1, <2>2 DEF IInv, Guarded, Shares
<1>10. Unpromised'
  <2> SUFFICES ASSUME NEW w \in Sweepers, sweep[w].state = "removing"
               PROVE  row'[sweep[w].digest] = 0
    BY <1>1 DEF Unpromised
  <2> DEFINE d == sweep[w].digest
  <2>1. d \in Digests /\ row[d] = 0 /\ ~Shares(p, d)
    BY DEF IInv, TypeOK, SweepRec, Guarded, Holding, Unpromised
  <2>2. ~(t.inserted /\ t.digest = d)
    BY <1>1, <2>1 DEF Shares
  <2>3. QED BY <1>6, <2>1, <2>2
<1>11. PublishedStays'
  BY <1>1, <1>4, <1>5 DEF IInv, PublishedStays, Idle
<1>12. RowsHaveBytes'
  <2> SUFFICES ASSUME NEW d \in Digests, row'[d] # 0 PROVE d \in disk
    BY <1>1 DEF RowsHaveBytes
  <2>1. CASE row'[d] = row[d]
    BY <2>1 DEF IInv, RowsHaveBytes
  <2>2. CASE row'[d] = t.id /\ t.inserted /\ t.digest = d
    BY <1>1, <2>2 DEF IInv, PublishedStays
  <2>3. QED BY <1>6, <2>1, <2>2
<1>13. QED BY <1>7, <1>8, <1>9, <1>10, <1>11, <1>12 DEF IInv

-----------------------------------------------------------------------------
(* One sweep's step, which changes no row.                                  *)
LEMMA SweepStep ==
  ASSUME IInv, NEW w \in Sweepers, NEW s \in SweepRec,
         sweep' = [sweep EXCEPT ![w] = s],
         UNCHANGED <<row, item, disk, lastId, tx>>,
         s.state \in Holding <=> s.digest # None,
         \/ s.digest = None
         \/ \A p \in Requests : ~Shares(p, s.digest),
         s.state = "removing" => row[s.digest] = 0
  PROVE  IInv'
<1> USE DEF IInv
<1>1. \A v \in Sweepers : sweep'[v] = IF v = w THEN s ELSE sweep[v]
  BY DEF TypeOK
<1>2. TypeOK'
  <2>1. sweep' \in [Sweepers -> SweepRec]
    BY DEF TypeOK
  <2>2. QED BY <2>1 DEF TypeOK
<1>3. Uploads' /\ PublishedStays' /\ RowsHaveBytes'
  BY DEF Uploads, PublishedStays, RowsHaveBytes
<1>4. Guarded'
  BY <1>1 DEF Guarded, Shares
<1>5. Unpromised'
  BY <1>1 DEF Unpromised
<1>6. QED BY <1>2, <1>3, <1>4, <1>5

LEMMA SweepPreserves ==
  ASSUME IInv, NEW w \in Sweepers,
         \/ List(w) \/ ReadRows(w) \/ LookAgain(w) \/ FailPass(w)
         \/ \E d \in Digests : TryLock(w, d) \/ Skip(w, d)
  PROVE  IInv'
<1> DEFINE r == sweep[w]
<1>0. /\ r \in SweepRec /\ disk \in SUBSET Digests
      /\ r.state \in Holding <=> r.digest # None
      /\ r.state \in {"resting", "listed", "sweeping", "holding", "removing"}
      /\ r.todo \in SUBSET Digests /\ r.digest \in Digests \cup {None}
  BY DEF IInv, TypeOK, Guarded, SweepRec
<1>1. CASE List(w)
  <2> DEFINE s == [r EXCEPT !.state = "listed", !.todo = disk]
  <2>1. s \in SweepRec /\ s.state \notin Holding /\ s.digest = None
    BY <1>0, <1>1 DEF List, SweepRec, Holding
  <2>2. sweep' = [sweep EXCEPT ![w] = s] /\ UNCHANGED <<row, item, disk, lastId, tx>>
    BY <1>1 DEF List
  <2> HIDE DEF s
  <2>3. QED BY <2>1, <2>2, SweepStep DEF Holding
<1>2. CASE ReadRows(w)
  <2> DEFINE s == [r EXCEPT !.state = "sweeping", !.todo = {d \in r.todo : row[d] = 0}]
  <2>1. s \in SweepRec /\ s.state \notin Holding /\ s.digest = None
    BY <1>0, <1>2 DEF ReadRows, SweepRec, Holding
  <2>2. sweep' = [sweep EXCEPT ![w] = s] /\ UNCHANGED <<row, item, disk, lastId, tx>>
    BY <1>2 DEF ReadRows
  <2> HIDE DEF s
  <2>3. QED BY <2>1, <2>2, SweepStep DEF Holding
<1>3. CASE LookAgain(w) /\ row[r.digest] = 0
  <2> DEFINE s == [r EXCEPT !.state = "removing"]
  <2>1. s \in SweepRec /\ s.state \in Holding /\ s.digest = r.digest /\ r.digest # None
    BY <1>0, <1>3 DEF LookAgain, SweepRec, Holding
  <2>2. \A p \in Requests : ~Shares(p, r.digest)
    BY <2>1 DEF IInv, Guarded
  <2>3. sweep' = [sweep EXCEPT ![w] = s] /\ UNCHANGED <<row, item, disk, lastId, tx>>
    BY <1>3 DEF LookAgain
  <2> HIDE DEF s
  <2>4. QED BY <1>3, <2>1, <2>2, <2>3, SweepStep
<1>4. CASE LookAgain(w) /\ row[r.digest] # 0
  <2> DEFINE s == [r EXCEPT !.state = "sweeping", !.digest = None]
  <2>1. s \in SweepRec /\ s.state \notin Holding /\ s.digest = None
    BY <1>0 DEF SweepRec, Holding
  <2>2. sweep' = [sweep EXCEPT ![w] = s] /\ UNCHANGED <<row, item, disk, lastId, tx>>
    BY <1>4 DEF LookAgain
  <2> HIDE DEF s
  <2>3. QED BY <2>1, <2>2, SweepStep DEF Holding
<1>5. CASE FailPass(w)
  <2>1. Resting \in SweepRec /\ Resting.state \notin Holding /\ Resting.digest = None
    BY DEF Resting, SweepRec, Holding
  <2>2. sweep' = [sweep EXCEPT ![w] = Resting] /\ UNCHANGED <<row, item, disk, lastId, tx>>
    BY <1>5 DEF FailPass
  <2>3. QED BY <2>1, <2>2, SweepStep DEF Holding
<1>6. ASSUME NEW d \in Digests, TryLock(w, d) PROVE IInv'
  <2> DEFINE s == [r EXCEPT !.state = "holding", !.digest = d, !.todo = r.todo \ {d}]
  <2>1. s \in SweepRec /\ s.state \in Holding /\ s.state # "removing" /\ s.digest = d
    BY <1>0 DEF SweepRec, Holding
  <2>2. d # None /\ \A p \in Requests : ~Shares(p, d)
    BY <1>6, BlobConstants DEF TryLock
  <2>3. sweep' = [sweep EXCEPT ![w] = s] /\ UNCHANGED <<row, item, disk, lastId, tx>>
    BY <1>6 DEF TryLock
  <2> HIDE DEF s
  <2>4. QED BY <2>1, <2>2, <2>3, SweepStep
<1>7. ASSUME NEW d \in Digests, Skip(w, d) PROVE IInv'
  <2> DEFINE s == [r EXCEPT !.todo = r.todo \ {d}]
  <2>1. s \in SweepRec /\ s.state \notin Holding /\ s.digest = None
    BY <1>0, <1>7 DEF Skip, SweepRec, Holding
  <2>2. sweep' = [sweep EXCEPT ![w] = s] /\ UNCHANGED <<row, item, disk, lastId, tx>>
    BY <1>7 DEF Skip
  <2> HIDE DEF s
  <2>3. QED BY <2>1, <2>2, SweepStep DEF Holding
<1>8. QED BY <1>1, <1>2, <1>3, <1>4, <1>5, <1>6, <1>7

\* The one step that takes bytes away.  Nothing that relies on them is left: no
\* row, because the sweep looked with the lock held, and no upload that has
\* published, because that upload would be sharing the lock.
LEMMA RemovePreserves ==
  ASSUME IInv, NEW w \in Sweepers, Remove(w)
  PROVE  IInv'
<1> DEFINE d == sweep[w].digest
<1>1. /\ d \in Digests /\ row[d] = 0
      /\ \A p \in Requests : ~Shares(p, d)
  BY DEF IInv, TypeOK, SweepRec, Guarded, Unpromised, Remove, Holding
<1>2. /\ disk' = disk \ {d} /\ UNCHANGED <<row, item, lastId, tx>>
      /\ sweep' = [sweep EXCEPT ![w] = [sweep[w] EXCEPT !.state = "sweeping", !.digest = None]]
  BY DEF Remove
<1>3. \A v \in Sweepers : \/ sweep'[v] = sweep[v]
                          \/ sweep'[v].state = "sweeping" /\ sweep'[v].digest = None
  BY <1>2 DEF IInv, TypeOK, SweepRec
<1>4. TypeOK'
  <2>1. sweep' \in [Sweepers -> SweepRec]
    BY <1>2 DEF IInv, TypeOK, SweepRec
  <2>2. QED BY <1>2, <2>1 DEF IInv, TypeOK
<1>5. Uploads'
  BY <1>2 DEF IInv, Uploads
<1>6. Guarded'
  BY <1>2, <1>3 DEF IInv, Guarded, Shares, Holding
<1>7. Unpromised'
  BY <1>2, <1>3 DEF IInv, Unpromised
<1>8. PublishedStays'
  BY <1>1, <1>2 DEF IInv, PublishedStays, Shares
<1>9. RowsHaveBytes'
  BY <1>1, <1>2 DEF IInv, RowsHaveBytes
<1>10. QED BY <1>4, <1>5, <1>6, <1>7, <1>8, <1>9 DEF IInv

LEMMA ClearIncomingPreserves ==
  ASSUME IInv, NEW w \in Sweepers, ClearIncoming(w)
  PROVE  IInv'
<1> PICK taken \in SUBSET {p \in Requests : tx[p].file} :
           tx' = [p \in Requests |-> IF p \in taken THEN [tx[p] EXCEPT !.file = FALSE]
                                                   ELSE tx[p]]
  BY DEF ClearIncoming
<1>1. /\ UNCHANGED <<row, item, disk, lastId>>
      /\ sweep' = [sweep EXCEPT ![w] = Resting]
  BY DEF ClearIncoming
<1>2. \A q \in Requests :
         /\ tx'[q] \in Tx
         /\ tx'[q].state = tx[q].state /\ tx'[q].digest = tx[q].digest
         /\ tx'[q].id = tx[q].id /\ tx'[q].tries = tx[q].tries
         /\ tx'[q].inserted = tx[q].inserted
  <2> TAKE q \in Requests
  <2>1. tx[q] \in Tx
    BY DEF IInv, TypeOK
  <2>2. tx'[q] = IF q \in taken THEN [tx[q] EXCEPT !.file = FALSE] ELSE tx[q]
    OBVIOUS
  <2>3. [tx[q] EXCEPT !.file = FALSE] \in Tx
    BY <2>1 DEF Tx
  <2>4. [tx[q] EXCEPT !.file = FALSE].state = tx[q].state
        /\ [tx[q] EXCEPT !.file = FALSE].digest = tx[q].digest
        /\ [tx[q] EXCEPT !.file = FALSE].id = tx[q].id
        /\ [tx[q] EXCEPT !.file = FALSE].tries = tx[q].tries
        /\ [tx[q] EXCEPT !.file = FALSE].inserted = tx[q].inserted
    BY <2>1 DEF Tx
  <2>5. QED BY <2>1, <2>2, <2>3, <2>4
<1>3. Uploads'
  BY <1>2 DEF IInv, Uploads, WellFormed
<1>4. TypeOK'
  <2>1. Resting \in SweepRec
    BY DEF Resting, SweepRec
  <2>2. sweep' \in [Sweepers -> SweepRec]
    BY <1>1, <2>1 DEF IInv, TypeOK
  <2>3. tx' \in [Requests -> Tx]
    BY <1>2
  <2>4. \A q \in Requests : tx'[q].state \in Claimed => tx'[q].id # 0
    BY <1>3 DEF Uploads, WellFormed
  <2>5. QED BY <1>1, <2>2, <2>3, <2>4 DEF IInv, TypeOK
<1>5. \A v \in Sweepers : sweep'[v] = IF v = w THEN Resting ELSE sweep[v]
  BY <1>1 DEF IInv, TypeOK
<1>6. Guarded'
  BY <1>2, <1>5 DEF IInv, Guarded, Shares, Resting, Holding
<1>7. Unpromised'
  BY <1>1, <1>5 DEF IInv, Unpromised, Resting
<1>8. PublishedStays' /\ RowsHaveBytes'
  BY <1>1, <1>2 DEF IInv, PublishedStays, RowsHaveBytes
<1>9. QED BY <1>3, <1>4, <1>6, <1>7, <1>8 DEF IInv

-----------------------------------------------------------------------------
LEMMA NextPreserves == IInv /\ [Next]_vars => IInv'
<1> SUFFICES ASSUME IInv, [Next]_vars PROVE IInv'
  OBVIOUS
<1>1. ASSUME NEW p \in Requests, NEW i \in Items, NEW d \in Digests, Stage(p, i, d)
      PROVE  IInv'
  BY <1>1, StagePreserves
<1>2. ASSUME NEW p \in Requests,
             \/ \E i \in Items : LoadDelete(p, {i}, FALSE)
             \/ LoadDelete(p, Files, TRUE) \/ LoadDelete(p, Items, TRUE)
      PROVE  IInv'
  <2>1. Files \in SUBSET Items /\ Items \in SUBSET Items /\ TRUE \in BOOLEAN
        /\ FALSE \in BOOLEAN /\ \A i \in Items : {i} \in SUBSET Items
    BY DEF Items
  <2>2. QED BY <1>2, <2>1, LoadDeletePreserves
<1>3. ASSUME NEW p \in Requests, Request(p) \/ Abort(p)
      PROVE  IInv'
  BY <1>3, LockDigestPreserves, InsertPreserves, SelectPreserves, PublishPreserves,
     LookPreserves, ReferPreserves, DeleteRowsPreserves, CollectPreserves, CommitPreserves,
     AbortPreserves DEF Request
<1>4. ASSUME NEW w \in Sweepers, Sweep(w) \/ FailPass(w)
      PROVE  IInv'
  BY <1>4, SweepPreserves, RemovePreserves, ClearIncomingPreserves DEF Sweep
<1>5. CASE UNCHANGED vars
  BY <1>5 DEF vars, IInv, TypeOK, Uploads, Guarded, Unpromised, PublishedStays, RowsHaveBytes,
     Shares
<1>6. QED BY <1>1, <1>2, <1>3, <1>4, <1>5 DEF Next

\* Every state the system can be in satisfies the invariant, and with it the
\* type invariant of blobs, sessions and sweeps.
THEOREM Invariance == Spec => []IInv
  BY InitIInv, NextPreserves, PTL DEF Spec

\* Rows, sessions and sweeps keep the shape the code gives them: every id is
\* one the database gave out, and whoever has claimed a row has its id.
THEOREM TypeCorrect == Spec => []TypeOK
<1>1. IInv => TypeOK
  BY DEF IInv
<1>2. QED BY <1>1, Invariance, PTL

\* A committed row promises bytes that are there, however uploads, deletes,
\* rollbacks and any number of sweeps interleave.
THEOREM RowsAlwaysHaveBytes == Spec => []RowsHaveBytes
<1>1. IInv => RowsHaveBytes
  BY DEF IInv
<1>2. QED BY <1>1, Invariance, PTL

\* Bytes an upload has published, or was told it need not, are there until it
\* ends.
THEOREM PublishedAlwaysStays == Spec => []PublishedStays
<1>1. IInv => PublishedStays
  BY DEF IInv
<1>2. QED BY <1>1, Invariance, PTL

-----------------------------------------------------------------------------
(* References.  The argument is the row lock.  A request deletes only rows  *)
(* it has locked (Decided), which nobody else has claimed and no item it    *)
(* leaves standing refers to; a new reference goes only to a row its upload *)
(* has claimed, and so to none that is about to be deleted.                 *)

\* Ids are given out once: whatever is held by a row or a session is one that
\* was given out before.
Given ==
    /\ \A d \in Digests : row[d] <= lastId
    /\ \A p \in Requests : tx[p].id <= lastId

\* A session that wrote a new row is alone in that, and there is no committed
\* row for the content: the unique index.
Alone ==
    \A p \in Requests : tx[p].inserted =>
        /\ row[tx[p].digest] = 0
        /\ \A q \in Requests \ {p} : ~(tx[q].inserted /\ tx[q].digest = tx[p].digest)

\* What a session has locked is a row that was given out, and one no other
\* session has claimed; what it is to delete it has locked, has not claimed
\* itself, and no item that it leaves alone refers to.
Decided ==
    \A p \in Requests :
        /\ tx[p].state # "collected" => tx[p].locks = {}
        /\ \A b \in tx[p].locks : b <= lastId
        /\ \A q \in Requests \ {p} : tx[q].id \notin tx[p].locks
        /\ tx[p].doomed \subseteq tx[p].locks
        /\ tx[p].id \notin tx[p].doomed
        /\ \A i \in Items \ tx[p].writes : item[i] \notin tx[p].doomed

RInv ==
    /\ Given
    /\ Alone
    /\ Decided
    /\ ClaimedRowStays
    /\ ItemsHaveRows

-----------------------------------------------------------------------------
(* One session's step.  It keeps the invariant if the record it leaves      *)
(* says about that session what the invariant does.                        *)
Fits(p, t) ==
    /\ \A q \in Requests \ {p} : t.id \notin tx[q].locks /\ tx[q].id \notin t.locks
    /\ t.inserted =>
          /\ row[t.digest] = 0
          /\ \A q \in Requests \ {p} : ~(tx[q].inserted /\ tx[q].digest = t.digest)
    /\ t.state # "collected" => t.locks = {}
    /\ t.doomed \subseteq t.locks /\ t.id \notin t.doomed
    /\ \A i \in Items \ t.writes : item[i] \notin t.doomed
    /\ t.id # 0 /\ ~t.inserted => t.id \in Rows

LEMMA FittingStep ==
  ASSUME IInv, RInv, NEW p \in Requests, NEW t, Fits(p, t),
         tx' = [tx EXCEPT ![p] = t], UNCHANGED <<row, item>>,
         lastId' \in Nat, lastId <= lastId',
         t.id <= lastId', \A b \in t.locks : b <= lastId'
  PROVE  RInv'
<1>1. \A q \in Requests : tx'[q] = IF q = p THEN t ELSE tx[q]
  BY DEF IInv, TypeOK
<1>2. \A q \in Requests : tx[q].id \in Nat /\ tx[q].locks \subseteq Nat
  BY DEF IInv, TypeOK, Tx, Ids
<1>3. row \in [Digests -> Nat] /\ lastId \in Nat
  BY BlobConstants DEF IInv, TypeOK
<1>4. Given'
  <2>1. \A d \in Digests : row'[d] <= lastId'
    BY <1>3 DEF RInv, Given
  <2>2. ASSUME NEW q \in Requests PROVE tx'[q].id <= lastId'
    <3>1. CASE q = p
      BY <1>1, <3>1
    <3>2. CASE q # p
      BY <1>1, <1>2, <1>3, <3>2 DEF RInv, Given
    <3>3. QED BY <3>1, <3>2
  <2>3. QED BY <2>1, <2>2 DEF Given
<1>5. Alone'
  <2>1. ASSUME NEW q \in Requests, tx'[q].inserted PROVE row[tx'[q].digest] = 0
    BY <1>1, <2>1 DEF RInv, Alone, Fits
  <2>2. ASSUME NEW q \in Requests, NEW r \in Requests \ {q}, tx'[q].inserted, tx'[r].inserted
        PROVE  tx'[r].digest # tx'[q].digest
    BY <1>1, <2>2 DEF RInv, Alone, Fits
  <2>3. QED BY <2>1, <2>2 DEF Alone
<1>6. Decided'
  <2> SUFFICES ASSUME NEW q \in Requests
               PROVE  /\ tx'[q].state # "collected" => tx'[q].locks = {}
                      /\ \A b \in tx'[q].locks : b <= lastId'
                      /\ \A r \in Requests \ {q} : tx'[r].id \notin tx'[q].locks
                      /\ tx'[q].doomed \subseteq tx'[q].locks
                      /\ tx'[q].id \notin tx'[q].doomed
                      /\ \A i \in Items \ tx'[q].writes : item[i] \notin tx'[q].doomed
    BY DEF Decided
  <2>1. CASE q = p
    BY <1>1, <2>1 DEF Fits
  <2>2. CASE q # p
    <3>1. tx'[q] = tx[q]
      BY <1>1, <2>2
    <3>2. \A b \in tx[q].locks : b <= lastId'
      BY <1>2, <1>3 DEF RInv, Decided
    <3>3. \A r \in Requests \ {q} : tx'[r].id \notin tx[q].locks
      BY <1>1, <2>2 DEF RInv, Decided, Fits
    <3>4. QED BY <3>1, <3>2, <3>3 DEF RInv, Decided
  <2>3. QED BY <2>1, <2>2
<1>7. ClaimedRowStays'
  BY <1>1 DEF RInv, ClaimedRowStays, Claims, Fits, Rows
<1>8. ItemsHaveRows'
  BY DEF RInv, ItemsHaveRows, Rows
<1>9. QED BY <1>4, <1>5, <1>6, <1>7, <1>8 DEF RInv

\* A step that leaves alone what the invariant is about.
LEMMA QuietStep ==
  ASSUME IInv, RInv, NEW p \in Requests, NEW t,
         tx' = [tx EXCEPT ![p] = t], UNCHANGED <<row, item, lastId>>,
         tx[p].state # "collected", t.state # "collected",
         t.id = tx[p].id, t.digest = tx[p].digest, t.inserted = tx[p].inserted,
         t.locks = tx[p].locks, t.doomed = tx[p].doomed
  PROVE  RInv'
<1>1. t.locks = {} /\ t.doomed = {}
  BY DEF RInv, Decided
<1>2. Fits(p, t)
  BY <1>1 DEF RInv, Fits, Alone, Decided, ClaimedRowStays, Claims
<1>3. lastId \in Nat /\ lastId <= lastId' /\ t.id <= lastId'
  BY BlobConstants DEF IInv, TypeOK, RInv, Given
<1>4. QED BY <1>1, <1>2, <1>3, FittingStep

\* A step that starts a request, or ends one with nothing kept.
LEMMA FreshStep ==
  ASSUME IInv, RInv, NEW p \in Requests, NEW t,
         tx' = [tx EXCEPT ![p] = t], UNCHANGED <<row, item, lastId>>,
         t.id = 0, t.inserted = FALSE, t.locks = {}, t.doomed = {}
  PROVE  RInv'
<1>1. \A q \in Requests : 0 \notin tx[q].locks
  BY DEF IInv, TypeOK, Tx, Ids
<1>2. Fits(p, t)
  BY <1>1 DEF Fits
<1>3. lastId \in Nat /\ lastId <= lastId' /\ t.id <= lastId'
  BY BlobConstants DEF IInv, TypeOK
<1>4. QED BY <1>2, <1>3, FittingStep

LEMMA InitRInv == Init => RInv
<1> SUFFICES ASSUME Init PROVE RInv
  OBVIOUS
<1>1. \A p \in Requests : tx[p] = Idle
  BY DEF Init
<1>2. Given /\ Alone /\ ClaimedRowStays /\ ItemsHaveRows
  BY <1>1 DEF Init, Idle, Given, Alone, ClaimedRowStays, Claims, ItemsHaveRows
<1>3. Decided
  BY <1>1 DEF Idle, Decided
<1>4. QED BY <1>2, <1>3 DEF RInv

-----------------------------------------------------------------------------
LEMMA RequestStarts ==
  ASSUME IInv, RInv, NEW p \in Requests,
         \/ \E i \in Items, d \in Digests : Stage(p, i, d)
         \/ \E targets \in SUBSET Items, cascade \in BOOLEAN : LoadDelete(p, targets, cascade)
         \/ Abort(p)
  PROVE  RInv'
<1>1. ASSUME NEW i \in Items, NEW d \in Digests, Stage(p, i, d)
      PROVE  RInv'
  <2> DEFINE t == [Idle EXCEPT !.state = "staged", !.digest = d, !.file = TRUE,
                               !.writes = {i}, !.tries = Attempts]
  <2>1. t.id = 0 /\ t.inserted = FALSE /\ t.locks = {} /\ t.doomed = {}
    BY DEF Idle
  <2>2. tx' = [tx EXCEPT ![p] = t] /\ UNCHANGED <<row, item, lastId>>
    BY <1>1 DEF Stage
  <2> HIDE DEF t
  <2>3. QED BY <2>1, <2>2, FreshStep
<1>2. ASSUME NEW targets \in SUBSET Items, NEW cascade \in BOOLEAN,
             LoadDelete(p, targets, cascade)
      PROVE  RInv'
  <2> DEFINE old == {item[i] : i \in targets} \ {0}
             t == [Idle EXCEPT !.state = "loaded", !.writes = targets,
                               !.cascade = cascade, !.old = old]
  <2>1. t.id = 0 /\ t.inserted = FALSE /\ t.locks = {} /\ t.doomed = {}
    BY DEF Idle
  <2>2. tx' = [tx EXCEPT ![p] = t] /\ UNCHANGED <<row, item, lastId>>
    BY <1>2 DEF LoadDelete
  <2> HIDE DEF t
  <2>3. QED BY <2>1, <2>2, FreshStep
<1>3. CASE Abort(p)
  <2>1. Idle.id = 0 /\ Idle.inserted = FALSE /\ Idle.locks = {} /\ Idle.doomed = {}
    BY DEF Idle
  <2>2. QED BY <1>3, <2>1, FreshStep DEF Abort
<1>4. QED BY <1>1, <1>2, <1>3

\* Locking the digest, publishing, looking and writing items: none of it
\* touches a blob row or a lock on one.
LEMMA RequestGoesOn ==
  ASSUME IInv, RInv, NEW p \in Requests,
         LockDigest(p) \/ Publish(p) \/ Look(p) \/ Refer(p) \/ DeleteRows(p)
  PROVE  RInv'
<1>0. tx[p] \in Tx
  BY DEF IInv, TypeOK
<1>1. CASE LockDigest(p)
  <2> DEFINE t == [tx[p] EXCEPT !.state = "locked"]
  <2>1. /\ t.state = "locked" /\ t.id = tx[p].id /\ t.digest = tx[p].digest
        /\ t.inserted = tx[p].inserted /\ t.locks = tx[p].locks /\ t.doomed = tx[p].doomed
    BY <1>0 DEF Tx
  <2>2. tx' = [tx EXCEPT ![p] = t] /\ UNCHANGED <<row, item, lastId>>
        /\ tx[p].state = "staged"
    BY <1>1 DEF LockDigest
  <2> HIDE DEF t
  <2>3. QED BY <2>1, <2>2, QuietStep
<1>2. CASE Publish(p)
  <2> DEFINE t == [tx[p] EXCEPT !.state = "published", !.file = FALSE]
  <2>1. /\ t.state = "published" /\ t.id = tx[p].id /\ t.digest = tx[p].digest
        /\ t.inserted = tx[p].inserted /\ t.locks = tx[p].locks /\ t.doomed = tx[p].doomed
    BY <1>0 DEF Tx
  <2>2. tx' = [tx EXCEPT ![p] = t] /\ UNCHANGED <<row, item, lastId>>
        /\ tx[p].state = "claimed"
    BY <1>2 DEF Publish
  <2> HIDE DEF t
  <2>3. QED BY <2>1, <2>2, QuietStep
<1>3. CASE Look(p)
  <2> DEFINE old == {item[i] : i \in tx[p].writes} \ {0}
             t == [tx[p] EXCEPT !.state = "looked", !.old = old]
  <2>1. /\ t.state = "looked" /\ t.id = tx[p].id /\ t.digest = tx[p].digest
        /\ t.inserted = tx[p].inserted /\ t.locks = tx[p].locks /\ t.doomed = tx[p].doomed
    BY <1>0 DEF Tx
  <2>2. tx' = [tx EXCEPT ![p] = t] /\ UNCHANGED <<row, item, lastId>>
        /\ tx[p].state = "published"
    BY <1>3 DEF Look
  <2> HIDE DEF t
  <2>3. QED BY <2>1, <2>2, QuietStep
<1>4. CASE Refer(p)
  <2> DEFINE t == [tx[p] EXCEPT !.state = "referred"]
  <2>1. /\ t.state = "referred" /\ t.id = tx[p].id /\ t.digest = tx[p].digest
        /\ t.inserted = tx[p].inserted /\ t.locks = tx[p].locks /\ t.doomed = tx[p].doomed
    BY <1>0 DEF Tx
  <2>2. tx' = [tx EXCEPT ![p] = t] /\ UNCHANGED <<row, item, lastId>>
        /\ tx[p].state = "looked"
    BY <1>4 DEF Refer
  <2> HIDE DEF t
  <2>3. QED BY <2>1, <2>2, QuietStep
<1>5. CASE DeleteRows(p)
  <2> DEFINE t == [tx[p] EXCEPT !.state = "deleted"]
  <2>1. /\ t.state = "deleted" /\ t.id = tx[p].id /\ t.digest = tx[p].digest
        /\ t.inserted = tx[p].inserted /\ t.locks = tx[p].locks /\ t.doomed = tx[p].doomed
    BY <1>0 DEF Tx
  <2>2. tx' = [tx EXCEPT ![p] = t] /\ UNCHANGED <<row, item, lastId>>
        /\ tx[p].state = "loaded"
    BY <1>5 DEF DeleteRows
  <2> HIDE DEF t
  <2>3. QED BY <2>1, <2>2, QuietStep
<1>6. QED BY <1>1, <1>2, <1>3, <1>4, <1>5

\* A new row gets an id nobody has a lock on, and the unique index lets one
\* session write it.
LEMMA InsertKeeps ==
  ASSUME IInv, RInv, NEW p \in Requests, Insert(p)
  PROVE  RInv'
<1>0. tx[p] \in Tx /\ tx[p].state = "locked" /\ lastId \in Nat
  BY BlobConstants DEF IInv, TypeOK, Insert
<1>1. CASE row[tx[p].digest] = 0
  <2> DEFINE t == [tx[p] EXCEPT !.state = "claimed", !.inserted = TRUE, !.id = lastId + 1]
  <2>1. /\ t.state = "claimed" /\ t.inserted /\ t.id = lastId + 1
        /\ t.digest = tx[p].digest
        /\ t.locks = tx[p].locks /\ t.doomed = tx[p].doomed
    BY <1>0 DEF Tx
  <2>2. tx' = [tx EXCEPT ![p] = t] /\ UNCHANGED <<row, item>> /\ lastId' = lastId + 1
    BY <1>1 DEF Insert
  <2> HIDE DEF t
  <2>3. t.locks = {} /\ t.doomed = {}
    BY <1>0, <2>1 DEF RInv, Decided
  <2>4. \A q \in Requests \ {p} : lastId + 1 \notin tx[q].locks
    <3>1. \A q \in Requests : \A b \in tx[q].locks : b \in Nat /\ b <= lastId
      BY DEF RInv, Decided, IInv, TypeOK, Tx, Ids
    <3>2. QED BY <1>0, <3>1
  <2>5. Fits(p, t)
    BY <1>1, <2>1, <2>3, <2>4 DEF Insert, Fits
  <2>6. /\ lastId' \in Nat /\ lastId <= lastId' /\ t.id <= lastId'
        /\ \A b \in t.locks : b <= lastId'
    BY <1>0, <2>1, <2>2, <2>3
  <2>7. QED BY <2>2, <2>5, <2>6, FittingStep
<1>2. CASE row[tx[p].digest] # 0
  <2> DEFINE t == [tx[p] EXCEPT !.state = "missed", !.tries = tx[p].tries - 1]
  <2>1. /\ t.state = "missed" /\ t.id = tx[p].id /\ t.digest = tx[p].digest
        /\ t.inserted = tx[p].inserted /\ t.locks = tx[p].locks /\ t.doomed = tx[p].doomed
    BY <1>0 DEF Tx
  <2>2. tx' = [tx EXCEPT ![p] = t] /\ UNCHANGED <<row, item, lastId>>
    BY <1>2 DEF Insert
  <2> HIDE DEF t
  <2>3. QED BY <1>0, <2>1, <2>2, QuietStep
<1>3. QED BY <1>1, <1>2

\* FOR SHARE: the row claimed exists, and no session has it to decide on.
LEMMA SelectKeeps ==
  ASSUME IInv, RInv, NEW p \in Requests, Select(p)
  PROVE  RInv'
<1>0. /\ tx[p] \in Tx /\ tx[p].state = "missed" /\ lastId \in Nat
      /\ tx[p].digest \in Digests
  BY BlobConstants DEF IInv, TypeOK, Uploads, Select, WellFormed, HasDigest, Tx
<1>1. CASE row[tx[p].digest] # 0
  <2> DEFINE t == [tx[p] EXCEPT !.state = "claimed", !.id = row[tx[p].digest]]
  <2>1. /\ t.state = "claimed" /\ t.id = row[tx[p].digest] /\ t.digest = tx[p].digest
        /\ t.inserted = tx[p].inserted /\ t.locks = tx[p].locks /\ t.doomed = tx[p].doomed
    BY <1>0 DEF Tx
  <2>2. tx' = [tx EXCEPT ![p] = t] /\ UNCHANGED <<row, item, lastId>>
    BY <1>1 DEF Select
  <2> HIDE DEF t
  <2>3. t.locks = {} /\ t.doomed = {}
    BY <1>0, <2>1 DEF RInv, Decided
  <2>4. t.id \in Rows /\ t.id <= lastId
    BY <1>0, <1>1, <2>1 DEF Rows, RInv, Given
  <2>5. Fits(p, t)
    BY <2>1, <2>3, <2>4 DEF Select, Decides, RInv, Alone, Fits
  <2>6. /\ lastId' \in Nat /\ lastId <= lastId' /\ t.id <= lastId'
        /\ \A b \in t.locks : b <= lastId'
    BY <1>0, <2>2, <2>3, <2>4
  <2>7. QED BY <2>2, <2>5, <2>6, FittingStep
<1>2. CASE row[tx[p].digest] = 0
  <2> DEFINE t == [tx[p] EXCEPT !.state = "locked"]
  <2>1. /\ t.state = "locked" /\ t.id = tx[p].id /\ t.digest = tx[p].digest
        /\ t.inserted = tx[p].inserted /\ t.locks = tx[p].locks /\ t.doomed = tx[p].doomed
    BY <1>0 DEF Tx
  <2>2. tx' = [tx EXCEPT ![p] = t] /\ UNCHANGED <<row, item, lastId>>
    BY <1>2 DEF Select
  <2> HIDE DEF t
  <2>3. QED BY <1>0, <2>1, <2>2, QuietStep
<1>3. QED BY <1>1, <1>2

\* The rows locked are ones no other session has claimed or locked, and those
\* to be deleted are ones no item that stays refers to.
LEMMA CollectKeeps ==
  ASSUME IInv, RInv, NEW p \in Requests, Collect(p)
  PROVE  RInv'
<1> DEFINE found == tx[p].old \cap Rows
           t == [tx[p] EXCEPT !.state = "collected", !.locks = found,
                              !.doomed = found \ Referred(p)]
<1>0. /\ tx[p] \in Tx /\ tx[p].state \in {"referred", "deleted"} /\ lastId \in Nat
  BY BlobConstants DEF IInv, TypeOK, Collect
<1>1. /\ t.id = tx[p].id /\ t.digest = tx[p].digest /\ t.inserted = tx[p].inserted
      /\ t.writes = tx[p].writes /\ t.state = "collected"
      /\ t.locks = found /\ t.doomed = found \ Referred(p)
  BY <1>0 DEF Tx
<1>2. tx' = [tx EXCEPT ![p] = t] /\ UNCHANGED <<row, item, lastId>>
  BY DEF Collect
<1>3. \A b \in found : b # 0 /\ b <= lastId
  BY DEF Rows, RInv, Given
<1>4. \A b \in found, q \in Requests \ {p} : tx[q].id # b
  BY <1>3 DEF Collect, Claims
<1> HIDE DEF found, t
<1>5. tx[p].id \in Referred(p) /\ \A i \in Items \ t.writes : item[i] \in Referred(p)
  BY <1>1 DEF Referred
<1>6. Fits(p, t)
  BY <1>1, <1>4, <1>5 DEF RInv, Alone, Decided, ClaimedRowStays, Claims, Fits
<1>7. /\ lastId' \in Nat /\ lastId <= lastId' /\ t.id <= lastId'
      /\ \A b \in t.locks : b <= lastId'
  BY <1>0, <1>1, <1>2, <1>3 DEF RInv, Given
<1>8. QED BY <1>2, <1>6, <1>7, FittingStep

\* A commit deletes rows it alone had locked, and refers to one that exists.
LEMMA CommitKeeps ==
  ASSUME IInv, RInv, NEW p \in Requests, Commit(p)
  PROVE  RInv'
<1> DEFINE t == tx[p]
<1>0. /\ t \in Tx /\ WellFormed(t) /\ t.state = "collected"
      /\ row \in [Digests -> 0..MaxRows] /\ item \in [Items -> 0..MaxRows]
      /\ UNCHANGED lastId
  BY DEF IInv, TypeOK, Uploads, Commit
<1>1. /\ tx'[p] = Idle
      /\ \A q \in Requests \ {p} :
            /\ tx'[q].state = tx[q].state /\ tx'[q].digest = tx[q].digest
            /\ tx'[q].id = tx[q].id /\ tx'[q].inserted = tx[q].inserted
            /\ tx'[q].locks = tx[q].locks /\ tx'[q].doomed = tx[q].doomed
            /\ tx[q].state = "collected" => tx'[q].writes = tx[q].writes
  <2>1. tx'[p] = Idle
    BY DEF Commit
  <2>2. ASSUME NEW q \in Requests \ {p}
        PROVE  /\ tx'[q].state = tx[q].state /\ tx'[q].digest = tx[q].digest
               /\ tx'[q].id = tx[q].id /\ tx'[q].inserted = tx[q].inserted
               /\ tx'[q].locks = tx[q].locks /\ tx'[q].doomed = tx[q].doomed
               /\ tx[q].state = "collected" => tx'[q].writes = tx[q].writes
    <3>1. tx[q] \in Tx
      BY DEF IInv, TypeOK
    <3>2. tx'[q] = [tx[q] EXCEPT !.writes = Left(q, t)]
      BY DEF Commit
    <3>3. tx[q].state = "collected" => Left(q, t) = tx[q].writes
      BY DEF Left
    <3>4. QED BY <3>1, <3>2, <3>3 DEF Tx
  <2>3. QED BY <2>1, <2>2
<1>2. Idle.id = 0 /\ ~Idle.inserted /\ Idle.locks = {} /\ Idle.doomed = {}
  BY DEF Idle
<1>3. \A d \in Digests : row'[d] = IF t.inserted /\ t.digest = d THEN t.id
                                   ELSE IF row[d] \in t.doomed THEN 0 ELSE row[d]
  BY DEF Commit
<1>4. \A i \in Items : item'[i] = IF i \in t.writes THEN t.id ELSE item[i]
  BY DEF Commit
<1>5. ASSUME NEW b \in Rows, b \notin t.doomed PROVE b \in Rows'
  <2>1. PICK d \in Digests : row[d] = b /\ b # 0
    BY DEF Rows
  <2>2. ~(t.inserted /\ t.digest = d)
    BY <2>1 DEF RInv, Alone
  <2>3. row'[d] = b
    BY <1>3, <1>5, <2>1, <2>2
  <2>4. QED BY <2>1, <2>3 DEF Rows
<1>6. t.id # 0 => t.id \in Rows'
  <2> SUFFICES ASSUME t.id # 0 PROVE t.id \in Rows'
    OBVIOUS
  <2>1. CASE t.inserted
    <3>1. t.digest \in Digests
      BY <1>0, <2>1 DEF Tx, WellFormed
    <3>2. row'[t.digest] = t.id
      BY <1>3, <2>1, <3>1
    <3>3. QED BY <3>1, <3>2 DEF Rows
  <2>2. CASE ~t.inserted
    BY <1>5, <2>2 DEF RInv, ClaimedRowStays, Claims, Decided
  <2>3. QED BY <2>1, <2>2
<1> HIDE DEF t
<1>7. Given'
  <2>1. lastId \in Nat /\ t.id <= lastId /\ \A d \in Digests : row[d] <= lastId
    BY BlobConstants DEF t, IInv, TypeOK, RInv, Given
  <2>2. \A d \in Digests : row'[d] <= lastId
    BY <1>3, <2>1
  <2>3. \A q \in Requests : tx'[q].id <= lastId
    BY <1>1, <1>2, <2>1 DEF RInv, Given
  <2>4. QED BY <1>0, <2>2, <2>3 DEF Given
<1>8. Alone'
  <2> SUFFICES ASSUME NEW q \in Requests, tx'[q].inserted
               PROVE  /\ row'[tx'[q].digest] = 0
                      /\ \A r \in Requests \ {q} :
                            ~(tx'[r].inserted /\ tx'[r].digest = tx'[q].digest)
    BY DEF Alone
  <2>1. q # p /\ tx[q].inserted /\ tx'[q].digest = tx[q].digest
    BY <1>1, <1>2
  <2>2. \A r \in Requests \ {q} : ~(tx[r].inserted /\ tx[r].digest = tx[q].digest)
    BY <2>1 DEF RInv, Alone
  <2>3. row[tx[q].digest] = 0 /\ tx[q].digest \in Digests
    BY <2>1 DEF RInv, Alone, IInv, TypeOK, Tx, Uploads, WellFormed
  <2>4. row'[tx[q].digest] = 0
    BY <1>3, <2>1, <2>2, <2>3 DEF t
  <2>5. \A r \in Requests \ {q} : ~(tx'[r].inserted /\ tx'[r].digest = tx[q].digest)
    BY <1>1, <1>2, <2>2
  <2>6. QED BY <2>1, <2>4, <2>5
<1>9. Decided'
  <2> SUFFICES ASSUME NEW q \in Requests
               PROVE  /\ tx'[q].state # "collected" => tx'[q].locks = {}
                      /\ \A b \in tx'[q].locks : b <= lastId'
                      /\ \A r \in Requests \ {q} : tx'[r].id \notin tx'[q].locks
                      /\ tx'[q].doomed \subseteq tx'[q].locks
                      /\ tx'[q].id \notin tx'[q].doomed
                      /\ \A i \in Items \ tx'[q].writes : item'[i] \notin tx'[q].doomed
    BY DEF Decided
  <2>1. CASE q = p
    BY <1>1, <1>2, <2>1
  <2>2. CASE q # p
    <3>1. \A r \in Requests \ {q} : tx'[r].id \notin tx'[q].locks
      <4>1. 0 \notin tx[q].locks
        BY DEF IInv, TypeOK, Tx, Ids
      <4>2. QED BY <1>1, <1>2, <2>2, <4>1 DEF RInv, Decided
    <3>2. \A i \in Items \ tx'[q].writes : item'[i] \notin tx'[q].doomed
      <4>1. CASE tx[q].state = "collected"
        <5>1. t.id \notin tx[q].doomed
          BY <2>2 DEF t, RInv, Decided
        <5>2. \A i \in Items \ tx[q].writes : item[i] \notin tx[q].doomed
          BY DEF RInv, Decided
        <5>3. tx'[q].writes = tx[q].writes /\ tx'[q].doomed = tx[q].doomed
          BY <1>1, <2>2, <4>1
        <5>4. QED BY <1>4, <5>1, <5>2, <5>3
      <4>2. CASE tx[q].state # "collected"
        BY <1>1, <2>2, <4>2 DEF RInv, Decided
      <4>3. QED BY <4>1, <4>2
    <3>3. QED BY <1>0, <1>1, <2>2, <3>1, <3>2 DEF RInv, Decided
  <2>3. QED BY <2>1, <2>2
<1>10. ClaimedRowStays'
  <2> SUFFICES ASSUME NEW q \in Requests, tx'[q].id # 0, ~tx'[q].inserted
               PROVE  tx'[q].id \in Rows'
    BY DEF ClaimedRowStays, Claims
  <2>1. q # p /\ tx'[q].id = tx[q].id /\ ~tx[q].inserted
    BY <1>1, <1>2
  <2>2. tx[q].id \in Rows
    BY <2>1 DEF RInv, ClaimedRowStays, Claims
  <2>3. tx[q].id \notin t.doomed
    BY <2>1 DEF t, RInv, Decided
  <2>4. QED BY <1>5, <2>1, <2>2, <2>3
<1>11. ItemsHaveRows'
  <2> SUFFICES ASSUME NEW i \in Items, item'[i] # 0
               PROVE  item'[i] \in Rows'
    BY DEF ItemsHaveRows
  <2>1. CASE i \in t.writes
    BY <1>4, <1>6, <2>1
  <2>2. CASE i \notin t.writes
    <3>1. item[i] \in Rows /\ item[i] \notin t.doomed
      BY <1>4, <2>2 DEF t, RInv, ItemsHaveRows, Decided
    <3>2. QED BY <1>4, <1>5, <2>2, <3>1
  <2>3. QED BY <2>1, <2>2
<1>12. QED BY <1>7, <1>8, <1>9, <1>10, <1>11 DEF RInv

\* A sweep writes no row and locks none; clearing staged files takes only them.
LEMMA SweepKeeps ==
  ASSUME IInv, RInv, NEW w \in Sweepers, Sweep(w) \/ FailPass(w)
  PROVE  RInv'
<1>1. UNCHANGED <<row, item, lastId>>
  BY DEF Sweep, FailPass, List, ReadRows, TryLock, Skip, LookAgain, Remove, ClearIncoming
<1>2. \A q \in Requests :
         /\ tx'[q].state = tx[q].state /\ tx'[q].digest = tx[q].digest
         /\ tx'[q].id = tx[q].id /\ tx'[q].inserted = tx[q].inserted
         /\ tx'[q].locks = tx[q].locks /\ tx'[q].doomed = tx[q].doomed
         /\ tx'[q].writes = tx[q].writes
  <2>1. CASE ClearIncoming(w)
    <3> PICK taken \in SUBSET {q \in Requests : tx[q].file} :
               tx' = [q \in Requests |-> IF q \in taken THEN [tx[q] EXCEPT !.file = FALSE]
                                                       ELSE tx[q]]
      BY <2>1 DEF ClearIncoming
    <3>1. \A q \in Requests : tx[q] \in Tx
      BY DEF IInv, TypeOK
    <3>2. QED BY <3>1 DEF Tx
  <2>2. CASE ~ClearIncoming(w)
    <3>1. tx' = tx
      BY <2>2 DEF Sweep, FailPass, List, ReadRows, TryLock, Skip, LookAgain, Remove
    <3>2. QED BY <3>1
  <2>3. QED BY <2>1, <2>2
<1>3. Given' /\ Alone'
  BY <1>1, <1>2 DEF RInv, Given, Alone
<1>4. Decided'
  BY <1>1, <1>2 DEF RInv, Decided
<1>5. ClaimedRowStays' /\ ItemsHaveRows'
  BY <1>1, <1>2 DEF RInv, ClaimedRowStays, Claims, ItemsHaveRows, Rows
<1>6. QED BY <1>3, <1>4, <1>5 DEF RInv

-----------------------------------------------------------------------------
LEMMA NextKeeps == IInv /\ RInv /\ [Next]_vars => RInv'
<1> SUFFICES ASSUME IInv, RInv, [Next]_vars PROVE RInv'
  OBVIOUS
<1>1. ASSUME NEW p \in Requests, NEW i \in Items, NEW d \in Digests, Stage(p, i, d)
      PROVE  RInv'
  BY <1>1, RequestStarts
<1>2. ASSUME NEW p \in Requests,
             \/ \E i \in Items : LoadDelete(p, {i}, FALSE)
             \/ LoadDelete(p, Files, TRUE) \/ LoadDelete(p, Items, TRUE)
      PROVE  RInv'
  <2>1. Files \in SUBSET Items /\ Items \in SUBSET Items /\ TRUE \in BOOLEAN
        /\ FALSE \in BOOLEAN /\ \A i \in Items : {i} \in SUBSET Items
    BY DEF Items
  <2>2. QED BY <1>2, <2>1, RequestStarts
<1>3. ASSUME NEW p \in Requests, Request(p) \/ Abort(p)
      PROVE  RInv'
  BY <1>3, RequestStarts, RequestGoesOn, InsertKeeps, SelectKeeps, CollectKeeps, CommitKeeps
     DEF Request
<1>4. ASSUME NEW w \in Sweepers, Sweep(w) \/ FailPass(w)
      PROVE  RInv'
  BY <1>4, SweepKeeps
<1>5. CASE UNCHANGED vars
  <2>1. UNCHANGED <<row, item, lastId, tx>>
    BY <1>5 DEF vars
  <2>2. QED BY <2>1 DEF RInv, Given, Alone, Decided, ClaimedRowStays, Claims, ItemsHaveRows,
                        Rows
<1>6. QED BY <1>1, <1>2, <1>3, <1>4, <1>5 DEF Next

\* Row locks do for references what the advisory lock does for bytes.
THEOREM ReferrersInvariance == Spec => []RInv
  BY InitRInv, NextKeeps, Invariance, PTL DEF Spec

\* No file or skill is ever left referring to a blob row that is gone, however
\* uploads, replacements, deletes and rollbacks interleave.
THEOREM ItemsAlwaysHaveRows == Spec => []ItemsHaveRows
<1>1. RInv => ItemsHaveRows
  BY DEF RInv
<1>2. QED BY <1>1, ReferrersInvariance, PTL

\* A row an upload found and claimed is there until the upload ends.
THEOREM ClaimedRowAlwaysStays == Spec => []ClaimedRowStays
<1>1. RInv => ClaimedRowStays
  BY DEF RInv
<1>2. QED BY <1>1, ReferrersInvariance, PTL

-----------------------------------------------------------------------------
(* Contents.  What the store promises of its items is ContentStore: the     *)
(* bytes last uploaded, until a replacement or a delete.  The argument is   *)
(* that a blob row is known by its digest (Distinct), and a session that    *)
(* has claimed one has its own content's (Named): so what it commits its    *)
(* item to read as is what it was asked to, and what another item refers to *)
(* is not changed by it.                                                   *)

\* A session that has claimed or written a row has its content's; one that
\* deletes has no content; one that rests has no item either.
Named(t) ==
    /\ t.state = "idle" => t.writes = {}
    /\ t.state \in {"idle", "loaded", "deleted"} => t.digest = None
    /\ t.state = "collected" /\ t.id = 0 => t.digest = None
    /\ t.id # 0 => t.digest # None
    /\ t.id # 0 /\ ~t.inserted => row[t.digest] = t.id

\* No two rows share an id, committed or not yet.
Distinct ==
    /\ \A c, d \in Digests : row[c] # 0 /\ row[c] = row[d] => c = d
    /\ \A p \in Requests : tx[p].inserted =>
          /\ tx[p].id \notin Rows
          /\ \A q \in Requests \ {p} : tx[q].inserted => tx[q].id # tx[p].id

CInv ==
    /\ \A p \in Requests : Named(tx[p])
    /\ Distinct

\* One session's step, where no committed row changes.
LEMMA NamingStep ==
  ASSUME CInv, TypeOK, NEW p \in Requests, NEW t, tx' = [tx EXCEPT ![p] = t], row' = row,
         Named(t),
         t.inserted => /\ t.id \notin Rows
                       /\ \A q \in Requests \ {p} : tx[q].inserted => tx[q].id # t.id
  PROVE  CInv'
<1>1. \A q \in Requests : tx'[q] = IF q = p THEN t ELSE tx[q]
  BY DEF TypeOK
<1>2. \A q \in Requests : Named(tx[q])'
  BY <1>1 DEF CInv, Named
<1>3. Distinct'
  BY <1>1 DEF CInv, Distinct, Rows
<1>4. QED BY <1>2, <1>3 DEF CInv

LEMMA InitCInv == Init => CInv
  BY DEF Init, Idle, CInv, Named, Distinct

LEMMA StartsNamed ==
  ASSUME IInv, CInv, NEW p \in Requests,
         \/ \E i \in Items, d \in Digests : Stage(p, i, d)
         \/ \E targets \in SUBSET Items, cascade \in BOOLEAN : LoadDelete(p, targets, cascade)
         \/ Abort(p)
  PROVE  CInv'
<1>1. ASSUME NEW i \in Items, NEW d \in Digests, Stage(p, i, d)
      PROVE  CInv'
  <2> DEFINE t == [Idle EXCEPT !.state = "staged", !.digest = d, !.file = TRUE,
                               !.writes = {i}, !.tries = Attempts]
  <2>1. t.state = "staged" /\ t.id = 0 /\ ~t.inserted
    BY DEF Idle
  <2>2. tx' = [tx EXCEPT ![p] = t] /\ row' = row
    BY <1>1 DEF Stage
  <2> HIDE DEF t
  <2>3. QED BY <2>1, <2>2, NamingStep DEF Named, IInv
<1>2. ASSUME NEW targets \in SUBSET Items, NEW cascade \in BOOLEAN,
             LoadDelete(p, targets, cascade)
      PROVE  CInv'
  <2> DEFINE old == {item[i] : i \in targets} \ {0}
             t == [Idle EXCEPT !.state = "loaded", !.writes = targets,
                               !.cascade = cascade, !.old = old]
  <2>1. t.state = "loaded" /\ t.digest = None /\ t.id = 0 /\ ~t.inserted
    BY DEF Idle
  <2>2. tx' = [tx EXCEPT ![p] = t] /\ row' = row
    BY <1>2 DEF LoadDelete
  <2> HIDE DEF t
  <2>3. QED BY <2>1, <2>2, NamingStep DEF Named, IInv
<1>3. CASE Abort(p)
  <2>1. Idle.state = "idle" /\ Idle.writes = {} /\ Idle.digest = None /\ Idle.id = 0
        /\ ~Idle.inserted
    BY DEF Idle
  <2>2. QED BY <1>3, <2>1, NamingStep DEF Abort, Named, IInv
<1>4. QED BY <1>1, <1>2, <1>3

\* A step that only takes a session on leaves it the content and the row it had.
LEMMA StaysNamed ==
  ASSUME IInv, CInv, NEW p \in Requests, row' = row,
         NEW t, tx' = [tx EXCEPT ![p] = t],
         t.digest = tx[p].digest, t.id = tx[p].id, t.inserted = tx[p].inserted,
         t.state \notin {"idle", "loaded"},
         t.state = "deleted" => tx[p].state = "loaded",
         t.state = "collected" => tx[p].state \in {"referred", "deleted"}
  PROVE  CInv'
<1>1. Named(tx[p]) /\ WellFormed(tx[p])
  BY DEF CInv, IInv, Uploads
<1>2. Named(t)
  BY <1>1 DEF Named, WellFormed, Claimed
<1>3. t.inserted => /\ t.id \notin Rows
                    /\ \A q \in Requests \ {p} : tx[q].inserted => tx[q].id # t.id
  BY DEF CInv, Distinct
<1>4. QED BY <1>2, <1>3, NamingStep DEF IInv

LEMMA GoesOnNamed ==
  ASSUME IInv, CInv, NEW p \in Requests,
         LockDigest(p) \/ Publish(p) \/ Look(p) \/ Refer(p) \/ DeleteRows(p) \/ Collect(p)
  PROVE  CInv'
<1>0. tx[p] \in Tx
  BY DEF IInv, TypeOK
<1>1. ASSUME NEW t, row' = row, tx' = [tx EXCEPT ![p] = t],
             t.digest = tx[p].digest, t.id = tx[p].id, t.inserted = tx[p].inserted,
             t.state \notin {"idle", "loaded"},
             t.state = "deleted" => tx[p].state = "loaded",
             t.state = "collected" => tx[p].state \in {"referred", "deleted"}
      PROVE  CInv'
  BY <1>1, StaysNamed
<1>2. CASE LockDigest(p)
  <2> DEFINE t == [tx[p] EXCEPT !.state = "locked"]
  <2>1. /\ t.digest = tx[p].digest /\ t.id = tx[p].id /\ t.inserted = tx[p].inserted
        /\ t.state = "locked"
    BY <1>0 DEF Tx
  <2>2. row' = row /\ tx' = [tx EXCEPT ![p] = t]
    BY <1>2 DEF LockDigest
  <2> HIDE DEF t
  <2>3. QED BY <1>1, <2>1, <2>2
<1>3. CASE Publish(p)
  <2> DEFINE t == [tx[p] EXCEPT !.state = "published", !.file = FALSE]
  <2>1. /\ t.digest = tx[p].digest /\ t.id = tx[p].id /\ t.inserted = tx[p].inserted
        /\ t.state = "published"
    BY <1>0 DEF Tx
  <2>2. row' = row /\ tx' = [tx EXCEPT ![p] = t]
    BY <1>3 DEF Publish
  <2> HIDE DEF t
  <2>3. QED BY <1>1, <2>1, <2>2
<1>4. CASE Look(p)
  <2> DEFINE old == {item[i] : i \in tx[p].writes} \ {0}
             t == [tx[p] EXCEPT !.state = "looked", !.old = old]
  <2>1. /\ t.digest = tx[p].digest /\ t.id = tx[p].id /\ t.inserted = tx[p].inserted
        /\ t.state = "looked"
    BY <1>0 DEF Tx
  <2>2. row' = row /\ tx' = [tx EXCEPT ![p] = t]
    BY <1>4 DEF Look
  <2> HIDE DEF t
  <2>3. QED BY <1>1, <2>1, <2>2
<1>5. CASE Refer(p)
  <2> DEFINE t == [tx[p] EXCEPT !.state = "referred"]
  <2>1. /\ t.digest = tx[p].digest /\ t.id = tx[p].id /\ t.inserted = tx[p].inserted
        /\ t.state = "referred"
    BY <1>0 DEF Tx
  <2>2. row' = row /\ tx' = [tx EXCEPT ![p] = t]
    BY <1>5 DEF Refer
  <2> HIDE DEF t
  <2>3. QED BY <1>1, <2>1, <2>2
<1>6. CASE DeleteRows(p)
  <2> DEFINE t == [tx[p] EXCEPT !.state = "deleted"]
  <2>1. /\ t.digest = tx[p].digest /\ t.id = tx[p].id /\ t.inserted = tx[p].inserted
        /\ t.state = "deleted" /\ tx[p].state = "loaded"
    BY <1>0, <1>6 DEF Tx, DeleteRows
  <2>2. row' = row /\ tx' = [tx EXCEPT ![p] = t]
    BY <1>6 DEF DeleteRows
  <2> HIDE DEF t
  <2>3. QED BY <1>1, <2>1, <2>2
<1>7. CASE Collect(p)
  <2> DEFINE found == tx[p].old \cap Rows
             t == [tx[p] EXCEPT !.state = "collected", !.locks = found,
                                !.doomed = found \ Referred(p)]
  <2>1. /\ t.digest = tx[p].digest /\ t.id = tx[p].id /\ t.inserted = tx[p].inserted
        /\ t.state = "collected" /\ tx[p].state \in {"referred", "deleted"}
    BY <1>0, <1>7 DEF Tx, Collect
  <2>2. row' = row /\ tx' = [tx EXCEPT ![p] = t]
    BY <1>7 DEF Collect
  <2> HIDE DEF t
  <2>3. QED BY <1>1, <2>1, <2>2
<1>8. QED BY <1>2, <1>3, <1>4, <1>5, <1>6, <1>7

\* The row inserted is the session's own, under an id never given before; the
\* row found is the one of the content it looked for.
LEMMA ClaimsNamed ==
  ASSUME IInv, RInv, CInv, NEW p \in Requests, Insert(p) \/ Select(p)
  PROVE  CInv'
<1>0. /\ tx[p] \in Tx /\ Named(tx[p]) /\ lastId \in Nat
      /\ tx[p].state \in {"locked", "missed"} /\ tx[p].digest \in Digests
      /\ tx[p].digest # None /\ row \in [Digests -> 0..MaxRows]
  BY BlobConstants DEF IInv, TypeOK, CInv, Insert, Select, Uploads, WellFormed, HasDigest, Tx
<1>1. ASSUME NEW s \in {"locked", "missed"}, NEW n,
             tx' = [tx EXCEPT ![p] = [tx[p] EXCEPT !.state = s, !.tries = n]], row' = row
      PROVE  CInv'
  <2> DEFINE t == [tx[p] EXCEPT !.state = s, !.tries = n]
  <2>1. /\ t.digest = tx[p].digest /\ t.id = tx[p].id /\ t.inserted = tx[p].inserted
        /\ t.state = s
    BY <1>0 DEF Tx
  <2>2. row' = row /\ tx' = [tx EXCEPT ![p] = t]
    BY <1>1
  <2> HIDE DEF t
  <2>3. QED BY <2>1, <2>2, StaysNamed
<1>2. CASE Insert(p) /\ row[tx[p].digest] = 0
  <2> DEFINE t == [tx[p] EXCEPT !.state = "claimed", !.inserted = TRUE, !.id = lastId + 1]
  <2>1. /\ t.state = "claimed" /\ t.inserted /\ t.id = lastId + 1
        /\ t.digest = tx[p].digest
    BY <1>0 DEF Tx
  <2>2. tx' = [tx EXCEPT ![p] = t] /\ row' = row
    BY <1>2 DEF Insert
  <2> HIDE DEF t
  <2>3. Named(t)
    BY <1>0, <2>1 DEF Named
  <2>4. \A d \in Digests : row[d] \in Nat /\ row[d] <= lastId
    <3>1. ASSUME NEW d \in Digests PROVE row[d] \in Nat /\ row[d] <= lastId
      <4>1. row[d] \in 0..MaxRows /\ MaxRows \in Nat
        BY <1>0, BlobConstants
      <4>2. row[d] \in Nat
        BY <4>1
      <4>3. QED BY <4>2 DEF RInv, Given
    <3>2. QED BY <3>1
  <2>5. t.id \notin Rows
    BY <1>0, <2>1, <2>4 DEF Rows
  <2>6. \A q \in Requests : tx[q].id \in Nat /\ tx[q].id <= lastId
    BY BlobConstants DEF RInv, Given, IInv, TypeOK, Tx
  <2>7. \A q \in Requests : tx[q].id # t.id
    BY <1>0, <2>1, <2>6
  <2>8. QED BY <2>2, <2>3, <2>5, <2>7, NamingStep DEF IInv
<1>3. CASE Insert(p) /\ row[tx[p].digest] # 0
  <2>1. tx' = [tx EXCEPT ![p] = [tx[p] EXCEPT !.state = "missed", !.tries = tx[p].tries - 1]]
        /\ row' = row
    BY <1>3 DEF Insert
  <2>2. QED BY <1>1, <2>1
<1>4. CASE Select(p) /\ row[tx[p].digest] # 0
  <2> DEFINE t == [tx[p] EXCEPT !.state = "claimed", !.id = row[tx[p].digest]]
  <2>1. /\ t.state = "claimed" /\ t.inserted = tx[p].inserted
        /\ t.id = row[tx[p].digest] /\ t.digest = tx[p].digest
    BY <1>0 DEF Tx
  <2>2. tx' = [tx EXCEPT ![p] = t] /\ row' = row
    BY <1>4 DEF Select
  <2> HIDE DEF t
  <2>3. ~t.inserted
    BY <1>4, <2>1 DEF RInv, Alone
  <2>4. Named(t)
    BY <1>0, <2>1 DEF Named
  <2>5. QED BY <2>2, <2>3, <2>4, NamingStep DEF IInv
<1>5. CASE Select(p) /\ row[tx[p].digest] = 0
  <2>1. tx' = [tx EXCEPT ![p] = [tx[p] EXCEPT !.state = "locked", !.tries = tx[p].tries]]
        /\ row' = row
    <3>1. [tx[p] EXCEPT !.state = "locked", !.tries = tx[p].tries] = [tx[p] EXCEPT !.state = "locked"]
      BY <1>0 DEF Tx
    <3>2. QED BY <1>5, <3>1 DEF Select
  <2>2. QED BY <1>1, <2>1
<1>6. QED BY <1>2, <1>3, <1>4, <1>5

\* What a commit does to one row.
LEMMA CommittedRows ==
  ASSUME IInv, RInv, CInv, NEW p \in Requests, Commit(p), NEW d \in Digests
  PROVE  /\ tx[p].inserted /\ tx[p].digest = d => row'[d] = tx[p].id /\ row[d] = 0
         /\ ~(tx[p].inserted /\ tx[p].digest = d) => row'[d] \in {0, row[d]}
         /\ ~(tx[p].inserted /\ tx[p].digest = d) /\ row[d] \notin tx[p].doomed
               => row'[d] = row[d]
<1>1. row'[d] = IF tx[p].inserted /\ tx[p].digest = d THEN tx[p].id
                ELSE IF row[d] \in tx[p].doomed THEN 0 ELSE row[d]
  BY DEF Commit
<1>2. QED BY <1>1 DEF RInv, Alone

LEMMA CommitNamed ==
  ASSUME IInv, RInv, CInv, NEW p \in Requests, Commit(p)
  PROVE  CInv'
<1>0. tx[p].inserted => tx[p].id \notin Rows
  BY DEF CInv, Distinct
<1>1. /\ tx'[p] = Idle
      /\ \A q \in Requests \ {p} : tx'[q] = [tx[q] EXCEPT !.writes = Left(q, tx[p])]
  BY DEF Commit
<1>2. \A q \in Requests \ {p} :
         /\ tx'[q].state = tx[q].state /\ tx'[q].digest = tx[q].digest
         /\ tx'[q].id = tx[q].id /\ tx'[q].inserted = tx[q].inserted
         /\ tx[q].state = "idle" => tx'[q].writes = tx[q].writes
  <2>1. \A q \in Requests : tx[q] \in Tx
    BY DEF IInv, TypeOK
  <2>2. \A q \in Requests : tx[q].state = "idle" => Left(q, tx[p]) = tx[q].writes
    BY DEF Left
  <2>3. QED BY <1>1, <2>1, <2>2 DEF Tx
<1>3. /\ Idle.state = "idle" /\ Idle.writes = {} /\ Idle.digest = None /\ Idle.id = 0
      /\ ~Idle.inserted
  BY DEF Idle
<1>4. ASSUME NEW q \in Requests PROVE Named(tx[q])'
  <2>1. CASE q = p
    BY <1>1, <1>3, <2>1 DEF Named
  <2>2. CASE q # p
    <3>1. Named(tx[q])
      BY DEF CInv
    <3>2. tx[q].id # 0 /\ ~tx[q].inserted => row'[tx[q].digest] = tx[q].id
      <4> SUFFICES ASSUME tx[q].id # 0, ~tx[q].inserted
                   PROVE  row'[tx[q].digest] = tx[q].id
        OBVIOUS
      <4>1. row[tx[q].digest] = tx[q].id /\ tx[q].digest \in Digests
        BY <3>1 DEF Named, IInv, TypeOK, Tx
      <4>2. tx[q].id \notin tx[p].doomed
        BY <2>2 DEF RInv, Decided
      <4>3. QED BY <4>1, <4>2, CommittedRows
    <3>3. QED BY <1>2, <2>2, <3>1, <3>2 DEF Named
  <2>3. QED BY <2>1, <2>2
<1>5. \A c, d \in Digests : row'[c] # 0 /\ row'[c] = row'[d] => c = d
  <2>1. ASSUME NEW c \in Digests, NEW d \in Digests, row'[c] # 0, row'[c] = row'[d]
        PROVE  c = d
    <3>1. CASE tx[p].inserted /\ tx[p].digest = c
      BY <1>0, <2>1, <3>1, CommittedRows DEF Rows
    <3>2. CASE tx[p].inserted /\ tx[p].digest = d
      BY <1>0, <2>1, <3>2, CommittedRows DEF Rows
    <3>3. CASE ~(tx[p].inserted /\ tx[p].digest \in {c, d})
      BY <2>1, <3>3, CommittedRows DEF CInv, Distinct
    <3>4. QED BY <3>1, <3>2, <3>3
  <2>2. QED BY <2>1
<1>6. ASSUME NEW q \in Requests, tx'[q].inserted
      PROVE  /\ tx'[q].id \notin Rows'
             /\ \A r \in Requests \ {q} : tx'[r].inserted => tx'[r].id # tx'[q].id
  <2>1. q # p /\ tx[q].inserted /\ tx'[q].id = tx[q].id
    BY <1>1, <1>2, <1>3, <1>6
  <2>2. tx[q].id \notin Rows /\ (tx[p].inserted => tx[p].id # tx[q].id)
        /\ \A r \in Requests \ {q} : tx[r].inserted => tx[r].id # tx[q].id
    BY <2>1 DEF CInv, Distinct
  <2>3. ASSUME NEW d \in Digests, row'[d] # 0 PROVE row'[d] # tx[q].id
    BY <2>2, <2>3, CommittedRows DEF Rows
  <2>4. tx'[q].id \notin Rows'
    BY <2>1, <2>3 DEF Rows
  <2>5. \A r \in Requests \ {q} : tx'[r].inserted => tx'[r].id # tx'[q].id
    BY <1>1, <1>2, <1>3, <2>1, <2>2
  <2>6. QED BY <2>4, <2>5
<1>7. Distinct'
  BY <1>5, <1>6 DEF Distinct
<1>8. QED BY <1>4, <1>7 DEF CInv

LEMMA SweepNamed ==
  ASSUME IInv, CInv, NEW w \in Sweepers, Sweep(w) \/ FailPass(w)
  PROVE  /\ CInv' /\ UNCHANGED <<row, item>>
         /\ \A q \in Requests : tx'[q].writes = tx[q].writes /\ tx'[q].digest = tx[q].digest
<1>1. UNCHANGED <<row, item>>
  BY DEF Sweep, FailPass, List, ReadRows, TryLock, Skip, LookAgain, Remove, ClearIncoming
<1>2. \A q \in Requests :
         /\ tx'[q].state = tx[q].state /\ tx'[q].digest = tx[q].digest
         /\ tx'[q].id = tx[q].id /\ tx'[q].inserted = tx[q].inserted
         /\ tx'[q].writes = tx[q].writes
  <2>1. CASE ClearIncoming(w)
    <3> PICK taken \in SUBSET {q \in Requests : tx[q].file} :
               tx' = [q \in Requests |-> IF q \in taken THEN [tx[q] EXCEPT !.file = FALSE]
                                                       ELSE tx[q]]
      BY <2>1 DEF ClearIncoming
    <3>1. \A q \in Requests : tx[q] \in Tx
      BY DEF IInv, TypeOK
    <3>2. QED BY <3>1 DEF Tx
  <2>2. CASE ~ClearIncoming(w)
    <3>1. tx' = tx
      BY <2>2 DEF Sweep, FailPass, List, ReadRows, TryLock, Skip, LookAgain, Remove
    <3>2. QED BY <3>1
  <2>3. QED BY <2>1, <2>2
<1>3. \A q \in Requests : Named(tx[q])'
  BY <1>1, <1>2 DEF CInv, Named
<1>4. Distinct'
  BY <1>1, <1>2 DEF CInv, Distinct, Rows
<1>5. QED BY <1>1, <1>2, <1>3, <1>4 DEF CInv

LEMMA NextNames == IInv /\ RInv /\ CInv /\ [Next]_vars => CInv'
<1> SUFFICES ASSUME IInv, RInv, CInv, [Next]_vars PROVE CInv'
  OBVIOUS
<1>1. ASSUME NEW p \in Requests, NEW i \in Items, NEW d \in Digests, Stage(p, i, d)
      PROVE  CInv'
  BY <1>1, StartsNamed
<1>2. ASSUME NEW p \in Requests,
             \/ \E i \in Items : LoadDelete(p, {i}, FALSE)
             \/ LoadDelete(p, Files, TRUE) \/ LoadDelete(p, Items, TRUE)
      PROVE  CInv'
  <2>1. Files \in SUBSET Items /\ Items \in SUBSET Items /\ TRUE \in BOOLEAN
        /\ FALSE \in BOOLEAN /\ \A i \in Items : {i} \in SUBSET Items
    BY DEF Items
  <2>2. QED BY <1>2, <2>1, StartsNamed
<1>3. ASSUME NEW p \in Requests, Request(p) \/ Abort(p)
      PROVE  CInv'
  BY <1>3, StartsNamed, GoesOnNamed, ClaimsNamed, CommitNamed DEF Request
<1>4. ASSUME NEW w \in Sweepers, Sweep(w) \/ FailPass(w)
      PROVE  CInv'
  BY <1>4, SweepNamed
<1>5. CASE UNCHANGED vars
  <2>1. UNCHANGED <<row, tx>>
    BY <1>5 DEF vars
  <2>2. QED BY <2>1 DEF CInv, Named, Distinct, Rows
<1>6. QED BY <1>1, <1>2, <1>3, <1>4, <1>5 DEF Next

\* A blob row is known by its digest, and whoever is to refer to one has that
\* of its own content.
THEOREM NamesInvariance == Spec => []CInv
  BY InitCInv, NextNames, Invariance, ReferrersInvariance, PTL DEF Spec

\* Up to its commit a request stays for the items and the content it was for.
LEMMA GoesOnWith ==
  ASSUME TypeOK, NEW p \in Requests,
         \/ LockDigest(p) \/ Insert(p) \/ Select(p) \/ Publish(p) \/ Look(p)
         \/ Refer(p) \/ DeleteRows(p) \/ Collect(p)
  PROVE  \A q \in Requests : tx'[q].writes = tx[q].writes /\ tx'[q].digest = tx[q].digest
<1>0. tx[p] \in Tx /\ tx \in [Requests -> Tx]
  BY DEF TypeOK
<1>1. \A q \in Requests \ {p} : tx'[q] = tx[q]
  BY <1>0 DEF LockDigest, Insert, Select, Publish, Look, Refer, DeleteRows, Collect
<1>2. tx'[p].writes = tx[p].writes /\ tx'[p].digest = tx[p].digest
  BY <1>0 DEF Tx, LockDigest, Insert, Select, Publish, Look, Refer, DeleteRows, Collect
<1>3. QED BY <1>1, <1>2

-----------------------------------------------------------------------------
ContentNow == [i \in Items |-> Content(i)]
AskedNow == [p \in Requests |-> [of |-> tx[p].writes, to |-> tx[p].digest]]

\* An item reads as the digest of the row it refers to.
LEMMA ReadsAs ==
  ASSUME RowsHaveBytes, CInv, NEW i \in Items, NEW d \in Digests,
         item[i] # 0, row[d] = item[i]
  PROVE  Content(i) = d
<1> DEFINE here == {c \in Digests : row[c] = item[i] /\ c \in disk}
<1>1. here = {d}
  BY DEF RowsHaveBytes, CInv, Distinct
<1>2. (CHOOSE c \in here : TRUE) = d
  BY <1>1
<1>3. QED BY <1>1, <1>2 DEF Content

\* While rows and items stand, no move of bytes that keeps the rows' promise
\* shows.
LEMMA SameContent ==
  ASSUME RInv, RowsHaveBytes, CInv, RowsHaveBytes', CInv', UNCHANGED <<row, item>>
  PROVE  ContentNow' = ContentNow
<1>1. ASSUME NEW i \in Items PROVE Content(i)' = Content(i)
  <2>1. CASE item[i] = 0
    BY <2>1 DEF Content
  <2>2. CASE item[i] # 0
    <3>1. PICK d \in Digests : row[d] = item[i]
      BY <2>2 DEF RInv, ItemsHaveRows, Rows
    <3>2. Content(i) = d
      BY <2>2, <3>1, ReadsAs
    <3> DEFINE here == {c \in Digests : row[c] = item[i] /\ c \in disk'}
    <3>3. here = {d}
      BY <2>2, <3>1 DEF RowsHaveBytes, CInv, Distinct
    <3>4. (CHOOSE c \in here : TRUE) = d
      BY <3>3
    <3>5. Content(i)' = d
      BY <2>2, <3>3, <3>4 DEF Content
    <3>6. QED BY <3>2, <3>5
  <2>3. QED BY <2>1, <2>2
<1>2. QED BY <1>1 DEF ContentNow

LEMMA ContentInit == Init => Store!Init
<1> SUFFICES ASSUME Init PROVE Store!Init
  OBVIOUS
<1>1. \A i \in Items : Content(i) = None
  BY DEF Init, Content
<1>2. \A p \in Requests : tx[p].writes = {} /\ tx[p].digest = None
  BY DEF Init, Idle
<1>3. QED BY <1>1, <1>2 DEF Store!Init, Store!Nothing

\* A commit leaves the items it is not for reading as they did, and makes the
\* others read as its content, or, if it has none, not at all.
LEMMA CommitGives ==
  ASSUME IInv, RInv, CInv, IInv', CInv', NEW p \in Requests, Commit(p), NEW i \in Items
  PROVE  Content(i)' = IF i \in tx[p].writes THEN tx[p].digest ELSE Content(i)
<1> DEFINE t == tx[p]
           here(b) == {c \in Digests : row'[c] = b /\ c \in disk'}
<1>0. /\ t \in Tx /\ Named(t) /\ t.state = "collected"
      /\ item'[i] = IF i \in t.writes THEN t.id ELSE item[i]
  BY DEF IInv, TypeOK, CInv, Commit
<1>1. ASSUME NEW d \in Digests, item'[i] # 0, row'[d] = item'[i]
      PROVE  Content(i)' = d
  <2>1. here(item'[i]) = {d}
    BY <1>1 DEF IInv, RowsHaveBytes, CInv, Distinct
  <2>2. (CHOOSE c \in here(item'[i]) : TRUE) = d
    BY <2>1
  <2>3. QED BY <1>1, <2>1, <2>2 DEF Content
<1>2. CASE i \in t.writes /\ t.id = 0
  BY <1>0, <1>2 DEF Named, Content
<1>3. CASE i \in t.writes /\ t.id # 0
  <2>1. t.digest \in Digests
    BY <1>0, <1>3 DEF Named, Tx
  <2>2. row'[t.digest] = t.id
    <3>1. CASE t.inserted
      BY <2>1, <3>1, CommittedRows
    <3>2. CASE ~t.inserted
      <4>1. row[t.digest] = t.id /\ t.id \notin t.doomed
        BY <1>0, <1>3, <3>2 DEF Named, RInv, Decided
      <4>2. QED BY <2>1, <3>2, <4>1, CommittedRows
    <3>3. QED BY <3>1, <3>2
  <2>3. QED BY <1>0, <1>1, <1>3, <2>1, <2>2
<1>4. CASE i \notin t.writes /\ item[i] = 0
  BY <1>0, <1>4 DEF Content
<1>5. CASE i \notin t.writes /\ item[i] # 0
  <2>1. PICK d \in Digests : row[d] = item[i]
    BY <1>5 DEF RInv, ItemsHaveRows, Rows
  <2>2. Content(i) = d
    BY <1>5, <2>1, ReadsAs DEF IInv
  <2>3. item[i] \notin t.doomed
    BY <1>5 DEF RInv, Decided
  <2>4. row'[d] = row[d]
    BY <1>5, <2>1, <2>3, CommittedRows
  <2>5. Content(i)' = d
    BY <1>0, <1>1, <1>5, <2>1, <2>4
  <2>6. QED BY <1>5, <2>2, <2>5
<1>6. QED BY <1>2, <1>3, <1>4, <1>5

\* The rest of what a commit does: others have what it deleted left out.
LEMMA CommitLeaves ==
  ASSUME IInv, RInv, CInv, IInv', CInv', NEW p \in Requests, Commit(p)
  PROVE  Store!Give(p)
<1> DEFINE t == tx[p]
           late == {q \in Requests : Left(q, t) # tx[q].writes}
<1>0. t \in Tx /\ Named(t) /\ t.state = "collected"
  BY DEF IInv, TypeOK, CInv, Commit
<1>1. \A i \in Items : ContentNow'[i] = IF i \in AskedNow[p].of THEN AskedNow[p].to
                                        ELSE ContentNow[i]
  BY CommitGives DEF ContentNow, AskedNow
<1>2. ContentNow' = [i \in Items |-> IF i \in AskedNow[p].of THEN AskedNow[p].to
                                     ELSE ContentNow[i]]
  BY <1>1 DEF ContentNow
<1>3. \A q \in Requests : Left(q, t) \in {tx[q].writes, tx[q].writes \ t.writes}
  BY DEF Left
<1>4. t.digest # None => late = {}
  BY <1>0 DEF Left, Named
<1>5. ASSUME NEW q \in Requests
      PROVE  AskedNow'[q] = IF q = p THEN Store!Nothing
                            ELSE IF q \in late THEN [AskedNow[q] EXCEPT !.of = @ \ AskedNow[p].of]
                            ELSE AskedNow[q]
  <2>1. CASE q = p
    <3>1. tx'[p] = Idle
      BY DEF Commit
    <3>2. QED BY <2>1, <3>1 DEF AskedNow, Store!Nothing, Idle
  <2>2. CASE q # p
    <3>1. tx[q] \in Tx /\ tx'[q] = [tx[q] EXCEPT !.writes = Left(q, t)]
      BY <2>2 DEF Commit, IInv, TypeOK
    <3>2. tx'[q].writes = Left(q, t) /\ tx'[q].digest = tx[q].digest
      BY <3>1 DEF Tx
    <3>3. AskedNow'[q] = [of |-> Left(q, t), to |-> tx[q].digest]
      BY <3>2 DEF AskedNow
    <3>4. QED BY <1>3, <2>2, <3>3 DEF AskedNow
  <2>3. QED BY <2>1, <2>2
<1>6. AskedNow' = [q \in Requests |->
                      IF q = p THEN Store!Nothing
                      ELSE IF q \in late THEN [AskedNow[q] EXCEPT !.of = @ \ AskedNow[p].of]
                      ELSE AskedNow[q]]
  BY <1>5 DEF AskedNow
<1>7. late \in SUBSET Requests /\ (AskedNow[p].to # None => late = {})
  BY <1>4 DEF AskedNow
<1> HIDE DEF late
<1>8. QED BY <1>2, <1>6, <1>7 DEF Store!Give, ContentNow, AskedNow

\* A step of one session that leaves rows and items alone asks for what its
\* record then says.
LEMMA AskedStep ==
  ASSUME TypeOK, NEW p \in Requests, NEW t, tx' = [tx EXCEPT ![p] = t]
  PROVE  AskedNow' = [AskedNow EXCEPT ![p] = [of |-> t.writes, to |-> t.digest]]
<1>1. \A q \in Requests : tx'[q] = IF q = p THEN t ELSE tx[q]
  BY DEF TypeOK
<1>2. QED BY <1>1 DEF AskedNow

LEMMA StoreStep ==
  ASSUME IInv, RInv, CInv, IInv', CInv', [Next]_vars
  PROVE  [Store!Next]_(Store!vars)
<1> SUFFICES Store!Next \/ UNCHANGED <<ContentNow, AskedNow>>
  BY DEF Store!vars, ContentNow, AskedNow
<1>0. UNCHANGED <<row, item>> => ContentNow' = ContentNow
  BY SameContent DEF IInv
<1>1. ASSUME NEW p \in Requests, NEW i \in Items, NEW d \in Digests, Stage(p, i, d)
      PROVE  Store!Ask(p)
  <2> DEFINE t == [Idle EXCEPT !.state = "staged", !.digest = d, !.file = TRUE,
                               !.writes = {i}, !.tries = Attempts]
  <2>1. t.writes = {i} /\ t.digest = d
    BY DEF Idle
  <2>2. tx' = [tx EXCEPT ![p] = t] /\ UNCHANGED <<row, item>> /\ tx[p].state = "idle"
    BY <1>1 DEF Stage
  <2> HIDE DEF t
  <2>3. AskedNow' = [AskedNow EXCEPT ![p] = [of |-> {i}, to |-> d]]
    BY <2>1, <2>2, AskedStep DEF IInv
  <2>4. AskedNow[p] = Store!Nothing
    BY <2>2 DEF CInv, Named, AskedNow, Store!Nothing
  <2>5. QED BY <1>0, <2>2, <2>3, <2>4 DEF Store!Ask, ContentNow, AskedNow
<1>2. ASSUME NEW p \in Requests, NEW targets \in SUBSET Items, NEW cascade,
             LoadDelete(p, targets, cascade)
      PROVE  Store!Ask(p)
  <2> DEFINE old == {item[i] : i \in targets} \ {0}
             t == [Idle EXCEPT !.state = "loaded", !.writes = targets,
                               !.cascade = cascade, !.old = old]
  <2>1. t.writes = targets /\ t.digest = None
    BY DEF Idle
  <2>2. tx' = [tx EXCEPT ![p] = t] /\ UNCHANGED <<row, item>> /\ tx[p].state = "idle"
    BY <1>2 DEF LoadDelete
  <2> HIDE DEF t
  <2>3. AskedNow' = [AskedNow EXCEPT ![p] = [of |-> targets, to |-> None]]
    BY <2>1, <2>2, AskedStep DEF IInv
  <2>4. AskedNow[p] = Store!Nothing
    BY <2>2 DEF CInv, Named, AskedNow, Store!Nothing
  <2>5. QED BY <1>0, <2>2, <2>3, <2>4 DEF Store!Ask, ContentNow, AskedNow
<1>3. ASSUME NEW p \in Requests, Abort(p) PROVE Store!Drop(p)
  <2>1. tx' = [tx EXCEPT ![p] = Idle] /\ UNCHANGED <<row, item>>
    BY <1>3 DEF Abort
  <2>2. AskedNow' = [AskedNow EXCEPT ![p] = Store!Nothing]
    BY <2>1, AskedStep DEF IInv, Idle, Store!Nothing
  <2>3. QED BY <1>0, <2>1, <2>2 DEF Store!Drop, ContentNow, AskedNow
<1>4. ASSUME NEW p \in Requests,
             \/ LockDigest(p) \/ Insert(p) \/ Select(p) \/ Publish(p) \/ Look(p)
             \/ Refer(p) \/ DeleteRows(p) \/ Collect(p)
      PROVE  UNCHANGED <<ContentNow, AskedNow>>
  <2>1. UNCHANGED <<row, item>>
    BY <1>4 DEF LockDigest, Insert, Select, Publish, Look, Refer, DeleteRows, Collect
  <2>2. \A q \in Requests : tx'[q].writes = tx[q].writes /\ tx'[q].digest = tx[q].digest
    BY <1>4, GoesOnWith DEF IInv
  <2>3. AskedNow' = AskedNow
    BY <2>2 DEF AskedNow
  <2>4. QED BY <1>0, <2>1, <2>3
<1>5. ASSUME NEW w \in Sweepers, Sweep(w) \/ FailPass(w)
      PROVE  UNCHANGED <<ContentNow, AskedNow>>
  <2>1. /\ UNCHANGED <<row, item>>
        /\ \A q \in Requests : tx'[q].writes = tx[q].writes /\ tx'[q].digest = tx[q].digest
    BY <1>5, SweepNamed
  <2>2. AskedNow' = AskedNow
    BY <2>1 DEF AskedNow
  <2>3. QED BY <1>0, <2>1, <2>2
<1>6. CASE UNCHANGED vars
  <2>1. UNCHANGED <<row, item, tx>>
    BY <1>6 DEF vars
  <2>2. AskedNow' = AskedNow
    BY <2>1 DEF AskedNow
  <2>3. QED BY <1>0, <2>1, <2>2
<1>7. ASSUME NEW p \in Requests,
             \/ \E i \in Items : LoadDelete(p, {i}, FALSE)
             \/ LoadDelete(p, Files, TRUE) \/ LoadDelete(p, Items, TRUE)
      PROVE  Store!Ask(p)
  <2>1. Files \in SUBSET Items /\ Items \in SUBSET Items /\ \A i \in Items : {i} \in SUBSET Items
    BY DEF Items
  <2>2. QED BY <1>2, <1>7, <2>1
<1>8. ASSUME NEW p \in Requests, Request(p) \/ Abort(p)
      PROVE  Store!Next \/ UNCHANGED <<ContentNow, AskedNow>>
  BY <1>3, <1>4, <1>8, CommitLeaves DEF Request, Store!Next
<1>9. QED BY <1>1, <1>5, <1>6, <1>7, <1>8 DEF Next, Store!Next

LEMMA StoreNext ==
  ASSUME IInv, RInv, CInv, [Next]_vars
  PROVE  [Store!Next]_(Store!vars)
  BY NextPreserves, NextNames, StoreStep

\* Uploads, deletes and the sweep together implement ContentStore: an item
\* reads back as the bytes last uploaded under it, whatever other items share
\* them, and is never left without (blobs.py, storage/local.py, files.py,
\* agents.py).
THEOREM ContentsAreKept == Spec => KeepsContents
<1>1. IInv /\ RInv /\ CInv /\ [Next]_vars => [Store!Next]_(Store!vars)
  BY StoreNext
<1>2. QED BY <1>1, ContentInit, Invariance, ReferrersInvariance, NamesInvariance, PTL
             DEF Spec, KeepsContents, Store!Spec
=============================================================================
