----------------------------- MODULE BlobStore -----------------------------
(***************************************************************************)
(* Uploaded bytes and the rows that promise them.  Two rows holding the    *)
(* same bytes share one blob row and one file on disk.  A request writes   *)
(* and deletes rows in one READ COMMITTED transaction and never removes    *)
(* bytes; a sweep alone does, for a digest with no row, under that         *)
(* digest's advisory lock.                                                 *)
(***************************************************************************)
EXTENDS Naturals

CONSTANTS
    Digests,   \* contents, by their SHA-256
    Files,     \* names a file may be uploaded under, all in one folder
    Skills,    \* names a skill may be uploaded under; a second one replaces
    Requests,  \* database sessions, each running one request at a time
    Sweepers,  \* the periodic pass, and the command that runs one by hand
    None,
    Lost,      \* what an item reads as whose row or bytes are gone
    MaxRows    \* bound: blob rows ever written

Items == Files \cup Skills

ASSUME BlobConstants ==
    /\ Files \cap Skills = {}
    /\ None \notin Digests
    /\ Lost \notin Digests \cup {None}
    /\ MaxRows \in Nat

Ids == 1..MaxRows
Attempts == 3   \* CLAIM_ATTEMPTS

VARIABLES
    row,     \* digest -> the id of its committed blob row, or 0
    item,    \* item -> the id of the blob row it refers to, or 0 for no item
    disk,    \* the digests whose bytes are in place
    lastId,  \* the last id given to a blob row
    tx,      \* what each session is in the middle of
    sweep    \* what each sweep is in the middle of

vars == <<row, item, disk, lastId, tx, sweep>>

TxState == {"idle", "staged", "locked", "missed", "claimed", "published", "looked",
            "referred", "loaded", "deleted", "collected"}

Claimed == {"claimed", "published", "looked", "referred"}

Idle == [state |-> "idle", digest |-> None, file |-> FALSE, id |-> 0, tries |-> 0,
         inserted |-> FALSE, writes |-> {}, cascade |-> FALSE, old |-> {}, locks |-> {}, doomed |-> {}]

Resting == [state |-> "resting", todo |-> {}, digest |-> None]

-----------------------------------------------------------------------------
(* Locks.                                                                   *)

\* The digest's advisory lock: shared by uploads until they end, exclusive to
\* a sweep.
Shares(p, d) ==
    tx[p].digest = d /\ tx[p].state \notin {"idle", "staged"}
Sweeping(w, d) == sweep[w].digest = d

\* The row locks on blob row b: FOR SHARE by the upload that claimed it, FOR
\* UPDATE by a request deciding whether to delete it.
Claims(p, b) == tx[p].id = b /\ b # 0
Decides(p, b) == b \in tx[p].locks

\* The row lock, or the unique index entry, on a file or a skill.
Writing(p, i) == i \in tx[p].writes

Rows == {row[d] : d \in Digests} \ {0}

-----------------------------------------------------------------------------
(* An upload: stage, lock, claim, publish, refer, commit.                   *)

Stage(p, i, d) ==
    /\ tx[p].state = "idle"
    /\ tx' = [tx EXCEPT ![p] = [Idle EXCEPT !.state = "staged", !.digest = d,
                                            !.file = TRUE, !.writes = {i}, !.tries = Attempts]]
    /\ UNCHANGED <<row, item, disk, lastId, sweep>>

\* pg_advisory_xact_lock_shared on the digest, which a sweep holds exclusively.
LockDigest(p) ==
    /\ tx[p].state = "staged"
    /\ \A w \in Sweepers : ~Sweeping(w, tx[p].digest)
    /\ tx' = [tx EXCEPT ![p].state = "locked"]
    /\ UNCHANGED <<row, item, disk, lastId, sweep>>

\* INSERT ... ON CONFLICT DO NOTHING.  It waits for another upload's insert of
\* the same digest to end, and finds a row whoever has it locked.
Insert(p) ==
    LET d == tx[p].digest IN
    /\ tx[p].state = "locked"
    /\ \A q \in Requests \ {p} : ~(tx[q].inserted /\ tx[q].digest = d)
    /\ IF row[d] = 0
       THEN /\ lastId < MaxRows
            /\ lastId' = lastId + 1
            /\ tx' = [tx EXCEPT ![p].state = "claimed", ![p].inserted = TRUE,
                                ![p].id = lastId + 1]
       ELSE /\ tx' = [tx EXCEPT ![p].state = "missed", ![p].tries = @ - 1]
            /\ UNCHANGED lastId
    /\ UNCHANGED <<row, item, disk, sweep>>

\* A mutant: one try only, whether or not there was a row.
SelectOnce(p) ==
    LET d == tx[p].digest IN
    /\ tx[p].state = "missed"
    /\ \A q \in Requests : ~Decides(q, row[d])
    /\ tx' = [tx EXCEPT ![p].state = "claimed", ![p].id = row[d]]
    /\ UNCHANGED <<row, item, disk, lastId, sweep>>

\* SELECT ... FOR SHARE of the row found: it waits for a request deciding on
\* it, and comes back empty if that request deleted it.  Then insert again.
Select(p) ==
    LET d == tx[p].digest IN
    /\ tx[p].state = "missed"
    /\ \A q \in Requests : ~Decides(q, row[d])
    /\ IF row[d] # 0
       THEN tx' = [tx EXCEPT ![p].state = "claimed", ![p].id = row[d]]
       ELSE tx[p].tries > 0 /\ tx' = [tx EXCEPT ![p].state = "locked"]
    /\ UNCHANGED <<row, item, disk, lastId, sweep>>

\* Rename into place, or drop the staged copy if the digest's file is there.
\* Neither can be done if the staged file has been cleared away: see Abort.
Publish(p) ==
    LET d == tx[p].digest IN
    /\ tx[p].state = "claimed"
    /\ d \in disk \/ tx[p].file
    /\ disk' = disk \cup {d}
    /\ tx' = [tx EXCEPT ![p].state = "published", ![p].file = FALSE]
    /\ UNCHANGED <<row, item, lastId, sweep>>

\* Look for a skill of that name, whose content this one would replace.
Look(p) ==
    LET old == {item[i] : i \in tx[p].writes} \ {0} IN
    /\ tx[p].state = "published"
    /\ old # {} => tx[p].writes \subseteq Skills
    /\ tx' = [tx EXCEPT ![p].state = "looked", ![p].old = old]
    /\ UNCHANGED <<row, item, disk, lastId, sweep>>

\* Insert the item, or write the skill that was found: the database makes it
\* wait for anybody else writing the same one, and refuses an insert of a name
\* now taken or an update of a row now gone.
Refer(p) ==
    /\ tx[p].state = "looked" /\ tx[p].writes # {}
    /\ \A i \in tx[p].writes :
          /\ \A q \in Requests \ {p} :
                Writing(q, i) => tx[q].state \notin {"referred", "deleted", "collected"}
          /\ (item[i] = 0) <=> (tx[p].old = {})
    /\ tx' = [tx EXCEPT ![p].state = "referred"]
    /\ UNCHANGED <<row, item, disk, lastId, sweep>>

-----------------------------------------------------------------------------
(* A delete: of one item, of the folder with every file in it, or of the    *)
(* project with everything on it.  The blobs it may orphan are read first.  *)

LoadDelete(p, targets, cascade) ==
    LET old == {item[i] : i \in targets} \ {0} IN
    /\ tx[p].state = "idle"
    /\ old # {}
    /\ tx' = [tx EXCEPT ![p] = [Idle EXCEPT !.state = "loaded", !.writes = targets,
                                            !.cascade = cascade, !.old = old]]
    /\ UNCHANGED <<row, item, disk, lastId, sweep>>

DeleteRows(p) ==
    /\ tx[p].state = "loaded"
    /\ \A i \in tx[p].writes, q \in Requests \ {p} :
          Writing(q, i) => tx[q].state \notin {"referred", "deleted", "collected"}
    /\ tx' = [tx EXCEPT ![p].state = "deleted"]
    /\ UNCHANGED <<row, item, disk, lastId, sweep>>

\* What referrers a request's own statements see: the committed items, with
\* what it has written itself.
Referred(p) ==
    {item[i] : i \in Items \ tx[p].writes} \cup {tx[p].id}

\* A mutant: referrers are counted before the rows are locked, so an upload
\* about to refer to one is missed.
CollectUnlocked(p) ==
    LET found == tx[p].old \cap Rows IN
    /\ tx[p].state \in {"referred", "deleted"}
    /\ tx' = [tx EXCEPT ![p].state = "collected", ![p].doomed = found \ Referred(p)]
    /\ UNCHANGED <<row, item, disk, lastId, sweep>>

\* collect_garbage: lock FOR UPDATE the rows that may be orphaned, once no
\* upload holds one and no other request is deciding on one, then count.
Collect(p) ==
    LET found == tx[p].old \cap Rows IN
    /\ tx[p].state \in {"referred", "deleted"}
    /\ \A b \in found, q \in Requests \ {p} : ~Claims(q, b) /\ ~Decides(q, b)
    /\ tx' = [tx EXCEPT ![p].state = "collected", ![p].locks = found,
                        ![p].doomed = found \ Referred(p)]
    /\ UNCHANGED <<row, item, disk, lastId, sweep>>

\* What is left for session q to write once t has deleted its rows: a row it
\* loaded is gone, whatever is made under its name afterwards.  A folder or a
\* project that stands still has what is in it by then.
Left(q, t) ==
    LET loaded == tx[q].state = "loaded" \/ (tx[q].state = "looked" /\ tx[q].old # {})
        stands == tx[q].cascade /\ ~(t.cascade /\ tx[q].writes \subseteq t.writes)
    IN  IF t.id = 0 /\ loaded /\ ~stands THEN tx[q].writes \ t.writes ELSE tx[q].writes

Commit(p) ==
    LET t == tx[p] IN
    /\ t.state = "collected"
    /\ row' = [d \in Digests |-> IF t.inserted /\ t.digest = d THEN t.id
                                 ELSE IF row[d] \in t.doomed THEN 0 ELSE row[d]]
    /\ item' = [i \in Items |-> IF i \in t.writes THEN t.id ELSE item[i]]
    /\ tx' = [q \in Requests |-> IF q = p THEN Idle
                                ELSE [tx[q] EXCEPT !.writes = Left(q, t)]]
    /\ UNCHANGED <<disk, lastId, sweep>>

\* Rolled back, at any point and for any reason: a refusal, a statement that
\* timed out, a deadlock the database broke, a crash.  Bytes already published
\* stay; the staged copy, which nothing else ever looks at, goes or is cleared.
Abort(p) ==
    /\ tx[p].state # "idle"
    /\ tx' = [tx EXCEPT ![p] = Idle]
    /\ UNCHANGED <<row, item, disk, lastId, sweep>>

-----------------------------------------------------------------------------
(* A sweep: list the disk, read the rows, then one digest at a time.        *)

List(w) ==
    /\ sweep[w].state = "resting"
    /\ sweep' = [sweep EXCEPT ![w].state = "listed", ![w].todo = disk]
    /\ UNCHANGED <<row, item, disk, lastId, tx>>

\* A mutant: the difference the other way round.
ReadRowsBackwards(w) ==
    /\ sweep[w].state = "listed"
    /\ sweep' = [sweep EXCEPT ![w].state = "sweeping",
                              ![w].todo = {d \in Digests \ @ : row[d] # 0}]
    /\ UNCHANGED <<row, item, disk, lastId, tx>>

ReadRows(w) ==
    /\ sweep[w].state = "listed"
    /\ sweep' = [sweep EXCEPT ![w].state = "sweeping",
                              ![w].todo = {d \in @ : row[d] = 0}]
    /\ UNCHANGED <<row, item, disk, lastId, tx>>

\* pg_try_advisory_xact_lock waits for no one: a digest an upload or another
\* sweep holds is skipped this pass.
TryLock(w, d) ==
    /\ sweep[w].state = "sweeping" /\ d \in sweep[w].todo
    /\ (\A p \in Requests : ~Shares(p, d)) /\ (\A v \in Sweepers : ~Sweeping(v, d))
    /\ sweep' = [sweep EXCEPT ![w].state = "holding", ![w].digest = d,
                              ![w].todo = @ \ {d}]
    /\ UNCHANGED <<row, item, disk, lastId, tx>>

Skip(w, d) ==
    /\ sweep[w].state = "sweeping" /\ d \in sweep[w].todo
    /\ (\E p \in Requests : Shares(p, d)) \/ (\E v \in Sweepers : Sweeping(v, d))
    /\ sweep' = [sweep EXCEPT ![w].todo = @ \ {d}]
    /\ UNCHANGED <<row, item, disk, lastId, tx>>

\* A mutant: the first look at the rows is trusted.
LookAgainNever(w) ==
    /\ sweep[w].state = "holding"
    /\ sweep' = [sweep EXCEPT ![w].state = "removing"]
    /\ UNCHANGED <<row, item, disk, lastId, tx>>

\* With the lock held the row is looked for again.
LookAgain(w) ==
    /\ sweep[w].state = "holding"
    /\ sweep' = IF row[sweep[w].digest] = 0
                THEN [sweep EXCEPT ![w].state = "removing"]
                ELSE [sweep EXCEPT ![w].state = "sweeping", ![w].digest = None]
    /\ UNCHANGED <<row, item, disk, lastId, tx>>

Remove(w) ==
    /\ sweep[w].state = "removing"
    /\ disk' = disk \ {sweep[w].digest}
    /\ sweep' = [sweep EXCEPT ![w].state = "sweeping", ![w].digest = None]
    /\ UNCHANGED <<row, item, lastId, tx>>

\* clear_incoming takes any staged file it judges idle; the margin it judges
\* by is not modelled, so one an upload is still waiting on may go too.
ClearIncoming(w) ==
    /\ sweep[w].state = "sweeping" /\ sweep[w].todo = {}
    /\ \E taken \in SUBSET {p \in Requests : tx[p].file} :
          tx' = [p \in Requests |-> IF p \in taken THEN [tx[p] EXCEPT !.file = FALSE]
                                                  ELSE tx[p]]
    /\ sweep' = [sweep EXCEPT ![w] = Resting]
    /\ UNCHANGED <<row, item, disk, lastId>>

\* A pass that failed: its locks go, and the next one starts over.
FailPass(w) ==
    /\ sweep[w].state # "resting"
    /\ sweep[w].state = "sweeping" => sweep[w].todo # {}
    /\ sweep' = [sweep EXCEPT ![w] = Resting]
    /\ UNCHANGED <<row, item, disk, lastId, tx>>

-----------------------------------------------------------------------------
Init ==
    /\ row = [d \in Digests |-> 0]
    /\ item = [i \in Items |-> 0]
    /\ disk = {}
    /\ lastId = 0
    /\ tx = [p \in Requests |-> Idle]
    /\ sweep = [w \in Sweepers |-> Resting]

Request(p) ==
    \/ LockDigest(p) \/ Insert(p) \/ Select(p) \/ Publish(p) \/ Look(p) \/ Refer(p)
    \/ DeleteRows(p) \/ Collect(p) \/ Commit(p)

Sweep(w) ==
    \/ List(w) \/ ReadRows(w) \/ LookAgain(w) \/ Remove(w) \/ ClearIncoming(w)
    \/ \E d \in Digests : TryLock(w, d) \/ Skip(w, d)

Next ==
    \/ \E p \in Requests :
          \/ \E i \in Items, d \in Digests : Stage(p, i, d)
          \/ \E i \in Items : LoadDelete(p, {i}, FALSE)
          \/ LoadDelete(p, Files, TRUE) \/ LoadDelete(p, Items, TRUE)
          \/ Request(p) \/ Abort(p)
    \/ \E w \in Sweepers : Sweep(w) \/ FailPass(w)

Spec == Init /\ [][Next]_vars

\* Every request ends, since a statement that waits too long is cancelled.  The
\* sweeper's loop outlives a bad pass, and not every pass is a bad one.
Fairness ==
    /\ \A p \in Requests : WF_vars(Request(p) \/ Abort(p))
    /\ \A w \in Sweepers : WF_vars(Sweep(w))
    /\ <>[][\A w \in Sweepers : ~FailPass(w)]_vars

FairSpec == Spec /\ Fairness

-----------------------------------------------------------------------------
(* Properties.                                                              *)

Tx == [state : TxState, digest : Digests \cup {None}, file : BOOLEAN,
       id : 0..MaxRows, tries : 0..Attempts, inserted : BOOLEAN,
       writes : SUBSET Items, cascade : BOOLEAN, old : SUBSET Ids, locks : SUBSET Ids,
       doomed : SUBSET Ids]

SweepRec == [state : {"resting", "listed", "sweeping", "holding", "removing"},
             todo : SUBSET Digests, digest : Digests \cup {None}]

TypeOK ==
    /\ row \in [Digests -> 0..MaxRows]
    /\ item \in [Items -> 0..MaxRows]
    /\ disk \in SUBSET Digests
    /\ lastId \in 0..MaxRows
    /\ tx \in [Requests -> Tx]
    /\ sweep \in [Sweepers -> SweepRec]
    /\ \A p \in Requests : tx[p].state \in Claimed => tx[p].id # 0

\* A committed blob row promises bytes that are on the disk (blobs.py, the
\* module's own claim: never removed while a row for them exists).
RowsHaveBytes == \A d \in Digests : row[d] # 0 => d \in disk

\* Nor are they removed while a row for them is about to exist: an upload that
\* has published, or dropped its copy as a duplicate, finds them there when it
\* commits.
PublishedStays ==
    \A p \in Requests :
        (tx[p].id # 0 /\ tx[p].state \in {"published", "looked", "referred", "collected"})
            => tx[p].digest \in disk

\* Every file and skill refers to a blob row that exists: the foreign keys'
\* RESTRICT never has to refuse a delete (blobs.py, collect_garbage).
ItemsHaveRows == \A i \in Items : item[i] # 0 => item[i] \in Rows

\* A request never loses the row it claimed before it can refer to it.
ClaimedRowStays ==
    \A p \in Requests : Claims(p, tx[p].id) /\ ~tx[p].inserted => tx[p].id \in Rows

\* Once uploads of a content stop, its bytes do not stay on the disk without a
\* row.  While they go on they may: a pass skips what an upload is holding, and
\* one that never commits can be holding it at every pass
\* (main.py, _sweep_blobs_forever).
OrphansAreSwept ==
    \A d \in Digests :
        <>[](\A p \in Requests : tx[p].digest # d) => []<>(d \notin disk \/ row[d] # 0)

\* What a download of item i gives: the bytes its blob row names by their
\* digest.
Content(i) ==
    LET here == {d \in Digests : row[d] = item[i] /\ d \in disk} IN
    IF item[i] = 0 THEN None
    ELSE IF here = {} THEN Lost ELSE CHOOSE d \in here : TRUE

\* An item reads back as what was last uploaded under it, whatever blobs it
\* shares and whatever is swept: only a commit changes what items hold, and it
\* changes those its request was for to what the request was for, all at once
\* (blobs.py, the module's own claim of one set of bytes for many rows).
Store == INSTANCE ContentStore WITH
    Contents <- Digests,
    content <- [i \in Items |-> Content(i)],
    asked <- [p \in Requests |-> [of |-> tx[p].writes, to |-> tx[p].digest]]

KeepsContents == Store!Spec

=============================================================================
