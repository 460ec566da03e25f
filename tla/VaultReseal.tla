---------------------------- MODULE VaultReseal ----------------------------
(***************************************************************************)
(* Rotating the vault key while the application serves.  Secrets lie in    *)
(* two tables, each row sealed under one version of a keyring.  A key is   *)
(* added and the application redeployed; an operator's run then moves      *)
(* every row onto the newest key, a locked batch at a time; and a key that *)
(* the run's report says no row needs is taken out.                        *)
(***************************************************************************)
EXTENDS Naturals, FiniteSets

CONSTANTS
    VaultRows, HookRows,   \* ids of the rows of either table, in their order
    Values, Requests, None, Lost,
    BATCH,
    MaxKey                 \* bound: the last key version ever added

Rows == VaultRows \cup HookRows

ASSUME ResealConstants ==
    /\ VaultRows \subseteq Nat \ {0} /\ HookRows \subseteq Nat \ {0}   \* 0: no cursor yet
    /\ VaultRows \cap HookRows = {} /\ IsFiniteSet(Rows)
    /\ BATCH \in Nat \ {0} /\ MaxKey \in Nat \ {0}
    /\ None \notin Values /\ Lost \notin Values \cup {None}
    /\ None \notin Rows \X (Values \cup {None})

VARIABLES
    keys,       \* the versions the running application holds
    row,        \* id -> its row, as committed
    request,    \* request -> the write it is making
    job,        \* how far the operator's run has got
    batch,      \* the rows its open transaction holds locked, as it read them
    unreadable, \* the rows it could not open
    retirable   \* the versions its report says no row needs

vars == <<keys, row, request, job, batch, unreadable, retirable>>

\* `key` is what the ciphertext was made with, 0 when it has been altered;
\* `version` is the column beside it.
Sealed == [state : {"held"}, value : Values, key : 0..MaxKey, version : 1..MaxKey]
NotYet == [state |-> "none", value |-> None, key |-> 0, version |-> 0]
Deleted == [NotYet EXCEPT !.state = "deleted"]
Idle == [step |-> "none", id |-> 0, value |-> None, loaded |-> 0]
AtRest == [step |-> "idle", table |-> 1, after |-> 0, inUse |-> {}]

Newest == CHOOSE k \in keys : \A j \in keys : j <= k
Table(i) == IF i = 1 THEN VaultRows ELSE HookRows

\* The version picks the key, and is authenticated.
Opens(sealed) == sealed.key = sealed.version /\ sealed.version \in keys
Seal(v, version) == [state |-> "held", value |-> v, key |-> Newest, version |-> version]

WriterOf(r) == {q \in Requests : request[q].step = "written" /\ request[q].id = r}

Init ==
    /\ keys = {1}
    /\ row \in [Rows -> {NotYet} \cup {s \in Sealed : s.version = 1 /\ s.key \in {0, 1}}]
    /\ request = [q \in Requests |-> Idle]
    /\ job = AtRest
    /\ batch = << >>
    /\ unreadable = {}
    /\ retirable = {}

-----------------------------------------------------------------------------
(* Requests to the application.                                             *)

\* A node or a hook made with its secret: inserted, not yet committed.
Create(q, r, v) ==
    /\ request[q] = Idle
    /\ row[r] = NotYet /\ WriterOf(r) = {}
    /\ request' = [request EXCEPT ![q] = [step |-> "written", id |-> r, value |-> v, loaded |-> 0]]
    /\ UNCHANGED <<keys, row, job, batch, unreadable, retirable>>

\* A request to change a secret's value, or to delete what holds it (None),
\* loads the row first.
Load(q, r, v) ==
    /\ request[q] = Idle
    /\ row[r].state = "held"
    /\ request' = [request EXCEPT ![q] =
                     [step |-> "loaded", id |-> r, value |-> v, loaded |-> row[r].version]]
    /\ UNCHANGED <<keys, row, job, batch, unreadable, retirable>>

\* The statement waits for whoever holds the row locked.
Write(q) ==
    LET r == request[q].id IN
    /\ request[q].step = "loaded"
    /\ r \notin DOMAIN batch /\ WriterOf(r) = {} /\ row[r].state = "held"
    /\ request' = [request EXCEPT ![q].step = "written"]
    /\ UNCHANGED <<keys, row, job, batch, unreadable, retirable>>

\* A column whose value is the one that was loaded is not written.
VersionWritten(q) ==
    IF request[q].loaded = Newest THEN row[request[q].id].version ELSE Newest

\* A mutant: a changed secret keeps the version its row was sealed under.
CommitKeepingVersion(q) ==
    LET r == request[q].id IN
    /\ request[q].step = "written"
    /\ row' = [row EXCEPT ![r] =
                 IF request[q].value = None THEN Deleted
                 ELSE Seal(request[q].value,
                           IF row[r].state = "held" THEN row[r].version ELSE Newest)]
    /\ request' = [request EXCEPT ![q] = Idle]
    /\ UNCHANGED <<keys, job, batch, unreadable, retirable>>

Commit(q) ==
    LET r == request[q].id IN
    /\ request[q].step = "written"
    /\ row' = [row EXCEPT ![r] = IF request[q].value = None THEN Deleted
                                 ELSE Seal(request[q].value, VersionWritten(q))]
    /\ request' = [request EXCEPT ![q] = Idle]
    /\ UNCHANGED <<keys, job, batch, unreadable, retirable>>

\* It fails, or finds its row deleted.
Abandon(q) ==
    /\ request[q] # Idle
    /\ request' = [request EXCEPT ![q] = Idle]
    /\ UNCHANGED <<keys, row, job, batch, unreadable, retirable>>

-----------------------------------------------------------------------------
(* The operator's run.                                                      *)

StartReseal ==
    /\ job.step = "idle"
    /\ job' = [AtRest EXCEPT !.step = "walking"]
    /\ unreadable' = {}
    /\ UNCHANGED <<keys, row, request, batch, retirable>>

\* What the batch's query has still to reach: a row not on the newest key,
\* past the cursor and past the rows already locked.
Ahead == {r \in Table(job.table) :
            /\ row[r].state = "held" /\ row[r].version # Newest
            /\ r > job.after /\ \A b \in DOMAIN batch : r > b}

\* FOR UPDATE, in order of id.  A row somebody is writing is waited for, and
\* looked at again as they left it.
LockRow ==
    /\ job.step = "walking" /\ Cardinality(DOMAIN batch) < BATCH
    /\ \E r \in Ahead :
         /\ \A other \in Ahead : r <= other
         /\ WriterOf(r) = {}
         /\ batch' = [b \in DOMAIN batch \cup {r} |-> IF b = r THEN row[r] ELSE batch[b]]
    /\ UNCHANGED <<keys, row, request, job, unreadable, retirable>>

\* A mutant: the second table is not among those walked.
AfterVaultOnly ==
    IF Cardinality(DOMAIN batch) = BATCH
    THEN [job EXCEPT !.after = CHOOSE r \in DOMAIN batch : \A b \in DOMAIN batch : b <= r]
    ELSE [job EXCEPT !.after = 0, !.step = "counting"]

\* A mutant: there is no cursor; every batch is whatever is on an old version.
AfterBatchNoCursor ==
    IF Cardinality(DOMAIN batch) = BATCH
    THEN job
    ELSE [job EXCEPT !.table = IF job.table = 1 THEN 2 ELSE 1,
                     !.step = IF job.table = 1 THEN "walking" ELSE "counting"]

\* A mutant: the walk goes on to a table past the last.
AfterLastTable ==
    IF Cardinality(DOMAIN batch) = BATCH
    THEN [job EXCEPT !.after = CHOOSE r \in DOMAIN batch : \A b \in DOMAIN batch : b <= r]
    ELSE [job EXCEPT !.after = 0, !.table = job.table + 1,
                     !.step = IF job.table = 2 THEN "counting" ELSE "walking"]

\* The cursor moves past a full batch; a short one was the table's last.
AfterBatch ==
    IF Cardinality(DOMAIN batch) = BATCH
    THEN [job EXCEPT !.after = CHOOSE r \in DOMAIN batch : \A b \in DOMAIN batch : b <= r]
    ELSE [job EXCEPT !.after = 0, !.table = IF job.table = 1 THEN 2 ELSE 1,
                     !.step = IF job.table = 1 THEN "walking" ELSE "counting"]

\* Rewrite what opens, note what does not, and commit.
CommitBatch ==
    /\ job.step = "walking"
    /\ Cardinality(DOMAIN batch) = BATCH \/ Ahead = {}
    /\ row' = [r \in Rows |-> IF r \in DOMAIN batch /\ Opens(batch[r])
                              THEN Seal(batch[r].value, Newest) ELSE row[r]]
    /\ unreadable' = unreadable \cup {r \in DOMAIN batch : ~ Opens(batch[r])}
    /\ job' = AfterBatch
    /\ batch' = << >>
    /\ UNCHANGED <<keys, request, retirable>>

VersionsIn(i) == {row[r].version : r \in {x \in Table(i) : row[x].state = "held"}}

\* A mutant: only the vault's own table is counted.
CountVaultOnly ==
    /\ job.step = "counting"
    /\ retirable' = (keys \ VersionsIn(1)) \ {Newest}
    /\ job' = AtRest
    /\ UNCHANGED <<keys, row, request, batch, unreadable>>

\* Count the rows on each version, a table at a time, then report.
CountTable ==
    /\ job.step = "counting"
    /\ IF job.table = 1
       THEN /\ job' = [job EXCEPT !.table = 2, !.inUse = VersionsIn(1)]
            /\ UNCHANGED retirable
       ELSE /\ retirable' = (keys \ (job.inUse \cup VersionsIn(2))) \ {Newest}
            /\ job' = AtRest
    /\ UNCHANGED <<keys, row, request, batch, unreadable>>

-----------------------------------------------------------------------------
(* Deployments.  The old container is gone before the new one serves.       *)

Restart(held) ==
    /\ keys' = held
    /\ request' = [q \in Requests |-> Idle]
    /\ job' = AtRest
    /\ batch' = << >>
    /\ unreadable' = {}
    /\ UNCHANGED row

\* A redeployment with the keyring as it was, and a run interrupted by it.
Redeploy == Restart(keys) /\ UNCHANGED retirable

AddKey ==
    /\ Newest < MaxKey
    /\ Restart(keys \cup {Newest + 1}) /\ UNCHANGED retirable

Retire(k) ==
    /\ k \in retirable
    /\ Restart(keys \ {k})
    /\ retirable' = retirable \ {k}

-----------------------------------------------------------------------------
Next ==
    \/ \E q \in Requests, r \in Rows :
          \/ \E v \in Values : Create(q, r, v)
          \/ \E v \in Values \cup {None} : Load(q, r, v)
    \/ \E q \in Requests : Write(q) \/ Commit(q) \/ Abandon(q)
    \/ StartReseal \/ LockRow \/ CommitBatch \/ CountTable
    \/ Redeploy \/ AddKey \/ \E k \in 1..MaxKey : Retire(k)

Spec == Init /\ [][Next]_vars

\* A run keeps going until it ends or the container does, and a request
\* that holds a row locked commits or fails.
Fairness ==
    /\ SF_vars(LockRow) /\ WF_vars(CommitBatch) /\ WF_vars(CountTable)
    /\ \A q \in Requests : WF_vars(request[q].step = "written" /\ (Commit(q) \/ Abandon(q)))

FairSpec == Spec /\ Fairness

-----------------------------------------------------------------------------
TypeOK ==
    /\ keys \subseteq 1..MaxKey
    /\ row \in [Rows -> Sealed \cup {NotYet, Deleted}]
    /\ request \in [Requests ->
          {Idle} \cup [step : {"loaded", "written"}, id : Rows,
                       value : Values \cup {None}, loaded : 0..MaxKey]]
    /\ job \in [step : {"idle", "walking", "counting"}, table : 1..2, after : Nat,
                inUse : SUBSET (1..MaxKey)]
    /\ DOMAIN batch \subseteq Rows /\ \A r \in DOMAIN batch : batch[r] \in Sealed
    /\ unreadable \subseteq Rows
    /\ retirable \subseteq 1..MaxKey

\* A key the report says can go is one no row is sealed under, from the moment
\* it is reported until it is taken out, whatever is written or deployed in
\* between (reseal.py's retirable and the line cli.py prints of it).
RetirableIsUnused ==
    \A r \in Rows : row[r].state = "held" => row[r].version \notin retirable

\* Once a run has been through a table, the rows it leaves on an older key are
\* those it reports it could not open, however requests moved rows about while
\* it waited for their locks (reseal.py's cursor and its end of a table).
NothingLeftBehind ==
    \A r \in Rows :
        /\ row[r].state = "held" /\ row[r].version # Newest
        /\ \/ job.step = "counting"
           \/ job.step = "walking" /\ r \in VaultRows /\ job.table = 2
           \/ job.step = "walking" /\ r \in Table(job.table) /\ r <= job.after
        => r \in unreadable

\* Nothing is unreadable at any point of a rotation, and no value comes back
\* after it was replaced: what rows open to, under the keys held, changes as a
\* SecretStore's secrets do, and every other step leaves them all alone.
Value(r) ==
    IF row[r].state # "held" THEN None ELSE IF Opens(row[r]) THEN row[r].value ELSE Lost

Asked(q) == IF request[q].step = "none" THEN None ELSE <<request[q].id, request[q].value>>

Store == INSTANCE SecretStore WITH
    Secrets <- Rows,
    secret <- [r \in Rows |-> Value(r)],
    asked <- [q \in Requests |-> Asked(q)]

KeepsSecrets == Store!Spec

\* A run comes to its end: the cursor gets past rows it cannot open, and locks
\* it waits for are let go (reseal.py's keyset, and its while loop).
ResealEnds == [](job.step # "idle" => <>(job.step = "idle"))
=============================================================================
