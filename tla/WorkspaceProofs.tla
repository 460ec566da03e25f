--------------------------- MODULE WorkspaceProofs ---------------------------
(***************************************************************************)
(* What surrounds the boards: the secrets a workspace keeps, and who is on *)
(* a project of it.  The two have nothing in common.                       *)
(*                                                                         *)
(* Secrets, for any tables, values, requests, batch size and number of     *)
(* keys: a key reported as free stays free, a run leaves no row behind     *)
(* that it does not report, and what the secrets open to follows           *)
(* SecretStore.  The argument is that no step but a deployment changes the *)
(* newest key, and every write seals under it (WritesNewest): so a row     *)
(* that is on the newest key stays there, and old rows are only those the  *)
(* run can see.                                                            *)
(*                                                                         *)
(* Membership, for any people, roles and requests.  Two things carry the   *)
(* argument.  The project's row lock (Locking): while a save of the list   *)
(* has it nobody else changes who is a member, so the diff is against the  *)
(* list as it is.  And what a request found of the admins, or of who can   *)
(* sign in, when it was checked (StillSound): it holds still of every      *)
(* request under which that has not changed, since it changes only by a    *)
(* commit, and a commit overtakes the requests in flight.                  *)
(***************************************************************************)
EXTENDS VaultReseal, Membership, TLAPS, FiniteSetTheorems

-----------------------------------------------------------------------------
(* Secrets.                                                                 *)

Held(r) == row[r].state = "held"
Old(r) == Held(r) /\ row[r].version # Newest

\* There is a newest key, and a row's key is never taken out under it.
KeysInv ==
    /\ \E k \in keys : \A j \in keys : j <= k
    /\ \A r \in Rows : Held(r) => row[r].version \in keys

\* A request that would leave a row's version as it is, because it read the
\* newest, is one whose row is still on the newest; and the row lock.
RequestInv ==
    /\ \A q \in Requests :
          LET k == row[request[q].id] IN
          /\ request[q].step = "loaded" /\ request[q].loaded = Newest /\ k.state = "held"
                => k.version = Newest
          /\ request[q].step = "written" /\ request[q].loaded = Newest
                => k.state = "held" /\ k.version = Newest
    /\ \A p, q \in Requests :
          request[p].step = "written" /\ request[q].step = "written" /\ request[p].id = request[q].id
             => p = q

\* The rows of a batch are as they were read, and nobody is writing them.
LockedInv ==
    \A b \in DOMAIN batch :
        /\ Held(b) /\ batch[b] = row[b]
        /\ \A q \in Requests : request[q].step = "written" => request[q].id # b

\* A batch is taken in order: it has a last row, and no old row between the
\* cursor and that one is missing from it.
BatchInv ==
    /\ job.step # "walking" => DOMAIN batch = {}
    /\ DOMAIN batch # {} => \E m \in DOMAIN batch : \A b \in DOMAIN batch : b <= m
    /\ \A r \in Table(job.table), b \in DOMAIN batch :
          Old(r) /\ r > job.after /\ r <= b => r \in DOMAIN batch

\* A report is of keys that nothing uses or will use, and so is a count that
\* has been through the first table.
ReportInv ==
    /\ retirable \subseteq keys \ {Newest}
    /\ RetirableIsUnused
    /\ job.step = "counting" /\ job.table = 2
          => \A r \in VaultRows : Held(r) => row[r].version \in job.inUse \cup {Newest}

IInv ==
    /\ TypeOK
    /\ KeysInv
    /\ RequestInv
    /\ LockedInv
    /\ BatchInv
    /\ ReportInv
    /\ NothingLeftBehind

-----------------------------------------------------------------------------
LEMMA NewestKey ==
  ASSUME TypeOK, KeysInv
  PROVE  /\ Newest \in keys /\ Newest \in 1..MaxKey
         /\ \A j \in keys : j <= Newest
BY DEF TypeOK, KeysInv, Newest

\* The newest key is the one no other exceeds.
LEMMA NewestUnique ==
  ASSUME keys' \subseteq 1..MaxKey, NEW k \in keys', \A j \in keys' : j <= k
  PROVE  Newest' = k
<1>1. Newest' \in keys' /\ \A j \in keys' : j <= Newest'
  BY DEF Newest
<1>2. k <= Newest' /\ Newest' <= k
  BY <1>1
<1>3. k \in Int /\ Newest' \in Int
  BY <1>1, ResealConstants
<1>4. QED BY <1>2, <1>3

\* A version already the newest is not written again, and any other becomes it.
LEMMA WritesNewest ==
  ASSUME TypeOK, RequestInv, NEW q \in Requests, request[q].step = "written"
  PROVE  VersionWritten(q) = Newest
BY DEF RequestInv, VersionWritten

LEMMA InitInv == Init => IInv
<1> SUFFICES ASSUME Init PROVE IInv
  OBVIOUS
<1>1. keys = {1} /\ 1 \in 1..MaxKey
  BY ResealConstants DEF Init
<1>2. row \in [Rows -> Sealed \cup {NotYet, Deleted}]
  BY DEF Init
<1>3. DOMAIN batch = {} /\ job.step = "idle" /\ retirable = {}
  BY DEF Init, AtRest
<1>4. TypeOK
  BY <1>1, <1>2, <1>3 DEF TypeOK, Init, AtRest
<1>5. KeysInv
  BY <1>1 DEF KeysInv, Init, Held, NotYet
<1>6. RequestInv
  BY DEF RequestInv, Init, Idle
<1>7. LockedInv /\ BatchInv /\ ReportInv /\ NothingLeftBehind
  BY <1>3 DEF LockedInv, BatchInv, ReportInv, NothingLeftBehind, RetirableIsUnused
<1>8. QED BY <1>4, <1>5, <1>6, <1>7 DEF IInv

-----------------------------------------------------------------------------
(* What requests do.                                                        *)

\* What only the requests' own part of the invariant says anything about.
LEMMA AskingStep ==
  ASSUME IInv, UNCHANGED <<keys, row, job, batch, unreadable, retirable>>,
         NEW q \in Requests, NEW t, request' = [request EXCEPT ![q] = t],
         t \in {Idle} \cup [step : {"loaded", "written"}, id : Rows,
                            value : Values \cup {None}, loaded : 0..MaxKey],
         t.step = "loaded" /\ t.loaded = Newest /\ Held(t.id) => row[t.id].version = Newest,
         t.step = "written" => /\ t.loaded = Newest => Held(t.id) /\ row[t.id].version = Newest
                               /\ t.id \notin DOMAIN batch
                               /\ \A p \in Requests \ {q} :
                                     request[p].step = "written" => request[p].id # t.id
  PROVE  IInv'
<1>1. Newest' = Newest
  BY DEF Newest
<1>2. \A p \in Requests : request'[p] = IF p = q THEN t ELSE request[p]
  BY DEF IInv, TypeOK
<1>3. TypeOK'
  BY DEF IInv, TypeOK
<1>4. RequestInv'
  <2>1. ASSUME NEW p \in Requests
        PROVE  /\ request'[p].step = "loaded" /\ request'[p].loaded = Newest
                  /\ row[request'[p].id].state = "held" => row[request'[p].id].version = Newest
               /\ request'[p].step = "written" /\ request'[p].loaded = Newest
                  => row[request'[p].id].state = "held" /\ row[request'[p].id].version = Newest
    <3>1. CASE p = q
      BY <1>2, <3>1 DEF Held
    <3>2. CASE p # q
      BY <1>2, <3>2 DEF IInv, RequestInv
    <3>3. QED BY <3>1, <3>2
  <2>2. ASSUME NEW p \in Requests, NEW r \in Requests,
               request'[p].step = "written", request'[r].step = "written",
               request'[p].id = request'[r].id
        PROVE  p = r
    BY <1>2, <2>2 DEF IInv, RequestInv
  <2>3. QED BY <1>1, <2>1, <2>2 DEF RequestInv
<1>5. LockedInv'
  BY <1>2 DEF IInv, LockedInv, Held
<1>6. KeysInv' /\ BatchInv' /\ ReportInv' /\ NothingLeftBehind'
  BY <1>1 DEF IInv, KeysInv, BatchInv, ReportInv, NothingLeftBehind, RetirableIsUnused, Held, Old, Table
<1>7. QED BY <1>3, <1>4, <1>5, <1>6 DEF IInv

\* Whatever a request asks for, it has not asked for a row that is written or
\* locked when it writes.
LEMMA RequestsKeepInv ==
  ASSUME IInv, NEW q \in Requests,
         \/ \E r \in Rows : \/ \E v \in Values : Create(q, r, v)
                           \/ \E v \in Values \cup {None} : Load(q, r, v)
         \/ Write(q) \/ Abandon(q)
  PROVE  IInv'
<1>1. ASSUME NEW r \in Rows, NEW v \in Values, Create(q, r, v) PROVE IInv'
  <2> DEFINE t == [step |-> "written", id |-> r, value |-> v, loaded |-> 0]
  <2>1. 0 # Newest /\ ~Held(r)
    BY <1>1, NewestKey DEF IInv, Create, NotYet, Held
  <2>2. r \notin DOMAIN batch
    BY <2>1 DEF IInv, LockedInv
  <2>3. t \in [step : {"loaded", "written"}, id : Rows, value : Values \cup {None}, loaded : 0..MaxKey]
    BY ResealConstants
  <2>4. \A p \in Requests \ {q} : request[p].step = "written" => request[p].id # r
    BY <1>1 DEF Create, WriterOf
  <2>5. request' = [request EXCEPT ![q] = t] /\ UNCHANGED <<keys, row, job, batch, unreadable, retirable>>
    BY <1>1 DEF Create
  <2>6. QED BY <2>1, <2>2, <2>3, <2>4, <2>5, AskingStep
<1>2. ASSUME NEW r \in Rows, NEW v \in Values \cup {None}, Load(q, r, v) PROVE IInv'
  <2> DEFINE t == [step |-> "loaded", id |-> r, value |-> v, loaded |-> row[r].version]
  <2>1. row[r] \in Sealed
    BY <1>2 DEF IInv, TypeOK, Load, NotYet, Deleted
  <2>2. t \in [step : {"loaded", "written"}, id : Rows, value : Values \cup {None}, loaded : 0..MaxKey]
    BY <2>1, ResealConstants DEF Sealed
  <2>3. request' = [request EXCEPT ![q] = t] /\ UNCHANGED <<keys, row, job, batch, unreadable, retirable>>
    BY <1>2 DEF Load
  <2>4. QED BY <2>2, <2>3, AskingStep
<1>3. CASE Write(q)
  <2> DEFINE t == [request[q] EXCEPT !.step = "written"]
  <2>1. request[q].step = "loaded" /\ request' = [request EXCEPT ![q] = t]
        /\ UNCHANGED <<keys, row, job, batch, unreadable, retirable>>
    BY <1>3 DEF Write
  <2>2. request[q] \in [step : {"loaded", "written"}, id : Rows,
                        value : Values \cup {None}, loaded : 0..MaxKey]
    BY <2>1 DEF IInv, TypeOK, Idle
  <2>3. /\ t \in [step : {"loaded", "written"}, id : Rows, value : Values \cup {None}, loaded : 0..MaxKey]
        /\ t.step = "written" /\ t.id = request[q].id /\ t.loaded = request[q].loaded
    BY <2>2
  <2>4. Held(t.id) /\ t.id \notin DOMAIN batch
        /\ \A p \in Requests \ {q} : request[p].step = "written" => request[p].id # t.id
    BY <1>3, <2>3 DEF Write, WriterOf, Held
  <2>5. t.loaded = Newest => row[t.id].version = Newest
    BY <2>1, <2>3, <2>4 DEF IInv, RequestInv, Held
  <2>6. QED BY <2>1, <2>3, <2>4, <2>5, AskingStep
<1>4. CASE Abandon(q)
  BY <1>4, AskingStep DEF Abandon, Idle
<1>5. QED BY <1>1, <1>2, <1>3, <1>4

\* A commit puts its row on the newest key, or deletes it; no other row is
\* touched, and nobody else was writing this one.
LEMMA CommitRow ==
  ASSUME IInv, NEW q \in Requests, Commit(q)
  PROVE  LET r == request[q].id
             k == IF request[q].value = None THEN Deleted ELSE Seal(request[q].value, Newest)
         IN  /\ r \in Rows /\ row' = [row EXCEPT ![r] = k]
             /\ k \in Sealed \cup {Deleted}
             /\ k.state = "held" => k.version = Newest /\ k.key = Newest
             /\ r \notin DOMAIN batch
             /\ \A p \in Requests \ {q} : request[p].step = "written" => request[p].id # r
<1>1. request[q].step = "written" /\ request[q].id \in Rows /\ request[q].value \in Values \cup {None}
  BY DEF IInv, TypeOK, Idle, Commit
<1>2. VersionWritten(q) = Newest
  BY <1>1, WritesNewest DEF IInv
<1>3. Newest \in 1..MaxKey
  BY NewestKey DEF IInv
<1>4. request[q].value # None => Seal(request[q].value, Newest) \in Sealed
  BY <1>1, <1>3, ResealConstants DEF Seal, Sealed
<1>5. request[q].id \notin DOMAIN batch
  BY <1>1 DEF IInv, LockedInv
<1>6. \A p \in Requests \ {q} : request[p].step = "written" => request[p].id # request[q].id
  BY <1>1 DEF IInv, RequestInv
<1>7. QED BY <1>1, <1>2, <1>4, <1>5, <1>6 DEF Commit, Seal, Deleted, NotYet

LEMMA CommitKeepsInv ==
  ASSUME IInv, NEW q \in Requests, Commit(q)
  PROVE  IInv'
<1> DEFINE r == request[q].id
           k == IF request[q].value = None THEN Deleted ELSE Seal(request[q].value, Newest)
<1>1. /\ r \in Rows /\ row' = [row EXCEPT ![r] = k]
      /\ k \in Sealed \cup {Deleted}
      /\ k.state = "held" => k.version = Newest
      /\ r \notin DOMAIN batch
      /\ \A p \in Requests \ {q} : request[p].step = "written" => request[p].id # r
  BY CommitRow
<1>2. /\ UNCHANGED <<keys, job, batch, unreadable, retirable>>
      /\ request' = [request EXCEPT ![q] = Idle]
  BY DEF Commit
<1> HIDE DEF k, r
<1>3. Newest' = Newest /\ Newest \in keys
  BY <1>2, NewestKey DEF Newest, IInv
<1>4. \A x \in Rows : row'[x] = IF x = r THEN k ELSE row[x]
  BY <1>1 DEF IInv, TypeOK
<1>5. \A x \in Rows : Held(x)' => (row'[x] = row[x] /\ Held(x)) \/ row'[x].version = Newest
  BY <1>1, <1>4 DEF Held
<1>6. \A p \in Requests : request'[p] = IF p = q THEN Idle ELSE request[p]
  BY <1>2 DEF IInv, TypeOK
<1>7. TypeOK'
  BY <1>1, <1>2 DEF IInv, TypeOK
<1>8. KeysInv'
  BY <1>2, <1>3, <1>5 DEF IInv, KeysInv, Held
<1>9. RequestInv'
  <2>1. ASSUME NEW p \in Requests, request'[p].step # "none" PROVE p # q /\ request'[p] = request[p] /\ request[p].id \in Rows
    BY <1>6, <2>1 DEF Idle, IInv, TypeOK
  <2>2. ASSUME NEW p \in Requests, request'[p].step = "loaded", request'[p].loaded = Newest,
               row'[request'[p].id].state = "held"
        PROVE  row'[request'[p].id].version = Newest
    BY <1>5, <2>1, <2>2 DEF IInv, RequestInv, Held
  <2>3. ASSUME NEW p \in Requests, request'[p].step = "written", request'[p].loaded = Newest
        PROVE  /\ row'[request'[p].id].state = "held"
               /\ row'[request'[p].id].version = Newest
    BY <1>1, <1>4, <2>1, <2>3 DEF IInv, RequestInv
  <2>4. ASSUME NEW p \in Requests, NEW x \in Requests,
               request'[p].step = "written", request'[x].step = "written",
               request'[p].id = request'[x].id
        PROVE  p = x
    BY <2>1, <2>4 DEF IInv, RequestInv
  <2>5. QED BY <1>3, <2>2, <2>3, <2>4 DEF RequestInv
<1>10. LockedInv'
  <2>1. \A b \in DOMAIN batch : b \in Rows /\ row'[b] = row[b]
    BY <1>1, <1>4 DEF IInv, TypeOK
  <2>2. \A p \in Requests : request'[p].step = "written" => request'[p] = request[p]
    BY <1>6 DEF Idle
  <2>3. QED BY <1>2, <2>1, <2>2 DEF IInv, LockedInv, Held
<1>11. BatchInv'
  <2>1. \A x \in Rows : Old(x)' => Old(x)
    BY <1>3, <1>5 DEF Old, Held
  <2>2. Table(job.table) \subseteq Rows /\ Table(job.table)' = Table(job.table)
    BY <1>2 DEF Table, Rows
  <2>3. QED BY <1>2, <2>1, <2>2 DEF IInv, BatchInv
<1>12. ReportInv'
  <2>1. RetirableIsUnused'
    BY <1>2, <1>5 DEF IInv, ReportInv, RetirableIsUnused, Held
  <2>2. \A x \in VaultRows : x \in Rows
    BY DEF Rows
  <2>3. QED BY <1>2, <1>3, <1>5, <2>1, <2>2 DEF IInv, ReportInv
<1>13. NothingLeftBehind'
  BY <1>2, <1>3, <1>5 DEF IInv, NothingLeftBehind, Held, Table
<1>14. QED BY <1>7, <1>8, <1>9, <1>10, <1>11, <1>12, <1>13 DEF IInv

-----------------------------------------------------------------------------
(* What the operator's run does.                                            *)

LEMMA StartKeepsInv == ASSUME IInv, StartReseal PROVE IInv'
<1>1. /\ job' = [AtRest EXCEPT !.step = "walking"] /\ unreadable' = {}
      /\ UNCHANGED <<keys, row, request, batch, retirable>>
      /\ DOMAIN batch = {}
  BY DEF StartReseal, IInv, BatchInv
<1>2. job'.step = "walking" /\ job'.table = 1 /\ job'.after = 0 /\ job'.inUse = {}
  BY <1>1 DEF AtRest
<1>3. Newest' = Newest
  BY <1>1 DEF Newest
<1>4. TypeOK'
  BY <1>1 DEF IInv, TypeOK, AtRest
<1>5. KeysInv' /\ RequestInv' /\ LockedInv'
  BY <1>1, <1>3 DEF IInv, KeysInv, RequestInv, LockedInv, Held
<1>6. BatchInv'
  BY <1>1, <1>2 DEF BatchInv
<1>7. ReportInv'
  BY <1>1, <1>2, <1>3 DEF IInv, ReportInv, RetirableIsUnused
<1>8. NothingLeftBehind'
  <2>1. \A r \in VaultRows : r \in Nat /\ ~(r <= 0)
    BY ResealConstants
  <2>2. QED BY <1>2, <2>1 DEF NothingLeftBehind, Table
<1>9. QED BY <1>4, <1>5, <1>6, <1>7, <1>8 DEF IInv

\* The row taken is the first of those ahead: none between is missed.
LEMMA LockKeepsInv == ASSUME IInv, LockRow PROVE IInv'
<1>1. UNCHANGED <<keys, row, request, job, unreadable, retirable>> /\ job.step = "walking"
  BY DEF LockRow
<1>2. PICK r \in Ahead :
        /\ \A other \in Ahead : r <= other
        /\ WriterOf(r) = {}
        /\ batch' = [b \in DOMAIN batch \cup {r} |-> IF b = r THEN row[r] ELSE batch[b]]
  BY DEF LockRow
<1>3. r \in Rows /\ r \in Table(job.table) /\ Held(r) /\ \A b \in DOMAIN batch : r > b
  BY <1>2 DEF Ahead, Table, Rows, Held
<1>4. Newest' = Newest
  BY <1>1 DEF Newest
<1>5. row[r] \in Sealed
  BY <1>3 DEF IInv, TypeOK, Held, NotYet, Deleted
<1>6. DOMAIN batch' = DOMAIN batch \cup {r}
  BY <1>2
<1>7. \A b \in DOMAIN batch' : batch'[b] = IF b = r THEN row[r] ELSE batch[b]
  BY <1>2
<1>8. TypeOK'
  BY <1>1, <1>3, <1>5, <1>6, <1>7 DEF IInv, TypeOK
<1>9. KeysInv' /\ RequestInv' /\ ReportInv' /\ NothingLeftBehind'
  BY <1>1, <1>4 DEF IInv, KeysInv, RequestInv, ReportInv, RetirableIsUnused, NothingLeftBehind, Held, Table
<1>10. LockedInv'
  <2>1. \A q \in Requests : request[q].step = "written" => request[q].id # r
    BY <1>2 DEF WriterOf
  <2>2. QED BY <1>1, <1>3, <1>6, <1>7, <2>1 DEF IInv, LockedInv, Held
<1>11. BatchInv'
  <2>1. DOMAIN batch' \subseteq Rows /\ Rows \subseteq Nat /\ job.after \in Nat /\ Table(job.table) \subseteq Rows
    BY <1>8, ResealConstants DEF Rows, Table, TypeOK, IInv
  <2>2. \E m \in DOMAIN batch' : \A b \in DOMAIN batch' : b <= m
    <3>1. \A b \in DOMAIN batch' : b \in Nat
      BY <2>1
    <3>2. r \in DOMAIN batch' /\ \A b \in DOMAIN batch' : b <= r
      BY <1>3, <1>6, <3>1
    <3>3. QED BY <3>2
  <2>3. ASSUME NEW x \in Table(job.table), NEW b \in DOMAIN batch', Old(x), x > job.after, x <= b
        PROVE  x \in DOMAIN batch'
    <3>1. CASE \E c \in DOMAIN batch : x <= c
      BY <1>6, <2>3, <3>1 DEF IInv, BatchInv
    <3>2. CASE \A c \in DOMAIN batch : ~(x <= c)
      <4>1. b = r
        BY <1>6, <2>3, <3>2
      <4>2. x \in Ahead
        <5>1. x \in Nat /\ \A c \in DOMAIN batch : c \in Nat
          BY <1>6, <2>1, <2>3
        <5>2. \A c \in DOMAIN batch : x > c
          BY <3>2, <5>1
        <5>3. QED
          BY <2>3, <5>2 DEF Ahead, Old, Held
      <4>3. r <= x
        BY <1>2, <4>2
      <4>4. x = r
        BY <1>3, <2>1, <2>3, <4>1, <4>3
      <4>5. QED BY <1>6, <4>4
    <3>3. QED BY <3>1, <3>2
  <2>4. QED BY <1>1, <1>4, <2>2, <2>3 DEF BatchInv, Old, Held, Table
<1>12. QED BY <1>8, <1>9, <1>10, <1>11 DEF IInv

\* What was read of a locked row is what is there, so sealing it again keeps
\* its value; and every row either stays or goes onto the newest key.
LEMMA BatchRows ==
  ASSUME IInv, CommitBatch
  PROVE  \A r \in Rows :
            /\ row'[r] = IF r \in DOMAIN batch /\ Opens(row[r]) THEN Seal(row[r].value, Newest)
                         ELSE row[r]
            /\ r \in DOMAIN batch => row[r] \in Sealed /\ batch[r] = row[r]
            /\ row'[r] \in Sealed \cup {NotYet, Deleted}
<1> SUFFICES ASSUME NEW r \in Rows
             PROVE  /\ row'[r] = IF r \in DOMAIN batch /\ Opens(row[r]) THEN Seal(row[r].value, Newest)
                                 ELSE row[r]
                    /\ r \in DOMAIN batch => row[r] \in Sealed /\ batch[r] = row[r]
                    /\ row'[r] \in Sealed \cup {NotYet, Deleted}
  OBVIOUS
<1>1. r \in DOMAIN batch => batch[r] = row[r] /\ row[r] \in Sealed
  BY DEF IInv, TypeOK, LockedInv
<1>2. row'[r] = IF r \in DOMAIN batch /\ Opens(batch[r]) THEN Seal(batch[r].value, Newest) ELSE row[r]
  BY DEF CommitBatch
<1>3. Newest \in 1..MaxKey
  BY NewestKey DEF IInv
<1>4. row[r] \in Sealed => Seal(row[r].value, Newest) \in Sealed
  BY <1>3, ResealConstants DEF Seal, Sealed
<1>5. row[r] \in Sealed \cup {NotYet, Deleted}
  BY DEF IInv, TypeOK
<1>6. QED BY <1>1, <1>2, <1>4, <1>5

\* A full batch has a last row, and the cursor goes there; a short one was the
\* last of its table.
LEMMA CursorMoves ==
  ASSUME IInv, CommitBatch
  PROVE  /\ job' \in [step : {"idle", "walking", "counting"}, table : 1..2, after : Nat,
                       inUse : SUBSET (1..MaxKey)]
         /\ \/ /\ job'.step = "walking" /\ job'.table = job.table
               /\ job'.after \in DOMAIN batch /\ \A b \in DOMAIN batch : b <= job'.after
            \/ Ahead = {} /\ job'.after = 0 /\ job.table = 1 /\ job'.table = 2 /\ job'.step = "walking"
            \/ Ahead = {} /\ job'.after = 0 /\ job.table = 2 /\ job'.table = 1 /\ job'.step = "counting"
<1>1. job \in [step : {"idle", "walking", "counting"}, table : 1..2, after : Nat,
               inUse : SUBSET (1..MaxKey)] /\ job.step = "walking"
  BY DEF IInv, TypeOK, CommitBatch
<1>2. CASE Cardinality(DOMAIN batch) = BATCH
  <2> DEFINE last == CHOOSE r \in DOMAIN batch : \A b \in DOMAIN batch : b <= r
  <2>1. DOMAIN batch # {}
    BY <1>2, FS_EmptySet, ResealConstants
  <2>2. last \in DOMAIN batch /\ \A b \in DOMAIN batch : b <= last
    BY <2>1 DEF IInv, BatchInv
  <2>3. last \in Nat
    BY <2>2, ResealConstants DEF IInv, TypeOK, Rows
  <2>4. job' = [job EXCEPT !.after = last]
    BY <1>2 DEF CommitBatch, AfterBatch
  <2> HIDE DEF last
  <2>5. QED BY <1>1, <2>2, <2>3, <2>4
<1>3. CASE Cardinality(DOMAIN batch) # BATCH
  <2>1. Ahead = {}
    BY <1>3 DEF CommitBatch
  <2>2. job' = [job EXCEPT !.after = 0, !.table = IF job.table = 1 THEN 2 ELSE 1,
                           !.step = IF job.table = 1 THEN "walking" ELSE "counting"]
    BY <1>3 DEF CommitBatch, AfterBatch
  <2>3. CASE job.table = 1
    <3>1. job' = [job EXCEPT !.after = 0, !.table = 2, !.step = "walking"]
      BY <2>2, <2>3
    <3>2. job'.step = "walking" /\ job'.table = 2 /\ job'.after = 0
      BY <1>1, <3>1
    <3>3. job' = [step |-> "walking", table |-> 2, after |-> 0, inUse |-> job.inUse]
      BY <1>1, <3>1
    <3>4. 2 \in 1..2 /\ 0 \in Nat /\ job.inUse \in SUBSET (1..MaxKey)
      BY <1>1
    <3>5. job' \in [step : {"idle", "walking", "counting"}, table : 1..2, after : Nat,
                    inUse : SUBSET (1..MaxKey)]
      BY <3>3, <3>4
    <3>6. QED BY <2>1, <2>3, <3>2, <3>5
  <2>4. CASE job.table = 2
    <3>1. job' = [job EXCEPT !.after = 0, !.table = 1, !.step = "counting"]
      BY <2>2, <2>4
    <3>2. job'.step = "counting" /\ job'.table = 1 /\ job'.after = 0
      BY <1>1, <3>1
    <3>3. job' = [step |-> "counting", table |-> 1, after |-> 0, inUse |-> job.inUse]
      BY <1>1, <3>1
    <3>4. 1 \in 1..2 /\ 0 \in Nat /\ job.inUse \in SUBSET (1..MaxKey)
      BY <1>1
    <3>5. job' \in [step : {"idle", "walking", "counting"}, table : 1..2, after : Nat,
                    inUse : SUBSET (1..MaxKey)]
      BY <3>3, <3>4
    <3>6. QED BY <2>1, <2>4, <3>2, <3>5
  <2>5. QED BY <1>1, <2>3, <2>4
<1>4. QED BY <1>2, <1>3

LEMMA BatchKeepsInv == ASSUME IInv, CommitBatch PROVE IInv'
<1>1. /\ UNCHANGED <<keys, request, retirable>>
      /\ unreadable' = unreadable \cup {r \in DOMAIN batch : ~ Opens(batch[r])}
      /\ DOMAIN batch' = {} /\ job.step = "walking"
  BY DEF CommitBatch
<1>2. \A r \in Rows :
        /\ row'[r] = IF r \in DOMAIN batch /\ Opens(row[r]) THEN Seal(row[r].value, Newest) ELSE row[r]
        /\ r \in DOMAIN batch => row[r] \in Sealed /\ batch[r] = row[r]
        /\ row'[r] \in Sealed \cup {NotYet, Deleted}
  BY BatchRows
<1>3. Newest' = Newest /\ Newest \in keys
  BY <1>1, NewestKey DEF Newest, IInv
<1>4. \A r \in Rows : /\ Held(r)' <=> Held(r)
                      /\ row'[r] = row[r] \/ row'[r].version = Newest
  <2>1. \A v, x : Seal(v, x).state = "held" /\ Seal(v, x).version = x
    BY DEF Seal
  <2>2. \A k \in Sealed : k.state = "held"
    BY DEF Sealed
  <2>3. QED BY <1>2, <2>1, <2>2 DEF Held
<1>5. TypeOK'
  <2>1. row' \in [Rows -> Sealed \cup {NotYet, Deleted}]
    BY <1>2 DEF CommitBatch
  <2>2. unreadable' \subseteq Rows
    BY <1>1 DEF IInv, TypeOK
  <2>3. QED BY <1>1, <2>1, <2>2, CursorMoves DEF IInv, TypeOK
<1>6. KeysInv'
  BY <1>1, <1>3, <1>4 DEF IInv, KeysInv, Held
<1>7. RequestInv'
  <2>1. \A q \in Requests : request[q].step # "none" => request[q].id \in Rows
    BY DEF IInv, TypeOK, Idle
  <2>2. QED BY <1>1, <1>3, <1>4, <2>1 DEF IInv, RequestInv, Held
<1>8. LockedInv' /\ BatchInv'
  BY <1>1 DEF LockedInv, BatchInv
<1>9. ReportInv'
  <2>1. RetirableIsUnused'
    BY <1>1, <1>3, <1>4 DEF IInv, ReportInv, RetirableIsUnused, Held
  <2>2. ~(job'.step = "counting" /\ job'.table = 2)
    BY CursorMoves
  <2>3. QED BY <1>1, <1>3, <2>1, <2>2 DEF IInv, ReportInv
<1>10. NothingLeftBehind'
  <2> SUFFICES ASSUME NEW r \in Rows, row'[r].state = "held", row'[r].version # Newest,
                      \/ job'.step = "counting"
                      \/ job'.step = "walking" /\ r \in VaultRows /\ job'.table = 2
                      \/ job'.step = "walking" /\ r \in Table(job'.table) /\ r <= job'.after
               PROVE  r \in unreadable'
    BY <1>3 DEF NothingLeftBehind, Table
  <2>1. row'[r] = row[r] /\ Old(r)
    BY <1>4 DEF Old, Held
  <2>2. r \in DOMAIN batch => r \in unreadable'
    <3>1. Seal(row[r].value, Newest).version = Newest
      BY DEF Seal
    <3>2. r \in DOMAIN batch => ~ Opens(batch[r])
      BY <1>2, <2>1, <3>1 DEF Old
    <3>3. QED BY <1>1, <3>2
  <2>3. Rows \subseteq Nat /\ job.after \in Nat /\ job.table \in 1..2 /\ DOMAIN batch \subseteq Rows
    BY ResealConstants DEF Rows, IInv, TypeOK
  \* What of this table had been passed before.
  <2>4. ASSUME r \in Table(job.table), r <= job.after PROVE r \in unreadable'
    BY <1>1, <2>1, <2>4 DEF IInv, NothingLeftBehind, Old, Held
  \* What the batch took.
  <2>5. ASSUME r \in Table(job.table), NEW b \in DOMAIN batch, r <= b PROVE r \in unreadable'
    <3>1. r <= job.after \/ r > job.after
      BY <2>3
    <3>2. QED BY <2>1, <2>2, <2>4, <2>5, <3>1 DEF IInv, BatchInv
  \* What it did not reach, when it reached the end.
  <2>6. ASSUME r \in Table(job.table), Ahead = {} PROVE r \in unreadable'
    <3>1. r <= job.after \/ \E b \in DOMAIN batch : ~(r > b)
      <4>1. ~(r > job.after) \/ \E b \in DOMAIN batch : ~(r > b)
        BY <2>1, <2>6 DEF Ahead, Old, Held
      <4>2. QED BY <2>3, <4>1
    <3>2. CASE r <= job.after
      BY <2>4, <2>6, <3>2
    <3>3. ASSUME NEW b \in DOMAIN batch, ~(r > b) PROVE r \in unreadable'
      <4>1. r <= b
        BY <2>3, <3>3
      <4>2. QED BY <2>5, <2>6, <4>1
    <3>4. QED BY <3>1, <3>2, <3>3
  <2>7. CASE job'.step = "walking" /\ job'.table = job.table /\ job'.after \in DOMAIN batch
    <3>1. CASE r \in Table(job.table) /\ r <= job'.after
      BY <2>5, <2>7, <3>1
    <3>2. CASE r \in VaultRows /\ job.table = 2
      BY <1>1, <2>1, <3>2 DEF IInv, NothingLeftBehind, Old, Held
    <3>3. QED BY <2>7, <3>1, <3>2
  <2>8. CASE Ahead = {} /\ job.table = 1 /\ job'.table = 2 /\ job'.step = "walking" /\ job'.after = 0
    <3>1. ~(r <= 0)
      BY ResealConstants DEF Rows
    <3>2. r \in Table(job.table)
      BY <2>8, <3>1 DEF Table
    <3>3. QED BY <2>6, <2>8, <3>2
  <2>9. CASE Ahead = {} /\ job.table = 2
    <3>1. CASE r \in VaultRows
      BY <1>1, <2>1, <2>9, <3>1 DEF IInv, NothingLeftBehind, Old, Held
    <3>2. CASE r \in HookRows
      BY <2>6, <2>9, <3>2 DEF Table
    <3>3. QED BY <3>1, <3>2 DEF Rows
  <2>10. QED BY <2>7, <2>8, <2>9, CursorMoves
<1>11. QED BY <1>5, <1>6, <1>7, <1>8, <1>9, <1>10 DEF IInv

LEMMA CountKeepsInv == ASSUME IInv, CountTable PROVE IInv'
<1>1. UNCHANGED <<keys, row, request, batch, unreadable>> /\ job.step = "counting"
      /\ DOMAIN batch = {}
  BY DEF CountTable, IInv, BatchInv
<1>2. job \in [step : {"idle", "walking", "counting"}, table : 1..2, after : Nat,
               inUse : SUBSET (1..MaxKey)]
  BY DEF IInv, TypeOK
<1>3. Newest' = Newest
  BY <1>1 DEF Newest
<1>4. KeysInv' /\ RequestInv' /\ LockedInv' /\ BatchInv'
  BY <1>1, <1>3 DEF IInv, KeysInv, RequestInv, LockedInv, BatchInv, Held
<1>5. CASE job.table = 1
  <2>1. job' = [job EXCEPT !.table = 2, !.inUse = VersionsIn(1)] /\ retirable' = retirable
    BY <1>5 DEF CountTable
  <2>2. VersionsIn(1) \subseteq 1..MaxKey
    BY DEF VersionsIn, Table, IInv, TypeOK, KeysInv, Held, Rows
  <2>3. job' \in [step : {"idle", "walking", "counting"}, table : 1..2, after : Nat,
                  inUse : SUBSET (1..MaxKey)]
    <3>1. job' = [step |-> job.step, table |-> 2, after |-> job.after, inUse |-> VersionsIn(1)]
      BY <1>2, <2>1
    <3>2. QED BY <1>2, <2>2, <3>1
  <2>4. job'.step = "counting" /\ job'.inUse = VersionsIn(1)
    BY <1>1, <1>2, <2>1
  <2>5. TypeOK'
    BY <1>1, <2>1, <2>3 DEF IInv, TypeOK
  <2>6. \A r \in VaultRows : Held(r) => row[r].version \in VersionsIn(1)
    BY DEF VersionsIn, Table, Held
  <2>7. ReportInv'
    BY <1>1, <1>3, <2>1, <2>4, <2>6 DEF IInv, ReportInv, RetirableIsUnused, Held
  <2>8. NothingLeftBehind'
    BY <1>1, <1>3 DEF IInv, NothingLeftBehind
  <2>9. QED BY <1>4, <2>5, <2>7, <2>8 DEF IInv
<1>6. CASE job.table # 1
  <2>1. /\ retirable' = (keys \ (job.inUse \cup VersionsIn(2))) \ {Newest}
        /\ job' = AtRest /\ job.table = 2
    BY <1>2, <1>6 DEF CountTable
  <2>2. job'.step = "idle"
    BY <2>1 DEF AtRest
  <2>3. TypeOK'
    <3>1. retirable' \subseteq 1..MaxKey
      BY <2>1 DEF IInv, TypeOK
    <3>2. QED BY <1>1, <2>1, <3>1 DEF IInv, TypeOK, AtRest
  <2>4. \A r \in HookRows : Held(r) => row[r].version \in VersionsIn(2)
    BY DEF VersionsIn, Table, Held
  <2>5. \A r \in VaultRows : Held(r) => row[r].version \in job.inUse \cup {Newest}
    BY <1>1, <2>1 DEF IInv, ReportInv
  <2>6. RetirableIsUnused'
    BY <1>1, <2>1, <2>4, <2>5 DEF RetirableIsUnused, Rows, Held
  <2>7. ReportInv'
    BY <1>1, <1>3, <2>1, <2>2, <2>6 DEF ReportInv
  <2>8. NothingLeftBehind'
    BY <2>2 DEF NothingLeftBehind
  <2>9. QED BY <1>4, <2>3, <2>7, <2>8 DEF IInv
<1>7. QED BY <1>5, <1>6

-----------------------------------------------------------------------------
(* What deployments do: they end every request and every run, so all that   *)
(* is left to keep is what is said of keys.                                *)

LEMMA RestartKeepsInv ==
  ASSUME IInv, NEW held, Restart(held), held \subseteq 1..MaxKey, retirable' \subseteq 1..MaxKey,
         NEW k \in held, \A j \in held : j <= k,
         \A r \in Rows : Held(r) => row[r].version \in held \ retirable',
         retirable' \subseteq held \ {k}
  PROVE  IInv'
<1>1. /\ keys' = held /\ request' = [q \in Requests |-> Idle] /\ job' = AtRest
      /\ DOMAIN batch' = {} /\ unreadable' = {} /\ row' = row
  BY DEF Restart
<1>2. job'.step = "idle"
  BY <1>1 DEF AtRest
<1>3. Newest' = k
  BY <1>1, NewestUnique
<1>4. TypeOK'
  BY <1>1 DEF IInv, TypeOK, AtRest
<1>5. KeysInv'
  BY <1>1 DEF KeysInv, Held
<1>6. RequestInv'
  BY <1>1 DEF RequestInv, Idle
<1>7. LockedInv' /\ BatchInv' /\ NothingLeftBehind'
  BY <1>1, <1>2 DEF LockedInv, BatchInv, NothingLeftBehind
<1>8. ReportInv'
  BY <1>1, <1>2, <1>3 DEF ReportInv, RetirableIsUnused, Held
<1>9. QED BY <1>4, <1>5, <1>6, <1>7, <1>8 DEF IInv

LEMMA DeploymentsKeepInv ==
  ASSUME IInv, Redeploy \/ AddKey \/ \E k \in 1..MaxKey : Retire(k)
  PROVE  IInv'
<1>1. /\ Newest \in keys /\ Newest \in 1..MaxKey /\ \A j \in keys : j <= Newest
      /\ keys \subseteq 1..MaxKey /\ retirable \subseteq keys \ {Newest}
  BY NewestKey DEF IInv, TypeOK, ReportInv
<1>2. \A r \in Rows : Held(r) => row[r].version \in keys \ retirable
  BY DEF IInv, KeysInv, ReportInv, RetirableIsUnused, Held
<1>3. CASE Redeploy
  BY <1>1, <1>2, <1>3, RestartKeepsInv DEF Redeploy
<1>4. CASE AddKey
  <2> DEFINE held == keys \cup {Newest + 1}
  <2>1. Restart(held) /\ retirable' = retirable /\ Newest < MaxKey
    BY <1>4 DEF AddKey
  <2>2. Newest + 1 \in 1..MaxKey /\ held \subseteq 1..MaxKey
    BY <1>1, <2>1, ResealConstants
  <2>3. \A j \in held : j <= Newest + 1
    <3>1. \A j \in keys : j \in Int /\ j <= Newest
      BY <1>1
    <3>2. QED BY <1>1, <3>1
  <2>4. retirable \subseteq held \ {Newest + 1}
    <3>1. Newest + 1 \notin keys
      BY <1>1, ResealConstants
    <3>2. QED BY <1>1, <3>1
  <2>5. QED BY <1>1, <1>2, <2>1, <2>2, <2>3, <2>4, RestartKeepsInv
<1>5. ASSUME NEW k \in 1..MaxKey, Retire(k) PROVE IInv'
  <2> DEFINE held == keys \ {k}
  <2>1. Restart(held) /\ retirable' = retirable \ {k} /\ k \in retirable
    BY <1>5 DEF Retire
  <2>2. Newest \in held /\ \A j \in held : j <= Newest
    BY <1>1, <2>1
  <2>3. /\ held \subseteq 1..MaxKey /\ retirable' \subseteq 1..MaxKey
        /\ retirable' \subseteq held \ {Newest}
    BY <1>1, <2>1
  <2>4. \A r \in Rows : Held(r) => row[r].version \in held \ retirable'
    BY <1>2, <2>1
  <2> HIDE DEF held
  <2>5. QED BY <2>1, <2>2, <2>3, <2>4, RestartKeepsInv
<1>6. QED BY <1>3, <1>4, <1>5

-----------------------------------------------------------------------------
(* The theorems.                                                            *)

LEMMA NextInv == IInv /\ [Next]_vars => IInv'
<1> SUFFICES ASSUME IInv, [Next]_vars PROVE IInv'
  OBVIOUS
<1>1. ASSUME NEW q \in Requests,
             \/ \E r \in Rows : \/ \E v \in Values : Create(q, r, v)
                               \/ \E v \in Values \cup {None} : Load(q, r, v)
             \/ Write(q) \/ Abandon(q)
      PROVE  IInv'
  BY <1>1, RequestsKeepInv
<1>2. ASSUME NEW q \in Requests, Commit(q) PROVE IInv'
  BY <1>2, CommitKeepsInv
<1>3. CASE StartReseal \/ LockRow \/ CommitBatch \/ CountTable
  BY <1>3, StartKeepsInv, LockKeepsInv, BatchKeepsInv, CountKeepsInv
<1>4. CASE Redeploy \/ AddKey \/ \E k \in 1..MaxKey : Retire(k)
  BY <1>4, DeploymentsKeepInv
<1>5. CASE UNCHANGED vars
  <2>1. Newest' = Newest
    BY <1>5 DEF vars, Newest
  <2>2. UNCHANGED <<keys, row, request, job, batch, unreadable, retirable>>
    BY <1>5 DEF vars
  <2>3. TypeOK' /\ KeysInv' /\ RequestInv'
    BY <2>1, <2>2 DEF IInv, TypeOK, KeysInv, RequestInv, Held
  <2>4. LockedInv' /\ BatchInv'
    BY <2>1, <2>2 DEF IInv, LockedInv, BatchInv, Held, Old, Table
  <2>5. ReportInv' /\ NothingLeftBehind'
    BY <2>1, <2>2 DEF IInv, ReportInv, RetirableIsUnused, NothingLeftBehind, Held, Table
  <2>6. QED
    BY <2>3, <2>4, <2>5 DEF IInv
<1>6. QED BY <1>1, <1>2, <1>3, <1>4, <1>5 DEF Next

\* Everything the invariant says holds always.
THEOREM Invariant == Spec => []IInv
BY InitInv, NextInv, PTL DEF Spec

\* Every variable keeps to its type, there is always a newest key, and the
\* version beside a row's secret is that of a key the deployment has
\* (reseal.py, vault.py, hooks.py, config.py).
THEOREM TypeCorrect == Spec => [](TypeOK /\ KeysInv)
<1>1. IInv => TypeOK /\ KeysInv
  BY DEF IInv
<1>2. QED BY Invariant, <1>1, PTL

\* Whatever the tables and however many keys and writers: a key the report
\* says can be taken out is one no row is sealed under, for as long as it is
\* there (reseal.py, retirable).
THEOREM RetirableAlwaysUnused == Spec => []RetirableIsUnused
<1>1. IInv => RetirableIsUnused
  BY DEF IInv, ReportInv
<1>2. QED BY Invariant, <1>1, PTL

\* However large its batches: what a run has been through is on the newest key
\* or reported unreadable (reseal.py, the cursor).
THEOREM NothingIsLeftBehind == Spec => []NothingLeftBehind
<1>1. IInv => NothingLeftBehind
  BY DEF IInv
<1>2. QED BY Invariant, <1>1, PTL

-----------------------------------------------------------------------------
(* The refinement.                                                          *)

\* What is asked of the store, and what it keeps, in the terms of SecretStore.
SecretNow == [r \in Rows |-> Value(r)]
AskedNow == [q \in Requests |-> Asked(q)]

\* A version that no row has may come or go.
LEMMA SameKeysSameValues ==
  ASSUME row' = row,
         \A r \in Rows : Held(r) => (row[r].version \in keys' <=> row[r].version \in keys)
  PROVE  SecretNow' = SecretNow
<1>1. \A r \in Rows : Value(r)' = Value(r)
  BY DEF Value, Opens, Held
<1>2. QED BY <1>1 DEF SecretNow

LEMMA RestartDrops ==
  ASSUME NEW held, Restart(held),
         \A r \in Rows : Held(r) => (row[r].version \in held <=> row[r].version \in keys)
  PROVE  Store!Drop
<1>1. SecretNow' = SecretNow
  BY SameKeysSameValues DEF Restart
<1>2. AskedNow' = [q \in Requests |-> None]
  BY DEF AskedNow, Asked, Restart, Idle
<1>3. AskedNow' = [q \in Requests |-> IF q \in Requests THEN None ELSE AskedNow[q]]
  BY <1>2
<1>4. QED BY <1>1, <1>3 DEF Store!Drop, SecretNow, AskedNow

LEMMA InitRefines == Init => Store!Init
<1> SUFFICES ASSUME Init PROVE Store!Init
  OBVIOUS
<1>1. ASSUME NEW r \in Rows PROVE Value(r) \in Values \cup {None, Lost}
  <2>1. row[r] \in Sealed \cup {NotYet}
    BY DEF Init
  <2>2. row[r] \in Sealed => row[r].value \in Values
    BY DEF Sealed
  <2>3. NotYet.state # "held"
    BY DEF NotYet
  <2>4. QED BY <2>1, <2>2, <2>3 DEF Value
<1>2. \A q \in Requests : Asked(q) = None
  BY DEF Init, Asked, Idle
<1>3. QED BY <1>1, <1>2 DEF Store!Init

LEMMA StepRefines == IInv /\ [Next]_vars => [Store!Next]_(Store!vars)
<1> SUFFICES ASSUME IInv, [Next]_vars PROVE Store!Next \/ UNCHANGED <<SecretNow, AskedNow>>
  BY DEF Store!vars, SecretNow, AskedNow
<1> USE DEF SecretNow, AskedNow
<1>1. ASSUME NEW q \in Requests, NEW r \in Rows, NEW v \in Values \cup {None},
             Create(q, r, v) \/ Load(q, r, v)
      PROVE  Store!Ask(q)
  <2>1. row' = row /\ keys' = keys /\ Asked(q) = None
    BY <1>1 DEF Create, Load, Asked, Idle
  <2>2. SecretNow' = SecretNow
    BY <2>1, SameKeysSameValues
  <2>3. PICK t : request' = [request EXCEPT ![q] = t] /\ t.step # "none" /\ t.id = r /\ t.value = v
    <3>1. CASE Create(q, r, v)
      <4> DEFINE t == [step |-> "written", id |-> r, value |-> v, loaded |-> 0]
      <4>1. request' = [request EXCEPT ![q] = t] /\ t.step # "none" /\ t.id = r /\ t.value = v
        BY <3>1 DEF Create
      <4>2. QED BY <4>1
    <3>2. CASE Load(q, r, v)
      <4> DEFINE t == [step |-> "loaded", id |-> r, value |-> v, loaded |-> row[r].version]
      <4>1. request' = [request EXCEPT ![q] = t] /\ t.step # "none" /\ t.id = r /\ t.value = v
        BY <3>2 DEF Load
      <4>2. QED BY <4>1
    <3>3. QED BY <1>1, <3>1, <3>2
  <2>4. \A p \in Requests : request'[p] = IF p = q THEN t ELSE request[p]
    BY <2>3 DEF IInv, TypeOK
  <2>5. \A p \in Requests : Asked(p)' = IF p = q THEN <<r, v>> ELSE Asked(p)
    BY <2>3, <2>4 DEF Asked
  <2>6. AskedNow' = [AskedNow EXCEPT ![q] = <<r, v>>]
    BY <2>5
  <2>7. QED BY <2>1, <2>2, <2>6 DEF Store!Ask
<1>2. ASSUME NEW q \in Requests, Write(q) PROVE UNCHANGED <<SecretNow, AskedNow>>
  <2>1. SecretNow' = SecretNow
    BY <1>2, SameKeysSameValues DEF Write
  <2>2. \A p \in Requests : /\ request'[p].id = request[p].id /\ request'[p].value = request[p].value
                            /\ request'[p].step = "none" <=> request[p].step = "none"
    BY <1>2 DEF IInv, TypeOK, Write, Idle
  <2>3. QED BY <2>1, <2>2 DEF Asked
<1>3. ASSUME NEW q \in Requests, Abandon(q) PROVE Store!Drop
  <2>1. SecretNow' = SecretNow
    BY <1>3, SameKeysSameValues DEF Abandon
  <2>2. \A p \in Requests : Asked(p)' = IF p \in {q} THEN None ELSE Asked(p)
    BY <1>3 DEF Abandon, Asked, Idle, IInv, TypeOK
  <2>3. AskedNow' = [p \in Requests |-> IF p \in {q} THEN None ELSE AskedNow[p]]
    BY <2>2
  <2>4. QED BY <2>1, <2>3 DEF Store!Drop
<1>4. ASSUME NEW q \in Requests, Commit(q) PROVE Store!Give(q)
  <2> DEFINE k == IF request[q].value = None THEN Deleted ELSE Seal(request[q].value, Newest)
  <2>1. PICK r \in Rows : /\ r = request[q].id /\ row' = [row EXCEPT ![r] = k]
                          /\ k.state = "held" => k.version = Newest /\ k.key = Newest
    BY <1>4, CommitRow
  <2>2. /\ keys' = keys /\ Newest \in keys
        /\ request' = [request EXCEPT ![q] = Idle] /\ request[q].step = "written"
    BY <1>4, NewestKey DEF Commit, IInv
  <2>3. request[q].value \in Values \cup {None}
    BY <2>2 DEF IInv, TypeOK, Idle
  <2>4. IF request[q].value = None THEN k.state # "held"
        ELSE k.state = "held" /\ k.value = request[q].value
    BY DEF Deleted, NotYet, Seal
  <2> HIDE DEF k
  <2>5. \A x \in Rows : row'[x] = IF x = r THEN k ELSE row[x]
    BY <2>1 DEF IInv, TypeOK
  <2>6. Value(r)' = request[q].value
    BY <2>1, <2>2, <2>4, <2>5 DEF Value, Opens
  <2>7. \A x \in Rows \ {r} : Value(x)' = Value(x)
    BY <2>2, <2>5 DEF Value, Opens
  <2>8. SecretNow' = [SecretNow EXCEPT ![r] = request[q].value]
    BY <2>6, <2>7
  <2>9. Asked(q) = <<r, request[q].value>> /\ Asked(q) # None
    BY <2>1, <2>2, <2>3, ResealConstants DEF Asked
  <2>10. \A p \in Requests : Asked(p)' = IF p = q THEN None ELSE Asked(p)
    BY <2>2 DEF Asked, Idle, IInv, TypeOK
  <2>11. AskedNow' = [AskedNow EXCEPT ![q] = None]
    BY <2>10
  <2>12. AskedNow[q] # None /\ AskedNow[q][1] = r /\ AskedNow[q][2] = request[q].value
    BY <2>9
  <2>13. SecretNow' = [SecretNow EXCEPT ![AskedNow[q][1]] = AskedNow[q][2]]
    BY <2>8, <2>12
  <2>14. QED BY <2>11, <2>12, <2>13 DEF Store!Give
<1>5. CASE StartReseal \/ LockRow \/ CountTable \/ UNCHANGED vars
  <2>1. row' = row /\ keys' = keys /\ request' = request
    BY <1>5 DEF StartReseal, LockRow, CountTable, vars
  <2>2. QED BY <2>1, SameKeysSameValues DEF Asked
<1>6. CASE CommitBatch
  <2>1. keys' = keys /\ request' = request /\ Newest \in keys
    BY <1>6, NewestKey DEF CommitBatch, IInv
  <2>2. ASSUME NEW r \in Rows PROVE Value(r)' = Value(r)
    <3>1. CASE row'[r] = row[r]
      BY <2>1, <3>1 DEF Value, Opens
    <3>2. CASE r \in DOMAIN batch /\ Opens(row[r]) /\ row'[r] = Seal(row[r].value, Newest)
      <4>1. Held(r)
        BY <3>2 DEF IInv, LockedInv
      <4>2. row'[r].state = "held" /\ row'[r].key = Newest /\ row'[r].version = Newest
            /\ row'[r].value = row[r].value
        BY <3>2 DEF Seal
      <4>3. QED BY <2>1, <3>2, <4>1, <4>2 DEF Value, Opens, Held
    <3>3. QED BY <1>6, <3>1, <3>2, BatchRows
  <2>3. QED BY <2>1, <2>2 DEF Asked
<1>7. CASE Redeploy \/ AddKey \/ \E k \in 1..MaxKey : Retire(k)
  <2>1. \A r \in Rows : Held(r) => row[r].version \in keys \ retirable
    BY DEF IInv, KeysInv, ReportInv, RetirableIsUnused, Held
  <2>2. CASE Redeploy
    BY <2>2, RestartDrops DEF Redeploy, Store!Next
  <2>3. CASE AddKey
    <3>1. \A r \in Rows : Held(r) => row[r].version \in keys \cup {Newest + 1}
      BY <2>1
    <3>2. QED BY <2>1, <2>3, <3>1, RestartDrops DEF AddKey, Store!Next
  <2>4. ASSUME NEW k \in 1..MaxKey, Retire(k) PROVE Store!Next
    <3>1. \A r \in Rows : Held(r) => row[r].version \in keys \ {k}
      BY <2>1, <2>4 DEF Retire
    <3>2. QED BY <2>1, <2>4, <3>1, RestartDrops DEF Retire, Store!Next
  <2>5. QED BY <1>7, <2>2, <2>3, <2>4
<1>8. QED BY <1>1, <1>2, <1>3, <1>4, <1>5, <1>6, <1>7 DEF Next, Store!Next

\* A secret reads back as it was last given, through every rotation of the
\* key: the vault and its resealing implement SecretStore (reseal.py, vault.py,
\* crypto.py).
THEOREM SecretsAreKept == Spec => KeepsSecrets
<1>1. QED
  BY InitRefines, StepRefines, Invariant, PTL DEF Spec, KeepsSecrets, Store!Spec

-----------------------------------------------------------------------------
(* Who is on a project.                                                     *)

\* A request, with every field over its whole range.
ReqType == [op : {"none", "members", "role", "create", "drop", "allow", "forbid", "archive",
                   "account"},
            step : {"idle", "checked", "locked"}, on : People \cup {Nothing},
            to : Roles \cup {Admin, Nothing}, was : Roles \cup {Admin, Nothing},
            wanted : SUBSET People, seen : SUBSET People, fills : BOOLEAN]

\* What a request of each kind is about.
Shaped(k) ==
    /\ k.step = "idle" <=> k.op = "none"
    /\ k.op = "create" => k.to \in Roles
    /\ k.op \in {"archive", "account"} => k.on \in People

Typed ==
    /\ TeamTypeOK
    /\ req \in [Calls -> ReqType]
    /\ \A r \in Calls : Shaped(req[r])

\* The project's row lock has one holder, and while a save of the list has it
\* the list is the one that save has read.
Locking ==
    /\ \A r, q \in Calls : req[r].step = "locked" /\ req[q].step = "locked" => r = q
    /\ \A r \in Calls :
          req[r].op = "members" /\ req[r].step = "locked" => req[r].seen = Members

\* What a request's check found of the admins, and of who can sign in.
AdminSound(k) ==
    /\ k.op = "members" => Holders \subseteq k.wanted \/ k.fills
    /\ k.op = "role" => (k.was # k.to => AnAdminRemains({k.on}))

EntrySound(k) ==
    /\ k.op = "archive" => AnotherWayIn(k.on)
    /\ k.op = "account" => k.on \notin archived

\* It is still so of a request under which that has not changed.
StillSound ==
    \A r \in Calls : /\ r \in adminsMoved \/ AdminSound(req[r])
                     /\ r \in entriesMoved \/ EntrySound(req[r])

TeamInv ==
    /\ Typed
    /\ Locking
    /\ StillSound

-----------------------------------------------------------------------------
LEMMA IdleShaped == NoCall \in ReqType /\ Shaped(NoCall)
BY DEF NoCall, ReqType, Shaped

\* No request, whatever its fields, has a check to be sound while it asks nothing.
LEMMA NothingAsked ==
  ASSUME NEW k, k.op = "none"
  PROVE  /\ AdminSound(k) /\ EntrySound(k)
         /\ AdminSound(k)' /\ EntrySound(k)'
BY DEF AdminSound, EntrySound

\* Which of a request's checks hold says nothing of who is in flight.
LEMMA AdminSoundStays ==
  ASSUME NEW k, AdminSound(k), Holders' = Holders
  PROVE  AdminSound(k)'
BY DEF AdminSound, AnAdminRemains

LEMMA EntrySoundStays ==
  ASSUME NEW k, EntrySound(k), archived' = archived, account' = account
  PROVE  EntrySound(k)'
BY DEF EntrySound, AnotherWayIn, SignIns

\* Whoever a write overtakes is known by it, so the others' checks hold still.
LEMMA OthersSound ==
  ASSUME TeamInv, NEW S \in SUBSET InFlight, Overtakes(S), NEW q \in Calls, q \in S,
         NEW m, m = req[q]
  PROVE  /\ q \in adminsMoved' \/ AdminSound(m)'
         /\ q \in entriesMoved' \/ EntrySound(m)'
<1>1. /\ q \in adminsMoved \/ AdminSound(m)
      /\ q \in entriesMoved \/ EntrySound(m)
  BY DEF TeamInv, StillSound
<1>2. q \in adminsMoved' \/ AdminSound(m)'
  <2>1. CASE Holders' = Holders
    BY <1>1, <2>1, AdminSoundStays DEF Overtakes
  <2>2. CASE Holders' # Holders
    BY <2>2 DEF Overtakes
  <2>3. QED
    BY <2>1, <2>2
<1>3. q \in entriesMoved' \/ EntrySound(m)'
  <2>1. CASE archived' = archived /\ account' = account
    BY <1>1, <2>1, EntrySoundStays DEF Overtakes
  <2>2. CASE ~(archived' = archived /\ account' = account)
    BY <2>2 DEF Overtakes
  <2>3. QED
    BY <2>1, <2>2
<1>4. QED
  BY <1>2, <1>3

\* A request is made, or goes on: nothing but its own record changes.
LEMMA RecordKeeps ==
  ASSUME TeamInv, NEW r \in Calls, NEW k \in ReqType, Shaped(k), k.step # "idle",
         r \in adminsMoved \/ AdminSound(k), r \in entriesMoved \/ EntrySound(k),
         k.step = "locked" => Unlocked /\ (k.op = "members" => k.seen = Members),
         req' = [req EXCEPT ![r] = k], UNCHANGED <<project, moved>>,
         begun' \in 0..MaxRequests
  PROVE  TeamInv'
<1>1. \A q \in Calls : req'[q] = IF q = r THEN k ELSE req[q]
  BY DEF TeamInv, Typed
<1>2. UNCHANGED <<archived, account, member, created, permits, adminsMoved, entriesMoved>>
  BY DEF project, moved
<1>3. Typed'
  <2>1. adminsMoved' \cup entriesMoved' \subseteq InFlight'
    BY <1>1, <1>2 DEF TeamInv, Typed, TeamTypeOK, InFlight
  <2>2. req' \in [Calls -> ReqType] /\ \A q \in Calls : Shaped(req'[q])
    BY <1>1 DEF TeamInv, Typed
  <2>3. TeamTypeOK'
    BY <1>1, <1>2, <2>1, <2>2 DEF TeamInv, Typed, TeamTypeOK, ReqType
  <2>4. QED
    BY <2>2, <2>3 DEF Typed, Shaped
<1>4. Members' = Members
  BY <1>2 DEF Members
<1>5. Locking'
  BY <1>1, <1>4 DEF TeamInv, Locking, Unlocked
<1>6. \A q \in Calls : /\ q \in adminsMoved' \/ AdminSound(req[q])'
                       /\ q \in entriesMoved' \/ EntrySound(req[q])'
  <2>1. TAKE q \in Calls
  <2>2. PICK m : m = req'[q]
    OBVIOUS
  <2>3. (q \in adminsMoved \/ AdminSound(m)) /\ (q \in entriesMoved \/ EntrySound(m))
    BY <1>1, <2>2 DEF TeamInv, StillSound
  <2>4. Holders' = Holders
    BY <1>2 DEF Holders
  <2>5. (q \in adminsMoved \/ AdminSound(m)') /\ (q \in entriesMoved \/ EntrySound(m)')
    BY <1>2, <2>3, <2>4, AdminSoundStays, EntrySoundStays
  <2>6. QED
    BY <1>2, <2>2, <2>5
<1>7. QED
  BY <1>3, <1>5, <1>6 DEF TeamInv, StillSound

\* A request ends, whatever it writes: if that is who is on the project in
\* which role, nobody else had the project's lock.
LEMMA EndKeeps ==
  ASSUME TeamInv, NEW r \in Calls, Ends(r), req[r].step # "idle",
         archived' \subseteq People, account' \subseteq People, created' \subseteq Roles,
         permits' \subseteq created' \cup {Nothing},
         member' \in [People -> created' \cup {Admin, Nothing, Off}],
         member' = member \/ \A q \in Calls \ {r} : req[q].step # "locked"
  PROVE  TeamInv'
<1>1. /\ \A q \in Calls : req'[q] = IF q = r THEN NoCall ELSE req[q]
      /\ req' \in [Calls -> ReqType]
      /\ begun' = begun
  BY IdleShaped DEF Ends, TeamInv, Typed
<1>2. /\ adminsMoved' \cup entriesMoved' \subseteq InFlight \ {r}
      /\ InFlight' = InFlight \ {r}
  <2>1. InFlight' = InFlight \ {r}
    BY <1>1 DEF InFlight, NoCall
  <2>2. QED
    BY <2>1 DEF Ends, Overtakes
<1>3. Typed'
  <2>1. \A q \in Calls : Shaped(req'[q])
    BY <1>1, IdleShaped DEF TeamInv, Typed
  <2>2. TeamTypeOK'
    BY <1>1, <1>2 DEF TeamInv, Typed, TeamTypeOK, ReqType
  <2>3. QED
    BY <1>1, <2>1, <2>2 DEF Typed, Shaped
<1>4. Locking'
  <2>1. member' = member => Members' = Members
    BY DEF Members
  <2>2. QED
    BY <1>1, <2>1 DEF TeamInv, Locking, NoCall
<1>5. \A q \in Calls : /\ q \in adminsMoved' \/ AdminSound(req[q])'
                       /\ q \in entriesMoved' \/ EntrySound(req[q])'
  <2>1. TAKE q \in Calls
  <2>2. PICK m : m = req'[q]
    OBVIOUS
  <2>3. CASE q = r \/ req[q].step = "idle"
    <3>1. m.op = "none"
      BY <1>1, <2>2, <2>3 DEF TeamInv, Typed, Shaped, NoCall
    <3>2. QED
      BY <2>2, <3>1, NothingAsked
  <2>4. CASE q # r /\ req[q].step # "idle"
    <3>1. q \in InFlight \ {r} /\ m = req[q]
      BY <1>1, <2>2, <2>4 DEF InFlight
    <3>2. Overtakes(InFlight \ {r}) /\ InFlight \ {r} \in SUBSET InFlight
      BY DEF Ends
    <3>3. /\ q \in adminsMoved' \/ AdminSound(m)'
          /\ q \in entriesMoved' \/ EntrySound(m)'
      BY <3>1, <3>2, OthersSound
    <3>4. QED
      BY <2>2, <3>3
  <2>5. QED
    BY <2>3, <2>4
<1>6. QED
  BY <1>3, <1>4, <1>5 DEF TeamInv, StillSound

\* The directory changes, and with it what any request in flight was checked on.
LEMMA DirectoryKeeps ==
  ASSUME TeamInv, archived' \subseteq People, account' \subseteq People,
         Overtakes(InFlight), UNCHANGED <<member, created, permits, req, begun>>
  PROVE  TeamInv'
<1>1. adminsMoved' \cup entriesMoved' \subseteq InFlight'
  BY DEF Overtakes, InFlight
<1>2. Typed' /\ Locking'
  BY <1>1 DEF TeamInv, Typed, TeamTypeOK, Shaped, Locking, Members
<1>3. \A q \in Calls : /\ q \in adminsMoved' \/ AdminSound(req[q])'
                       /\ q \in entriesMoved' \/ EntrySound(req[q])'
  <2>1. TAKE q \in Calls
  <2>2. PICK m : m = req[q]
    OBVIOUS
  <2>3. CASE req[q].step = "idle"
    <3>1. m.op = "none"
      BY <2>2, <2>3 DEF TeamInv, Typed, Shaped
    <3>2. QED
      BY <2>2, <3>1, NothingAsked
  <2>4. CASE req[q].step # "idle"
    <3>1. q \in InFlight
      BY <2>4 DEF InFlight
    <3>2. /\ q \in adminsMoved' \/ AdminSound(m)'
          /\ q \in entriesMoved' \/ EntrySound(m)'
      BY <2>2, <3>1, OthersSound
    <3>3. QED
      BY <2>2, <3>2
  <2>5. QED
    BY <2>3, <2>4
<1>4. QED
  BY <1>2, <1>3 DEF TeamInv, StillSound

-----------------------------------------------------------------------------
(* The actions.                                                             *)

LEMMA ChecksKeep ==
  ASSUME TeamInv, NEW r \in Calls, Checks(r)
  PROVE  TeamInv'
<1>1. ASSUME NEW k \in ReqType, Shaped(k), k.step = "checked",
             AdminSound(k), EntrySound(k), Begin(r, k)
      PROVE  TeamInv'
  <2>1. begun' \in 0..MaxRequests
    BY <1>1, MembershipConstants DEF Begin, Checks, CanBegin, TeamInv, Typed, TeamTypeOK
  <2>2. QED
    BY <1>1, <2>1, RecordKeeps DEF Begin
<1>2. TeamTypeOK
  BY DEF TeamInv, Typed
<1>3. ASSUME NEW who \in People \cup {Nothing}, NEW scoped \in BOOLEAN,
             NEW wanted \in SUBSET People, CheckMembers(r, who, scoped, wanted)
      PROVE  TeamInv'
  <2> DEFINE k == [NoCall EXCEPT !.op = "members", !.step = "checked", !.wanted = wanted,
                               !.fills = MayAdminister(who, scoped)]
  <2>1. MayAdminister(who, scoped) \in BOOLEAN
    BY DEF MayAdminister, Bootstrap
  <2>2. /\ k \in ReqType /\ k.op = "members" /\ k.step = "checked" /\ k.wanted = wanted
        /\ k.fills = MayAdminister(who, scoped)
    BY <2>1 DEF NoCall, ReqType
  <2>3. Begin(r, k) /\ (Holders \ wanted # {} => MayAdminister(who, scoped))
    BY <1>3 DEF CheckMembers
  <2> HIDE DEF k
  <2>4. Shaped(k) /\ AdminSound(k) /\ EntrySound(k)
    BY <2>2, <2>3 DEF Shaped, AdminSound, EntrySound
  <2>5. QED
    BY <1>1, <2>2, <2>3, <2>4
<1>4. ASSUME NEW who \in People \cup {Nothing}, NEW scoped \in BOOLEAN,
             NEW p \in People, NEW to \in Roles \cup {Admin, Nothing},
             CheckRole(r, who, scoped, p, to)
      PROVE  TeamInv'
  <2> DEFINE k == [NoCall EXCEPT !.op = "role", !.step = "checked", !.on = p, !.to = to,
                               !.was = member[p]]
  <2>1. member[p] \in Roles \cup {Admin, Nothing}
    BY <1>2, <1>4 DEF CheckRole, Members, TeamTypeOK
  <2>2. /\ k \in ReqType /\ k.op = "role" /\ k.step = "checked" /\ k.on = p /\ k.to = to
        /\ k.was = member[p]
    BY <2>1 DEF NoCall, ReqType
  <2>3. Begin(r, k) /\ (member[p] # to => AnAdminRemains({p}))
    BY <1>4 DEF CheckRole
  <2> HIDE DEF k
  <2>4. Shaped(k) /\ AdminSound(k) /\ EntrySound(k)
    BY <2>2, <2>3 DEF Shaped, AdminSound, EntrySound
  <2>5. QED
    BY <1>1, <2>2, <2>3, <2>4
<1>5. ASSUME NEW who \in People \cup {Nothing}, NEW scoped \in BOOLEAN,
             NEW op \in {"create", "drop", "allow", "forbid"}, NEW role \in Roles \cup {Nothing},
             CheckManage(r, who, scoped, op, role)
      PROVE  TeamInv'
  <2> DEFINE k == [NoCall EXCEPT !.op = op, !.step = "checked", !.to = role]
  <2>1. k \in ReqType /\ k.op = op /\ k.step = "checked" /\ k.to = role
    BY DEF NoCall, ReqType
  <2>2. Begin(r, k) /\ (op = "create" => role \in Roles)
    BY <1>5 DEF CheckManage
  <2> HIDE DEF k
  <2>3. Shaped(k) /\ AdminSound(k) /\ EntrySound(k)
    BY <2>1, <2>2 DEF Shaped, AdminSound, EntrySound
  <2>4. QED
    BY <1>1, <2>1, <2>2, <2>3
<1>6. ASSUME NEW p \in People, CheckArchive(r, p)
      PROVE  TeamInv'
  <2> DEFINE k == [NoCall EXCEPT !.op = "archive", !.step = "checked", !.on = p]
  <2>1. k \in ReqType /\ k.op = "archive" /\ k.step = "checked" /\ k.on = p
    BY DEF NoCall, ReqType
  <2>2. Begin(r, k) /\ AnotherWayIn(p)
    BY <1>6 DEF CheckArchive
  <2> HIDE DEF k
  <2>3. Shaped(k) /\ AdminSound(k) /\ EntrySound(k)
    BY <2>1, <2>2 DEF Shaped, AdminSound, EntrySound
  <2>4. QED
    BY <1>1, <2>1, <2>2, <2>3
<1>7. ASSUME NEW p \in People, CheckAccount(r, p)
      PROVE  TeamInv'
  <2> DEFINE k == [NoCall EXCEPT !.op = "account", !.step = "checked", !.on = p]
  <2>1. k \in ReqType /\ k.op = "account" /\ k.step = "checked" /\ k.on = p
    BY DEF NoCall, ReqType
  <2>2. Begin(r, k) /\ p \notin archived
    BY <1>7 DEF CheckAccount
  <2> HIDE DEF k
  <2>3. Shaped(k) /\ AdminSound(k) /\ EntrySound(k)
    BY <2>1, <2>2 DEF Shaped, AdminSound, EntrySound
  <2>4. QED
    BY <1>1, <2>1, <2>2, <2>3
<1>8. QED
  BY <1>3, <1>4, <1>5, <1>6, <1>7 DEF Checks

LEMMA LocksKeep ==
  ASSUME TeamInv, NEW r \in Calls, LockMembers(r) \/ LockGrant(r)
  PROVE  TeamInv'
<1>1. PICK k : k = req[r]
  OBVIOUS
<1>2. /\ k \in ReqType /\ Shaped(k) /\ begun \in 0..MaxRequests
      /\ r \in adminsMoved \/ AdminSound(k)
      /\ r \in entriesMoved \/ EntrySound(k)
  BY <1>1 DEF TeamInv, Typed, TeamTypeOK, StillSound
<1>3. CASE LockMembers(r)
  <2> DEFINE m == [k EXCEPT !.step = "locked", !.seen = Members]
  <2>1. k.op = "members" /\ Unlocked /\ UNCHANGED <<project, moved, begun>>
        /\ req' = [req EXCEPT ![r] = m]
    BY <1>1, <1>3 DEF LockMembers, TeamInv, Typed
  <2>2. /\ m \in ReqType /\ m.op = k.op /\ m.step = "locked" /\ m.on = k.on /\ m.to = k.to
        /\ m.was = k.was /\ m.wanted = k.wanted /\ m.fills = k.fills /\ m.seen = Members
    BY <1>2 DEF ReqType, Members
  <2> HIDE DEF m
  <2>3. /\ Shaped(m)
        /\ r \in adminsMoved \/ AdminSound(m)
        /\ r \in entriesMoved \/ EntrySound(m)
    BY <1>2, <2>1, <2>2 DEF Shaped, AdminSound, EntrySound
  <2>4. QED
    BY <1>2, <2>1, <2>2, <2>3, RecordKeeps
<1>4. CASE LockGrant(r)
  <2> DEFINE m == [k EXCEPT !.step = "locked"]
  <2>1. k.op \in {"allow", "forbid"} /\ Unlocked /\ UNCHANGED <<project, moved, begun>>
        /\ req' = [req EXCEPT ![r] = m]
    BY <1>1, <1>4 DEF LockGrant, TeamInv, Typed
  <2>2. m \in ReqType /\ m.op = k.op /\ m.step = "locked"
    BY <1>2 DEF ReqType
  <2> HIDE DEF m
  <2>3. Shaped(m) /\ AdminSound(m) /\ EntrySound(m)
    BY <2>1, <2>2 DEF Shaped, AdminSound, EntrySound
  <2>4. QED
    BY <1>2, <2>1, <2>2, <2>3, RecordKeeps
<1>5. QED
  BY <1>3, <1>4

\* What a vacancy makes of a list: the list, or the list with one member who
\* had no role now an admin.
LEMMA Vacancy ==
  ASSUME NEW C, NEW after \in [People -> C \cup {Admin, Nothing, Off}],
         NEW m \in VacancyFilled(after)
  PROVE  /\ m \in [People -> C \cup {Admin, Nothing, Off}]
         /\ \A p \in People : m[p] = after[p] \/ (after[p] = Nothing /\ m[p] = Admin)
         /\ \/ \E p \in People \ archived : m[p] = Admin
            \/ \A p \in People \ archived : m[p] # Nothing
<1> DEFINE candidates == {p \in People \ archived : after[p] = Nothing}
           unworn == \A p \in People \ archived : after[p] # Admin
<1>1. CASE unworn /\ candidates # {}
  <2>1. PICK p \in candidates : m = [after EXCEPT ![p] = Admin]
    BY <1>1 DEF VacancyFilled
  <2>2. QED
    BY <2>1
<1>2. CASE ~(unworn /\ candidates # {})
  <2>1. m = after
    BY <1>2 DEF VacancyFilled
  <2>2. QED
    BY <1>2, <2>1
<1>3. QED
  BY <1>1, <1>2

\* A save leaves exactly the people it named, and those who stay as they were,
\* but for one a vacancy promotes.
LEMMA SaveLeaves ==
  ASSUME TeamInv, NEW r \in Calls, SaveMembers(r)
  PROVE  /\ member' \in [People -> created \cup {Admin, Nothing, Off}]
         /\ Members' = req[r].wanted
         /\ \A p \in Members \cap Members' :
               member'[p] = member[p] \/ (member[p] = Nothing /\ member'[p] = Admin)
         /\ req[r].fills => \/ \E p \in People \ archived : member'[p] = Admin
                            \/ \A p \in People \ archived : member'[p] # Nothing
         /\ ~req[r].fills => \A p \in Members \cap Members' : member'[p] = member[p]
<1> DEFINE q == req[r]
           joining == q.wanted \ q.seen
           after == [p \in People |-> IF p \in q.seen \ q.wanted THEN Off
                                      ELSE IF p \in joining THEN Nothing ELSE member[p]]
<1>1. /\ q.op = "members" /\ q.step = "locked" /\ joining \cap Members = {}
      /\ member' \in IF q.fills THEN VacancyFilled(after) ELSE {after}
  BY DEF SaveMembers
<1>2. q.seen = Members /\ q.wanted \subseteq People
  BY <1>1 DEF TeamInv, Locking, Typed, TeamTypeOK
<1>3. member \in [People -> created \cup {Admin, Nothing, Off}]
  BY DEF TeamInv, Typed, TeamTypeOK
<1>4. Nothing # Off /\ Admin # Off
  BY MembershipConstants
<1>5. after \in [People -> created \cup {Admin, Nothing, Off}]
  BY <1>3
<1>6. \A p \in People : after[p] = IF p \in q.wanted
                                   THEN IF p \in Members THEN member[p] ELSE Nothing
                                   ELSE Off
  BY <1>2, <1>3 DEF Members
<1> HIDE DEF after
<1>7. /\ member' \in [People -> created \cup {Admin, Nothing, Off}]
      /\ \A p \in People : member'[p] = after[p] \/ (after[p] = Nothing /\ member'[p] = Admin)
      /\ q.fills => \/ \E p \in People \ archived : member'[p] = Admin
                    \/ \A p \in People \ archived : member'[p] # Nothing
      /\ ~q.fills => member' = after
  BY <1>1, <1>5, Vacancy
<1>8. Members' = q.wanted
  BY <1>2, <1>4, <1>6, <1>7 DEF Members
<1>9. QED
  BY <1>2, <1>6, <1>7, <1>8 DEF Members

LEMMA SaveKeeps ==
  ASSUME TeamInv, NEW r \in Calls, SaveMembers(r)
  PROVE  TeamInv'
<1>1. member' \in [People -> created \cup {Admin, Nothing, Off}]
  BY SaveLeaves
<1>2. /\ req[r].step = "locked" /\ Ends(r)
      /\ UNCHANGED <<archived, account, created, permits>>
  BY DEF SaveMembers
<1>3. \A q \in Calls \ {r} : req[q].step # "locked"
  BY <1>2 DEF TeamInv, Locking
<1>4. /\ archived' \subseteq People /\ account' \subseteq People /\ created' \subseteq Roles
      /\ permits' \subseteq created' \cup {Nothing}
      /\ member' \in [People -> created' \cup {Admin, Nothing, Off}]
  BY <1>1, <1>2 DEF TeamInv, Typed, TeamTypeOK
<1>5. QED
  BY <1>2, <1>3, <1>4, EndKeeps

LEMMA SetRoleKeeps ==
  ASSUME TeamInv, NEW r \in Calls, SetRole(r)
  PROVE  TeamInv'
<1>1. /\ req[r].step = "checked" /\ Ends(r) /\ Unlocked
      /\ UNCHANGED <<archived, account, created, permits>>
  BY DEF SetRole
<1>2. /\ archived' \subseteq People /\ account' \subseteq People /\ created' \subseteq Roles
      /\ permits' \subseteq created' \cup {Nothing}
  BY <1>1 DEF TeamInv, Typed, TeamTypeOK
<1>3. member \in [People -> created \cup {Admin, Nothing, Off}]
  BY DEF TeamInv, Typed, TeamTypeOK
<1>4. member' \in [People -> created' \cup {Admin, Nothing, Off}]
  <2>1. CASE member' = member
    BY <1>1, <1>3, <2>1
  <2>2. CASE member' # member
    <3>1. /\ req[r].to \in created \cup {Admin, Nothing}
          /\ member' = [member EXCEPT ![req[r].on] = req[r].to]
      BY <2>2 DEF SetRole
    <3>2. QED
      BY <1>1, <1>3, <3>1
  <2>3. QED
    BY <2>1, <2>2
<1>5. QED
  BY <1>1, <1>2, <1>4, EndKeeps DEF Unlocked

LEMMA RolesKeep ==
  ASSUME TeamInv, NEW r \in Calls, CreateRole(r) \/ DropRole(r) \/ Grant(r)
  PROVE  TeamInv'
<1>1. /\ req[r].op # "none" /\ Ends(r) /\ UNCHANGED <<archived, account, member>>
      /\ req[r].to \in Roles \cup {Admin, Nothing}
      /\ req[r].op = "create" => req[r].to \in Roles
  BY DEF TeamInv, Typed, TeamTypeOK, Shaped, CreateRole, DropRole, Grant
<1>2. /\ req[r].step # "idle" /\ archived' \subseteq People /\ account' \subseteq People
      /\ created \subseteq Roles /\ permits \subseteq created \cup {Nothing}
      /\ member \in [People -> created \cup {Admin, Nothing, Off}]
  BY <1>1 DEF TeamInv, Typed, TeamTypeOK, Shaped
<1>3. /\ created' \subseteq Roles /\ permits' \subseteq created' \cup {Nothing}
      /\ member' \in [People -> created' \cup {Admin, Nothing, Off}]
  <2>1. CASE CreateRole(r)
    BY <1>1, <1>2, <2>1 DEF CreateRole
  <2>2. CASE DropRole(r)
    BY <1>1, <1>2, <2>2, MembershipConstants DEF DropRole
  <2>3. CASE Grant(r)
    BY <1>1, <1>2, <2>3 DEF Grant
  <2>4. QED
    BY <2>1, <2>2, <2>3
<1>4. QED
  BY <1>1, <1>2, <1>3, EndKeeps

LEMMA ArchiveKeeps ==
  ASSUME TeamInv, NEW r \in Calls, Archive(r) \/ OpenAccount(r)
  PROVE  TeamInv'
<1>1. /\ req[r].op \in {"archive", "account"} /\ Ends(r)
      /\ archived' \in {archived, archived \cup {req[r].on}}
      /\ account' \in {account, account \cup {req[r].on}}
      /\ UNCHANGED <<member, created, permits>>
  BY DEF Archive, OpenAccount
<1>2. req[r].step # "idle" /\ req[r].on \in People
  BY <1>1 DEF TeamInv, Typed, Shaped
<1>3. /\ archived' \subseteq People /\ account' \subseteq People /\ created' \subseteq Roles
      /\ permits' \subseteq created' \cup {Nothing}
      /\ member' \in [People -> created' \cup {Admin, Nothing, Off}]
  BY <1>1, <1>2 DEF TeamInv, Typed, TeamTypeOK
<1>4. QED
  BY <1>1, <1>2, <1>3, EndKeeps

LEMMA AbortKeeps ==
  ASSUME TeamInv, NEW r \in Calls, Abort(r)
  PROVE  TeamInv'
<1>1. req[r].step # "idle" /\ Ends(r) /\ UNCHANGED <<archived, account, member, created, permits>>
  BY DEF Abort, project
<1>2. /\ archived' \subseteq People /\ account' \subseteq People /\ created' \subseteq Roles
      /\ permits' \subseteq created' \cup {Nothing}
      /\ member' \in [People -> created' \cup {Admin, Nothing, Off}]
  BY <1>1 DEF TeamInv, Typed, TeamTypeOK
<1>3. QED
  BY <1>1, <1>2, EndKeeps

LEMMA TeamInitInv == TeamInit => TeamInv
<1> SUFFICES ASSUME TeamInit PROVE TeamInv
  OBVIOUS
<1>1. \A r \in Calls : req[r] = NoCall
  BY DEF TeamInit
<1>2. /\ archived \subseteq People /\ created \subseteq Roles /\ permits \subseteq created \cup {Nothing}
      /\ adminsMoved = {} /\ entriesMoved = {} /\ begun = 0 /\ req \in [Calls -> ReqType]
  BY IdleShaped, MembershipConstants DEF TeamInit
<1>3. account \subseteq People /\ member \in [People -> created \cup {Admin, Nothing, Off}]
  BY DEF TeamInit
<1>4. TeamTypeOK
  BY <1>1, <1>2, <1>3, MembershipConstants, IdleShaped DEF TeamTypeOK, ReqType
<1>5. Typed /\ StillSound
  <2>1. AdminSound(NoCall) /\ EntrySound(NoCall)
    BY NothingAsked DEF NoCall
  <2>2. QED
    BY <1>1, <1>2, <1>4, <2>1, IdleShaped DEF Typed, StillSound
<1>6. Locking
  BY <1>1 DEF Locking, NoCall
<1>7. QED
  BY <1>5, <1>6 DEF TeamInv

LEMMA TeamNextInv == TeamInv /\ [TeamNext]_teamVars => TeamInv'
<1> SUFFICES ASSUME TeamInv, [TeamNext]_teamVars PROVE TeamInv'
  OBVIOUS
<1>1. ASSUME NEW r \in Calls, Checks(r) PROVE TeamInv'
  BY <1>1, ChecksKeep
<1>2. ASSUME NEW r \in Calls, Abort(r) PROVE TeamInv'
  BY <1>2, AbortKeeps
<1>3. ASSUME NEW r \in Calls, LockMembers(r) \/ LockGrant(r) PROVE TeamInv'
  BY <1>3, LocksKeep
<1>4. ASSUME NEW r \in Calls, SaveMembers(r) PROVE TeamInv'
  BY <1>4, SaveKeeps
<1>5. ASSUME NEW r \in Calls, SetRole(r) PROVE TeamInv'
  BY <1>5, SetRoleKeeps
<1>6. ASSUME NEW r \in Calls, CreateRole(r) \/ DropRole(r) \/ Grant(r) PROVE TeamInv'
  BY <1>6, RolesKeep
<1>7. ASSUME NEW r \in Calls, Archive(r) \/ OpenAccount(r) PROVE TeamInv'
  BY <1>7, ArchiveKeeps
<1>8. ASSUME NEW p \in People, Restore(p) \/ AcceptInvite(p) PROVE TeamInv'
  <2>1. /\ archived' \subseteq People /\ account' \subseteq People /\ Overtakes(InFlight)
        /\ UNCHANGED <<member, created, permits, req, begun>>
    BY <1>8 DEF Restore, AcceptInvite, TeamInv, Typed, TeamTypeOK
  <2>2. QED
    BY <2>1, DirectoryKeeps
<1>9. CASE UNCHANGED teamVars
  <2>1. UNCHANGED <<archived, account, member, created, permits, req, adminsMoved,
                    entriesMoved, begun>>
    BY <1>9 DEF teamVars, project, moved
  <2>2. \A r \in Calls : /\ r \in adminsMoved' \/ AdminSound(req[r])'
                         /\ r \in entriesMoved' \/ EntrySound(req[r])'
    <3>1. TAKE r \in Calls
    <3>2. PICK k : k = req[r]
      OBVIOUS
    <3>3. Holders' = Holders
      BY <2>1 DEF Holders
    <3>4. (r \in adminsMoved \/ AdminSound(k)') /\ (r \in entriesMoved \/ EntrySound(k)')
      BY <2>1, <3>2, <3>3, AdminSoundStays, EntrySoundStays DEF TeamInv, StillSound
    <3>5. QED
      BY <2>1, <3>2, <3>4
  <2>3. Typed' /\ Locking'
    BY <2>1 DEF TeamInv, Typed, TeamTypeOK, Shaped, InFlight, Locking, Members
  <2>4. QED
    BY <2>2, <2>3 DEF TeamInv, StillSound
<1>10. QED
  BY <1>1, <1>2, <1>3, <1>4, <1>5, <1>6, <1>7, <1>8, <1>9 DEF TeamNext

-----------------------------------------------------------------------------
(* Who may do what.                                                         *)

\* Nothing of the project or the directory changes while a request is made,
\* goes on or fails.
LEMMA OthersWait ==
  ASSUME NEW r \in Calls, Checks(r) \/ Abort(r) \/ LockMembers(r) \/ LockGrant(r)
  PROVE  UNCHANGED project
<1>1. CASE Checks(r)
  BY <1>1 DEF Checks, CheckMembers, CheckRole, CheckManage, CheckArchive, CheckAccount, Begin
<1>2. CASE Abort(r) \/ LockMembers(r) \/ LockGrant(r)
  BY <1>2 DEF Abort, LockMembers, LockGrant
<1>3. QED
  BY <1>1, <1>2

\* Only a save of the list or a change of a role changes who is on the project
\* in which role.
LEMMA MemberMoves ==
  ASSUME [TeamNext]_teamVars, member' # member
  PROVE  \E r \in Calls : SaveMembers(r) \/ SetRole(r)
<1>1. ASSUME NEW r \in Calls, Checks(r) \/ Abort(r) \/ LockMembers(r) \/ LockGrant(r)
      PROVE  FALSE
  BY <1>1, OthersWait DEF project
<1>2. ASSUME NEW r \in Calls, CreateRole(r) \/ DropRole(r) \/ Grant(r) \/ Archive(r)
                                \/ OpenAccount(r)
      PROVE  FALSE
  BY <1>2 DEF CreateRole, DropRole, Grant, Archive, OpenAccount
<1>3. ASSUME NEW p \in People, Restore(p) \/ AcceptInvite(p) PROVE FALSE
  BY <1>3 DEF Restore, AcceptInvite
<1>4. TeamNext
  BY DEF teamVars, project
<1>5. QED
  BY <1>1, <1>2, <1>3, <1>4 DEF TeamNext

\* Only an archiving takes anybody's way in, and only an account opened makes
\* the bootstrap password useless: an invitation is accepted by somebody who is
\* not archived.
LEMMA WayInMoves ==
  ASSUME [TeamNext]_teamVars, CanGetIn, ~CanGetIn'
  PROVE  \E r \in Calls : Archive(r) \/ OpenAccount(r)
<1>1. ASSUME account' = account, archived' \subseteq archived PROVE FALSE
  BY <1>1 DEF CanGetIn, Bootstrap, SignIns
<1>2. ASSUME NEW r \in Calls, Checks(r) \/ Abort(r) \/ LockMembers(r) \/ LockGrant(r)
      PROVE  FALSE
  BY <1>1, <1>2, OthersWait DEF project
<1>3. ASSUME NEW r \in Calls, SaveMembers(r) \/ SetRole(r) PROVE FALSE
  BY <1>1, <1>3 DEF SaveMembers, SetRole
<1>4. ASSUME NEW r \in Calls, CreateRole(r) \/ DropRole(r) \/ Grant(r) PROVE FALSE
  BY <1>1, <1>4 DEF CreateRole, DropRole, Grant
<1>5. ASSUME NEW p \in People, Restore(p) PROVE FALSE
  BY <1>1, <1>5 DEF Restore
<1>6. ASSUME NEW p \in People, AcceptInvite(p) PROVE FALSE
  BY <1>6 DEF AcceptInvite, CanGetIn, SignIns
<1>7. TeamNext
  BY <1>1 DEF teamVars, project
<1>8. QED
  BY <1>2, <1>3, <1>4, <1>5, <1>6, <1>7 DEF TeamNext

-----------------------------------------------------------------------------
(* The theorems.                                                            *)

\* However requests interleave, the project's lock has one holder, a save's
\* diff is against the list as it is (projects.py, set_members), and what a
\* request found of the admins or of who can sign in holds still unless that
\* has changed under it.
THEOREM TeamInvariant == TeamSpec => []TeamInv
BY TeamInitInv, TeamNextInv, PTL DEF TeamSpec

\* Every role worn or permitted something is one there is: what a role permits
\* goes with it and nobody wears one that went (models/role.py, permission.py).
THEOREM TeamTypeCorrect == TeamSpec => []TeamTypeOK
<1>1. TeamInv => TeamTypeOK
  BY DEF TeamInv, Typed
<1>2. QED
  BY TeamInvariant, <1>1, PTL

\* Only its own save ends a request to save the list and changes who is on it.
LEMMA OnlySaves ==
  ASSUME TeamInv, [TeamNext]_teamVars, NEW r \in Calls, req[r].op = "members",
         req'[r].step = "idle", member' # member
  PROVE  SaveMembers(r)
<1>1. req[r].step # "idle"
  BY DEF TeamInv, Typed, Shaped
<1>2. PICK q \in Calls : SaveMembers(q) \/ SetRole(q)
  BY MemberMoves
<1>3. req' = [req EXCEPT ![q] = NoCall]
  BY <1>2 DEF SaveMembers, SetRole, Ends
<1>4. q = r
  BY <1>1, <1>3 DEF TeamInv, Typed
<1>5. QED
  BY <1>2, <1>4 DEF SetRole

\* A save of the list leaves exactly the people it named, each in the role they
\* had but for one whom a vacancy promotes (projects.py, set_members), for any
\* number of requests beside it.
THEOREM SavesAsSent == TeamSpec => SavedAsSent
<1> DEFINE A == \A r \in Calls :
                  req[r].op = "members" /\ req'[r].step = "idle" /\ member' # member =>
                    /\ Members' = req[r].wanted
                    /\ \A p \in Members \cap Members' :
                          member'[p] = member[p] \/ (member[p] = Nothing /\ member'[p] = Admin)
<1>1. TeamInv /\ [TeamNext]_teamVars => A
  BY OnlySaves, SaveLeaves
<1>2. TeamInv /\ [TeamNext]_teamVars => [A]_teamVars
  BY <1>1
<1>3. QED
  BY TeamInvariant, <1>2, PTL DEF TeamSpec, SavedAsSent

\* A request in flight that ends has ended in this step.
LEMMA EndedByEnds ==
  ASSUME TeamInv, NEW r \in Calls, req[r].step # "idle", Ends(r)
  PROVE  Ended(r)
BY DEF TeamInv, Typed, Ends, Ended, NoCall

\* A save under which the admins have not changed does not lose the last one,
\* but when there is nobody to promote.
LEMMA SaveLeavesAdmin ==
  ASSUME TeamInv, NEW r \in Calls, r \notin adminsMoved, SaveMembers(r), Holders # {}
  PROVE  Holders' # {} \/ NobodyToPromote'
<1>1. req[r].op = "members" /\ archived' = archived
  BY DEF SaveMembers
<1>2. Holders \subseteq req[r].wanted \/ req[r].fills
  BY <1>1 DEF TeamInv, StillSound, AdminSound
<1>3. /\ Members' = req[r].wanted
      /\ req[r].fills => \/ \E p \in People \ archived : member'[p] = Admin
                         \/ \A p \in People \ archived : member'[p] # Nothing
      /\ ~req[r].fills => \A p \in Members \cap Members' : member'[p] = member[p]
  BY SaveLeaves
<1>4. CASE req[r].fills
  BY <1>1, <1>3, <1>4 DEF Holders, NobodyToPromote
<1>5. CASE ~req[r].fills
  <2>1. PICK p \in Holders : TRUE
    OBVIOUS
  <2>2. p \in Members \cap Members'
    BY <1>2, <1>3, <1>5, <2>1, MembershipConstants DEF Holders, Members
  <2>3. QED
    BY <1>1, <1>3, <1>5, <2>1, <2>2 DEF Holders
<1>6. QED
  BY <1>4, <1>5

\* Nor does a change of one member's role.
LEMMA SetRoleLeavesAdmin ==
  ASSUME TeamInv, NEW r \in Calls, r \notin adminsMoved, SetRole(r), Holders # {}
  PROVE  Holders' # {}
<1>1. req[r].op = "role" /\ archived' = archived
  BY DEF SetRole
<1>2. CASE member' = member
  BY <1>1, <1>2 DEF Holders
<1>3. CASE member' # member
  <2>1. req[r].to # req[r].was /\ member' = [member EXCEPT ![req[r].on] = req[r].to]
    BY <1>3 DEF SetRole
  <2>2. AnAdminRemains({req[r].on})
    BY <1>1, <2>1 DEF TeamInv, StillSound, AdminSound
  <2>3. PICK p \in Holders : p # req[r].on
    BY <2>2 DEF AnAdminRemains
  <2>4. member'[p] = member[p]
    BY <2>1, <2>3 DEF Holders, TeamInv, Typed, TeamTypeOK
  <2>5. QED
    BY <1>1, <2>3, <2>4 DEF Holders
<1>4. QED
  BY <1>2, <1>3

\* A project loses its last admin only as one is archived, or to a save of the
\* list that leaves nobody to promote, or to a request under which the admins
\* had changed since it was checked (roles.py: ensure_an_admin_remains and
\* fill_admin_vacancy).
THEOREM AdminStays == TeamSpec => AdminRemains
<1> DEFINE A == Holders # {} /\ Holders' = {} =>
                  \/ archived' # archived
                  \/ \E r \in Calls : Ended(r) /\ req[r].op = "members" /\ NobodyToPromote'
                  \/ \E r \in adminsMoved : Ended(r)
<1>1. ASSUME TeamInv, [TeamNext]_teamVars, Holders # {}, Holders' = {}, archived' = archived
      PROVE  \/ \E r \in Calls : Ended(r) /\ req[r].op = "members" /\ NobodyToPromote'
             \/ \E r \in adminsMoved : Ended(r)
  <2>1. member' # member
    BY <1>1 DEF Holders
  <2>2. PICK r \in Calls : SaveMembers(r) \/ SetRole(r)
    BY <1>1, <2>1, MemberMoves
  <2>3. req[r].step # "idle" /\ Ends(r)
    BY <2>2 DEF SaveMembers, SetRole
  <2>4. Ended(r)
    BY <1>1, <2>3, EndedByEnds
  <2>5. CASE r \in adminsMoved
    BY <2>4, <2>5
  <2>6. CASE r \notin adminsMoved
    <3>1. SaveMembers(r) /\ NobodyToPromote'
      BY <1>1, <2>2, <2>6, SaveLeavesAdmin, SetRoleLeavesAdmin
    <3>2. QED
      BY <2>4, <3>1 DEF SaveMembers
  <2>7. QED
    BY <2>5, <2>6
<1>2. TeamInv /\ [TeamNext]_teamVars => [A]_teamVars
  BY <1>1
<1>3. QED
  BY TeamInvariant, <1>2, PTL DEF TeamSpec, AdminRemains

\* Nobody locks everybody out, neither by archiving the last who can sign in nor
\* by opening the first account for somebody archived, unless passwords or
\* archivings had changed since the request was checked (people.py,
\* _require_another_way_in and _require_may_hold_account).
THEOREM WayInStays == TeamSpec => WayInRemains
<1> DEFINE A == CanGetIn /\ ~CanGetIn' => \E r \in entriesMoved : Ended(r)
<1>1. ASSUME TeamInv, [TeamNext]_teamVars, CanGetIn, ~CanGetIn'
      PROVE  \E r \in entriesMoved : Ended(r)
  <2>1. PICK r \in Calls : Archive(r) \/ OpenAccount(r)
    BY <1>1, WayInMoves
  <2>2. req[r].op \in {"archive", "account"} /\ Ends(r)
    BY <2>1 DEF Archive, OpenAccount
  <2>3. req[r].step # "idle"
    BY <1>1, <2>2 DEF TeamInv, Typed, Shaped
  <2>4. r \in entriesMoved
    <3>1. SUFFICES ASSUME EntrySound(req[r]) PROVE FALSE
      BY <1>1 DEF TeamInv, StillSound
    <3>2. CASE Archive(r)
      <4>1. SignIns' = SignIns \ {req[r].on} /\ account' = account
        BY <3>2 DEF Archive, SignIns
      <4>2. req[r].on \in account => SignIns \ {req[r].on} # {}
        BY <3>1, <3>2 DEF Archive, EntrySound, AnotherWayIn
      <4>3. QED
        BY <1>1, <4>1, <4>2 DEF CanGetIn, Bootstrap, SignIns
    <3>3. CASE OpenAccount(r)
      <4>1. req[r].on \in account' \ archived'
        BY <3>1, <3>3 DEF OpenAccount, EntrySound
      <4>2. QED
        BY <1>1, <4>1 DEF CanGetIn, SignIns
    <3>4. QED
      BY <2>1, <3>2, <3>3
  <2>5. QED
    BY <1>1, <2>2, <2>3, <2>4, EndedByEnds
<1>2. TeamInv /\ [TeamNext]_teamVars => [A]_teamVars
  BY <1>1
<1>3. QED
  BY TeamInvariant, <1>2, PTL DEF TeamSpec, WayInRemains
=============================================================================
