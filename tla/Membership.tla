----------------------------- MODULE Membership -----------------------------
(***************************************************************************)
(* Who is on a project, what they are on it, and who may say so.  Requests *)
(* interleave: each checks what it is allowed on what it reads, some then  *)
(* lock the project's row, and each writes in one commit.  The names that  *)
(* every module of this project has begin with Team here, so that one      *)
(* module can state theorems about this and another.                       *)
(***************************************************************************)
EXTENDS Naturals, FiniteSets

CONSTANTS
    People,        \* the directory's team, and its machine
    Agent,         \* the machine, which may be on a project and has no password
    Roles,         \* what a project's admin may invent besides the admin role
    Admin,         \* the admin role
    Nothing,       \* no role, or no person behind the caller
    Off,           \* not on the project
    Calls,         \* requests that may be in flight at once
    MaxRequests    \* bound: how many are made in all

ASSUME MembershipConstants ==
    /\ Agent \in People
    /\ Admin \notin Roles /\ Nothing \notin Roles \cup People
    /\ Off \notin Roles \cup {Admin, Nothing} /\ Admin # Nothing
    /\ MaxRequests \in Nat

VARIABLES
    archived,  \* the people hidden from the pickers
    account,   \* the people with a password
    member,    \* person -> their role on the project, Nothing, or Off
    created,   \* the roles there are, besides the admin role
    permits,   \* the roles, Nothing for the baseline, that may change membership
    req,       \* request -> what it asks, and what it has read
    adminsMoved,  \* the requests in flight when another changed who is an admin
    entriesMoved, \* and when another changed who has a password or is archived
    begun      \* how many requests were made

project == <<archived, account, member, created, permits>>
moved == <<adminsMoved, entriesMoved>>
teamVars == <<project, req, moved, begun>>

NoCall == [op |-> "none", step |-> "idle", on |-> Nothing, to |-> Nothing, was |-> Nothing,
           wanted |-> {}, seen |-> {}, fills |-> FALSE]

InFlight == {r \in Calls : req[r].step # "idle"}
Members == {p \in People : member[p] # Off}

-----------------------------------------------------------------------------
(* What a caller is: a person, with the admin scope or without it, or the   *)
(* bootstrap session, which is nobody.                                      *)

\* admin_holder_ids: archived people do not count.
Holders == {p \in People : member[p] = Admin /\ p \notin archived}

Bootstrap == account = {}
SignIns == account \ archived

\* An archived person's credential is refused, and a project somebody is not
\* on looks to them as though it did not exist.
Reaches(who) == IF who = Nothing THEN Bootstrap ELSE who \in Members \ archived

MayAdminister(who, scoped) ==
    IF who = Nothing THEN Bootstrap ELSE who \in Holders \/ (Holders = {} /\ scoped)

MayChangeMembers(who, scoped) ==
    MayAdminister(who, scoped) \/ (who # Nothing /\ member[who] \in permits)

-----------------------------------------------------------------------------
(* Requests.                                                                *)

CanBegin(r) == req[r].step = "idle" /\ begun < MaxRequests

Begin(r, what) ==
    /\ req' = [req EXCEPT ![r] = what]
    /\ begun' = begun + 1
    /\ UNCHANGED <<project, moved>>

\* lock_row on the project.  An activity entry references the project, so that
\* a request which takes no lock waits to commit for whoever has.
Unlocked == \A r \in Calls : req[r].step # "locked"

\* What was written overtakes the others in flight: what they checked or read
\* of the admins, or of who can sign in, may hold no longer.
Overtakes(others) ==
    /\ adminsMoved' = IF Holders' = Holders THEN adminsMoved \cap others ELSE others
    /\ entriesMoved' = IF archived' = archived /\ account' = account
                       THEN entriesMoved \cap others ELSE others

Ends(r) ==
    /\ req' = [req EXCEPT ![r] = NoCall]
    /\ Overtakes(InFlight \ {r})
    /\ UNCHANGED begun

\* It fails: refused at the database, timed out, or chosen to end a deadlock.
Abort(r) ==
    /\ req[r].step # "idle"
    /\ UNCHANGED project
    /\ Ends(r)

-----------------------------------------------------------------------------
(* Membership.                                                              *)

\* The endpoint's checks, all before the lock.
CheckMembers(r, who, scoped, wanted) ==
    LET administers == MayAdminister(who, scoped) IN
    /\ Reaches(who) /\ MayChangeMembers(who, scoped)
    /\ Holders \ wanted # {} => administers
    /\ wanted \cap archived = {}
    /\ Begin(r, [NoCall EXCEPT !.op = "members", !.step = "checked", !.wanted = wanted,
                               !.fills = administers])

\* A mutant: two saves do not take turns.
LockMembersAtOnce(r) ==
    /\ req[r].op = "members" /\ req[r].step = "checked"
    /\ req' = [req EXCEPT ![r].step = "locked", ![r].seen = Members]
    /\ UNCHANGED <<project, moved, begun>>

\* Locked, and then the rows to diff against are read.
LockMembers(r) ==
    /\ req[r].op = "members" /\ req[r].step = "checked"
    /\ Unlocked
    /\ req' = [req EXCEPT ![r].step = "locked", ![r].seen = Members]
    /\ UNCHANGED <<project, moved, begun>>

\* fill_admin_vacancy: nobody holds the role, and the one who joined first of
\* those without a role gets it.  Who joined first is not modelled.
VacancyFilled(after) ==
    LET unworn == \A p \in People \ archived : after[p] # Admin
        candidates == {p \in People \ archived : after[p] = Nothing}
    IN  IF unworn /\ candidates # {} THEN {[after EXCEPT ![p] = Admin] : p \in candidates}
        ELSE {after}

\* A diff: who stays keeps the row they have.
SaveMembers(r) ==
    LET q == req[r]
        joining == q.wanted \ q.seen
        after == [p \in People |-> IF p \in q.seen \ q.wanted THEN Off
                                   ELSE IF p \in joining THEN Nothing ELSE member[p]]
    IN
    /\ q.op = "members" /\ q.step = "locked"
    /\ joining \cap Members = {}
    /\ member' \in IF q.fills THEN VacancyFilled(after) ELSE {after}
    /\ UNCHANGED <<archived, account, created, permits>>
    /\ Ends(r)

\* A mutant: an archived holder counts as one who remains.
AnAdminRemainsOnPaper(losing) ==
    Holders = {} \/ {p \in People : member[p] = Admin} \ losing # {}

\* ensure_an_admin_remains.
AnAdminRemains(losing) == Holders = {} \/ Holders \ losing # {}

\* set_member_role, as far as its write: the row as it was loaded.
CheckRole(r, who, scoped, p, to) ==
    /\ Reaches(who) /\ MayAdminister(who, scoped)
    /\ to \in created \cup {Admin, Nothing} /\ p \in Members
    /\ member[p] # to => AnAdminRemains({p})
    /\ Begin(r, [NoCall EXCEPT !.op = "role", !.step = "checked", !.on = p, !.to = to,
                               !.was = member[p]])

\* Only a role that differs from the one loaded is written, to a row that has
\* to be there; the key to the role is checked at the commit.
SetRole(r) ==
    LET q == req[r] IN
    /\ q.op = "role" /\ q.step = "checked" /\ Unlocked
    /\ \/ q.to = q.was /\ UNCHANGED member
       \/ /\ q.to # q.was
          /\ q.on \in Members /\ q.to \in created \cup {Admin, Nothing}
          /\ member' = [member EXCEPT ![q.on] = q.to]
    /\ UNCHANGED <<archived, account, created, permits>>
    /\ Ends(r)

-----------------------------------------------------------------------------
(* Roles and what they permit.                                              *)

CheckManage(r, who, scoped, op, role) ==
    /\ Reaches(who) /\ MayAdminister(who, scoped)
    /\ CASE op = "create" -> role \in Roles \ created
         [] op = "drop"   -> role \in created /\ \A p \in People : member[p] # role
         [] OTHER         -> role \in created \cup {Nothing}
    /\ Begin(r, [NoCall EXCEPT !.op = op, !.step = "checked", !.to = role])

\* A new role permits what somebody with no role may do.
CreateRole(r) ==
    LET role == req[r].to IN
    /\ req[r].op = "create" /\ Unlocked
    /\ role \notin created
    /\ created' = created \cup {role}
    /\ permits' = IF Nothing \in permits THEN permits \cup {role} ELSE permits
    /\ UNCHANGED <<archived, account, member>>
    /\ Ends(r)

\* A mutant: what the role permits stays when the role goes.
DropRoleKeepingGrants(r) ==
    LET role == req[r].to IN
    /\ req[r].op = "drop" /\ Unlocked
    /\ role \in created /\ \A p \in People : member[p] # role
    /\ created' = created \ {role}
    /\ UNCHANGED <<archived, account, member, permits>>
    /\ Ends(r)

\* What it permits goes by cascade.  Whoever wears it by now fails the commit.
DropRole(r) ==
    LET role == req[r].to IN
    /\ req[r].op = "drop" /\ Unlocked
    /\ role \in created /\ \A p \in People : member[p] # role
    /\ created' = created \ {role}
    /\ permits' = permits \ {role}
    /\ UNCHANGED <<archived, account, member>>
    /\ Ends(r)

LockGrant(r) ==
    /\ req[r].op \in {"allow", "forbid"} /\ req[r].step = "checked"
    /\ Unlocked
    /\ req' = [req EXCEPT ![r].step = "locked"]
    /\ UNCHANGED <<project, moved, begun>>

\* The whole line of a role is replaced; a row of a role that is gone fails.
Grant(r) ==
    LET role == req[r].to IN
    /\ req[r].op \in {"allow", "forbid"} /\ req[r].step = "locked"
    /\ req[r].op = "allow" => role \in created \cup {Nothing}
    /\ permits' = IF req[r].op = "allow" THEN permits \cup {role} ELSE permits \ {role}
    /\ UNCHANGED <<archived, account, member, created>>
    /\ Ends(r)

-----------------------------------------------------------------------------
(* The directory, which is every project's.                                 *)

\* A mutant: an archived account is another way in.
AnotherWayInOnPaper(p) == p \in account => account \ {p} # {}

\* _require_another_way_in.
AnotherWayIn(p) == p \in account => SignIns \ {p} # {}

CheckArchive(r, p) ==
    /\ p \notin archived /\ AnotherWayIn(p)
    /\ Begin(r, [NoCall EXCEPT !.op = "archive", !.step = "checked", !.on = p])

Archive(r) ==
    /\ req[r].op = "archive"
    /\ archived' = archived \cup {req[r].on}
    /\ UNCHANGED <<account, member, created, permits>>
    /\ Ends(r)

\* Whether they may hold an account is asked before their password is hashed.
\* Giving one to somebody who has one resets their password.
CheckAccount(r, p) ==
    /\ p \notin archived /\ p # Agent
    /\ Begin(r, [NoCall EXCEPT !.op = "account", !.step = "checked", !.on = p])

\* And not again when the hash is written.
OpenAccount(r) ==
    /\ req[r].op = "account"
    /\ account' = account \cup {req[r].on}
    /\ UNCHANGED <<archived, member, created, permits>>
    /\ Ends(r)

\* One conditional statement: an invitation counts while they are not archived.
AcceptInvite(p) ==
    /\ p \notin archived \cup account /\ p # Agent
    /\ account' = account \cup {p}
    /\ UNCHANGED <<archived, member, created, permits, req, begun>>
    /\ Overtakes(InFlight)

Restore(p) ==
    /\ p \in archived
    /\ archived' = archived \ {p}
    /\ UNCHANGED <<account, member, created, permits, req, begun>>
    /\ Overtakes(InFlight)

-----------------------------------------------------------------------------
\* A project its creator administers still, whoever has joined since and in
\* whatever roles; or one the bootstrap session has just created, which has the
\* machine on it, in no role, unless that is archived.
TeamInit ==
    /\ created \in SUBSET Roles /\ permits \in SUBSET (created \cup {Nothing})
    /\ \/ \E creator \in People \ {Agent} :
             /\ archived = {} /\ account = {creator}
             /\ member \in {m \in [People -> created \cup {Admin, Nothing, Off}] :
                               m[creator] = Admin}
       \/ /\ account = {} /\ created = {} /\ permits = {Nothing}
          /\ archived \in SUBSET {Agent}
          /\ member = [p \in People |-> IF p \in {Agent} \ archived THEN Nothing ELSE Off]
    /\ req = [r \in Calls |-> NoCall]
    /\ adminsMoved = {} /\ entriesMoved = {} /\ begun = 0

Checks(r) ==
    /\ CanBegin(r)
    /\ \/ \E who \in People \cup {Nothing}, scoped \in BOOLEAN :
            \/ \E wanted \in SUBSET People : CheckMembers(r, who, scoped, wanted)
            \/ \E p \in People, to \in Roles \cup {Admin, Nothing} :
                 CheckRole(r, who, scoped, p, to)
            \/ \E op \in {"create", "drop", "allow", "forbid"}, role \in Roles \cup {Nothing} :
                 CheckManage(r, who, scoped, op, role)
       \/ \E p \in People : CheckArchive(r, p) \/ CheckAccount(r, p)

TeamNext ==
    \/ \E r \in Calls :
         \/ Checks(r) \/ Abort(r)
         \/ LockMembers(r) \/ SaveMembers(r) \/ SetRole(r)
         \/ CreateRole(r) \/ DropRole(r) \/ LockGrant(r) \/ Grant(r)
         \/ Archive(r) \/ OpenAccount(r)
    \/ \E p \in People : Restore(p) \/ AcceptInvite(p)

TeamSpec == TeamInit /\ [][TeamNext]_teamVars

-----------------------------------------------------------------------------
(* Properties.                                                              *)

\* Well typed, with every role worn or permitted something among those there
\* are (models/role.py, models/permission.py).
TeamTypeOK ==
    /\ archived \subseteq People /\ account \subseteq People
    /\ created \subseteq Roles /\ permits \subseteq created \cup {Nothing}
    /\ member \in [People -> created \cup {Admin, Nothing, Off}]
    /\ \A r \in Calls :
         /\ req[r].op \in {"none", "members", "role", "create", "drop", "allow", "forbid",
                           "archive", "account"}
         /\ req[r].step \in {"idle", "checked", "locked"}
         /\ req[r].on \in People \cup {Nothing}
         /\ {req[r].to, req[r].was} \subseteq Roles \cup {Admin, Nothing}
         /\ req[r].wanted \cup req[r].seen \subseteq People
    /\ adminsMoved \cup entriesMoved \subseteq InFlight
    /\ begun \in 0..MaxRequests

\* A save of the list leaves exactly the people it named, and those who were
\* on the project before keep their roles, but for one whom a vacancy promotes
\* (projects.py, set_members) - whatever other saves it ran beside.
SavedAsSent ==
    [][\A r \in Calls :
          req[r].op = "members" /\ req'[r].step = "idle" /\ member' # member =>
              /\ Members' = req[r].wanted
              /\ \A p \in Members \cap Members' :
                    member'[p] = member[p] \/ (member[p] = Nothing /\ member'[p] = Admin)]_teamVars

Ended(r) == req[r].step # "idle" /\ req'[r].step = "idle"
NobodyToPromote == \A p \in People \ archived : member[p] # Nothing

\* A project loses its last admin only when one is archived, when a save of the
\* list removes them and leaves nobody to promote, or when the request that does
\* it had read who the admins are before another changed that (roles.py, its
\* second rule: no lock makes two changes of a role take turns).
AdminRemains ==
    [][Holders # {} /\ Holders' = {} =>
          \/ archived' # archived
          \/ \E r \in Calls : Ended(r) /\ req[r].op = "members" /\ NobodyToPromote'
          \/ \E r \in adminsMoved : Ended(r)]_teamVars

\* Somebody can sign in, or the bootstrap password is good.
CanGetIn == Bootstrap \/ SignIns # {}

\* Neither an archiving nor the opening of an account locks everybody out,
\* unless passwords or archivings changed under it (people.py,
\* _require_another_way_in and _require_may_hold_account, which take no lock).
WayInRemains ==
    [][CanGetIn /\ ~CanGetIn' => \E r \in entriesMoved : Ended(r)]_teamVars

=============================================================================
