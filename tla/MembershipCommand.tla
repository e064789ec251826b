--------------------------- MODULE MembershipCommand ---------------------------
(***************************************************************************)
(* The machine command interface for memberships: the store side of        *)
(* POST /api/v1/membership-commands (db/sqlite/membership_command.go) with *)
(* the consumers that use it, composed with the browser mutations of       *)
(* Workspaces and Organisations, which change the same tables.             *)
(*                                                                         *)
(* A consumer reads a membership, builds a request with the version it saw *)
(* and an idempotency key, and sends it as often as it likes: requests and *)
(* answers may be lost, delayed and repeated.  Every arrival carries a     *)
(* fresh nonce and actor proof (SignedRequests).  The lookup of the stored *)
(* result, the mutation and the insert of the result are one transaction.  *)
(* An arrival that finds its key answered, with the same request or with   *)
(* another, changes nothing: it is a stuttering step.                      *)
(***************************************************************************)
EXTENDS Workspaces, TextTime, FiniteSetsExt

CONSTANTS
    Key,          \* pairs of consumer and idempotency key
    Start,        \* the tick of the first command; time is counted from there
    Retention,    \* membershipCommandResultRetention, in ticks
    Stall,        \* bound: ticks between a handler's clock reading and its commit
    MaxRequests,  \* bound: requests the consumers build
    MaxClock      \* bound: the clock

ASSUME CommandAssumption ==
    /\ Start \in Nat /\ Retention \in Nat /\ Stall \in Nat /\ MaxRequests \in Nat /\ MaxClock \in Nat

VARIABLES
    clock,
    requests,   \* requests the consumers have built, in order
    results,    \* platform_membership_command_results: id, key, request, result, at
    executed    \* history: the commands that took effect, when, and on which row

cmdVars == <<clock, requests, results, executed>>
allCmdVars == <<allWsVars, cmdVars>>

OrganisationScope == "organisation_membership"
WorkspaceScope    == "workspace_membership"
Operations == {"add", "change_role", "deactivate"}

TableOf(scope) == IF scope = OrganisationScope THEN memberships ELSE wsMemberships

CmdInit ==
    /\ WsInit
    /\ clock = Start
    /\ requests = << >> /\ results = {} /\ executed = << >>

\* Time before the first command makes no difference and is left out.
Tick ==
    /\ clock < MaxClock
    /\ executed # << >>
    /\ clock' = clock + 1
    /\ UNCHANGED <<allWsVars, requests, results, executed>>

(***************************************************************************)
(* The consumer.  ValidateRequest: an add names a role and expects version *)
(* 0, a role change names a role, a removal names none; both expect the    *)
(* version of the membership the consumer saw.                             *)
(***************************************************************************)
Request(key, scope, operation, in, user, role, expected) ==
    [key |-> key, scope |-> scope, operation |-> operation, in |-> in,
     user |-> user, role |-> role, expected |-> expected]

\* seen is the row the consumer had before it, 0 if there was none.
Build(request, seen) ==
    /\ Len(requests) < MaxRequests
    /\ requests' = Append(requests, [request |-> request, seen |-> seen])
    /\ UNCHANGED <<allWsVars, clock, results, executed>>

BuildAdd(key, scope, in, user, role) ==
    /\ Current(TableOf(scope), in, user) = {}
    /\ Build(Request(key, scope, "add", in, user, role, 0), 0)

BuildChange(key, scope, in, user, role) ==
    \E i \in Current(TableOf(scope), in, user) :
        Build(Request(key, scope, "change_role", in, user, role, TableOf(scope)[i].version), i)

BuildDeactivate(key, scope, in, user) ==
    \E i \in Current(TableOf(scope), in, user) :
        Build(Request(key, scope, "deactivate", in, user, NoRole, TableOf(scope)[i].version), i)

(***************************************************************************)
(* ExecuteMembershipCommand                                                *)
(***************************************************************************)
Stored(key) == {x \in results : x.key = key}

\* INTEGER PRIMARY KEY: one more than the largest id in the table.
NextId == 1 + Max({x.id : x \in results} \cup {0})

\* Mutant of AtExpectedVersion: any version will do.
AtAnyVersion(table, r) == Current(table, r.in, r.user) # {}

\* The expected_version compare of the change and removal transactions.
AtExpectedVersion(table, r) ==
    \E i \in Current(table, r.in, r.user) : table[i].version = r.expected

\* executeOrganisationMembershipCommandTx
ExecuteOrganisation(r, a) ==
    /\ r.scope = OrganisationScope
    /\ \/ r.operation = "add" /\ AddOrganisationMember(a, r.in, r.user, r.role)
       \/ /\ r.operation = "change_role"
          /\ AtExpectedVersion(memberships, r)
          /\ ChangeOrganisationMemberRole(a, r.in, r.user, r.role)
       \/ /\ r.operation = "deactivate"
          /\ AtExpectedVersion(memberships, r)
          /\ DeactivateOrganisationMember(a, r.in, r.user)
    /\ UNCHANGED wsVars

\* executeWorkspaceMembershipCommandTx
ExecuteWorkspace(r, a) ==
    /\ r.scope = WorkspaceScope
    /\ \/ r.operation = "add" /\ AddWorkspaceMember(a, r.in, r.user, r.role)
       \/ /\ r.operation = "change_role"
          /\ AtExpectedVersion(wsMemberships, r)
          /\ ChangeWorkspaceMemberRole(a, r.in, r.user, r.role)
       \/ /\ r.operation = "deactivate"
          /\ AtExpectedVersion(wsMemberships, r)
          /\ DeactivateWorkspaceMember(a, r.in, r.user)

\* Mutant of ResultVersion: the version after a removal counts on.
ResultVersionCountsOn(r) == r.expected + 1

ResultVersion(r) ==
    CASE r.operation = "add"         -> 1
      [] r.operation = "change_role" -> r.expected + 1
      [] r.operation = "deactivate"  -> r.expected

\* The row a removal ends is the one the answer names; an add and a role change
\* answer with the row they insert.
ResultOf(r, before, after) ==
    LET id == IF r.operation = "deactivate"
              THEN CHOOSE i \in Current(before, r.in, r.user) : TRUE
              ELSE Len(after)
    IN [id |-> id, role |-> after[id].role, active |-> after[id].active,
        version |-> ResultVersion(r)]

\* Request n arrives (again) with a proof for actor a; the handler read the
\* clock `late` ticks ago.  created_at is that earlier reading.
ExecuteMembershipCommand(n, a, late) ==
    LET r == requests[n].request
        table == TableOf(r.scope)
        after == IF r.scope = OrganisationScope THEN memberships' ELSE wsMemberships'
    IN
    /\ late <= clock
    /\ Stored(r.key) = {}
    /\ ExecuteOrganisation(r, a) \/ ExecuteWorkspace(r, a)
    /\ results' = results \cup {[id |-> NextId, key |-> r.key, request |-> r,
                                 at |-> clock - late, result |-> ResultOf(r, table, after)]}
    /\ executed' = Append(executed,
          [n |-> n, at |-> clock - late,
           acted |-> IF r.operation = "add" THEN 0
                     ELSE CHOOSE i \in Current(table, r.in, r.user) : TRUE])
    /\ UNCHANGED <<clock, requests>>

\* Mutant of CleanupMembershipCommandResults: the age of the cutoff is not
\* looked at.
CleanupAtAnyAge(before, gone) ==
    LET expired == {x \in results : NotAfterAsText(x.at, before)} IN
    /\ before <= clock
    /\ gone # {} /\ gone \subseteq expired
    /\ results' = results \ gone
    /\ UNCHANGED <<allWsVars, clock, requests, executed>>

\* Deletes the oldest results up to a limit: the rows not after the cutoff in
\* text order, the oldest first.  The cutoff itself is compared as a time.
CleanupMembershipCommandResults(before, gone) ==
    LET expired == {x \in results : NotAfterAsText(x.at, before)}
        Older(x, y) == \/ TextRank(x.at) < TextRank(y.at)
                       \/ x.at = y.at /\ x.id < y.id
    IN
    /\ before + Retention <= clock
    /\ gone # {} /\ gone \subseteq expired
    /\ \A x \in gone, y \in expired \ gone : Older(x, y)
    /\ results' = results \ gone
    /\ UNCHANGED <<allWsVars, clock, requests, executed>>

Scopes == ({OrganisationScope} \X Organisation) \cup ({WorkspaceScope} \X Workspace)
RolesOf(scope) == IF scope = OrganisationScope THEN OrgRole ELSE WsRole

CmdStep ==
    \/ Tick
    \/ \E key \in Key, s \in Scopes, u \in User :
          \/ \E role \in RolesOf(s[1]) : \/ BuildAdd(key, s[1], s[2], u, role)
                                         \/ BuildChange(key, s[1], s[2], u, role)
          \/ BuildDeactivate(key, s[1], s[2], u)
    \/ \E n \in 1..Len(requests), a \in User, late \in 0..Stall :
          ExecuteMembershipCommand(n, a, late)
    \/ \E before \in 0..clock, gone \in SUBSET results :
          CleanupMembershipCommandResults(before, gone)

CmdNext == CmdStep \/ (WsNext /\ UNCHANGED cmdVars)

CmdSpec == CmdInit /\ [][CmdNext]_allCmdVars

(***************************************************************************)
(* Properties                                                              *)
(***************************************************************************)
KeyOf(e) == requests[e.n].request.key

\* However often a consumer repeats a request, and whatever the cleanup removes,
\* a key takes effect a second time only after its result was kept for the
\* retention, less the second by which the text comparison may be wrong.
OncePerKey ==
    /\ \A x, y \in results : x.key = y.key => x = y
    /\ \A i, j \in 1..Len(executed) :
          (i < j /\ KeyOf(executed[i]) = KeyOf(executed[j]))
          => clock + TicksPerSecond > executed[i].at + Retention

\* A stored result tells the version and the role that the membership row it
\* names really has: the version of the answer is computed from the request, the
\* version of the row from the row it replaces.
ResultsTellTheRow ==
    \A x \in results :
        LET row == TableOf(x.request.scope)[x.result.id] IN
        /\ row.version = x.result.version
        /\ row.role = x.result.role
        /\ ~x.result.active => ~row.active

\* A change or removal that takes effect on another membership row than the one
\* its consumer saw got past the version compare only because the member was
\* removed and added again in between: role changes alone, by browser or by
\* command, always make the request stale.
StaleOnlyAfterReAdd ==
    \A k \in 1..Len(executed) :
        LET e == executed[k]
            r == requests[e.n].request
            seen == requests[e.n].seen
        IN (r.operation # "add" /\ e.acted # seen)
           => \E i \in (seen + 1)..e.acted :
                 /\ TableOf(r.scope)[i].user = r.user
                 /\ TableOf(r.scope)[i].scope = r.in
                 /\ TableOf(r.scope)[i].version = 1

\* A change or removal takes effect only on the membership its consumer saw.
StaleIsRefused ==
    \A k \in 1..Len(executed) :
        LET e == executed[k] IN
        requests[e.n].request.operation # "add" => e.acted = requests[e.n].seen
=============================================================================
