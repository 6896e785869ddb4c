------------------------------ MODULE KbAuthz ------------------------------
(***************************************************************************)
(* The membership table of scripts/kb_authz.py, its command line and the   *)
(* members page of kb_admin.py that write it, and the migration that       *)
(* derives it from the token registry.                                     *)
(*                                                                         *)
(* Every write of the table is one step: mutate() reads, checks and        *)
(* replaces the file under a lock.  The migration is not: it loads the     *)
(* registry, plans on a copy of the table, writes the table, loads the     *)
(* registry again and replaces it, with nothing held in between.  A write  *)
(* of kb_token is one step here; TokenRegistry has what its own overlap    *)
(* does.                                                                   *)
(*                                                                         *)
(* Sources, names and receipts are left out: a change of a source is a     *)
(* change of the version to this table.  So is the mode the services run   *)
(* in: it decides which of the two verdicts is asked for, and no write     *)
(* looks at it.                                                            *)
(***************************************************************************)
EXTENDS Naturals, FiniteSets

CONSTANTS
  Persons,
  Services,
  Ops,         \* whoever holds the files on the server
  Banks,
  Editors,     \* persons, or Ops, who edit on a version they have seen
  Tokens,
  Legacy,      \* tokens issued before the table, their principal not recorded
  KeyOf,       \* the person whose key issued a legacy token
  AgentOf,     \* the service it was issued for, or Nobody
  ScopeOf,     \* its kb_ids
  Nobody,
  MaxVersion   \* bound on versions of the table

Principals == Persons \cup Services

ASSUME AuthzAssumption ==
  /\ IsFiniteSet(Principals) /\ IsFiniteSet(Banks)
  /\ Persons \cap Services = {}
  /\ Ops \notin Principals /\ Nobody \notin Principals \cup {Ops}
  /\ Editors \subseteq Persons \cup {Ops}
  /\ Legacy \subseteq Tokens
  /\ KeyOf \in [Legacy -> Persons]
  /\ AgentOf \in [Legacy -> Services \cup {Nobody}]
  /\ ScopeOf \in [Legacy -> SUBSET Banks]
  /\ MaxVersion \in Nat

VARIABLES
  table,      \* [version, admins, persons, status, role]
  tokens,     \* the registry: token -> [principal, scope, marker, live]
  view,       \* each editor: the table as the page showed it, or Nobody
  migration,  \* the running migration
  report,     \* how the last migration ended, until something is written
  disturbed   \* history: others wrote while it ran

vars == <<table, tokens, view, migration, report, disturbed>>

Roles    == {"owner", "writer", "reader"}
NoReport == "none"
Unissued == [principal |-> Nobody, marker |-> FALSE, live |-> FALSE, scope |-> {}]
Idle     == [pc |-> "idle"]

-----------------------------------------------------------------------------
(* The table.                                                              *)

RoleOf(d, b, p)  == d.role[b][p]
OwnersOf(d, b)   == {p \in Principals : RoleOf(d, b, p) = "owner"}
IsAdmin(d, a)    == a = Ops \/ a \in d.admins
IsActive(d, b)   == d.status[b] = "active"

IsManager(d, a, b) ==
  \/ IsAdmin(d, a)
  \/ a \in OwnersOf(d, b)

Known(d, p) == p \in Services \/ p \in d.persons

\* Mutant: an owner may go even if no other is left.
MayLoseOwnerLast(d, a, b, p) ==
  p \in OwnersOf(d, b) => IsAdmin(d, a) \/ p = a

\* An owner is demoted or removed by itself or an administrator, and never
\* the last one.
MayLoseOwner(d, a, b, p) ==
  p \in OwnersOf(d, b) =>
    /\ IsAdmin(d, a) \/ p = a
    /\ OwnersOf(d, b) # {p}

\* set_member for a role, remove_member for "none"; no change is no write.
MaySet(d, a, b, p, r) ==
  /\ IsActive(d, b) /\ IsManager(d, a, b)
  /\ RoleOf(d, b, p) # r
  /\ p \in Services => IsAdmin(d, a) /\ r \in {"reader", "none"}
  /\ r # "none" => Known(d, p)
  /\ MayLoseOwner(d, a, b, p)

WithRole(d, b, p, r) == [d EXCEPT !.version = @ + 1, !.role[b][p] = r]

\* Several grants of reader, each a commit of its own.
WithReaders(d, pairs) ==
  [d EXCEPT
     !.version = @ + Cardinality(pairs),
     !.role = [b \in Banks |-> [p \in Principals |->
                 IF <<b, p>> \in pairs THEN "reader" ELSE RoleOf(d, b, p)]]]

WithPersons(d, people) ==
  [d EXCEPT !.version = @ + Cardinality(people), !.persons = @ \cup people]

WithBanks(d, banks, owner) ==
  [d EXCEPT
     !.version = @ + Cardinality(banks),
     !.status = [b \in Banks |-> IF b \in banks THEN "active" ELSE @[b]],
     !.role = [b \in Banks |-> IF b \in banks
                               THEN [@[b] EXCEPT ![owner] = "owner"] ELSE @[b]]]

\* What record_verdict answers for a live token, in either mode.
ScopeOk(t, b) == b \in t.scope

GrantsOk(d, t, b) ==
  IF t.principal = "shared" THEN IsActive(d, b) /\ ScopeOk(t, b)
  ELSE /\ t.principal # Nobody /\ IsActive(d, b)
       /\ RoleOf(d, b, t.principal) \in Roles
       /\ t.marker \/ ScopeOk(t, b)

\* equivalence_report: both modes answer the same.
Equivalent(reg, d) ==
  \A t \in Tokens, b \in Banks :
    reg[t].live => (ScopeOk(reg[t], b) = GrantsOk(d, reg[t], b))

-----------------------------------------------------------------------------
Init ==
  /\ table = [version |-> 0, admins |-> {}, persons |-> {},
              status |-> [b \in Banks |-> "none"],
              role |-> [b \in Banks |-> [p \in Principals |-> "none"]]]
  /\ tokens = [t \in Tokens |->
       IF t \in Legacy THEN [Unissued EXCEPT !.live = TRUE, !.scope = ScopeOf[t]]
       ELSE Unissued]
  /\ view = [e \in Editors |-> Nobody]
  /\ migration = Idle
  /\ report = NoReport
  /\ disturbed = FALSE

\* A write of somebody else than the migration.
Others == disturbed' = (migration # Idle) /\ report' = NoReport

WriteTable(d) ==
  /\ d.version <= MaxVersion
  /\ table' = d
  /\ Others
  /\ UNCHANGED <<tokens, migration>>

Enroll(p) == WriteTable(WithPersons(table, {p})) /\ UNCHANGED view

SetAdmin(p, on) ==
  /\ p \in table.persons /\ on # (p \in table.admins)
  /\ WriteTable([table EXCEPT !.version = @ + 1,
                   !.admins = IF on THEN @ \cup {p} ELSE @ \ {p}])
  /\ UNCHANGED view

CreateBank(b, owner, services) ==
  /\ table.status[b] = "none" /\ owner \in table.persons
  /\ WriteTable(WithReaders(WithBanks(table, {b}, owner), {b} \X services))
  /\ UNCHANGED view

ArchiveBank(b) ==
  /\ IsActive(table, b)
  /\ WriteTable([table EXCEPT !.version = @ + 1, !.status[b] = "archived"])
  /\ UNCHANGED view

\* grant and revoke without --expect-version, or the members page called
\* without expect_version: on whatever table the write finds.
SetMember(a, b, p, r) ==
  /\ MaySet(table, a, b, p, r)
  /\ WriteTable(WithRole(table, b, p, r))
  /\ UNCHANGED view

\* The members page of an owner or administrator, or kb_authz show.
MembersView(e) ==
  /\ view[e] = Nobody
  /\ \E b \in Banks : IsActive(table, b) /\ IsManager(table, e, b)
  /\ view' = [view EXCEPT ![e] = table]
  /\ UNCHANGED <<table, tokens, migration, report, disturbed>>

\* Mutant: the version is not compared.
ExpectedAlways(e) == view[e] # Nobody

Expected(e) == IF view[e] = Nobody THEN FALSE ELSE view[e].version = table.version

MembersWrite(e, b, p, r) ==
  /\ Expected(e) /\ MaySet(table, e, b, p, r)
  /\ WriteTable(WithRole(table, b, p, r))
  /\ view' = [view EXCEPT ![e] = Nobody]

\* version_conflict, or the editor looks again.
MembersRefused(e) ==
  /\ view[e] # Nobody /\ ~Expected(e)
  /\ view' = [view EXCEPT ![e] = Nobody]
  /\ UNCHANGED <<table, tokens, migration, report, disturbed>>

-----------------------------------------------------------------------------
(* The registry.                                                           *)

WriteTokens(reg) ==
  /\ tokens' = reg
  /\ Others
  /\ UNCHANGED <<table, view, migration>>

\* A token for a person, a service or nobody but a library (an access file).
Mintable(t, p, scope, marker) ==
  /\ t \notin Legacy /\ tokens[t] = Unissued
  /\ scope # {}
  /\ p = "shared" => ~marker /\ Cardinality(scope) = 1

\* Those it supersedes are revoked in the same write.
Mint(t, p, scope, marker, superseded) ==
  WriteTokens([u \in Tokens |->
    IF u = t THEN [principal |-> p, marker |-> marker, live |-> TRUE, scope |-> scope]
    ELSE IF u \in superseded THEN [tokens[u] EXCEPT !.live = FALSE]
    ELSE tokens[u]])

\* The generations of a service's or a library's token.  A legacy token is
\* not one of them, the migration binds it to a service by its principal only.
Generations(p, scope) ==
  {u \in Tokens \ Legacy : /\ tokens[u].principal = p
                            /\ p = "shared" => tokens[u].scope = scope}

\* Those of an agent of a person: which of the tokens issued with its keys
\* are the agent's is left open.
GenerationsOfAgents(p) ==
  SUBSET {u \in Tokens : tokens[u].principal = p \/ (u \in Legacy /\ KeyOf[u] = p)}

\* issue, issue-service, export: an agent that has no live token yet is some
\* other agent of the person, a service or a library has one binding.
IssueToken(t, p, scope, marker) ==
  /\ Mintable(t, p, scope, marker)
  /\ p \notin Persons => \A u \in Generations(p, scope) : ~tokens[u].live
  /\ Mint(t, p, scope, marker, {})

\* reissue, rotate-service, export --rotate.
RotateToken(t, p, scope, marker) ==
  /\ Mintable(t, p, scope, marker)
  /\ \E prior \in IF p \in Persons THEN GenerationsOfAgents(p)
                  ELSE {Generations(p, scope)} :
       prior # {} /\ Mint(t, p, scope, marker, prior)

RevokeToken(t) ==
  /\ tokens[t].live
  /\ WriteTokens([tokens EXCEPT ![t].live = FALSE])

-----------------------------------------------------------------------------
(* migrate.                                                                *)

\* The registry is loaded, and the given keys prove whose they are.
MigrateLoad(keys, owner, services) ==
  /\ migration = Idle
  /\ owner \in keys
  /\ migration' = [pc |-> "plan", registry |-> tokens, keys |-> keys,
                   owner |-> owner, services |-> services]
  /\ report' = NoReport /\ disturbed' = FALSE
  /\ UNCHANGED <<table, tokens, view>>

Live(reg)      == {t \in Tokens : reg[t].live}
OfSomebody(reg) == {t \in Live(reg) : reg[t].principal # "shared"}

\* Whose token it is: recorded, or proved by a key and a service's agent id.
Attributed(m, t) ==
  IF m.registry[t].principal # Nobody THEN m.registry[t].principal
  ELSE IF KeyOf[t] \notin m.keys THEN Nobody
  ELSE IF AgentOf[t] \in m.services THEN AgentOf[t] ELSE KeyOf[t]

Plan(m, d) ==
  LET mine == OfSomebody(m.registry) IN
  [keys     |-> m.keys,
   owner    |-> m.owner,
   banks    |-> {b \in Banks : \E t \in Live(m.registry) :
                   b \in m.registry[t].scope} \ {b \in Banks : d.status[b] # "none"},
   grants   |-> UNION {m.registry[t].scope \X {Attributed(m, t)} : t \in mine},
   bindings |-> [t \in {u \in mine : m.registry[u].principal = Nobody} |->
                   Attributed(m, t)]]

\* Every live token is attributed, every service given has one.
Attributable(m) ==
  LET owners == {Attributed(m, t) : t \in OfSomebody(m.registry)}
  IN  /\ Nobody \notin owners
      /\ \A s \in m.services :
           \E t \in OfSomebody(m.registry) :
             Attributed(m, t) = s /\ m.registry[t].scope # {}

\* The pairs of the plan that have no role yet.
Missing(d, plan) ==
  {x \in plan.grants : RoleOf(d, x[1], x[2]) = "none"}

Applied(d, plan) ==
  LET created == WithBanks(WithPersons(d, plan.keys),
                   {b \in plan.banks : d.status[b] = "none"}, plan.owner)
  IN  WithReaders(created, Missing(created, plan))

\* set_member's conditions for each of them; otherwise nothing is written.
Applicable(d, plan) ==
  \A x \in Missing(Applied(d, [plan EXCEPT !.grants = {}]), plan) :
    /\ d.status[x[1]] # "archived"
    /\ x[2] \in Services \cup d.persons \cup plan.keys

Bound(reg, plan) ==
  [t \in Tokens |-> IF t \in DOMAIN plan.bindings /\ reg[t].principal = Nobody
                    THEN [reg[t] EXCEPT !.principal = plan.bindings[t]]
                    ELSE reg[t]]

\* Mutant: the plan is written without the rehearsal.
RehearsedNever(m, d) == Attributable(m) /\ Applicable(d, Plan(m, d))

\* The whole migration in memory first: both modes must agree after it.
Rehearsed(m, d) ==
  LET plan == Plan(m, d)
  IN  /\ Attributable(m) /\ Applicable(d, plan)
      /\ Equivalent(Bound(m.registry, plan), Applied(d, plan))

MigratePlan ==
  /\ migration.pc = "plan"
  /\ migration' = IF Rehearsed(migration, table)
                  THEN [pc |-> "apply", plan |-> Plan(migration, table)]
                  ELSE Idle
  /\ UNCHANGED <<table, tokens, view, report, disturbed>>

MigrateApply ==
  LET plan == migration.plan
  IN  /\ migration.pc = "apply"
      /\ IF Applicable(table, plan)
         THEN /\ Applied(table, plan).version <= MaxVersion
              /\ table' = Applied(table, plan)
              /\ migration' = [pc |-> "reload", plan |-> plan, table |-> table']
         ELSE migration' = Idle /\ UNCHANGED table
      /\ UNCHANGED <<tokens, view, report, disturbed>>

MigrateReload ==
  /\ migration.pc = "reload"
  /\ migration' = [pc |-> "save", plan |-> migration.plan,
                   table |-> migration.table, registry |-> tokens]
  /\ UNCHANGED <<table, tokens, view, report, disturbed>>

\* The registry is replaced; the report is about what this process holds.
MigrateSave ==
  LET bound == Bound(migration.registry, migration.plan)
  IN  /\ migration.pc = "save"
      /\ tokens' = IF bound = migration.registry THEN tokens ELSE bound
      /\ report' = IF Equivalent(bound, migration.table) THEN "ok" ELSE "not_ok"
      /\ migration' = Idle
      /\ UNCHANGED <<table, view, disturbed>>

MigrateDies ==
  /\ migration # Idle
  /\ migration' = Idle
  /\ UNCHANGED <<table, tokens, view, report, disturbed>>

Migrate ==
  \/ \E keys \in SUBSET Persons, owner \in Persons, services \in SUBSET Services :
       MigrateLoad(keys, owner, services)
  \/ MigratePlan \/ MigrateApply \/ MigrateReload \/ MigrateSave \/ MigrateDies

-----------------------------------------------------------------------------
Next ==
  \/ \E p \in Persons : Enroll(p) \/ \E on \in BOOLEAN : SetAdmin(p, on)
  \/ \E b \in Banks :
       \/ ArchiveBank(b)
       \/ \E o \in Persons, ss \in SUBSET Services : CreateBank(b, o, ss)
       \/ \E p \in Principals, r \in Roles \cup {"none"} :
            \/ \E a \in Persons \cup {Ops} : SetMember(a, b, p, r)
            \/ \E e \in Editors : MembersWrite(e, b, p, r)
  \/ \E e \in Editors : MembersView(e) \/ MembersRefused(e)
  \/ \E t \in Tokens :
       \/ RevokeToken(t)
       \/ \E p \in Principals \cup {"shared"}, scope \in SUBSET Banks, marker \in BOOLEAN :
            IssueToken(t, p, scope, marker) \/ RotateToken(t, p, scope, marker)
  \/ Migrate

Spec == Init /\ [][Next]_vars

-----------------------------------------------------------------------------
(* Properties.                                                             *)

\* No sequence of writes, stale pages and migrations included, leaves a bank
\* without an owner, and the owners are enrolled persons.
BankIsOwned ==
  \A b \in Banks : table.status[b] # "none" =>
    OwnersOf(table, b) # {} /\ OwnersOf(table, b) \subseteq table.persons

\* An edit made on a version lands on the table its editor saw, entry for
\* entry: nobody's change in between is overwritten or built on blindly.
NoBlindEdit ==
  [][\A e \in Editors :
       view[e] # Nobody /\ view'[e] = Nobody /\ table' # table
         => view[e] = table]_vars

\* A migration that nobody disturbed ends equivalent: every live token may
\* read by the table what it may read by its scope.  It is so whatever state
\* an earlier migration that died half way has left.
MigrationIsFaithful ==
  ~disturbed /\ report # NoReport =>
    report = "ok" /\ (migration = Idle => Equivalent(tokens, table))
=============================================================================
