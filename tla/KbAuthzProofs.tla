---------------------------- MODULE KbAuthzProofs ----------------------------
(***************************************************************************)
(* Proofs about KbAuthz, for any finite sets of persons, services and      *)
(* banks, and any tokens, editors and number of versions.                  *)
(*                                                                         *)
(* Ownership is kept by the table alone (Kept): an owner is an enrolled    *)
(* person, and no write takes the last one.  An edit is not blind because  *)
(* every write that changes the table raises its version (Grows).  For a   *)
(* migration nobody disturbed, what was rehearsed is still the case at     *)
(* each of its steps (Rehearsal).                                          *)
(***************************************************************************)
EXTENDS KbAuthz, FiniteSetTheorems, TLAPS

Statuses == {"none", "active", "archived"}
Levels   == Roles \cup {"none"}
Subjects == Principals \cup {Nobody, "shared"}

Table == [version : Nat, admins : SUBSET Persons, persons : SUBSET Persons,
          status : [Banks -> Statuses],
          role : [Banks -> [Principals -> Levels]]]

Token == [principal : Subjects, marker : BOOLEAN, live : BOOLEAN,
          scope : SUBSET Banks]

Registry == [Tokens -> Token]

\* Owners are enrolled, and a bank that was created has one.
Kept(d) ==
  \A b \in Banks :
    /\ OwnersOf(d, b) \subseteq d.persons
    /\ d.status[b] # "none" => OwnersOf(d, b) # {}

Planned(plan) ==
  /\ plan.keys \subseteq Persons /\ plan.owner \in plan.keys
  /\ plan.banks \subseteq Banks
  /\ plan.grants \subseteq Banks \X Subjects
  /\ \A t \in DOMAIN plan.bindings : plan.bindings[t] \in Subjects

MigrationInv ==
  /\ migration.pc = "plan" =>
       /\ migration.keys \subseteq Persons /\ migration.owner \in migration.keys
       /\ migration.services \subseteq Services
       /\ migration.registry \in Registry
  /\ migration.pc \in {"apply", "reload", "save"} => Planned(migration.plan)
  /\ migration.pc = "save" => migration.registry \in Registry
  /\ migration = Idle \/ migration.pc \in {"plan", "apply", "reload", "save"}

\* A page that shows the version of the table shows the table.
ViewInv ==
  \A e \in Editors : view[e] # Nobody =>
    /\ view[e].version \in Nat /\ view[e].version <= table.version
    /\ view[e].version = table.version => view[e] = table

\* What a migration nobody disturbed has rehearsed still holds.
Rehearsal ==
  ~disturbed =>
    /\ migration.pc = "plan" => migration.registry = tokens
    /\ migration.pc = "apply" =>
         /\ Applicable(table, migration.plan)
         /\ Equivalent(Bound(tokens, migration.plan),
                       Applied(table, migration.plan))
    /\ migration.pc \in {"reload", "save"} =>
         /\ migration.table = table
         /\ Equivalent(Bound(tokens, migration.plan), table)
    /\ migration.pc = "save" => migration.registry = tokens

ReportInv ==
  /\ report # NoReport => migration = Idle
  /\ ~disturbed /\ report # NoReport => report = "ok" /\ Equivalent(tokens, table)

IInv ==
  /\ table \in Table /\ Kept(table)
  /\ tokens \in Registry
  /\ view \in [Editors -> Table \cup {Nobody}]
  /\ disturbed \in BOOLEAN
  /\ MigrationInv /\ ViewInv /\ Rehearsal /\ ReportInv

\* What every write of the table does.
Grows(d) == d \in Table /\ Kept(d) /\ d.version > table.version

-----------------------------------------------------------------------------
(* Sets.                                                                   *)

\* Persons and services are principals and no principal is both.
LEMMA Disjoint ==
  /\ Persons \subseteq Principals /\ Services \subseteq Principals
  /\ Persons \cap Services = {} /\ Ops \notin Principals
BY AuthzAssumption DEF AuthzAssumption, Principals

\* Sets of principals and of libraries are finite, so they can be counted.
LEMMA FinitePrincipals ==
  /\ \A S \in SUBSET Principals : IsFiniteSet(S) /\ Cardinality(S) \in Nat
  /\ \A S \in SUBSET Banks : IsFiniteSet(S) /\ Cardinality(S) \in Nat
BY AuthzAssumption, FS_Subset, FS_CardinalityType DEF AuthzAssumption

\* So are the grants of the registry.
LEMMA FinitePairs ==
  ASSUME NEW S \in SUBSET (Banks \X Subjects)
  PROVE  IsFiniteSet(S) /\ Cardinality(S) \in Nat
<1>1. IsFiniteSet({Nobody}) /\ IsFiniteSet({"shared"})
  BY FS_Singleton
<1>2. IsFiniteSet(Principals \cup {Nobody})
  BY <1>1, AuthzAssumption, FS_Union DEF AuthzAssumption
<1>3. IsFiniteSet((Principals \cup {Nobody}) \cup {"shared"})
  BY <1>1, <1>2, FS_Union
<1>4. Subjects = (Principals \cup {Nobody}) \cup {"shared"}
  BY DEF Subjects
<1>5. IsFiniteSet(Banks \X Subjects)
  BY <1>3, <1>4, AuthzAssumption, FS_Product DEF AuthzAssumption
<1> QED
  BY <1>5, FS_Subset, FS_CardinalityType

\* A set of one member counts one.
LEMMA OneIsOne == \A x : Cardinality({x}) = 1
BY FS_Singleton


-----------------------------------------------------------------------------
(* What the table becomes.                                                 *)

Same(n, d, v, p, s, r) ==
  /\ n.version = v /\ n.admins = d.admins /\ n.persons = p
  /\ n.status = s /\ n.role = r

\* One field of the table is set.
LEMMA SetVersion ==
  ASSUME NEW d \in Table, NEW v \in Nat, NEW n, n = [d EXCEPT !.version = v]
  PROVE  n \in Table /\ Same(n, d, v, d.persons, d.status, d.role)
<1>1. n = [version |-> v, admins |-> d.admins, persons |-> d.persons,
           status |-> d.status, role |-> d.role]
  BY DEF Table
<1> QED
  BY <1>1 DEF Table, Same

\* Enrolling persons changes nothing else of a table.
LEMMA SetPersons ==
  ASSUME NEW d \in Table, NEW p \in SUBSET Persons, NEW n,
         n = [d EXCEPT !.persons = p]
  PROVE  n \in Table /\ Same(n, d, d.version, p, d.status, d.role)
<1>1. n = [version |-> d.version, admins |-> d.admins, persons |-> p,
           status |-> d.status, role |-> d.role]
  BY DEF Table
<1> QED
  BY <1>1 DEF Table, Same

\* A change of status changes nothing else.
LEMMA SetStatus ==
  ASSUME NEW d \in Table, NEW s \in [Banks -> Statuses], NEW n,
         n = [d EXCEPT !.status = s]
  PROVE  n \in Table /\ Same(n, d, d.version, d.persons, s, d.role)
<1>1. n = [version |-> d.version, admins |-> d.admins, persons |-> d.persons,
           status |-> s, role |-> d.role]
  BY DEF Table
<1> QED
  BY <1>1 DEF Table, Same

\* A change of roles changes nothing else.
LEMMA SetRole ==
  ASSUME NEW d \in Table, NEW r \in [Banks -> [Principals -> Levels]], NEW n,
         n = [d EXCEPT !.role = r]
  PROVE  n \in Table /\ Same(n, d, d.version, d.persons, d.status, r)
<1>1. n = [version |-> d.version, admins |-> d.admins, persons |-> d.persons,
           status |-> d.status, role |-> r]
  BY DEF Table
<1> QED
  BY <1>1 DEF Table, Same

\* One role is set; the last owner is not taken.
LEMMA RoleWritten ==
  ASSUME NEW d \in Table, Kept(d), NEW b \in Banks, NEW p \in Principals,
         NEW r \in Levels, r = "owner" => p \in d.persons,
         r # "owner" => OwnersOf(d, b) # {p}
  PROVE  /\ WithRole(d, b, p, r) \in Table
         /\ Kept(WithRole(d, b, p, r))
         /\ WithRole(d, b, p, r).version = d.version + 1
<1> DEFINE n == WithRole(d, b, p, r)
           roles == [d.role EXCEPT ![b] = [@ EXCEPT ![p] = r]]
<1>0. d.version + 1 \in Nat /\ roles \in [Banks -> [Principals -> Levels]]
  BY DEF Table
<1>1. n \in Table /\ Same(n, d, d.version + 1, d.persons, d.status, roles)
  <2> DEFINE m == [d EXCEPT !.version = d.version + 1]
  <2>1. m \in Table /\ Same(m, d, d.version + 1, d.persons, d.status, d.role)
    BY <1>0, SetVersion
  <2>2. n = [m EXCEPT !.role = roles]
    BY DEF WithRole, Table
  <2> HIDE DEF m, n, roles
  <2> QED
    BY <1>0, <2>1, <2>2, SetRole DEF Same
<1>2. \A c \in Banks, q \in Principals :
        roles[c][q] = IF c = b /\ q = p THEN r ELSE d.role[c][q]
  BY DEF Table
<1>3. ASSUME NEW c \in Banks
      PROVE  /\ OwnersOf(n, c) \subseteq n.persons
             /\ n.status[c] # "none" => OwnersOf(n, c) # {}
  <2> HIDE DEF n, roles
  <2>1. \A q \in Principals :
          q \in OwnersOf(n, c) <=> IF c = b /\ q = p THEN r = "owner" ELSE q \in OwnersOf(d, c)
    BY <1>1, <1>2 DEF OwnersOf, RoleOf, Same
  <2>2. OwnersOf(n, c) \subseteq Principals /\ OwnersOf(d, c) \subseteq Principals
    BY DEF OwnersOf
  <2>3. OwnersOf(n, c) \subseteq n.persons
    BY <1>1, <2>1, <2>2 DEF Kept, Same
  <2>4. ASSUME n.status[c] # "none" PROVE OwnersOf(n, c) # {}
    <3>1. PICK q \in Principals : q \in OwnersOf(d, c)
      BY <1>1, <2>2, <2>4 DEF Kept, Same
    <3>2. CASE c = b /\ r # "owner"
      <4>1. OwnersOf(d, c) # {p}
        BY <3>2
      <4>2. PICK u \in OwnersOf(d, c) : u # p
        BY <3>1, <4>1
      <4> QED
        BY <2>1, <2>2, <4>2
    <3>3. CASE c # b \/ r = "owner"
      BY <2>1, <3>1, <3>3
    <3> QED
      BY <3>2, <3>3
  <2> QED
    BY <2>3, <2>4
<1> HIDE DEF n, roles
<1> QED
  BY <1>1, <1>3 DEF Kept, Same, n

\* Readers are added where nobody is an owner.
LEMMA ReadersAdded ==
  ASSUME NEW d \in Table, Kept(d), NEW pairs \in SUBSET (Banks \X Subjects),
         \A b \in Banks, p \in Principals :
           <<b, p>> \in pairs => d.role[b][p] # "owner"
  PROVE  /\ WithReaders(d, pairs) \in Table
         /\ Kept(WithReaders(d, pairs))
         /\ WithReaders(d, pairs).version >= d.version
         /\ WithReaders(d, pairs).status = d.status
         /\ WithReaders(d, pairs).persons = d.persons
<1> DEFINE n == WithReaders(d, pairs)
           roles == [b \in Banks |-> [p \in Principals |->
                       IF <<b, p>> \in pairs THEN "reader" ELSE RoleOf(d, b, p)]]
<1>1. Cardinality(pairs) \in Nat
  BY FinitePairs
<1>2. roles \in [Banks -> [Principals -> Levels]]
  BY DEF Table, RoleOf, Levels, Roles
<1>3. /\ n.version = d.version + Cardinality(pairs) /\ n.persons = d.persons
      /\ n.status = d.status /\ n.role = roles /\ n \in Table
  <2> DEFINE v == d.version + Cardinality(pairs)
             m == [d EXCEPT !.version = v]
  <2>1. v \in Nat
    BY <1>1 DEF Table
  <2>2. m \in Table /\ Same(m, d, v, d.persons, d.status, d.role)
    <3> HIDE DEF v
    <3> QED
      BY <2>1, SetVersion
  <2>3. n = [m EXCEPT !.role = roles]
    BY DEF WithReaders, Table
  <2> HIDE DEF m, n, roles
  <2> QED
    BY <1>2, <2>1, <2>2, <2>3, SetRole DEF Same
<1>4. \A b \in Banks, p \in Principals :
        roles[b][p] = IF <<b, p>> \in pairs THEN "reader" ELSE d.role[b][p]
  BY DEF RoleOf
<1> HIDE DEF n, roles
<1>5. \A b \in Banks : OwnersOf(n, b) = OwnersOf(d, b)
  BY <1>3, <1>4 DEF OwnersOf, RoleOf
<1>6. Kept(n)
  BY <1>3, <1>5 DEF Kept
<1>7. d.version \in Nat
  BY DEF Table
<1> QED
  BY <1>1, <1>3, <1>6, <1>7 DEF n

\* with_persons: the version counts the new persons, no owner is lost.
LEMMA PersonsAdded ==
  ASSUME NEW d \in Table, Kept(d), NEW people \in SUBSET Persons
  PROVE  /\ WithPersons(d, people) \in Table
         /\ Kept(WithPersons(d, people))
         /\ WithPersons(d, people).version = d.version + Cardinality(people)
         /\ WithPersons(d, people).persons = d.persons \cup people
         /\ WithPersons(d, people).status = d.status
         /\ WithPersons(d, people).role = d.role
<1> DEFINE n == WithPersons(d, people)
<1>1. Cardinality(people) \in Nat
  BY Disjoint, FinitePrincipals
<1>2. /\ n.version = d.version + Cardinality(people) /\ n.role = d.role
      /\ n.persons = d.persons \cup people /\ n.status = d.status /\ n \in Table
  <2> DEFINE v == d.version + Cardinality(people)
             m == [d EXCEPT !.version = v]
  <2>1. v \in Nat /\ d.persons \cup people \in SUBSET Persons
    BY <1>1 DEF Table
  <2>2. m \in Table /\ Same(m, d, v, d.persons, d.status, d.role)
    <3> HIDE DEF v
    <3> QED
      BY <2>1, SetVersion
  <2>3. n = [m EXCEPT !.persons = d.persons \cup people]
    BY DEF WithPersons, Table
  <2> HIDE DEF m, n
  <2> QED
    BY <2>1, <2>2, <2>3, SetPersons DEF Same
<1> HIDE DEF n
<1>3. \A b \in Banks : OwnersOf(n, b) = OwnersOf(d, b)
  BY <1>2 DEF OwnersOf, RoleOf
<1>4. Kept(n)
  BY <1>2, <1>3 DEF Kept
<1> QED
  BY <1>2, <1>4 DEF n

\* Banks are created for an enrolled owner.
LEMMA BanksAdded ==
  ASSUME NEW d \in Table, Kept(d), NEW banks \in SUBSET Banks,
         NEW owner \in d.persons
  PROVE  /\ WithBanks(d, banks, owner) \in Table
         /\ Kept(WithBanks(d, banks, owner))
         /\ WithBanks(d, banks, owner).version = d.version + Cardinality(banks)
         /\ WithBanks(d, banks, owner).persons = d.persons
         /\ \A b \in Banks, p \in Principals :
              WithBanks(d, banks, owner).role[b][p]
                = IF b \in banks /\ p = owner THEN "owner" ELSE d.role[b][p]
         /\ \A b \in Banks : WithBanks(d, banks, owner).status[b]
                               = IF b \in banks THEN "active" ELSE d.status[b]
<1> DEFINE n == WithBanks(d, banks, owner)
           roles == [b \in Banks |-> IF b \in banks
                       THEN [d.role[b] EXCEPT ![owner] = "owner"] ELSE d.role[b]]
           status == [b \in Banks |-> IF b \in banks THEN "active" ELSE d.status[b]]
<1>1. Cardinality(banks) \in Nat /\ owner \in Principals /\ owner \in Persons
  BY Disjoint, FinitePrincipals DEF Table
<1>2. roles \in [Banks -> [Principals -> Levels]] /\ status \in [Banks -> Statuses]
  BY DEF Table, Levels, Roles, Statuses
<1>3. /\ n.version = d.version + Cardinality(banks) /\ n.persons = d.persons
      /\ n.status = status /\ n.role = roles /\ n \in Table
  <2> DEFINE v == d.version + Cardinality(banks)
             m == [d EXCEPT !.version = v]
             k == [m EXCEPT !.status = status]
  <2>1. v \in Nat
    BY <1>1 DEF Table
  <2>2. m \in Table /\ Same(m, d, v, d.persons, d.status, d.role)
    <3> HIDE DEF v
    <3> QED
      BY <2>1, SetVersion
  <2>3. k \in Table /\ Same(k, d, v, d.persons, status, d.role)
    <3> HIDE DEF v, m, status
    <3> QED
      BY <1>2, <2>2, SetStatus DEF Same
  <2>4. n = [k EXCEPT !.role = roles]
    BY DEF WithBanks, Table
  <2> HIDE DEF m, k, n, roles, status
  <2> QED
    BY <1>2, <2>1, <2>3, <2>4, SetRole DEF Same
<1>4. \A b \in Banks, p \in Principals :
        roles[b][p] = IF b \in banks /\ p = owner THEN "owner" ELSE d.role[b][p]
  BY <1>1 DEF Table
<1>5. \A b \in Banks : status[b] = IF b \in banks THEN "active" ELSE d.status[b]
  OBVIOUS
<1> HIDE DEF n, roles, status
<1>6. \A b \in Banks : OwnersOf(n, b)
        = IF b \in banks THEN OwnersOf(d, b) \cup {owner} ELSE OwnersOf(d, b)
  BY <1>1, <1>3, <1>4 DEF OwnersOf, RoleOf
<1>7. Kept(n)
  BY <1>3, <1>5, <1>6 DEF Kept
<1> QED
  BY <1>3, <1>4, <1>5, <1>7 DEF n


-----------------------------------------------------------------------------
(* The steps.                                                              *)

\* A new host: no bank, no member, the legacy tokens.
LEMMA InitIInv == Init => IInv
<1> SUFFICES ASSUME Init PROVE IInv
  OBVIOUS
<1>1. table \in Table
  BY DEF Init, Table, Statuses, Levels
<1>2. Kept(table)
  BY DEF Init, Kept, OwnersOf, RoleOf
<1>3. tokens \in Registry
  <2>1. Unissued \in Token
    BY DEF Unissued, Token, Subjects
  <2>2. ASSUME NEW t \in Legacy
        PROVE  [Unissued EXCEPT !.live = TRUE, !.scope = ScopeOf[t]] \in Token
    BY AuthzAssumption DEF AuthzAssumption, Unissued, Token, Subjects
  <2> QED
    BY <2>1, <2>2 DEF Init, Registry
<1>4. view \in [Editors -> Table \cup {Nobody}] /\ ViewInv
  BY DEF Init, ViewInv
<1> QED
  BY <1>1, <1>2, <1>3, <1>4 DEF Init, IInv, MigrationInv, Rehearsal, ReportInv, Idle, NoReport

\* What a grown table is to the pages that were looked at before.
LEMMA GrownViews ==
  ASSUME IInv, Grows(table'),
         \A e \in Editors : view'[e] \in {view[e], Nobody}
  PROVE  ViewInv'
BY DEF IInv, ViewInv, Grows, Table

\* A write by somebody else ends what the migration and its report rely on.
LEMMA OthersKeep ==
  ASSUME Others, UNCHANGED migration
  PROVE  Rehearsal' /\ ReportInv' /\ disturbed' \in BOOLEAN
<1>1. report' = NoReport /\ disturbed' \in BOOLEAN
  BY DEF Others
<1>2. CASE migration = Idle
  <2>1. migration'.pc = "idle"
    BY <1>2 DEF Idle
  <2>2. Rehearsal'
    BY <2>1 DEF Rehearsal
  <2> QED
    BY <1>1, <2>2 DEF ReportInv
<1>3. CASE migration # Idle
  <2>1. disturbed'
    BY <1>3, Zenon DEF Others
  <2>2. Rehearsal'
    BY <2>1 DEF Rehearsal
  <2> QED
    BY <1>1, <2>2 DEF ReportInv
<1> QED
  BY <1>2, <1>3

\* A write of the table by somebody else than the migration.
LEMMA TableStep ==
  ASSUME IInv, NEW d, Grows(d), WriteTable(d),
         \/ UNCHANGED view
         \/ \E e \in Editors : view' = [view EXCEPT ![e] = Nobody]
  PROVE  IInv'
<1>1. /\ table' = d /\ Others
      /\ UNCHANGED <<tokens, migration>>
  BY DEF WriteTable
<1>2. /\ view' \in [Editors -> Table \cup {Nobody}]
      /\ \A e \in Editors : view'[e] \in {view[e], Nobody}
  BY DEF IInv
<1>3. ViewInv'
  BY <1>1, <1>2, GrownViews
<1>4. MigrationInv'
  BY <1>1 DEF IInv, MigrationInv
<1>5. Rehearsal' /\ ReportInv' /\ disturbed' \in BOOLEAN
  BY <1>1, OthersKeep
<1> QED
  BY <1>1, <1>2, <1>3, <1>4, <1>5 DEF IInv, Grows

\* A write of the registry by kb_token.
LEMMA TokenStep ==
  ASSUME IInv, NEW reg \in Registry, WriteTokens(reg)
  PROVE  IInv'
<1>1. /\ tokens' = reg /\ Others
      /\ UNCHANGED <<table, view, migration>>
  BY DEF WriteTokens
<1>2. tokens' \in Registry
  BY <1>1
<1>3. MigrationInv' /\ ViewInv'
  BY <1>1 DEF IInv, MigrationInv, ViewInv
<1>4. Rehearsal' /\ ReportInv' /\ disturbed' \in BOOLEAN
  BY <1>1, OthersKeep
<1> QED
  BY <1>1, <1>2, <1>3, <1>4 DEF IInv

\* set_member and remove_member, on whatever table they find.
LEMMA MayGrow ==
  ASSUME IInv, NEW a, NEW b \in Banks, NEW p \in Principals,
         NEW r \in Levels, MaySet(table, a, b, p, r)
  PROVE  Grows(WithRole(table, b, p, r))
<1>1. r = "owner" => p \in table.persons
  BY DEF MaySet, Known
<1>2. r # "owner" => OwnersOf(table, b) # {p}
  BY DEF MaySet, MayLoseOwner
<1>3. table \in Table /\ Kept(table)
  BY DEF IInv
<1>4. /\ WithRole(table, b, p, r) \in Table
      /\ Kept(WithRole(table, b, p, r))
      /\ WithRole(table, b, p, r).version = table.version + 1
  BY <1>1, <1>2, <1>3, RoleWritten
<1> QED
  BY <1>3, <1>4 DEF Grows, Table

\* The writes of the command line.
LEMMA CommandStep ==
  ASSUME IInv,
         \/ \E p \in Persons : Enroll(p) \/ \E on \in BOOLEAN : SetAdmin(p, on)
         \/ \E b \in Banks :
              \/ ArchiveBank(b)
              \/ \E o \in Persons, ss \in SUBSET Services : CreateBank(b, o, ss)
              \/ \E p \in Principals, r \in Levels, a \in Persons \cup {Ops} :
                   SetMember(a, b, p, r)
  PROVE  IInv'
<1>1. table \in Table /\ Kept(table) /\ table.version \in Nat
  BY DEF IInv, Table
<1>2. ASSUME NEW p \in Persons, Enroll(p) PROVE IInv'
  <2>1. /\ WithPersons(table, {p}) \in Table /\ Kept(WithPersons(table, {p}))
        /\ WithPersons(table, {p}).version = table.version + Cardinality({p})
    BY <1>1, PersonsAdded
  <2>2. Cardinality({p}) = 1
    BY OneIsOne
  <2>3. Grows(WithPersons(table, {p}))
    BY <1>1, <2>1, <2>2 DEF Grows
  <2> QED
    BY <1>2, <2>3, TableStep DEF Enroll
<1>3. ASSUME NEW p \in Persons, NEW on \in BOOLEAN, SetAdmin(p, on) PROVE IInv'
  <2> DEFINE admins == IF on THEN table.admins \cup {p} ELSE table.admins \ {p}
             d == [table EXCEPT !.version = @ + 1,
                     !.admins = IF on THEN @ \cup {p} ELSE @ \ {p}]
             m == [table EXCEPT !.version = table.version + 1]
  <2>1. m \in Table /\ Same(m, table, table.version + 1, table.persons, table.status, table.role)
    <3>1. table.version + 1 \in Nat
      BY <1>1
    <3> QED
      BY <1>1, <3>1, SetVersion
  <2>2. d = [m EXCEPT !.admins = admins]
    BY <1>1 DEF Table
  <2>3. admins \in SUBSET Persons
    BY <1>1 DEF Table
  <2> HIDE DEF m, admins, d
  <2>4. d = [version |-> m.version, admins |-> admins, persons |-> m.persons,
             status |-> m.status, role |-> m.role]
    BY <2>1, <2>2 DEF Table
  <2>5. /\ d \in Table /\ d.version = table.version + 1 /\ d.role = table.role
        /\ d.persons = table.persons /\ d.status = table.status
    BY <2>1, <2>3, <2>4 DEF Table, Same
  <2>6. Kept(d)
    BY <1>1, <2>5 DEF Kept, OwnersOf, RoleOf
  <2>7. Grows(d)
    BY <1>1, <2>5, <2>6 DEF Grows
  <2>8. WriteTable(d) /\ UNCHANGED view
    BY <1>3 DEF SetAdmin, d
  <2> QED
    BY <2>7, <2>8, TableStep
<1>4. ASSUME NEW b \in Banks, ArchiveBank(b) PROVE IInv'
  <2> DEFINE status == [table.status EXCEPT ![b] = "archived"]
             d == [table EXCEPT !.version = @ + 1, !.status[b] = "archived"]
             m == [table EXCEPT !.version = table.version + 1]
  <2>1. m \in Table /\ Same(m, table, table.version + 1, table.persons, table.status, table.role)
    <3>1. table.version + 1 \in Nat
      BY <1>1
    <3> QED
      BY <1>1, <3>1, SetVersion
  <2>2. d = [m EXCEPT !.status = status]
    BY <1>1 DEF Table
  <2>3. status \in [Banks -> Statuses]
    BY <1>1 DEF Table, Statuses
  <2>4. \A c \in Banks : status[c] # "none" => c = b \/ table.status[c] # "none"
    BY <1>1 DEF Table
  <2> HIDE DEF m, status, d
  <2>5. d \in Table /\ Same(d, m, m.version, m.persons, status, m.role)
    BY <2>1, <2>2, <2>3, SetStatus
  <2>6. table.status[b] = "active"
    BY <1>4 DEF ArchiveBank, IsActive
  <2>7. Kept(d)
    BY <1>1, <2>1, <2>4, <2>5, <2>6 DEF Kept, OwnersOf, RoleOf, Same
  <2>8. Grows(d)
    BY <1>1, <2>1, <2>5, <2>7 DEF Grows, Same
  <2>9. WriteTable(d) /\ UNCHANGED view
    BY <1>4 DEF ArchiveBank, d
  <2> QED
    BY <2>8, <2>9, TableStep
<1>5. ASSUME NEW b \in Banks, NEW o \in Persons, NEW ss \in SUBSET Services,
             CreateBank(b, o, ss)
      PROVE  IInv'
  <2> DEFINE n == WithBanks(table, {b}, o)
  <2>1. o \in table.persons
    BY <1>5 DEF CreateBank
  <2>2. /\ n \in Table /\ Kept(n) /\ n.version = table.version + Cardinality({b})
        /\ n.persons = table.persons
    <3>1. {b} \in SUBSET Banks /\ table \in Table /\ Kept(table)
      BY <1>1
    <3>2. /\ WithBanks(table, {b}, o) \in Table
          /\ Kept(WithBanks(table, {b}, o))
          /\ WithBanks(table, {b}, o).version = table.version + Cardinality({b})
          /\ WithBanks(table, {b}, o).persons = table.persons
      BY <2>1, <3>1, BanksAdded
    <3> QED
      BY <3>2
  <2> HIDE DEF n
  <2>3. {b} \X ss \in SUBSET (Banks \X Subjects)
    BY Disjoint DEF Subjects
  <2>4. \A c \in Banks, p \in Principals :
          <<c, p>> \in {b} \X ss => n.role[c][p] # "owner"
    <3> SUFFICES ASSUME NEW c \in Banks, NEW p \in Services, n.role[c][p] = "owner"
                 PROVE  FALSE
      OBVIOUS
    <3>1. p \in OwnersOf(n, c)
      BY Disjoint DEF OwnersOf, RoleOf
    <3>2. p \in Persons
      BY <2>2, <3>1 DEF Kept, Table
    <3> QED
      BY <3>2, Disjoint
  <2> DEFINE pairs == {b} \X ss
  <2>5. Cardinality({b}) = 1
    BY OneIsOne
  <2>6. /\ WithReaders(n, pairs) \in Table /\ Kept(WithReaders(n, pairs))
        /\ WithReaders(n, pairs).version >= n.version
    <3> HIDE DEF pairs
    <3> QED
      BY <2>2, <2>3, <2>4, ReadersAdded DEF pairs
  <2>7. n.version \in Nat /\ WithReaders(n, pairs).version \in Nat
    BY <2>2, <2>6 DEF Table
  <2>8. Grows(WithReaders(n, pairs))
    BY <1>1, <2>2, <2>5, <2>6, <2>7 DEF Grows
  <2>9. WriteTable(WithReaders(n, pairs)) /\ UNCHANGED view
    BY <1>5 DEF CreateBank, n
  <2> HIDE DEF pairs
  <2> QED
    BY <2>8, <2>9, TableStep
<1>6. ASSUME NEW b \in Banks, NEW p \in Principals, NEW r \in Levels,
             NEW a \in Persons \cup {Ops}, SetMember(a, b, p, r)
      PROVE  IInv'
  BY <1>6, MayGrow, TableStep DEF SetMember
<1> QED
  BY <1>2, <1>3, <1>4, <1>5, <1>6


\* The members page: looked at, written on, refused.
LEMMA PageStep ==
  ASSUME IInv, NEW e \in Editors,
         \/ MembersView(e) \/ MembersRefused(e)
         \/ \E b \in Banks, p \in Principals, r \in Levels : MembersWrite(e, b, p, r)
  PROVE  IInv'
<1>1. ASSUME NEW b \in Banks, NEW p \in Principals, NEW r \in Levels,
             MembersWrite(e, b, p, r)
      PROVE  IInv'
  BY <1>1, MayGrow, TableStep DEF MembersWrite
<1>2. CASE MembersView(e) \/ MembersRefused(e)
  <2>1. UNCHANGED <<table, tokens, migration, report, disturbed>>
    BY <1>2 DEF MembersView, MembersRefused
  <2>2. view' = [view EXCEPT ![e] = table] \/ view' = [view EXCEPT ![e] = Nobody]
    BY <1>2 DEF MembersView, MembersRefused
  <2>3. view' \in [Editors -> Table \cup {Nobody}]
    BY <2>2 DEF IInv
  <2>4. ViewInv'
    <3>1. \A f \in Editors : view'[f] \in {view[f], table, Nobody}
      BY <2>2 DEF IInv
    <3> QED
      BY <2>1, <3>1 DEF IInv, ViewInv, Table
  <2> QED
    BY <2>1, <2>3, <2>4 DEF IInv, MigrationInv, Rehearsal, ReportInv
<1> QED
  BY <1>1, <1>2

\* The writes of kb_token.
LEMMA RegistryStep ==
  ASSUME IInv,
         \E t \in Tokens :
           \/ RevokeToken(t)
           \/ \E p \in Principals \cup {"shared"}, scope \in SUBSET Banks, marker \in BOOLEAN :
                IssueToken(t, p, scope, marker) \/ RotateToken(t, p, scope, marker)
  PROVE  IInv'
<1>1. \A u \in Tokens : tokens[u] \in Token /\ [tokens[u] EXCEPT !.live = FALSE] \in Token
  BY DEF IInv, Registry, Token
<1>2. ASSUME NEW t \in Tokens, RevokeToken(t) PROVE IInv'
  <2>1. [tokens EXCEPT ![t].live = FALSE] \in Registry
    BY <1>1 DEF IInv, Registry
  <2> QED
    BY <1>2, <2>1, TokenStep DEF RevokeToken
<1>3. ASSUME NEW t \in Tokens, NEW p \in Principals \cup {"shared"},
             NEW scope \in SUBSET Banks, NEW marker \in BOOLEAN, NEW prior,
             Mint(t, p, scope, marker, prior)
      PROVE  IInv'
  <2> DEFINE new == [principal |-> p, marker |-> marker, live |-> TRUE, scope |-> scope]
             reg == [u \in Tokens |-> IF u = t THEN new
                                      ELSE IF u \in prior
                                      THEN [tokens[u] EXCEPT !.live = FALSE] ELSE tokens[u]]
  <2>1. new \in Token
    BY Disjoint DEF Token, Subjects
  <2> HIDE DEF new
  <2>2. reg \in Registry
    BY <1>1, <2>1 DEF Registry
  <2>3. WriteTokens(reg)
    BY <1>3 DEF Mint, new
  <2> QED
    BY <2>2, <2>3, TokenStep
<1> QED
  BY <1>2, <1>3 DEF IssueToken, RotateToken

-----------------------------------------------------------------------------
(* The migration.                                                          *)

\* Whose a token is, is recorded, or proved by one of the given keys.
LEMMA AttributedType ==
  ASSUME NEW m, m.keys \subseteq Persons, m.services \subseteq Services,
         m.registry \in Registry, NEW t \in Tokens
  PROVE  Attributed(m, t) \in Subjects
BY Disjoint DEF Attributed, Registry, Token, Subjects

\* The plan of a migration is made of what the migration has looked up.
LEMMA PlanType ==
  ASSUME NEW m, m.keys \subseteq Persons, m.owner \in m.keys,
         m.services \subseteq Services, m.registry \in Registry, NEW d
  PROVE  Planned(Plan(m, d))
<1> DEFINE mine  == OfSomebody(m.registry)
           pairs == UNION {m.registry[t].scope \X {Attributed(m, t)} : t \in mine}
           binds == [t \in {u \in mine : m.registry[u].principal = Nobody} |->
                       Attributed(m, t)]
           banks == {b \in Banks : \E t \in Live(m.registry) :
                       b \in m.registry[t].scope} \ {b \in Banks : d.status[b] # "none"}
<1>1. mine \subseteq Tokens
  BY DEF OfSomebody, Live
<1>2. pairs \subseteq Banks \X Subjects
  <2> SUFFICES ASSUME NEW x \in pairs PROVE x \in Banks \X Subjects
    OBVIOUS
  <2>1. PICK t \in mine : x \in m.registry[t].scope \X {Attributed(m, t)}
    OBVIOUS
  <2>2. m.registry[t].scope \subseteq Banks /\ Attributed(m, t) \in Subjects
    BY <1>1, AttributedType DEF Registry, Token
  <2> QED
    BY <2>1, <2>2
<1>3. \A t \in DOMAIN binds : binds[t] \in Subjects
  BY <1>1, AttributedType
<1>4. banks \subseteq Banks
  OBVIOUS
<1>5. /\ Plan(m, d).keys = m.keys /\ Plan(m, d).owner = m.owner
      /\ Plan(m, d).banks = banks /\ Plan(m, d).grants = pairs
      /\ Plan(m, d).bindings = binds
  BY DEF Plan
<1> HIDE DEF mine, pairs, binds, banks
<1> QED
  BY <1>2, <1>3, <1>4, <1>5 DEF Planned

\* Applying a plan is a write like any other.
LEMMA AppliedGrows ==
  ASSUME IInv, NEW plan, Planned(plan)
  PROVE  Grows(Applied(table, plan))
<1> DEFINE p == WithPersons(table, plan.keys)
           banks == {b \in plan.banks : table.status[b] = "none"}
           n == WithBanks(p, banks, plan.owner)
           pairs == Missing(n, plan)
<1>1. table \in Table /\ Kept(table) /\ table.version \in Nat
  BY DEF IInv, Table
<1>2. /\ p \in Table /\ Kept(p) /\ p.version = table.version + Cardinality(plan.keys)
      /\ p.persons = table.persons \cup plan.keys
  BY <1>1, PersonsAdded DEF Planned
<1>3. Cardinality(plan.keys) \in Nat /\ Cardinality(plan.keys) # 0
  BY Disjoint, FinitePrincipals, FS_EmptySet DEF Planned
<1>4. banks \in SUBSET Banks /\ plan.owner \in p.persons
  BY <1>2 DEF Planned
<1>5. Cardinality(banks) \in Nat
  BY <1>4, FinitePrincipals
<1>6. n \in Table /\ Kept(n) /\ n.version = p.version + Cardinality(banks)
  <2> DEFINE owner == plan.owner
  <2>1. owner \in p.persons /\ n = WithBanks(p, banks, owner)
    BY <1>4
  <2> HIDE DEF p, banks, n, owner
  <2>2. /\ WithBanks(p, banks, owner) \in Table /\ Kept(WithBanks(p, banks, owner))
        /\ WithBanks(p, banks, owner).version = p.version + Cardinality(banks)
    BY <1>2, <1>4, <2>1, BanksAdded
  <2> QED
    BY <2>1, <2>2
<1>7. pairs \in SUBSET (Banks \X Subjects)
  BY DEF Missing, Planned
<1>8. \A b \in Banks, q \in Principals : <<b, q>> \in pairs => n.role[b][q] # "owner"
  <2> HIDE DEF n
  <2> QED
    BY DEF Missing, RoleOf
<1>9. Applied(table, plan) = WithReaders(n, pairs)
  BY DEF Applied
<1> HIDE DEF p, banks, n, pairs
<1>10. /\ WithReaders(n, pairs) \in Table /\ Kept(WithReaders(n, pairs))
       /\ WithReaders(n, pairs).version >= n.version
  BY <1>6, <1>7, <1>8, ReadersAdded
<1>11. n.version \in Nat /\ WithReaders(n, pairs).version \in Nat
  BY <1>6, <1>10 DEF Table
<1> QED
  BY <1>1, <1>2, <1>3, <1>5, <1>6, <1>9, <1>10, <1>11 DEF Grows

\* The registry with the services of a plan bound is a registry.
LEMMA BoundType ==
  ASSUME NEW reg \in Registry, NEW plan, Planned(plan)
  PROVE  Bound(reg, plan) \in Registry
<1>1. ASSUME NEW t \in Tokens, t \in DOMAIN plan.bindings
      PROVE  [reg[t] EXCEPT !.principal = plan.bindings[t]] \in Token
  BY <1>1 DEF Registry, Token, Planned
<1>2. \A t \in Tokens : reg[t] \in Token
  BY DEF Registry
<1> QED
  BY <1>1, <1>2 DEF Bound, Registry

\* The equivalence after a step is that of the files and the plan after it.
LEMMA EquivalentAfter ==
  Equivalent(Bound(tokens, migration.plan), table)'
    <=> Equivalent(Bound(tokens', migration'.plan), table')
BY DEF Equivalent, Bound, ScopeOk, GrantsOk, IsActive, RoleOf

\* A step of the migration, one for each of its writes and reads.
LEMMA MigrateStep ==
  ASSUME IInv, Migrate
  PROVE  IInv'
<1>1. ASSUME NEW keys \in SUBSET Persons, NEW owner \in Persons,
             NEW services \in SUBSET Services, MigrateLoad(keys, owner, services)
      PROVE  IInv'
  <2>1. /\ migration'.pc = "plan" /\ migration'.registry = tokens
        /\ migration'.keys = keys /\ migration'.owner = owner
        /\ migration'.services = services /\ owner \in keys
        /\ report' = NoReport /\ disturbed' = FALSE
        /\ UNCHANGED <<table, tokens, view>>
    BY <1>1 DEF MigrateLoad
  <2> QED
    BY <2>1 DEF IInv, MigrationInv, Rehearsal, ReportInv, ViewInv
<1>2. ASSUME migration' = Idle, UNCHANGED <<table, view, disturbed, tokens, report>>,
             migration # Idle
      PROVE  IInv'
  <2>1. migration'.pc = "idle"
    BY <1>2 DEF Idle
  <2>2. report = NoReport
    BY <1>2 DEF IInv, ReportInv
  <2> QED
    BY <1>2, <2>1, <2>2 DEF IInv, MigrationInv, Rehearsal, ReportInv, ViewInv
<1>3. CASE MigrateDies
  BY <1>2, <1>3 DEF MigrateDies
<1>4. migration.pc # "idle" => migration # Idle
  BY DEF Idle
<1>5. CASE MigratePlan
  <2>1. migration.pc = "plan" /\ migration # Idle
    BY <1>4, <1>5 DEF MigratePlan
  <2>2. CASE ~Rehearsed(migration, table)
    BY <1>2, <1>5, <2>1, <2>2 DEF MigratePlan
  <2>3. CASE Rehearsed(migration, table)
    <3> DEFINE plan == Plan(migration, table)
    <3>1. migration' = [pc |-> "apply", plan |-> plan]
      BY <1>5, <2>3 DEF MigratePlan
    <3>2. Planned(plan)
      BY <2>1, PlanType DEF IInv, MigrationInv
    <3>3. /\ Applicable(table, plan)
          /\ Equivalent(Bound(migration.registry, plan), Applied(table, plan))
      BY <2>3 DEF Rehearsed
    <3>4. UNCHANGED <<table, tokens, view, report, disturbed>>
      BY <1>5 DEF MigratePlan
    <3>5. ~disturbed => migration.registry = tokens
      BY <2>1 DEF IInv, Rehearsal
    <3>6. report = NoReport
      BY <2>1 DEF IInv, ReportInv
    <3> HIDE DEF plan
    <3>7. migration'.pc = "apply" /\ migration'.plan = plan
      BY <3>1
    <3>8. Rehearsal'
      <4> SUFFICES ASSUME ~disturbed
                   PROVE  /\ Applicable(table, plan)
                          /\ Equivalent(Bound(tokens, plan), Applied(table, plan))
        BY <3>4, <3>7 DEF Rehearsal, Applicable, Missing, Applied, Equivalent, Bound
      <4> QED
        BY <3>3, <3>5
    <3>9. MigrationInv'
      BY <3>2, <3>7 DEF MigrationInv
    <3> QED
      BY <3>4, <3>6, <3>8, <3>9 DEF IInv, ReportInv, ViewInv
  <2> QED
    BY <2>2, <2>3
<1>6. CASE MigrateApply
  <2> DEFINE plan == migration.plan
  <2>1. /\ migration.pc = "apply" /\ migration # Idle
        /\ UNCHANGED <<tokens, view, report, disturbed>>
    BY <1>4, <1>6 DEF MigrateApply
  <2>2. CASE ~Applicable(table, plan)
    BY <1>2, <1>6, <2>1, <2>2 DEF MigrateApply
  <2>3. CASE Applicable(table, plan)
    <3>1. /\ table' = Applied(table, plan)
          /\ migration' = [pc |-> "reload", plan |-> plan, table |-> table']
      BY <1>6, <2>3 DEF MigrateApply
    <3>2. Planned(plan)
      BY <2>1 DEF IInv, MigrationInv
    <3>3. ~disturbed => Equivalent(Bound(tokens, plan), Applied(table, plan))
      BY <2>1 DEF IInv, Rehearsal
    <3> HIDE DEF plan
    <3>4. Grows(table')
      BY <3>1, <3>2, AppliedGrows
    <3>5. ViewInv'
      BY <2>1, <3>4, GrownViews
    <3>6. /\ migration'.pc = "reload" /\ migration'.plan = plan
          /\ migration'.table = table'
      BY <3>1
    <3>7. MigrationInv'
      BY <3>2, <3>6 DEF MigrationInv
    <3>8. Rehearsal'
      <4> SUFFICES ASSUME ~disturbed PROVE Equivalent(Bound(tokens, plan), table')
        BY <2>1, <3>6, EquivalentAfter DEF Rehearsal
      <4> QED
        BY <3>1, <3>3
    <3>9. report = NoReport
      BY <2>1 DEF IInv, ReportInv
    <3> QED
      BY <2>1, <3>4, <3>5, <3>7, <3>8, <3>9 DEF IInv, ReportInv, Grows
  <2> QED
    BY <2>2, <2>3
<1>7. CASE MigrateReload
  <2>1. /\ migration.pc = "reload" /\ migration # Idle
        /\ migration'.pc = "save" /\ migration'.plan = migration.plan
        /\ migration'.table = migration.table /\ migration'.registry = tokens
        /\ UNCHANGED <<table, tokens, view, report, disturbed>>
    BY <1>4, <1>7 DEF MigrateReload
  <2>2. report = NoReport
    BY <2>1 DEF IInv, ReportInv
  <2>3. MigrationInv'
    BY <2>1 DEF IInv, MigrationInv
  <2>4. Rehearsal'
    <3> SUFFICES ASSUME ~disturbed
                 PROVE  /\ migration'.table = table'
                        /\ Equivalent(Bound(tokens', migration'.plan), table')
                        /\ migration'.registry = tokens'
      BY <2>1, EquivalentAfter DEF Rehearsal
    <3> QED
      BY <2>1 DEF IInv, Rehearsal
  <2> QED
    BY <2>1, <2>2, <2>3, <2>4 DEF IInv, ReportInv, ViewInv
<1>8. CASE MigrateSave
  <2> DEFINE plan == migration.plan
             bound == Bound(migration.registry, plan)
  <2>1. /\ migration.pc = "save" /\ migration' = Idle
        /\ tokens' = (IF bound = migration.registry THEN tokens ELSE bound)
        /\ report' = (IF Equivalent(bound, migration.table) THEN "ok" ELSE "not_ok")
        /\ UNCHANGED <<table, view, disturbed>>
    BY <1>8 DEF MigrateSave
  <2>2. bound \in Registry
    BY <2>1, BoundType DEF IInv, MigrationInv
  <2>3. ~disturbed => /\ migration.registry = tokens /\ migration.table = table
                      /\ Equivalent(Bound(tokens, plan), table)
    BY <2>1 DEF IInv, Rehearsal
  <2>4. migration'.pc = "idle"
    BY <2>1 DEF Idle
  <2>5. MigrationInv' /\ Rehearsal'
    BY <2>1, <2>4 DEF MigrationInv, Rehearsal
  <2>6. ASSUME ~disturbed PROVE report' = "ok" /\ tokens' = bound /\ Equivalent(bound, table)
    BY <2>1, <2>3, <2>6
  <2> HIDE DEF plan, bound
  <2>7. ReportInv'
    <3>1. ASSUME ~disturbed PROVE Equivalent(tokens', table')
      BY <2>1, <2>6, <3>1
    <3> QED
      BY <2>1, <2>6, <3>1 DEF ReportInv, Equivalent, ScopeOk, GrantsOk, IsActive, RoleOf
  <2>8. tokens' \in Registry
    BY <2>1, <2>2 DEF IInv
  <2> QED
    BY <2>1, <2>5, <2>7, <2>8 DEF IInv, ViewInv
<1> QED
  BY <1>1, <1>3, <1>5, <1>6, <1>7, <1>8 DEF Migrate

-----------------------------------------------------------------------------
(* The theorems.                                                           *)

\* Every step keeps the invariant.
LEMMA InvariantStep == IInv /\ [Next]_vars => IInv'
<1> SUFFICES ASSUME IInv, [Next]_vars PROVE IInv'
  OBVIOUS
<1>1. CASE UNCHANGED vars
  BY <1>1 DEF vars, IInv, MigrationInv, ViewInv, Rehearsal, ReportInv
<1>2. ASSUME \/ \E p \in Persons : Enroll(p) \/ \E on \in BOOLEAN : SetAdmin(p, on)
             \/ \E b \in Banks :
                  \/ ArchiveBank(b)
                  \/ \E o \in Persons, ss \in SUBSET Services : CreateBank(b, o, ss)
                  \/ \E p \in Principals, r \in Levels, a \in Persons \cup {Ops} :
                       SetMember(a, b, p, r)
      PROVE  IInv'
  BY <1>2, CommandStep
<1>3. ASSUME NEW e \in Editors,
             \/ MembersView(e) \/ MembersRefused(e)
             \/ \E b \in Banks, p \in Principals, r \in Levels : MembersWrite(e, b, p, r)
      PROVE  IInv'
  BY <1>3, PageStep
<1> QED
  BY <1>1, <1>2, <1>3, RegistryStep, MigrateStep DEF Next, Levels

\* The inductive invariant: an owned table, pages that are the table or behind
\* it, and a migration whose rehearsal still holds unless it was disturbed.
THEOREM Invariant == Spec => []IInv
BY InitIInv, InvariantStep, PTL DEF Spec

\* No write, page or migration leaves a library without an enrolled owner
\* (set_member, remove_member, create_bank, migrate).
THEOREM EveryBankIsOwned == Spec => []BankIsOwned
<1>1. IInv => BankIsOwned
  BY DEF IInv, Kept, BankIsOwned
<1> QED
  BY <1>1, Invariant, PTL

\* A migration nobody disturbed ends equivalent, whatever earlier migrations
\* that died have left (migrate, equivalence_report).
THEOREM MigrationsAreFaithful == Spec => []MigrationIsFaithful
<1>1. IInv => MigrationIsFaithful
  BY DEF IInv, ReportInv, MigrationIsFaithful
<1> QED
  BY <1>1, Invariant, PTL


\* An edit made on a page lands on the table of that page, entry for entry
\* (mutate with expected_version).
THEOREM NoEditIsBlind == Spec => NoBlindEdit
<1> DEFINE Blind(e) == /\ view[e] # Nobody /\ view'[e] = Nobody
                       /\ table' # table /\ view[e] # table
<1>1. ASSUME IInv, [Next]_vars, NEW e \in Editors PROVE ~Blind(e)
  <2> SUFFICES ASSUME view[e] # Nobody, view'[e] = Nobody, table' # table
               PROVE  view[e] = table
    OBVIOUS
  <2>1. ASSUME NEW f \in Editors, NEW b \in Banks, NEW p \in Principals,
               NEW r \in Levels, MembersWrite(f, b, p, r)
        PROVE  view[e] = table
    <3>1. view' = [view EXCEPT ![f] = Nobody] /\ Expected(f)
      BY <2>1 DEF MembersWrite
    <3>2. e = f
      BY <1>1, <3>1 DEF IInv
    <3>3. view[e].version = table.version
      BY <3>1, <3>2 DEF Expected
    <3> QED
      BY <1>1, <3>3 DEF IInv, ViewInv
  <2>2. CASE UNCHANGED view \/ UNCHANGED table
    BY <2>2
  <2>3. CASE UNCHANGED vars \/ Migrate
    BY <2>2, <2>3 DEF vars, Migrate, MigrateLoad, MigratePlan, MigrateApply,
       MigrateReload, MigrateSave, MigrateDies
  <2>4. CASE \/ \E p \in Persons : Enroll(p) \/ \E on \in BOOLEAN : SetAdmin(p, on)
             \/ \E b \in Banks :
                  \/ ArchiveBank(b)
                  \/ \E o \in Persons, ss \in SUBSET Services : CreateBank(b, o, ss)
                  \/ \E p \in Principals, r \in Levels, a \in Persons \cup {Ops} :
                       SetMember(a, b, p, r)
    BY <2>2, <2>4 DEF Enroll, SetAdmin, ArchiveBank, CreateBank, SetMember
  <2>5. CASE \E f \in Editors : MembersView(f) \/ MembersRefused(f)
    BY <2>2, <2>5 DEF MembersView, MembersRefused
  <2>6. CASE \E t \in Tokens :
               \/ RevokeToken(t)
               \/ \E p \in Principals \cup {"shared"}, scope \in SUBSET Banks, marker \in BOOLEAN :
                    IssueToken(t, p, scope, marker) \/ RotateToken(t, p, scope, marker)
    BY <2>2, <2>6 DEF RevokeToken, IssueToken, RotateToken, Mint, WriteTokens
  <2> QED
    BY <1>1, <2>1, <2>3, <2>4, <2>5, <2>6 DEF Next, Levels
<1>2. IInv /\ [Next]_vars
        => [\A e \in Editors :
              view[e] # Nobody /\ view'[e] = Nobody /\ table' # table
                => view[e] = table]_vars
  BY <1>1
<1> QED
  BY <1>2, Invariant, PTL DEF Spec, NoBlindEdit
=============================================================================
