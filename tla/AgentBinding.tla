---------------------------- MODULE AgentBinding ----------------------------
(***************************************************************************)
(* The agent bindings of scripts/cwk_agent_binding.py: bind, revoke,       *)
(* suspend, reactivate, rebind, and the rotation of the secret that hashes *)
(* agent ids.  A record file is named by the hash of an agent id under one *)
(* secret: the key <<agent, secret epoch>>.                                *)
(*                                                                         *)
(* pointer.json and the material files are written without a lock.  A call *)
(* looks at the pointer several times: whether a rotation is on (once, at  *)
(* its start), then for the hash.                                          *)
(*                                                                         *)
(* A request carries the AgentContext (cwk_agent_context.py) it resolved.  *)
(* It is believed as long as its auth_epoch is its tenant's: that is how a *)
(* revoked binding reaches it.                                             *)
(***************************************************************************)
EXTENDS EpochCommit

CONSTANTS
  Agents,
  Requests,   \* requests that resolve an agent
  MaxSecret   \* bound on secret epochs

BindingKeys == Agents \X (1..MaxSecret)

VARIABLES
  pointer,     \* pointer.json: [state, current, secondary], 0 for none
  material,    \* epochs whose material file exists
  tombstones,  \* binding tombstones: keys
  ctx          \* each request: its resolve(), then its context

secretVars  == <<pointer, material, tombstones>>
bindingVars == <<commitVars, secretVars, ctx>>

BindingStates  == {"active", "suspended", "revoked"}
PurposeStatus  == {"profile_pending", "pilot", "active"}
BindableStatus == {"draft", "profile_pending", "pilot", "active"}

Binding == [tenant : Tenants, epoch : Nat \ {0}, status : BindingStates,
            action : {"bind", "revoke", "suspend", "reactivate",
                      "rebind_out", "rebind_in"}, txn : Txns]

ASSUME BindingAssumption ==
  /\ MaxSecret \in Nat \ {0}
  /\ BindingKeys \subseteq Keys
  /\ Absent \notin Binding

\* The status an action asks for, and those it may start from.
NewStatus(name) ==
  CASE name \in {"revoke", "rebind_out"} -> "revoked"
    [] name = "suspend"                  -> "suspended"
    [] OTHER                             -> "active"

RequireFrom(name) ==
  CASE name \in {"revoke", "rebind_out"} -> {"active", "suspended"}
    [] name = "suspend"                  -> {"active"}
    [] OTHER                             -> {"suspended"}

Stable == pointer.state = "stable"

NoContext == [pc |-> "none"]

BindingInit ==
  /\ CommitInit
  /\ pointer = [state |-> "stable", current |-> 1, secondary |-> 0]
  /\ material = {1}
  /\ tombstones = {}
  /\ ctx = [r \in Requests |-> NoContext]

-----------------------------------------------------------------------------
(* The calls on one agent.                                                 *)

\* The call and its only look at the rotation state.
BindingOps ==
  [name : {"bind", "rebind_out"}, agent : Agents, tenant : Tenants]
    \cup [name : {"revoke", "suspend", "reactivate"}, agent : Agents]

StartBinding(c, op) ==
  /\ work[c] = NoJob
  /\ nextTxn <= MaxTxns
  /\ Stable
  /\ op.name = "bind" => tenantStatus[op.tenant] \in BindableStatus
  /\ work' = [work EXCEPT ![c] = [pc |-> "checked", op |-> op, key |-> Absent]]
  /\ UNCHANGED <<tenantVars, fileVars, boundVars, cut, secretVars>>

CurrentKey(a) == <<a, pointer.current>>

\* The record a change is for: under the current secret, else the secondary.
Lookup(a) ==
  IF store[CurrentKey(a)] = Absent /\ pointer.state = "dual_write"
  THEN <<a, pointer.secondary>> ELSE CurrentKey(a)

Bound(op, prior) ==
  [tenant |-> op.tenant,
   epoch |-> IF prior = Absent THEN 1 ELSE prior.epoch + 1,
   status |-> "active", action |-> "bind", txn |-> nextTxn]

Held(k) == StatusAt(k) \in {"active", "suspended"}

Bind(c) ==
  LET op == work[c].op
      k  == CurrentKey(op.agent)
  IN  /\ At(c, "checked") /\ op.name = "bind"
      /\ ~Held(k) /\ ~Held(Lookup(op.agent))
      /\ Prepare(c, Job(op, k, store[k], Bound(op, store[k]), op.tenant))
      /\ UNCHANGED <<tenantVars, store, receipts, crashes, cut, secretVars>>

\* Mutant: rebind bumps the tenant the agent goes to, not the one it leaves.
MutateStatusBumpsNew(c) ==
  LET op  == work[c].op
      k   == Lookup(op.agent)
      rec == store[k]
  IN  /\ At(c, "checked") /\ op.name # "bind"
      /\ StatusAt(k) \in RequireFrom(op.name)
      /\ Prepare(c, Job(op, k, rec,
           [rec EXCEPT !.status = NewStatus(op.name), !.epoch = @ + 1,
                       !.action = op.name, !.txn = nextTxn],
           IF op.name = "rebind_out" THEN op.tenant ELSE rec.tenant))
      /\ UNCHANGED <<tenantVars, store, receipts, crashes, cut, secretVars>>

MutateStatus(c) ==
  LET op  == work[c].op
      k   == Lookup(op.agent)
      rec == store[k]
  IN  /\ At(c, "checked") /\ op.name # "bind"
      /\ StatusAt(k) \in RequireFrom(op.name)
      /\ Prepare(c, Job(op, k, rec,
           [rec EXCEPT !.status = NewStatus(op.name), !.epoch = @ + 1,
                       !.action = op.name, !.txn = nextTxn], rec.tenant))
      /\ UNCHANGED <<tenantVars, store, receipts, crashes, cut, secretVars>>

\* The agent is bound, unbound, or in another status than the call needs.
BindingRefused(c) ==
  LET op == work[c].op
      k  == Lookup(op.agent)
  IN  /\ At(c, "checked")
      /\ IF op.name = "bind"
         THEN Held(CurrentKey(op.agent)) \/ Held(k)
         ELSE StatusAt(k) \notin RequireFrom(op.name)
      /\ Return(c)
      /\ UNCHANGED <<tenantVars, fileVars, boundVars, cut, secretVars>>

\* After rebind_out, bind at the new tenant, with its own checks.
RebindIn(c) ==
  /\ Committed(c)
  /\ work[c].op.name = "rebind_out"
  /\ IF Stable /\ tenantStatus[work[c].op.tenant] \in BindableStatus
     THEN work' = [work EXCEPT ![c] =
            [pc |-> "checked", key |-> Absent,
             op |-> [name |-> "bind", agent |-> work[c].op.agent,
                     tenant |-> work[c].op.tenant, rebind |-> TRUE]]]
     ELSE Return(c)
  /\ UNCHANGED secretVars

\* After its bind: read the record again, to relabel its last history entry.
ReadToRelabel(c) ==
  /\ Committed(c)
  /\ work[c].op.name = "bind" /\ "rebind" \in DOMAIN work[c].op
  /\ IF store[work[c].key] = Absent
     THEN Return(c)
     ELSE work' = [work EXCEPT ![c].pc = "relabel",
                               ![c].prior = store[work[c].key]]
  /\ UNCHANGED secretVars

Relabel(c) ==
  LET k == work[c].key
  IN  /\ At(c, "relabel")
      /\ store' = IF store[k] = work[c].prior
                  THEN [store EXCEPT ![k].action = "rebind_in"] ELSE store
      /\ Return(c)
      /\ UNCHANGED <<tenantVars, receipts, boundVars, cut, secretVars>>

BindingReturns(c) ==
  /\ Committed(c)
  /\ work[c].op.name \in {"bind", "revoke", "suspend", "reactivate"}
  /\ "rebind" \notin DOMAIN work[c].op
  /\ Return(c)
  /\ UNCHANGED secretVars

-----------------------------------------------------------------------------
(* rotate_secret.                                                          *)

RotateMaterial(c) ==
  LET new == pointer.current + 1
  IN  /\ work[c] = NoJob
      /\ Stable /\ new <= MaxSecret /\ new \notin material
      /\ material' = material \cup {new}
      /\ work' = [work EXCEPT ![c] =
           [pc |-> "rotate_begin", op |-> [name |-> "rotate"], key |-> Absent,
            old |-> pointer.current, keys |-> {}, todo |-> {},
            tenant |-> Absent, txn |-> 0, seen |-> 0]]
      /\ UNCHANGED <<tenantVars, fileVars, boundVars, cut, pointer, tombstones>>

BoundTenants ==
  {store[k].tenant : k \in {k \in BindingKeys : store[k] # Absent}}

\* Both secrets are accepted from here on; the tenants to bump are listed
\* before the secret is switched.
RotateBegin(c) ==
  /\ At(c, "rotate_begin")
  /\ pointer' = [state |-> "dual_write", current |-> work[c].old,
                 secondary |-> work[c].old + 1]
  /\ work' = [work EXCEPT ![c].pc = "rotate_finalize", ![c].todo = BoundTenants]
  /\ UNCHANGED <<tenantVars, fileVars, boundVars, cut, material, tombstones>>

Finalized == [state |-> "stable", current |-> pointer.secondary, secondary |-> 0]

\* The switch, and the list of the records of the old secret.
RotateFinalize(c) ==
  /\ At(c, "rotate_finalize") /\ ~Stable
  /\ pointer' = Finalized
  /\ work' = [work EXCEPT ![c].pc = "rotate_tomb",
                ![c].keys = {k \in BindingKeys :
                               k[2] = work[c].old /\ store[k] # Absent}]
  /\ UNCHANGED <<tenantVars, fileVars, boundVars, cut, material, tombstones>>

\* Someone else finalized.
RotateConflict(c) ==
  /\ At(c, "rotate_finalize") /\ Stable
  /\ GiveUp(c)
  /\ UNCHANGED <<tenantVars, fileVars, boundVars, secretVars>>

RotateTombstone(c) ==
  /\ At(c, "rotate_tomb")
  /\ \E k \in work[c].keys \ tombstones :
       /\ tombstones' = tombstones \cup {k}
       /\ work' = [work EXCEPT ![c].pc = "rotate_unlink", ![c].tenant = k]
  /\ UNCHANGED <<tenantVars, fileVars, boundVars, cut, pointer, material>>

\* cut notes a binding made after the listing: its tenant is not bumped.
RotateUnlink(c) ==
  LET k == work[c].tenant
  IN  /\ At(c, "rotate_unlink")
      /\ store' = [store EXCEPT ![k] = Absent]
      /\ work' = [work EXCEPT ![c].pc = "rotate_tomb", ![c].keys = @ \ {k}]
      /\ cut' = IF StatusAt(k) = "none" THEN cut
                ELSE cut \cup {[key |-> k, pc |-> "unlisted"] :
                                 t \in {store[k].tenant} \ work[c].todo}
      /\ UNCHANGED <<tenantVars, receipts, boundVars, secretVars>>

RotateBump(c) ==
  /\ At(c, "rotate_tomb") /\ work[c].keys = {}
  /\ NextBump(c, work[c].todo)
  /\ UNCHANGED <<tenantVars, fileVars, boundVars, cut, secretVars>>

RotateReturns(c) ==
  /\ At(c, "done") /\ work[c].op.name = "rotate"
  /\ Return(c)
  /\ UNCHANGED <<tenantVars, fileVars, boundVars, cut, secretVars>>

\* The command "rotate-binding-secret --phase finalize", for a rotation that
\* stopped half way: the pointer alone.
FinalizeAlone(c) ==
  /\ work[c] = NoJob /\ ~Stable
  /\ pointer' = Finalized
  /\ UNCHANGED <<commitVars, material, tombstones>>

BindingStep(c) ==
  \/ \E op \in BindingOps : StartBinding(c, op)
  \/ Bind(c) \/ MutateStatus(c) \/ BindingRefused(c) \/ BindingReturns(c)
  \/ RebindIn(c) \/ ReadToRelabel(c) \/ Relabel(c)
  \/ RotateMaterial(c) \/ RotateBegin(c) \/ RotateFinalize(c)
  \/ RotateConflict(c) \/ RotateTombstone(c) \/ RotateUnlink(c)
  \/ RotateBump(c) \/ RotateReturns(c) \/ FinalizeAlone(c)

-----------------------------------------------------------------------------
(* AgentContext.from_trusted.                                              *)

\* resolve(): the pointer and, under its hash, the record.
ResolvePointer(r, a) ==
  /\ ctx[r] = NoContext
  /\ ctx' = [ctx EXCEPT ![r] = [pc |-> "hash", key |-> CurrentKey(a)]]
  /\ UNCHANGED <<commitVars, secretVars>>

\* The record at that hash, or under the secondary secret; then both gates.
ResolveRecord(r) ==
  LET k   == IF store[ctx[r].key] = Absent /\ ~Stable
             THEN <<ctx[r].key[1], pointer.secondary>> ELSE ctx[r].key
      rec == store[k]
  IN  /\ ctx[r].pc = "hash"
      /\ ctx' = [ctx EXCEPT ![r] =
           IF rec = Absent THEN NoContext
           ELSE IF rec.status = "active"
                   /\ tenantStatus[rec.tenant] \in PurposeStatus
                THEN [pc |-> "resolved", key |-> k, rec |-> rec]
                ELSE NoContext]
      /\ UNCHANGED <<commitVars, secretVars>>

\* The binding is the one rec was, whatever its last history entry says.
StillBound(k, rec) == IF store[k] = Absent THEN FALSE ELSE store[k].txn = rec.txn

\* The snapshot, with the auth_epoch of a second read of the tenant.  torn:
\* the binding is another by now.
Capture(r) ==
  LET rec == ctx[r].rec
  IN  /\ ctx[r].pc = "resolved"
      /\ ctx' = [ctx EXCEPT ![r] =
           [pc |-> "context", key |-> ctx[r].key, rec |-> rec,
            authEpoch |-> authEpoch[rec.tenant],
            torn |-> ~StillBound(ctx[r].key, rec)]]
      /\ UNCHANGED <<commitVars, secretVars>>

Release(r) ==
  /\ ctx[r].pc = "context"
  /\ ctx' = [ctx EXCEPT ![r] = NoContext]
  /\ UNCHANGED <<commitVars, secretVars>>

-----------------------------------------------------------------------------
BindingNext ==
  \/ /\ \E c \in Clients :
          \/ BindingStep(c)
          \/ (Commit(c) \/ Crash(c)) /\ UNCHANGED secretVars
     /\ UNCHANGED ctx
  \/ /\ \E t \in Tenants : ForeignBump(t) \/ SetTenantStatus(t)
     /\ UNCHANGED <<secretVars, ctx>>
  \/ \E r \in Requests :
       \/ \E a \in Agents : ResolvePointer(r, a)
       \/ ResolveRecord(r) \/ Capture(r) \/ Release(r)

BindingSpec == BindingInit /\ [][BindingNext]_bindingVars

-----------------------------------------------------------------------------
(* Properties.                                                             *)

\* Types of the records, the secret, the receipts and the contexts.
BindingTypeOK ==
  /\ authEpoch \in [Tenants -> 1..MaxSafeEpoch]
  /\ tenantStatus \in [Tenants -> StatusesInPlay]
  /\ \A k \in BindingKeys : store[k] \in Binding \cup {Absent}
  /\ receipts \subseteq [key : BindingKeys, epoch : Nat \ {0}, txn : Txns]
  /\ pointer \in [state : {"stable", "dual_write"}, current : material,
                  secondary : material \cup {0}]
  /\ (pointer.secondary # 0) = (pointer.state = "dual_write")
  /\ tombstones \subseteq BindingKeys
  /\ \A r \in Requests : ctx[r].pc = "context" => ctx[r].rec.status = "active"

\* A call between its change of the record at k and its last bump.
Pending(k) ==
  \E c \in Clients :
    \/ work[c].key = k /\ work[c].pc \in {"receipt", "bump", "rebump"}
    \/ work[c] # NoJob /\ work[c].op.name = "rotate"

\* The caller was told that such a call ended half way.
CutShort(k) ==
  \E x \in cut : x.key \in {k, Absent} /\ x.pc # "record"

\* The revocation promise of the binding registry: once the call that changed
\* a binding has returned, no context resolved from the binding before is
\* believed.  Contexts whose resolve and tenant read had the change between
\* them are torn, and set aside, as are the bindings a rotation did not list
\* (cut has them as unlisted).
RevocationReachesContexts ==
  \A r \in Requests :
    LET x == ctx[r] IN
      x.pc = "context" /\ ~x.torn /\ x.authEpoch = authEpoch[x.rec.tenant]
        => StillBound(x.key, x.rec) \/ Pending(x.key) \/ CutShort(x.key)

\* Every version of a record has its receipt, and one only, but for the one
\* being written or cut short.  (Hashes of a retired secret are left out.)
AuditTrail ==
  \A k \in {k \in BindingKeys : k[2] >= pointer.current} :
    \A e \in 1..EpochAt(k) :
      \/ Cardinality({x \in receipts : x.key = k /\ x.epoch = e}) = 1
      \/ \E c \in Clients : At(c, "receipt") /\ work[c].key = k
                              /\ work[c].next.epoch = e
      \/ [key |-> k, pc |-> "receipt"] \in cut
=============================================================================
