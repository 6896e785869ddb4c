--------------------------- MODULE TokenRegistry ---------------------------
(***************************************************************************)
(* The token registry of scripts/kb_token.py: one JSON file holding every  *)
(* bearer token, written by the kb_token command line, by the token page   *)
(* of kb_admin.py and by kb_access_file.py.                                *)
(*                                                                         *)
(* A command loads the whole file, may probe a remote service, changes its *)
(* copy, and replaces the whole file.  No lock is held, and the file is    *)
(* not compared with the copy: other commands run in between.  Each        *)
(* replacement is atomic, so Load and the writes are the only steps.       *)
(*                                                                         *)
(* All agent bindings belong to one person, who is under the ceiling; the  *)
(* two binding ids an agent may have (by person, by key) are one binding   *)
(* here.  Who may call what, membership_epoch and the receipts in the file *)
(* are left out.                                                           *)
(***************************************************************************)
EXTENDS Naturals, FiniteSets, FiniteSetsExt

CONSTANTS
  Commands,      \* running commands: processes, threads of the token page
  AgentBindings, \* (person, agent) bindings, under the ceiling
  Services,      \* service bindings
  SharedKbs,     \* shared bindings, one per library, exported to a file
  Ceiling,       \* max_active_per_owner
  MaxTokens,     \* bound on the tokens ever minted
  MaxExpired     \* bound on those of them that expire

Bindings == AgentBindings \cup Services \cup SharedKbs

ASSUME TokenAssumption ==
  /\ AgentBindings \cap (Services \cup SharedKbs) = {}
  /\ Services \cap SharedKbs = {}
  /\ Ceiling \in Nat \ {0}
  /\ MaxTokens \in Nat
  /\ MaxExpired \in Nat

VARIABLES
  file,        \* the tokens of the registry
  accessFile,  \* the token in the access file of a library, 0 if none
  expired,     \* tokens past expires_at
  nextId,      \* fresh token ids
  pc,
  op,          \* the verb a command runs and what it is about
  held,        \* the registry as the command loaded it
  moment,      \* the tokens that were past expires_at when it started
  minted,      \* the token an export is to publish
  confirmed,   \* history: tokens whose revocation was reported to a caller
  overlapped,  \* history: two commands have run at the same time
  torn         \* history: an export left registry and access file apart

local   == <<pc, op, held, moment, minted>>
history == <<confirmed, overlapped, torn>>
vars    == <<file, accessFile, expired, nextId, local, history>>

Ids      == 1..MaxTokens
Token    == [id : Ids, binding : Bindings, generation : Nat, revoked : BOOLEAN]
Registry == SUBSET Token

Minting  == [verb : {"issue", "reissue"}, about : Bindings]
Revoking == [verb : {"revoke"}, about : Ids]
NoOp     == [verb |-> "none", about |-> 0]

Init ==
  /\ file = {}
  /\ accessFile = [k \in SharedKbs |-> 0]
  /\ expired = {}
  /\ nextId = 1
  /\ pc = [c \in Commands |-> "idle"]
  /\ op = [c \in Commands |-> NoOp]
  /\ held = [c \in Commands |-> {}]
  /\ moment = [c \in Commands |-> {}]
  /\ minted = [c \in Commands |-> 0]
  /\ confirmed = {}
  /\ overlapped = FALSE
  /\ torn = FALSE

-----------------------------------------------------------------------------
(* What a verb makes of a loaded registry d at an instant by which the     *)
(* tokens of x have expired.                                               *)

Prior(d, b)   == {t \in d : t.binding = b}
Active(t, x)  == ~t.revoked /\ t.id \notin x
OfPerson(d)   == {t \in d : t.binding \in AgentBindings}
ActiveCount(d, x) == Cardinality({t \in OfPerson(d) : Active(t, x)})

\* Mutant: only the generations still live count.
NextGenerationOfLive(d, b) ==
  1 + Max({0} \cup {t.generation : t \in {u \in Prior(d, b) : ~u.revoked}})

NextGeneration(d, b) ==
  1 + Max({0} \cup {t.generation : t \in Prior(d, b)})

NewToken(d, b) == [id |-> nextId, binding |-> b,
                   generation |-> NextGeneration(d, b), revoked |-> FALSE]

Dead(t) == [t EXCEPT !.revoked = TRUE]

BelowCeiling(d, b, x) == b \in AgentBindings => ActiveCount(d, x) < Ceiling

\* Mutant: an active token of the binding is no obstacle.
MayIssueTwice(d, b, x) == BelowCeiling(d, b, x)

MayIssue(d, b, x) ==
  /\ \A t \in Prior(d, b) : ~Active(t, x)
  /\ BelowCeiling(d, b, x)

\* Mutant: only the latest generation is superseded.
RevokeLatest(d, b) ==
  (d \ Prior(d, b)) \cup
    {IF t.generation + 1 = NextGeneration(d, b) THEN Dead(t) ELSE t :
       t \in Prior(d, b)}

RevokeAll(d, b) ==
  (d \ Prior(d, b)) \cup {Dead(t) : t \in Prior(d, b)}

MayReissue(d, b, x) ==
  /\ Prior(d, b) # {}
  /\ BelowCeiling(RevokeAll(d, b), b, x)

Issued(d, b) == d \cup {NewToken(d, b)}

Reissued(d, b) == RevokeAll(d, b) \cup {NewToken(d, b)}

Superseded(d, b) == {t.id : t \in {u \in Prior(d, b) : ~u.revoked}}

Named(d, i) == {t \in d : t.id = i /\ ~t.revoked}

Revoked(d, i) == (d \ Named(d, i)) \cup {Dead(t) : t \in Named(d, i)}

-----------------------------------------------------------------------------
(* Commands.                                                               *)

Done(c) ==
  /\ pc' = [pc EXCEPT ![c] = "idle"]
  /\ op' = [op EXCEPT ![c] = NoOp]
  /\ held' = [held EXCEPT ![c] = {}]
  /\ moment' = [moment EXCEPT ![c] = {}]
  /\ minted' = [minted EXCEPT ![c] = 0]

\* Refused at once, whatever the time; nothing is changed by that.
Pointless(d, o) ==
  \/ o.verb = "revoke" /\ Named(d, o.about) = {}
  \/ o.verb = "reissue" /\ Prior(d, o.about) = {}

Load(c, o) ==
  /\ pc[c] = "idle"
  /\ ~Pointless(file, o)
  /\ o \in Minting => nextId \in Ids
  /\ pc' = [pc EXCEPT ![c] = "loaded"]
  /\ op' = [op EXCEPT ![c] = o]
  /\ held' = [held EXCEPT ![c] = file]
  /\ moment' = [moment EXCEPT ![c] = expired]
  /\ overlapped' = (overlapped \/ \E q \in Commands : pc[q] # "idle")
  /\ UNCHANGED <<file, accessFile, expired, nextId, minted, confirmed, torn>>

\* The probe fails, the change is refused, or the process dies.
Abandon(c) ==
  /\ pc[c] # "idle"
  /\ Done(c)
  /\ torn' = (torn \/ pc[c] = "renaming")
  /\ UNCHANGED <<file, accessFile, expired, nextId, confirmed, overlapped>>

\* The command line takes the time before the load, the token page, which
\* issues to agents only, after it.
Instants(c) == {moment[c]} \cup {x \in {expired} : op[c].about \in AgentBindings}

\* A verb reports success, and with it the tokens it has revoked, unless the
\* chmod that follows the rename of the registry fails.
Report(dead) == confirmed' \in {confirmed, confirmed \cup dead}

\* The file is replaced.  An export has its access file to publish yet.
Mint(c, d, dead) ==
  LET b == op[c].about IN
  /\ nextId \in Ids
  /\ file' = d
  /\ nextId' = nextId + 1
  /\ IF b \in SharedKbs
     THEN /\ pc' = [pc EXCEPT ![c] = "renaming"]
          /\ minted' = [minted EXCEPT ![c] = nextId]
          /\ UNCHANGED <<op, held, moment, confirmed>>
     ELSE Done(c) /\ Report(dead)
  /\ UNCHANGED <<accessFile, expired, overlapped, torn>>

SaveIssue(c) ==
  LET b == op[c].about IN
  /\ pc[c] = "loaded" /\ op[c].verb = "issue"
  /\ \E x \in Instants(c) : MayIssue(held[c], b, x)
  /\ Mint(c, Issued(held[c], b), {})

SaveReissue(c) ==
  LET b == op[c].about IN
  /\ pc[c] = "loaded" /\ op[c].verb = "reissue"
  /\ MayReissue(held[c], b, moment[c])
  /\ Mint(c, Reissued(held[c], b), Superseded(held[c], b))

SaveRevoke(c) ==
  LET i == op[c].about IN
  /\ pc[c] = "loaded" /\ op[c].verb = "revoke"
  /\ Named(held[c], i) # {}
  /\ file' = Revoked(held[c], i)
  /\ Done(c)
  /\ Report({i})
  /\ UNCHANGED <<accessFile, expired, nextId, overlapped, torn>>

\* export_access: the prepared access file takes its name, then its mode.
RenameAccess(c) ==
  /\ pc[c] = "renaming"
  /\ accessFile' = [accessFile EXCEPT ![op[c].about] = minted[c]]
  /\ pc' = [pc EXCEPT ![c] = "chmod"]
  /\ UNCHANGED <<file, expired, nextId, op, held, moment, minted, history>>

ExportDone(c) ==
  /\ pc[c] = "chmod"
  /\ confirmed' = confirmed \cup
       {i \in Superseded(held[c], op[c].about) : op[c].verb = "reissue"}
  /\ Done(c)
  /\ UNCHANGED <<file, accessFile, expired, nextId, overlapped, torn>>

\* Mutant: the registry keeps the token nobody was given.
RestoreNothing(c) ==
  /\ pc[c] \in {"renaming", "chmod"}
  /\ Done(c)
  /\ torn' = (torn \/ pc[c] = "chmod")
  /\ UNCHANGED <<file, accessFile, expired, nextId, confirmed, overlapped>>

\* One of the two raises: the registry is written back as it was loaded.
RestoreOriginal(c) ==
  /\ pc[c] \in {"renaming", "chmod"}
  /\ file' = held[c]
  /\ Done(c)
  /\ torn' = (torn \/ pc[c] = "chmod")
  /\ UNCHANGED <<accessFile, expired, nextId, confirmed, overlapped>>

\* A token reaches its expires_at.  Nothing tells when a revoked token does,
\* so only those still alive in the file, or in a copy of it, are of interest.
Expire(i) ==
  /\ i \notin expired
  /\ Cardinality(expired) < MaxExpired
  /\ Named(file, i) # {} \/ \E c \in Commands : Named(held[c], i) # {}
  /\ expired' = expired \cup {i}
  /\ UNCHANGED <<file, accessFile, nextId, local, history>>

Command(c) ==
  \/ \E o \in Minting \cup Revoking : Load(c, o)
  \/ SaveIssue(c) \/ SaveReissue(c) \/ SaveRevoke(c)
  \/ RenameAccess(c) \/ ExportDone(c) \/ RestoreOriginal(c)
  \/ Abandon(c)

Next == (\E c \in Commands : Command(c)) \/ (\E i \in Ids : Expire(i))

Spec == Init /\ [][Next]_vars

-----------------------------------------------------------------------------
(* Properties.                                                             *)

TypeOK ==
  /\ file \in Registry
  /\ \A t \in file : t.id < nextId
  /\ \A t, u \in file : t.id = u.id => t = u
  /\ accessFile \in [SharedKbs -> 0..MaxTokens]
  /\ expired \subseteq Ids
  /\ nextId \in 1..(MaxTokens + 1)
  /\ pc \in [Commands -> {"idle", "loaded", "renaming", "chmod"}]
  /\ op \in [Commands -> Minting \cup Revoking \cup {NoOp}]
  /\ held \in [Commands -> Registry]
  /\ moment \in [Commands -> SUBSET Ids]
  /\ minted \in [Commands -> 0..MaxTokens]
  /\ confirmed \subseteq Ids
  /\ overlapped \in BOOLEAN /\ torn \in BOOLEAN

\* No reader sees two live generations of a binding, whatever the order in
\* which commands replace each other's file.
OneLiveGeneration ==
  \A t, u \in file :
    t.binding = u.binding /\ Active(t, expired) /\ Active(u, expired) => t = u

\* Two tokens of a binding never share a generation.
GenerationsDistinct ==
  \A t, u \in file :
    t.binding = u.binding /\ t.generation = u.generation => t = u

\* A token whose revocation was reported to its caller is never accepted.
RevocationIsImmediate ==
  \A t \in file : t.id \in confirmed => t.revoked

\* It is so as long as no two commands overlap, whichever of them fail or die
\* half way, an export that writes the registry back included.
SerialRevocationSticks == ~overlapped => RevocationIsImmediate

\* Without overlap, and unless an export dies or fails at its last step, the
\* token the gateway accepts for a library is the one in its access file.
SharedTokenIsDelivered ==
  ~overlapped /\ ~torn /\ (\A c \in Commands : pc[c] \in {"idle", "loaded"}) =>
    \A k \in SharedKbs : \A t \in Prior(file, k) :
      Active(t, expired) => accessFile[k] = t.id
=============================================================================
