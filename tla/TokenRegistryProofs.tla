------------------------ MODULE TokenRegistryProofs ------------------------
(***************************************************************************)
(* Proofs about TokenRegistry, for any number of commands, bindings and    *)
(* tokens, any ceiling and any moments of expiry.                          *)
(*                                                                         *)
(* No lock orders the commands, so nothing relates the file to the copy a  *)
(* command holds.  What survives every order of their writes is what is    *)
(* true of each version by itself (Clean): a version is made from one that *)
(* some command loaded, by a change that keeps it Clean.  What relates     *)
(* versions, or the registry and the access files, holds only as long as   *)
(* no two commands overlap (SerialInv, DeliveryInv).                       *)
(***************************************************************************)
EXTENDS TokenRegistry, WellFoundedInduction, TLAPS

\* One version of the registry, among ids below n, when x have expired.
Clean(d, n, x) ==
  /\ \A t \in d : t.id < n /\ t.generation <= t.id
  /\ \A t, u \in d : t.id = u.id => t = u
  /\ \A t, u \in d : t.binding = u.binding /\ t.generation = u.generation => t = u
  /\ \A t, u \in d : t.binding = u.binding /\ Active(t, x) /\ Active(u, x) => t = u

Types ==
  /\ file \in Registry
  /\ accessFile \in [SharedKbs -> 0..MaxTokens]
  /\ expired \subseteq Ids
  /\ nextId \in 1..(MaxTokens + 1)
  /\ pc \in [Commands -> {"idle", "loaded", "renaming", "chmod"}]
  /\ op \in [Commands -> Minting \cup Revoking \cup {NoOp}]
  /\ held \in [Commands -> Registry]
  /\ moment \in [Commands -> SUBSET Ids]
  /\ minted \in [Commands -> 0..MaxTokens]
  /\ confirmed \subseteq {i \in Ids : i < nextId}
  /\ overlapped \in BOOLEAN /\ torn \in BOOLEAN

CopiesInv ==
  /\ Clean(file, nextId, expired)
  /\ \A c \in Commands :
       /\ Clean(held[c], nextId, expired)
       /\ moment[c] \subseteq expired
       /\ pc[c] # "idle" => op[c] \in Minting \cup Revoking
       /\ pc[c] \in {"renaming", "chmod"} => op[c].about \in SharedKbs

Busy(c)      == pc[c] # "idle"
Exporting(c) == pc[c] \in {"renaming", "chmod"}
Forgotten(d) == \A t \in d : t.id \in confirmed => t.revoked

\* While commands do not overlap, no version brings a revoked token back.
SerialInv ==
  ~overlapped =>
    /\ \A c, q \in Commands : Busy(c) /\ Busy(q) => c = q
    /\ Forgotten(file)
    /\ \A c \in Commands :
         /\ Busy(c) => Forgotten(held[c])
         /\ pc[c] = "loaded" => held[c] = file
         /\ Exporting(c) /\ op[c].verb = "reissue" =>
              \A t \in file : t.id \in Superseded(held[c], op[c].about) => t.revoked

DeliveredTo(k, d) ==
  \A t \in Prior(d, k) : Active(t, expired) => accessFile[k] = t.id
Delivered(d) == \A k \in SharedKbs : DeliveredTo(k, d)

\* Nor do registry and access files disagree, but on the library whose
\* export is between the two.
DeliveryInv ==
  ~overlapped /\ ~torn =>
    /\ (\A c \in Commands : pc[c] # "renaming") => Delivered(file)
    /\ \A c \in Commands : pc[c] = "renaming" =>
         /\ Delivered(held[c])
         /\ \A k \in SharedKbs \ {op[c].about} : DeliveredTo(k, file)
         /\ \A t \in Prior(file, op[c].about) : Active(t, expired) => t.id = minted[c]

IInv == Types /\ CopiesInv /\ SerialInv /\ DeliveryInv

-----------------------------------------------------------------------------
(* A bounded set of numbers has a greatest member.                         *)

Below == OpToRel(<, Nat)

\* The order of the naturals is well-founded.
LEMMA BelowWellFounded == IsWellFoundedOn(Below, Nat)
BY NatLessThanWellFounded DEF Below

\* And is what Below says.
LEMMA BelowIs == \A x, y \in Nat : x < y => <<x, y>> \in Below
BY DEF Below, OpToRel

\* A bounded set of naturals has a greatest member.
LEMMA GreatestExists ==
  ASSUME NEW S \in SUBSET Nat, S # {}, NEW n \in Nat, \A x \in S : x <= n
  PROVE  \E x \in S : \A y \in S : x >= y
<1> DEFINE T == {n - x : x \in S}
<1>1. T \subseteq Nat /\ T # {}
  <2>1. \A x \in S : n - x \in Nat
    OBVIOUS
  <2> QED
    BY <2>1
<1> HIDE DEF T
<1>2. PICK z \in T : \A w \in T : <<w, z>> \notin Below
  BY <1>1, BelowWellFounded, WFMin
<1>3. PICK x \in S : z = n - x
  BY <1>2 DEF T
<1>4. ASSUME NEW y \in S
      PROVE  x >= y
  <2>1. n - y \in T
    BY DEF T
  <2>2. ~(n - y < z)
    BY <1>1, <1>2, <2>1, BelowIs
  <2> QED
    BY <1>3, <2>2
<1> QED
  BY <1>4

\* Max finds it.
LEMMA MaxIs ==
  ASSUME NEW S \in SUBSET Nat, S # {}, NEW n \in Nat, \A x \in S : x <= n
  PROVE  Max(S) \in S /\ \A y \in S : Max(S) >= y
BY GreatestExists DEF Max

-----------------------------------------------------------------------------
(* What the verbs make of a version.                                       *)

\* A new generation is past those of its binding, and at most the new id.
LEMMA NextGenerationIs ==
  ASSUME NEW d \in Registry, NEW b \in Bindings, nextId \in Ids,
         \A t \in d : t.id < nextId /\ t.generation <= t.id
  PROVE  /\ NextGeneration(d, b) \in Nat /\ NextGeneration(d, b) <= nextId
         /\ \A t \in Prior(d, b) : t.generation < NextGeneration(d, b)
<1> DEFINE S == {0} \cup {t.generation : t \in Prior(d, b)}
           n == nextId - 1
<1>1. nextId \in Nat /\ n \in Nat
  BY DEF Ids
<1>2. \A t \in Prior(d, b) : t \in Token /\ t.generation \in Nat /\ t.generation <= n
  BY <1>1 DEF Prior, Registry, Token, Ids
<1>3. S \in SUBSET Nat /\ S # {} /\ \A x \in S : x <= n
  BY <1>1, <1>2
<1>4. NextGeneration(d, b) = 1 + Max(S)
  BY DEF NextGeneration
<1>5. \A t \in Prior(d, b) : t.generation \in S
  OBVIOUS
<1> HIDE DEF S, n
<1>6. Max(S) \in S /\ \A y \in S : Max(S) >= y
  BY <1>1, <1>3, MaxIs
<1>0. /\ Max(S) \in Nat /\ Max(S) <= n
      /\ \A t \in Prior(d, b) : t.generation \in Nat /\ t.generation <= Max(S)
  BY <1>2, <1>3, <1>5, <1>6
<1>7. NextGeneration(d, b) \in Nat /\ NextGeneration(d, b) <= nextId
  BY <1>0, <1>1, <1>4 DEF n
<1>8. ASSUME NEW t \in Prior(d, b)
      PROVE  t.generation < NextGeneration(d, b)
  BY <1>0, <1>4, <1>8
<1> QED
  BY <1>7, <1>8

\* The version in which the tokens of K are dead.
Kill(d, K) == {IF t.id \in K THEN Dead(t) ELSE t : t \in d}

\* A revoked token keeps its identity.
LEMMA DeadIs ==
  ASSUME NEW t \in Token
  PROVE  /\ Dead(t) \in Token /\ Dead(t).id = t.id /\ Dead(t).binding = t.binding
         /\ Dead(t).generation = t.generation /\ Dead(t).revoked
         /\ t.revoked => Dead(t) = t
BY DEF Dead, Token

\* Revoking the tokens K: each token stays, revoked if it is in K, else as it
\* was.
LEMMA KillIs ==
  ASSUME NEW d \in Registry, NEW K
  PROVE  /\ Kill(d, K) \in Registry
         /\ \A t \in Kill(d, K) : \E u \in d :
              /\ t = IF u.id \in K THEN Dead(u) ELSE u
              /\ u.id = t.id /\ u.binding = t.binding /\ u.generation = t.generation
              /\ u.revoked => t.revoked
              /\ t.id \in K => t.revoked
              /\ t.id \notin K => t = u
<1>1. \A u \in d : u \in Token
  BY DEF Registry
<1>2. \A u \in d : /\ Dead(u) \in Token /\ Dead(u).id = u.id /\ Dead(u).binding = u.binding
                   /\ Dead(u).generation = u.generation /\ Dead(u).revoked
  BY <1>1, DeadIs
<1>3. ASSUME NEW t \in Kill(d, K)
      PROVE  \E u \in d :
              /\ t = IF u.id \in K THEN Dead(u) ELSE u
              /\ t \in Token
              /\ u.id = t.id /\ u.binding = t.binding /\ u.generation = t.generation
              /\ u.revoked => t.revoked
              /\ t.id \in K => t.revoked
              /\ t.id \notin K => t = u
  <2>1. PICK u \in d : t = IF u.id \in K THEN Dead(u) ELSE u
    BY DEF Kill
  <2>2. CASE u.id \in K
    BY <1>1, <1>2, <2>1, <2>2
  <2>3. CASE u.id \notin K
    BY <1>1, <2>1, <2>3
  <2> QED
    BY <2>2, <2>3
<1> QED
  BY <1>3 DEF Registry

\* Revoking keeps a clean registry clean.
LEMMA KillClean ==
  ASSUME NEW d \in Registry, NEW K, NEW n, NEW x, Clean(d, n, x)
  PROVE  Clean(Kill(d, K), n, x)
<1> DEFINE from(t) == CHOOSE u \in d :
              /\ t = IF u.id \in K THEN Dead(u) ELSE u
              /\ u.id = t.id /\ u.binding = t.binding /\ u.generation = t.generation
              /\ u.revoked => t.revoked
              /\ t.id \in K => t.revoked
              /\ t.id \notin K => t = u
<1>1. \A t \in Kill(d, K) :
        /\ from(t) \in d /\ t = IF from(t).id \in K THEN Dead(from(t)) ELSE from(t)
        /\ from(t).id = t.id /\ from(t).binding = t.binding
        /\ from(t).generation = t.generation
        /\ from(t).revoked => t.revoked
  BY KillIs
<1> HIDE DEF from
<1>2. \A t, u \in Kill(d, K) : from(t) = from(u) => t = u
  BY <1>1
<1>3. \A t \in Kill(d, K) : Active(t, x) => Active(from(t), x)
  BY <1>1 DEF Active
<1> QED
  BY <1>1, <1>2, <1>3 DEF Clean

\* Both ways to kill are that.
LEMMA RevokeIs ==
  ASSUME NEW d \in Registry, NEW n, NEW x, Clean(d, n, x)
  PROVE  /\ \A b : RevokeAll(d, b) = Kill(d, {t.id : t \in Prior(d, b)})
         /\ \A i : Revoked(d, i) = Kill(d, {i})
<1>1. \A t \in d : t \in Token /\ (t.revoked => Dead(t) = t)
  BY DeadIs DEF Registry
<1>2. \A t, u \in d : t.id = u.id => t = u
  BY DEF Clean
<1>3. ASSUME NEW b
      PROVE  RevokeAll(d, b) = Kill(d, {t.id : t \in Prior(d, b)})
  <2>1. \A t \in d : t.id \in {u.id : u \in Prior(d, b)} <=> t.binding = b
    BY <1>2 DEF Prior
  <2> QED
    BY <2>1 DEF RevokeAll, Kill, Prior
<1>4. ASSUME NEW i
      PROVE  Revoked(d, i) = Kill(d, {i})
  BY <1>1 DEF Revoked, Kill, Named
<1> QED
  BY <1>3, <1>4

\* A fresh token beside tokens of its binding none of which is active.
LEMMA AddClean ==
  ASSUME NEW d \in Registry, NEW x, Clean(d, nextId, x), nextId \in Ids,
         NEW b \in Bindings, \A t \in Prior(d, b) : ~Active(t, x)
  PROVE  LET new == NewToken(d, b) IN
         /\ new \in Token /\ new.id = nextId /\ new.binding = b /\ ~new.revoked
         /\ d \cup {new} \in Registry
         /\ Clean(d \cup {new}, nextId + 1, x)
<1> DEFINE new == NewToken(d, b)
<1>1. \A t \in d : t.id < nextId /\ t.generation <= t.id /\ t \in Token
  BY DEF Clean, Registry
<1>2. /\ NextGeneration(d, b) \in Nat /\ NextGeneration(d, b) <= nextId
      /\ \A t \in Prior(d, b) : t.generation < NextGeneration(d, b)
  BY <1>1, NextGenerationIs
<1>3. /\ new \in Token /\ new.id = nextId /\ new.binding = b /\ ~new.revoked
      /\ new.generation = NextGeneration(d, b)
  BY <1>2 DEF NewToken, Token
<1> HIDE DEF new
<1>4. \A t \in d : t.id \in Nat /\ t.generation \in Nat /\ t.id # new.id
  BY <1>1, <1>3 DEF Token, Ids
<1>5. \A t \in d : t.binding = b => t.generation # new.generation /\ ~Active(t, x)
  BY <1>1, <1>2, <1>3, <1>4 DEF Prior
<1>6. Clean(d \cup {new}, nextId + 1, x)
  <2>1. \A t \in d \cup {new} : t.id < nextId + 1 /\ t.generation <= t.id
    BY <1>1, <1>2, <1>3, <1>4 DEF Ids
  <2>2. \A t, u \in d \cup {new} : t.id = u.id => t = u
    BY <1>4 DEF Clean
  <2>3. \A t, u \in d \cup {new} : t.binding = u.binding /\ t.generation = u.generation => t = u
    BY <1>3, <1>5 DEF Clean
  <2>4. \A t, u \in d \cup {new} : t.binding = u.binding /\ Active(t, x) /\ Active(u, x) => t = u
    BY <1>3, <1>5 DEF Clean
  <2> QED
    BY <2>1, <2>2, <2>3, <2>4 DEF Clean
<1> QED
  BY <1>3, <1>6 DEF new, Registry


\* A clean registry is clean for later bounds.
LEMMA CleanGrows ==
  ASSUME NEW d \in Registry, NEW n \in Nat, NEW m \in Nat, n <= m,
         NEW x, NEW y, x \subseteq y, Clean(d, n, x)
  PROVE  Clean(d, m, y)
<1>1. \A t \in d : t.id \in Nat
  BY DEF Registry, Token, Ids
<1> QED
  BY <1>1 DEF Clean, Active

\* The empty registry is clean.
LEMMA EmptyClean == \A n, x : {} \in Registry /\ Clean({}, n, x)
BY DEF Clean, Registry

-----------------------------------------------------------------------------
(* Types and versions.                                                     *)

LocalTypes ==
  /\ pc \in [Commands -> {"idle", "loaded", "renaming", "chmod"}]
  /\ op \in [Commands -> Minting \cup Revoking \cup {NoOp}]
  /\ held \in [Commands -> Registry]
  /\ moment \in [Commands -> SUBSET Ids]
  /\ minted \in [Commands -> 0..MaxTokens]

\* A command that is done drops its copy and touches no other command.
LEMMA DoneIs ==
  ASSUME Types, NEW c \in Commands, Done(c)
  PROVE  /\ LocalTypes'
         /\ pc' = [pc EXCEPT ![c] = "idle"] /\ held'[c] = {} /\ moment'[c] = {}
         /\ \A q \in Commands \ {c} :
              /\ pc'[q] = pc[q] /\ op'[q] = op[q] /\ held'[q] = held[q]
              /\ moment'[q] = moment[q] /\ minted'[q] = minted[q]
<1>1. 0 \in 0..MaxTokens /\ {} \in SUBSET Ids
  BY TokenAssumption
<1> QED
  BY <1>1, EmptyClean DEF Done, Types, LocalTypes

\* Whatever the file becomes, the other copies stay as clean as they were.
LEMMA DoneCopies ==
  ASSUME Types, CopiesInv, NEW c \in Commands, Done(c), UNCHANGED expired,
         nextId' \in {nextId, nextId + 1}, Clean(file', nextId', expired)
  PROVE  CopiesInv'
<1>1. nextId \in Nat /\ nextId' \in Nat /\ nextId <= nextId'
  BY DEF Types
<1>2. ASSUME NEW q \in Commands
      PROVE  Clean(held'[q], nextId', expired)
  <2>1. CASE q = c
    BY <2>1, DoneIs, EmptyClean
  <2>2. CASE q # c
    <3>1. held'[q] = held[q] /\ held[q] \in Registry /\ Clean(held[q], nextId, expired)
      BY <2>2, DoneIs DEF Types, CopiesInv
    <3> QED
      BY <1>1, <3>1, CleanGrows
  <2> QED
    BY <2>1, <2>2
<1> QED
  BY <1>2, DoneIs DEF CopiesInv, Types

\* SaveIssue and SaveReissue, for an agent, a service or a library.
LEMMA MintStep ==
  ASSUME Types, CopiesInv, NEW c \in Commands, NEW d \in Registry,
         pc[c] = "loaded", op[c] \in Minting,
         NEW dead, dead \subseteq {i \in Ids : i < nextId}, Mint(c, d, dead),
         nextId \in Ids => Clean(d, nextId + 1, expired)
  PROVE  Types' /\ CopiesInv'
<1>1. /\ nextId \in Ids /\ file' = d /\ nextId' = nextId + 1 /\ nextId' \in 1..(MaxTokens + 1)
      /\ Clean(d, nextId', expired) /\ UNCHANGED <<accessFile, expired, overlapped, torn>>
  BY TokenAssumption DEF Mint, Ids
<1>2. confirmed' \subseteq {i \in Ids : i < nextId'}
  <2>1. confirmed' \subseteq confirmed \cup dead
    BY DEF Mint, Report
  <2>2. \A i \in Ids : i < nextId => i < nextId'
    BY <1>1 DEF Types, Ids
  <2> QED
    BY <2>1, <2>2 DEF Types
<1>3. CASE op[c].about \in SharedKbs
  <2>1. /\ pc' = [pc EXCEPT ![c] = "renaming"] /\ minted' = [minted EXCEPT ![c] = nextId]
        /\ UNCHANGED <<op, held, moment>>
    BY <1>3 DEF Mint
  <2>2. Types'
    BY <1>1, <1>2, <2>1 DEF Types, Ids
  <2>3. \A q \in Commands : Clean(held[q], nextId', expired)
    <3>1. nextId \in Nat /\ nextId' \in Nat /\ nextId <= nextId'
      BY <1>1 DEF Types
    <3> QED
      BY <3>1, CleanGrows DEF Types, CopiesInv
  <2> QED
    BY <1>1, <1>3, <2>1, <2>2, <2>3 DEF CopiesInv, Types
<1>4. CASE op[c].about \notin SharedKbs
  <2>1. Done(c)
    BY <1>4 DEF Mint
  <2>2. Types'
    BY <1>1, <1>2, <2>1, DoneIs DEF Types, LocalTypes
  <2> QED
    BY <1>1, <2>1, <2>2, DoneCopies
<1> QED
  BY <1>3, <1>4

\* An operation is about a binding or about a token.
LEMMA OpIs ==
  ASSUME Types, NEW c \in Commands
  PROVE  /\ op[c].verb \in {"issue", "reissue"} => op[c] \in Minting /\ op[c].about \in Bindings
         /\ op[c].verb = "revoke" => op[c].about \in Ids
<1>1. op[c] \in Minting \cup Revoking \cup {NoOp}
  BY DEF Types
<1> QED
  BY <1>1 DEF Minting, Revoking, NoOp

\* What SaveIssue publishes.
LEMMA IssuedIs ==
  ASSUME Types, CopiesInv, NEW c \in Commands, nextId \in Ids, op[c].about \in Bindings,
         NEW x \in Instants(c), MayIssue(held[c], op[c].about, x)
  PROVE  LET b == op[c].about
             d == Issued(held[c], b)
         IN  /\ \A t \in Prior(held[c], b) : ~Active(t, expired)
             /\ d \in Registry /\ Clean(d, nextId + 1, expired)
             /\ d = held[c] \cup {NewToken(held[c], b)}
             /\ LET new == NewToken(held[c], b)
                IN  new.id = nextId /\ new.binding = b
<1> DEFINE b == op[c].about
<1>1. x \subseteq expired
  BY DEF Instants, CopiesInv
<1>2. \A t \in Prior(held[c], b) : ~Active(t, expired)
  BY <1>1 DEF MayIssue, Active
<1>3. held[c] \in Registry /\ Clean(held[c], nextId, expired)
  BY DEF Types, CopiesInv
<1> HIDE DEF b
<1>4. b \in Bindings
  BY DEF b
<1>5. LET new == NewToken(held[c], b) IN
      /\ new.id = nextId /\ new.binding = b
      /\ held[c] \cup {new} \in Registry
      /\ Clean(held[c] \cup {new}, nextId + 1, expired)
  BY <1>2, <1>3, <1>4, AddClean
<1> QED
  BY <1>2, <1>5 DEF Issued, b

\* What SaveReissue publishes.
LEMMA ReissuedIs ==
  ASSUME Types, CopiesInv, NEW c \in Commands, nextId \in Ids, op[c].about \in Bindings
  PROVE  LET b == op[c].about
             d == Reissued(held[c], b)
             K == {t.id : t \in Prior(held[c], b)}
             new == NewToken(Kill(held[c], K), b)
         IN  /\ d \in Registry /\ Clean(d, nextId + 1, expired)
             /\ d = Kill(held[c], K) \cup {new} /\ new.id = nextId /\ new.binding = b
<1> DEFINE b == op[c].about
           K == {t.id : t \in Prior(held[c], b)}
           killed == Kill(held[c], K)
<1>1. held[c] \in Registry /\ Clean(held[c], nextId, expired)
  BY DEF Types, CopiesInv
<1>2. RevokeAll(held[c], b) = killed
  BY <1>1, RevokeIs
<1>3. killed \in Registry /\ Clean(killed, nextId, expired)
  BY <1>1, KillIs, KillClean
<1>4. \A t \in Prior(killed, b) : t.revoked
  <2> TAKE t \in Prior(killed, b)
  <2>1. PICK u \in held[c] : u.id = t.id /\ u.binding = t.binding /\ (t.id \in K => t.revoked)
    BY <1>1, KillIs DEF Prior
  <2>2. u \in Prior(held[c], b)
    BY <2>1 DEF Prior
  <2> QED
    BY <2>1, <2>2
<1>5. NewToken(killed, b) = NewToken(held[c], b)
  <2>1. {t.generation : t \in Prior(killed, b)} = {t.generation : t \in Prior(held[c], b)}
    <3>1. ASSUME NEW t \in Prior(killed, b)
          PROVE  \E u \in Prior(held[c], b) : u.generation = t.generation
      BY <1>1, <3>1, KillIs DEF Prior
    <3>2. ASSUME NEW u \in Prior(held[c], b)
          PROVE  \E t \in Prior(killed, b) : u.generation = t.generation
      <4>1. u \in Token /\ u \in held[c] /\ u.binding = b
        BY <1>1 DEF Prior, Registry
      <4>2. Dead(u) \in killed /\ Dead(u).binding = b /\ Dead(u).generation = u.generation
        BY <4>1, DeadIs DEF Kill
      <4> QED
        BY <4>2 DEF Prior
    <3>3. \A g : (\E t \in Prior(killed, b) : t.generation = g)
                   <=> (\E u \in Prior(held[c], b) : u.generation = g)
      BY <3>1, <3>2
    <3> QED
      BY <3>3
  <2> HIDE DEF killed
  <2> QED
    BY <2>1 DEF NewToken, NextGeneration
<1> HIDE DEF b, K, killed
<1>6. b \in Bindings
  BY DEF b
<1>7. LET new == NewToken(killed, b) IN
      /\ new.id = nextId /\ new.binding = b
      /\ killed \cup {new} \in Registry
      /\ Clean(killed \cup {new}, nextId + 1, expired)
  BY <1>3, <1>4, <1>6, AddClean DEF Active
<1>8. Reissued(held[c], b) = killed \cup {NewToken(killed, b)}
  BY <1>2, <1>5 DEF Reissued
<1> QED
  BY <1>7, <1>8 DEF b, K, killed


\* An empty registry and idle commands satisfy the invariant.
LEMMA InitIInv == Init => IInv
<1> SUFFICES ASSUME Init PROVE IInv
  OBVIOUS
<1>1. 0 \in 0..MaxTokens /\ 1 \in 1..(MaxTokens + 1)
  BY TokenAssumption
<1>2. Types
  BY <1>1, EmptyClean DEF Init, Types
<1>3. CopiesInv
  BY EmptyClean DEF Init, CopiesInv
<1>4. SerialInv /\ DeliveryInv
  BY DEF Init, SerialInv, DeliveryInv, Busy, Exporting, Forgotten, Delivered, DeliveredTo,
     Prior
<1> QED
  BY <1>2, <1>3, <1>4 DEF IInv

\* What a version says is revoked, or was once, has an id that was given.
LEMMA GivenIds ==
  ASSUME NEW d \in Registry, NEW x, Clean(d, nextId, x)
  PROVE  \A t \in d : t.id \in {i \in Ids : i < nextId}
BY DEF Registry, Token, Clean

\* A save keeps the file and every copy clean.
LEMMA SaveStep ==
  ASSUME Types, CopiesInv, NEW c \in Commands,
         SaveIssue(c) \/ SaveReissue(c) \/ SaveRevoke(c)
  PROVE  Types' /\ CopiesInv'
<1>1. held[c] \in Registry /\ Clean(held[c], nextId, expired)
  BY DEF Types, CopiesInv
<1>2. CASE SaveIssue(c)
  <2>1. op[c] \in Minting /\ op[c].about \in Bindings
    BY <1>2, OpIs DEF SaveIssue
  <2>2. nextId \in Ids
    BY <1>2 DEF SaveIssue, Mint
  <2>3. /\ Issued(held[c], op[c].about) \in Registry
        /\ Clean(Issued(held[c], op[c].about), nextId + 1, expired)
    BY <1>2, <2>1, <2>2, IssuedIs DEF SaveIssue
  <2> QED
    BY <1>2, <2>1, <2>3, MintStep DEF SaveIssue
<1>3. CASE SaveReissue(c)
  <2>1. op[c] \in Minting /\ op[c].about \in Bindings
    BY <1>3, OpIs DEF SaveReissue
  <2>2. nextId \in Ids
    BY <1>3 DEF SaveReissue, Mint
  <2>3. /\ Reissued(held[c], op[c].about) \in Registry
        /\ Clean(Reissued(held[c], op[c].about), nextId + 1, expired)
    BY <2>1, <2>2, ReissuedIs
  <2>4. Superseded(held[c], op[c].about) \subseteq {i \in Ids : i < nextId}
    BY <1>1, GivenIds DEF Superseded, Prior
  <2> QED
    BY <1>3, <2>1, <2>3, <2>4, MintStep DEF SaveReissue
<1>4. CASE SaveRevoke(c)
  <2>1. file' = Kill(held[c], {op[c].about}) /\ Done(c)
        /\ UNCHANGED <<accessFile, expired, nextId, overlapped, torn>>
    BY <1>1, <1>4, RevokeIs DEF SaveRevoke
  <2>2. file' \in Registry /\ Clean(file', nextId, expired)
    BY <1>1, <2>1, KillIs, KillClean
  <2>3. op[c].about \in {i \in Ids : i < nextId}
    BY <1>1, <1>4, GivenIds DEF SaveRevoke, Named
  <2>4. confirmed' \subseteq {i \in Ids : i < nextId}
    BY <1>4, <2>3 DEF SaveRevoke, Report, Types
  <2>5. Types'
    BY <2>1, <2>2, <2>4, DoneIs DEF Types, LocalTypes
  <2> QED
    BY <2>1, <2>2, <2>5, DoneCopies
<1> QED
  BY <1>2, <1>3, <1>4

\* So do loading, the steps of an export, and giving up.
LEMMA OtherStep ==
  ASSUME Types, CopiesInv, NEW c \in Commands,
         \/ \E o \in Minting \cup Revoking : Load(c, o)
         \/ RenameAccess(c) \/ ExportDone(c) \/ RestoreOriginal(c) \/ Abandon(c)
  PROVE  Types' /\ CopiesInv'
<1>1. held[c] \in Registry /\ Clean(held[c], nextId, expired)
  BY DEF Types, CopiesInv
<1>2. ASSUME NEW o \in Minting \cup Revoking, Load(c, o)
      PROVE  Types' /\ CopiesInv'
  <2>1. /\ pc' = [pc EXCEPT ![c] = "loaded"] /\ op' = [op EXCEPT ![c] = o]
        /\ held' = [held EXCEPT ![c] = file] /\ moment' = [moment EXCEPT ![c] = expired]
        /\ overlapped' \in BOOLEAN
        /\ UNCHANGED <<file, accessFile, expired, nextId, minted, confirmed, torn>>
    BY <1>2 DEF Load, Types
  <2> QED
    BY <2>1 DEF Types, CopiesInv
<1>3. CASE RenameAccess(c)
  <2>1. /\ accessFile' = [accessFile EXCEPT ![op[c].about] = minted[c]]
        /\ pc' = [pc EXCEPT ![c] = "chmod"] /\ pc[c] = "renaming"
        /\ UNCHANGED <<file, expired, nextId, op, held, moment, minted, history>>
    BY <1>3 DEF RenameAccess
  <2> QED
    BY <2>1 DEF Types, CopiesInv, history
<1>4. CASE ExportDone(c)
  <2>1. confirmed' \subseteq {i \in Ids : i < nextId}
    BY <1>1, <1>4, GivenIds DEF ExportDone, Superseded, Prior, Types
  <2>2. Types'
    BY <1>4, <2>1, DoneIs DEF ExportDone, Types, LocalTypes
  <2> QED
    BY <1>4, <2>2, DoneCopies DEF ExportDone, CopiesInv
<1>5. CASE RestoreOriginal(c)
  <2>1. Types'
    BY <1>1, <1>5, DoneIs DEF RestoreOriginal, Types, LocalTypes
  <2> QED
    BY <1>1, <1>5, <2>1, DoneCopies DEF RestoreOriginal
<1>6. CASE Abandon(c)
  <2>1. Types'
    BY <1>6, DoneIs DEF Abandon, Types, LocalTypes
  <2> QED
    BY <1>6, <2>1, DoneCopies DEF Abandon, CopiesInv
<1> QED
  BY <1>2, <1>3, <1>4, <1>5, <1>6

\* So does a token that expires.
LEMMA ExpireStep ==
  ASSUME Types, CopiesInv, NEW i \in Ids, Expire(i)
  PROVE  Types' /\ CopiesInv'
<1>1. expired \subseteq expired' /\ nextId \in Nat
  BY DEF Expire, Types
<1>2. /\ Clean(file, nextId, expired')
      /\ \A c \in Commands : Clean(held[c], nextId, expired') /\ moment[c] \subseteq expired'
  BY <1>1, CleanGrows DEF Types, CopiesInv
<1> QED
  BY <1>2 DEF Expire, Types, CopiesInv, local, history

\* Every step keeps the file and every copy clean.
LEMMA CopiesStep ==
  ASSUME Types, CopiesInv, [Next]_vars
  PROVE  Types' /\ CopiesInv'
<1>1. CASE UNCHANGED vars
  BY <1>1 DEF vars, local, history, Types, CopiesInv
<1> QED
  BY <1>1, SaveStep, OtherStep, ExpireStep DEF Next, Command


-----------------------------------------------------------------------------
(* Commands that do not overlap.                                           *)

\* A command that ends was the only one.
LEMMA SerialDone ==
  ASSUME Types, SerialInv, NEW c \in Commands, Busy(c), Done(c),
         overlapped' = overlapped, ~overlapped => Forgotten(file)'
  PROVE  SerialInv'
<1> SUFFICES ASSUME ~overlapped
             PROVE  \A q \in Commands : ~Busy(q)'
  BY DEF SerialInv, Busy, Exporting
<1>1. \A q \in Commands : Busy(q) => q = c
  BY DEF SerialInv
<1> QED
  BY <1>1, DoneIs DEF Busy, Types

\* Nor does a save bring back what the version it is made from had dead.
LEMMA ForgottenAfter ==
  ASSUME NEW d \in Registry, NEW K, Clean(d, nextId, expired),
         NEW new, new.id = nextId, NEW dead, dead \subseteq K,
         dead \subseteq {i \in Ids : i < nextId}, Types,
         Forgotten(d), confirmed' \subseteq confirmed \cup dead
  PROVE  /\ \A t \in Kill(d, K) : t.id \in confirmed' => t.revoked
         /\ new.id \notin confirmed'
<1>1. \A t \in Kill(d, K) :
        t.id \in K => t.revoked
  BY KillIs
<1>2. \A t \in Kill(d, K) : t.id \notin K => t \in d
  BY KillIs
<1>3. nextId \notin confirmed /\ nextId \notin dead
  BY DEF Types, Ids
<1> QED
  BY <1>1, <1>2, <1>3 DEF Forgotten

\* Without a token to kill or to add.
LEMMA KillNothing ==
  ASSUME NEW d \in Registry
  PROVE  Kill(d, {}) = d
BY DEF Kill

\* A new token, when commands did not overlap: what was revoked stays
\* revoked.
LEMMA SerialMint ==
  ASSUME Types, CopiesInv, SerialInv, ~overlapped, NEW c \in Commands, pc[c] = "loaded",
         op[c] \in Minting,
         NEW K, NEW new, new.id = nextId, NEW dead, dead \subseteq K,
         dead \subseteq {i \in Ids : i < nextId},
         Mint(c, Kill(held[c], K) \cup {new}, dead),
         op[c].verb = "reissue" => Superseded(held[c], op[c].about) \subseteq K
  PROVE  SerialInv'
<1>1. /\ file' = Kill(held[c], K) \cup {new} /\ overlapped' = overlapped
      /\ confirmed' \subseteq confirmed \cup dead
  BY DEF Mint, Report
<1>2. held[c] \in Registry /\ Clean(held[c], nextId, expired) /\ Forgotten(held[c])
  BY DEF Types, CopiesInv, SerialInv, Busy
<1>3. Forgotten(file)'
  BY <1>1, <1>2, ForgottenAfter DEF Forgotten
<1>4. CASE op[c].about \notin SharedKbs
  <2>1. Done(c)
    BY <1>4 DEF Mint
  <2> QED
    BY <1>1, <1>3, <2>1, SerialDone DEF Busy
<1>5. CASE op[c].about \in SharedKbs
  <2>1. /\ pc' = [pc EXCEPT ![c] = "renaming"]
        /\ UNCHANGED <<op, held, moment, confirmed>>
    BY <1>5 DEF Mint
  <2>2. \A q \in Commands : Busy(q)' => q = c
    BY <2>1 DEF SerialInv, Busy, Types
  <2>3. ASSUME op[c].verb = "reissue", NEW t \in file',
               t.id \in Superseded(held[c], op[c].about)
        PROVE  t.revoked
    <3>1. t.id \in K
      BY <2>3
    <3>2. t.id # nextId
      BY <1>2, <2>3, GivenIds DEF Superseded, Prior, Ids, Types
    <3>3. t \in Kill(held[c], K)
      BY <1>1, <2>3, <3>2
    <3> QED
      BY <1>2, <3>1, <3>3, KillIs
  <2> QED
    BY <1>1, <1>2, <1>3, <2>1, <2>2, <2>3 DEF SerialInv, Busy, Exporting, Types, Forgotten
<1> QED
  BY <1>4, <1>5

\* A save, likewise.
LEMMA SerialSave ==
  ASSUME Types, CopiesInv, SerialInv, NEW c \in Commands,
         SaveIssue(c) \/ SaveReissue(c) \/ SaveRevoke(c)
  PROVE  SerialInv'
<1>1. overlapped' = overlapped
  BY DEF SaveIssue, SaveReissue, SaveRevoke, Mint
<1> SUFFICES ASSUME ~overlapped PROVE SerialInv'
  BY <1>1 DEF SerialInv
<1>2. held[c] \in Registry /\ Clean(held[c], nextId, expired)
  BY DEF Types, CopiesInv
<1>3. CASE SaveIssue(c)
  <2>1. op[c] \in Minting /\ op[c].about \in Bindings /\ op[c].verb # "reissue" /\ nextId \in Ids
    BY <1>3, OpIs DEF SaveIssue, Mint
  <2>2. /\ Issued(held[c], op[c].about) = held[c] \cup {NewToken(held[c], op[c].about)}
        /\ NewToken(held[c], op[c].about).id = nextId
    BY <1>3, <2>1, IssuedIs DEF SaveIssue
  <2>3. Mint(c, Kill(held[c], {}) \cup {NewToken(held[c], op[c].about)}, {})
    BY <1>2, <1>3, <2>2, KillNothing DEF SaveIssue
  <2> DEFINE new == NewToken(held[c], op[c].about)
             none == {}
  <2>4. /\ pc[c] = "loaded" /\ new.id = nextId /\ Mint(c, Kill(held[c], none) \cup {new}, none)
        /\ none \subseteq none /\ none \subseteq {i \in Ids : i < nextId}
    BY <1>3, <2>2, <2>3 DEF SaveIssue
  <2> HIDE DEF new, none
  <2> QED
    BY <2>1, <2>4, SerialMint
<1>4. CASE SaveReissue(c)
  <2> DEFINE K == {t.id : t \in Prior(held[c], op[c].about)}
             new == NewToken(Kill(held[c], K), op[c].about)
             dead == Superseded(held[c], op[c].about)
  <2>1. op[c] \in Minting /\ op[c].about \in Bindings /\ nextId \in Ids
    BY <1>4, OpIs DEF SaveReissue, Mint
  <2>2. Reissued(held[c], op[c].about) = Kill(held[c], K) \cup {new} /\ new.id = nextId
    BY <2>1, ReissuedIs
  <2>3. dead \subseteq K /\ dead \subseteq {i \in Ids : i < nextId}
    BY <1>2, GivenIds DEF Superseded, Prior
  <2>4. Mint(c, Kill(held[c], K) \cup {new}, dead) /\ pc[c] = "loaded"
    BY <1>4, <2>2 DEF SaveReissue
  <2> HIDE DEF K, new, dead
  <2> QED
    BY <2>1, <2>2, <2>3, <2>4, SerialMint DEF dead
<1>5. CASE SaveRevoke(c)
  <2> DEFINE i == op[c].about
  <2>1. file' = Kill(held[c], {i}) /\ Done(c) /\ confirmed' \subseteq confirmed \cup {i}
    BY <1>2, <1>5, RevokeIs DEF SaveRevoke, Report
  <2>2. {i} \subseteq {j \in Ids : j < nextId}
    BY <1>2, <1>5, GivenIds DEF SaveRevoke, Named
  <2>3. Forgotten(held[c])
    BY <1>5 DEF SaveRevoke, SerialInv, Busy
  <2>4. [id |-> nextId].id = nextId
    OBVIOUS
  <2>5. Forgotten(file)'
    BY <1>2, <2>1, <2>2, <2>3, <2>4, ForgottenAfter DEF Forgotten
  <2> QED
    BY <1>1, <1>5, <2>1, <2>5, SerialDone DEF SaveRevoke, Busy
<1> QED
  BY <1>3, <1>4, <1>5

\* Every step, likewise.
LEMMA SerialStep ==
  ASSUME Types, CopiesInv, SerialInv, [Next]_vars
  PROVE  SerialInv'
<1>1. CASE UNCHANGED vars
  BY <1>1 DEF vars, local, history, SerialInv, Busy, Exporting, Forgotten
<1>2. ASSUME NEW i \in Ids, Expire(i)
      PROVE  SerialInv'
  BY <1>2 DEF Expire, local, history, SerialInv, Busy, Exporting, Forgotten
<1>3. ASSUME NEW c \in Commands, NEW o \in Minting \cup Revoking, Load(c, o)
      PROVE  SerialInv'
  <2>1. /\ pc' = [pc EXCEPT ![c] = "loaded"] /\ held' = [held EXCEPT ![c] = file]
        /\ UNCHANGED <<file, confirmed>>
        /\ ~overlapped' => ~overlapped /\ \A q \in Commands : ~Busy(q)
    BY <1>3 DEF Load, Busy
  <2> QED
    BY <2>1 DEF SerialInv, Busy, Exporting, Forgotten, Types
<1>4. ASSUME NEW c \in Commands, RenameAccess(c)
      PROVE  SerialInv'
  <2>1. /\ pc' = [pc EXCEPT ![c] = "chmod"] /\ pc[c] = "renaming"
        /\ UNCHANGED <<file, op, held, confirmed, overlapped>>
    BY <1>4 DEF RenameAccess, history
  <2> QED
    BY <2>1 DEF SerialInv, Busy, Exporting, Forgotten, Types
<1>5. ASSUME NEW c \in Commands, ExportDone(c)
      PROVE  SerialInv'
  <2>1. ~overlapped => Forgotten(file)'
    BY <1>5 DEF ExportDone, SerialInv, Exporting, Forgotten
  <2> QED
    BY <1>5, <2>1, SerialDone DEF ExportDone, Busy
<1>6. ASSUME NEW c \in Commands, RestoreOriginal(c)
      PROVE  SerialInv'
  <2>1. ~overlapped => Forgotten(file)'
    BY <1>6 DEF RestoreOriginal, SerialInv, Busy, Forgotten
  <2> QED
    BY <1>6, <2>1, SerialDone DEF RestoreOriginal, Busy
<1>7. ASSUME NEW c \in Commands, Abandon(c)
      PROVE  SerialInv'
  <2>1. ~overlapped => Forgotten(file)'
    BY <1>7 DEF Abandon, SerialInv, Forgotten
  <2> QED
    BY <1>7, <2>1, SerialDone DEF Abandon, Busy
<1> QED
  BY <1>1, <1>2, <1>3, <1>4, <1>5, <1>6, <1>7, SerialSave DEF Next, Command


-----------------------------------------------------------------------------
(* The registry and the access files.                                      *)

\* The tokens of a new version that are active are tokens of the old one, but
\* for the new one.
DeliveryAfter(d, e, b) ==
  /\ \A t \in e : t.binding # b /\ Active(t, expired) => t \in d
  /\ \A t \in e : t.binding = b /\ Active(t, expired) => t.id = nextId

\* A new token of an exported library: its export is under way or the
\* exported one still accepted.
LEMMA DeliveryMint ==
  ASSUME Types, CopiesInv, SerialInv, DeliveryInv, NEW c \in Commands, pc[c] = "loaded",
         NEW d, NEW dead, Mint(c, d, dead), DeliveryAfter(held[c], d, op[c].about)
  PROVE  DeliveryInv'
<1>1. /\ file' = d /\ UNCHANGED <<accessFile, expired, overlapped, torn>>
  BY DEF Mint
<1> SUFFICES ASSUME ~overlapped, ~torn PROVE DeliveryInv'
  BY <1>1 DEF DeliveryInv
<1>2. held[c] = file /\ \A q \in Commands : pc[q] # "idle" => q = c
  BY DEF SerialInv, Busy
<1>3. Delivered(file)
  BY <1>2 DEF DeliveryInv
<1>4. \A k \in SharedKbs \ {op[c].about} : DeliveredTo(k, file)'
  BY <1>1, <1>2, <1>3 DEF DeliveryAfter, Delivered, DeliveredTo, Prior, Active
<1>5. CASE op[c].about \notin SharedKbs
  <2>1. Done(c)
    BY <1>5 DEF Mint
  <2>2. \A q \in Commands : pc'[q] = "idle"
    BY <1>2, <2>1, DoneIs DEF Types
  <2>3. Delivered(file)'
    BY <1>4, <1>5 DEF Delivered
  <2> QED
    BY <2>2, <2>3 DEF DeliveryInv
<1>6. CASE op[c].about \in SharedKbs
  <2>1. /\ pc' = [pc EXCEPT ![c] = "renaming"] /\ minted' = [minted EXCEPT ![c] = nextId]
        /\ UNCHANGED <<op, held, moment, confirmed>>
    BY <1>6 DEF Mint
  <2>2. \A q \in Commands : pc'[q] = "renaming" <=> q = c
    BY <1>2, <2>1 DEF Types
  <2>3. Delivered(held[c])'
    BY <1>1, <1>2, <1>3, <2>1 DEF Delivered, DeliveredTo, Prior, Active
  <2>4. \A t \in Prior(file, op[c].about)' : Active(t, expired)' => t.id = minted'[c]
    BY <1>1, <2>1 DEF DeliveryAfter, Prior, Active, Types
  <2> QED
    BY <1>4, <2>1, <2>2, <2>3, <2>4 DEF DeliveryInv
<1> QED
  BY <1>5, <1>6

\* A save, likewise.
LEMMA DeliverySave ==
  ASSUME Types, CopiesInv, SerialInv, DeliveryInv, NEW c \in Commands,
         SaveIssue(c) \/ SaveReissue(c) \/ SaveRevoke(c)
  PROVE  DeliveryInv'
<1>1. held[c] \in Registry /\ Clean(held[c], nextId, expired)
  BY DEF Types, CopiesInv
<1>2. CASE SaveIssue(c)
  <2> DEFINE b == op[c].about
             new == NewToken(held[c], b)
  <2>1. op[c] \in Minting /\ b \in Bindings /\ nextId \in Ids
    BY <1>2, OpIs DEF SaveIssue, Mint
  <2>2. /\ \A t \in Prior(held[c], b) : ~Active(t, expired)
        /\ Issued(held[c], b) = held[c] \cup {new} /\ new.id = nextId /\ new.binding = b
    BY <1>2, <2>1, IssuedIs DEF SaveIssue
  <2> HIDE DEF new
  <2>3. DeliveryAfter(held[c], Issued(held[c], b), b)
    BY <2>2 DEF DeliveryAfter, Prior
  <2> QED
    BY <1>2, <2>3, DeliveryMint DEF SaveIssue
<1>3. CASE SaveReissue(c)
  <2> DEFINE b == op[c].about
             K == {t.id : t \in Prior(held[c], b)}
             killed == Kill(held[c], K)
             new == NewToken(killed, b)
  <2>1. op[c] \in Minting /\ b \in Bindings /\ nextId \in Ids
    BY <1>3, OpIs DEF SaveReissue, Mint
  <2>2. Reissued(held[c], b) = killed \cup {new} /\ new.id = nextId /\ new.binding = b
    BY <2>1, ReissuedIs
  <2>3. \A t \in killed : Active(t, expired) => t \in held[c] /\ t.id \notin K
    BY <1>1, KillIs DEF Active
  <2>4. \A t \in held[c] : t.id \notin K => t.binding # b
    BY DEF Prior
  <2> HIDE DEF new, killed, K
  <2>5. DeliveryAfter(held[c], Reissued(held[c], b), b)
    BY <2>2, <2>3, <2>4 DEF DeliveryAfter
  <2> QED
    BY <1>3, <2>5, DeliveryMint DEF SaveReissue
<1>4. CASE SaveRevoke(c)
  <2>1. /\ file' = Kill(held[c], {op[c].about}) /\ Done(c) /\ pc[c] = "loaded"
        /\ UNCHANGED <<accessFile, expired, nextId, overlapped, torn>>
    BY <1>1, <1>4, RevokeIs DEF SaveRevoke
  <2> SUFFICES ASSUME ~overlapped, ~torn PROVE DeliveryInv'
    BY <2>1 DEF DeliveryInv
  <2>2. held[c] = file /\ \A q \in Commands : pc[q] # "idle" => q = c
    BY <2>1 DEF SerialInv, Busy
  <2>3. Delivered(file)
    BY <2>1, <2>2 DEF DeliveryInv
  <2>4. \A t \in file' : Active(t, expired) => t \in file
    BY <1>1, <2>1, <2>2, KillIs DEF Active
  <2>5. Delivered(file)'
    BY <2>1, <2>3, <2>4 DEF Delivered, DeliveredTo, Prior, Active
  <2>6. \A q \in Commands : pc'[q] = "idle"
    BY <2>1, <2>2, DoneIs DEF Types
  <2> QED
    BY <2>5, <2>6 DEF DeliveryInv
<1> QED
  BY <1>2, <1>3, <1>4

\* A command ends, and leaves a version that is delivered.
LEMMA DeliveryDone ==
  ASSUME Types, SerialInv, NEW c \in Commands, Busy(c), Done(c),
         overlapped' = overlapped, torn => torn',
         ~overlapped /\ ~torn' => Delivered(file)'
  PROVE  DeliveryInv'
<1> SUFFICES ASSUME ~overlapped, ~torn'
             PROVE  \A q \in Commands : pc'[q] # "renaming"
  BY DEF DeliveryInv
<1>1. \A q \in Commands : pc[q] # "idle" => q = c
  BY DEF SerialInv, Busy
<1> QED
  BY <1>1, DoneIs DEF Types

\* Every step, likewise.
LEMMA DeliveryStep ==
  ASSUME Types, CopiesInv, SerialInv, DeliveryInv, [Next]_vars
  PROVE  DeliveryInv'
<1> USE DEF Delivered, DeliveredTo
<1>1. CASE UNCHANGED vars
  BY <1>1 DEF vars, local, history, DeliveryInv, Prior
<1>2. ASSUME NEW i \in Ids, Expire(i)
      PROVE  DeliveryInv'
  BY <1>2 DEF Expire, local, history, DeliveryInv, Prior, Active
<1>3. ASSUME NEW c \in Commands, NEW o \in Minting \cup Revoking, Load(c, o)
      PROVE  DeliveryInv'
  <2>1. /\ pc' = [pc EXCEPT ![c] = "loaded"]
        /\ UNCHANGED <<file, accessFile, expired, torn>>
        /\ ~overlapped' => ~overlapped /\ \A q \in Commands : pc[q] = "idle"
    BY <1>3 DEF Load
  <2> QED
    BY <2>1 DEF DeliveryInv, Prior, Types
<1>4. ASSUME NEW c \in Commands, RenameAccess(c)
      PROVE  DeliveryInv'
  <2>1. /\ accessFile' = [accessFile EXCEPT ![op[c].about] = minted[c]]
        /\ pc' = [pc EXCEPT ![c] = "chmod"] /\ pc[c] = "renaming"
        /\ UNCHANGED <<file, expired, op, held, overlapped, torn>>
    BY <1>4 DEF RenameAccess, history
  <2>2. op[c].about \in SharedKbs
    BY <2>1 DEF CopiesInv
  <2>3. ASSUME ~overlapped, ~torn
        PROVE  Delivered(file)' /\ \A q \in Commands : pc'[q] # "renaming"
    <3>1. \A q \in Commands : pc[q] # "idle" => q = c
      BY <2>1, <2>3 DEF SerialInv, Busy
    <3>2. /\ \A k \in SharedKbs \ {op[c].about} : DeliveredTo(k, file)
          /\ \A t \in Prior(file, op[c].about) : Active(t, expired) => t.id = minted[c]
      BY <2>1, <2>3 DEF DeliveryInv
    <3>3. Delivered(file)'
      BY <2>1, <2>2, <3>2 DEF Prior, Types
    <3> QED
      BY <2>1, <3>1, <3>3 DEF Types
  <2> QED
    BY <2>1, <2>3 DEF DeliveryInv
<1>5. ASSUME NEW c \in Commands, ExportDone(c)
      PROVE  DeliveryInv'
  <2>1. ~overlapped /\ ~torn => Delivered(file)
    BY <1>5 DEF ExportDone, SerialInv, Busy, DeliveryInv
  <2>2. ~overlapped /\ ~torn => Delivered(file)'
    BY <1>5, <2>1 DEF ExportDone, Prior
  <2> QED
    BY <1>5, <2>2, DeliveryDone DEF ExportDone, Busy
<1>6. ASSUME NEW c \in Commands, RestoreOriginal(c)
      PROVE  DeliveryInv'
  <2>1. ~overlapped /\ ~torn' => Delivered(held[c])
    BY <1>6 DEF RestoreOriginal, DeliveryInv
  <2>2. ~overlapped /\ ~torn' => Delivered(file)'
    BY <1>6, <2>1 DEF RestoreOriginal, Prior
  <2> QED
    BY <1>6, <2>2, DeliveryDone DEF RestoreOriginal, Busy
<1>7. ASSUME NEW c \in Commands, Abandon(c)
      PROVE  DeliveryInv'
  <2>1. ~overlapped /\ ~torn' => Delivered(file)
    BY <1>7 DEF Abandon, SerialInv, Busy, DeliveryInv
  <2>2. ~overlapped /\ ~torn' => Delivered(file)'
    BY <1>7, <2>1 DEF Abandon, Prior
  <2> QED
    BY <1>7, <2>2, DeliveryDone DEF Abandon, Busy
<1> QED
  BY <1>1, <1>2, <1>3, <1>4, <1>5, <1>6, <1>7, DeliverySave DEF Next, Command

-----------------------------------------------------------------------------
(* The theorems.                                                           *)

\* The inductive invariant: every version some command holds is well formed
\* by itself, and those of commands that do not overlap follow each other.
THEOREM Invariant == Spec => []IInv
<1>1. IInv /\ [Next]_vars => IInv'
  BY CopiesStep, SerialStep, DeliveryStep DEF IInv
<1> QED
  BY InitIInv, <1>1, PTL DEF Spec

\* A binding never has two live generations, whatever the order in which
\* commands replace the file (issue_bindings, reissue).
THEOREM OneGenerationLives == Spec => []OneLiveGeneration
<1>1. IInv => OneLiveGeneration
  BY DEF IInv, CopiesInv, Clean, OneLiveGeneration
<1> QED
  BY <1>1, Invariant, PTL

\* Nor two tokens of the same generation (_next_generation).
THEOREM GenerationsAreDistinct == Spec => []GenerationsDistinct
<1>1. IInv => GenerationsDistinct
  BY DEF IInv, CopiesInv, Clean, GenerationsDistinct
<1> QED
  BY <1>1, Invariant, PTL

\* As long as no two commands overlap, a token whose revocation was reported
\* is never accepted again (revoke, reissue, export_access).
THEOREM SerialRevocations == Spec => []SerialRevocationSticks
<1>1. IInv => SerialRevocationSticks
  BY DEF IInv, SerialInv, Forgotten, SerialRevocationSticks, RevocationIsImmediate
<1> QED
  BY <1>1, Invariant, PTL

\* And the token the gateway accepts for a library is the one in its access
\* file (export_access).
THEOREM Delivery == Spec => []SharedTokenIsDelivered
<1>1. IInv => SharedTokenIsDelivered
  BY DEF IInv, DeliveryInv, Delivered, DeliveredTo, SharedTokenIsDelivered
<1> QED
  BY <1>1, Invariant, PTL

\* Types; ids below the next one, and one token for an id.
THEOREM TypeCorrect == Spec => []TypeOK
<1>1. IInv => TypeOK
  BY DEF IInv, Types, CopiesInv, Clean, TypeOK
<1> QED
  BY <1>1, Invariant, PTL
=============================================================================
