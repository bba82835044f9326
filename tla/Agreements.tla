----------------------------- MODULE Agreements -----------------------------
(***************************************************************************)
(* The platform agreement (ops/agreements): operators publish numbered     *)
(* PDF versions, the owners of a tenant read the current one and sign it.  *)
(*                                                                         *)
(* A publish is three steps of an operator: the transaction takes the      *)
(* advisory lock and reads the latest number, writes the row and commits,  *)
(* and then the audit row is written outside it.  An owner looks at the    *)
(* current version, opens its file, and signs in two steps: the checks     *)
(* read the current version, the write follows; no lock is held, so a      *)
(* version may be published and another owner may sign in between.  The    *)
(* database keeps the version number unique, and the pair of a tenant and  *)
(* a version.  A file stands for its hash.                                 *)
(***************************************************************************)
EXTENDS Naturals, FiniteSets, FiniteSetsExt

CONSTANTS
  Publishers,    \* operators
  Signers,       \* owners' browsers
  TenantOf,      \* the tenant of each signer
  Files,         \* PDF files
  NoFile,        \* the file of a version published as text, before PDFs
  MaxVersions    \* bound: versions

ASSUME AgreementsAssumption == NoFile \notin Files /\ MaxVersions \in Nat \ {0}

VARIABLES
  versions,    \* agreement_versions: number and file
  signatures,  \* agreement_signatures; `read' is history: the version opened
  announced,        \* the versions of 'agreement.published' audit rows
  press,       \* per operator: the publish under way
  pen          \* per signer: what it was shown, and the signing under way

agreementVars == <<versions, signatures, announced, press, pen>>

NoVersion == [version |-> 0, file |-> NoFile]
Latest == IF versions = {} THEN 0 ELSE Max({v.version : v \in versions})

\* The latest version, or none.
current == IF versions = {} THEN NoVersion ELSE CHOOSE v \in versions : v.version = Latest

AtRest == [at |-> "rest", next |-> 0]
Unread == [at |-> "idle", shown |-> NoVersion, opened |-> NoFile, current |-> NoVersion]

\* With or without a text version left from before.
AgreementsInit ==
  /\ versions \in {{}, {[version |-> 1, file |-> NoFile]}}
  /\ signatures = {} /\ announced = {}
  /\ press = [p \in Publishers |-> AtRest]
  /\ pen = [s \in Signers |-> Unread]

-----------------------------------------------------------------------------
\* publish()

Mut_LockFree == TRUE

\* pg_advisory_xact_lock: held from the read to the commit.
LockFree == \A p \in Publishers : press[p].at # "locked"

PublishLock(p) ==
  /\ press[p].at = "rest"
  /\ LockFree
  /\ Latest < MaxVersions
  /\ press' = [press EXCEPT ![p] = [at |-> "locked", next |-> Latest + 1]]
  /\ UNCHANGED <<versions, signatures, announced, pen>>

\* The number was taken meanwhile: the unique index refuses the row.
PublishWrite(p, f) ==
  /\ press[p].at = "locked"
  /\ IF \E v \in versions : v.version = press[p].next
     THEN /\ press' = [press EXCEPT ![p] = AtRest]
          /\ UNCHANGED versions
     ELSE /\ press' = [press EXCEPT ![p].at = "written"]
          /\ versions' = versions \cup {[version |-> press[p].next, file |-> f]}
  /\ UNCHANGED <<signatures, announced, pen>>

PublishAudit(p) ==
  /\ press[p].at = "written"
  /\ announced' = announced \cup {press[p].next}
  /\ press' = [press EXCEPT ![p] = AtRest]
  /\ UNCHANGED <<versions, signatures, pen>>

\* The connection is lost: before the commit nothing is kept, after it the
\* audit row is.
PublishLost(p) ==
  /\ press[p].at # "rest"
  /\ press' = [press EXCEPT ![p] = AtRest]
  /\ UNCHANGED <<versions, signatures, announced, pen>>

-----------------------------------------------------------------------------
\* Reading and signing

ownerView(s) ==
  /\ pen[s].at = "idle"
  /\ versions # {}
  /\ pen' = [pen EXCEPT ![s] = [Unread EXCEPT !.shown = current]]
  /\ UNCHANGED <<versions, signatures, announced, press>>

\* file(): any version that has one may be fetched; the owner's page fetches
\* the version it shows.
file(s) ==
  /\ pen[s].at = "idle"
  /\ pen[s].shown.file # NoFile
  /\ pen' = [pen EXCEPT ![s].opened = pen[s].shown.file]
  /\ UNCHANGED <<versions, signatures, announced, press>>

\* sign()'s checks: the version asked for is still the current one, it has a
\* file, and that file is the one the owner was shown.
Signable(c, shown, sha) ==
  c.version = shown.version /\ c.file # NoFile /\ sha = c.file

SignLoad(s) ==
  /\ pen[s].at = "idle"
  /\ versions # {}
  /\ pen[s].opened # NoFile
  /\ Signable(current, pen[s].shown, pen[s].opened)
  /\ pen' = [pen EXCEPT ![s].at = "loaded", ![s].current = current]
  /\ UNCHANGED <<versions, signatures, announced, press>>

\* already_signed: the unique index refuses a second row of the tenant.
SignWrite(s) ==
  LET c == pen[s].current IN
  /\ pen[s].at = "loaded"
  /\ signatures' =
       IF \E g \in signatures : g.tenant = TenantOf[s] /\ g.version = c.version
       THEN signatures
       ELSE signatures \cup {[tenant |-> TenantOf[s], version |-> c.version, signer |-> s,
                              evidence |-> c.file, read |-> pen[s].shown.version]}
  /\ pen' = [pen EXCEPT ![s] = Unread]
  /\ UNCHANGED <<versions, announced, press>>

AgreementsNext ==
  \/ \E p \in Publishers :
       PublishLock(p) \/ PublishAudit(p) \/ PublishLost(p) \/ \E f \in Files : PublishWrite(p, f)
  \/ \E s \in Signers : ownerView(s) \/ file(s) \/ SignLoad(s) \/ SignWrite(s)

AgreementsSpec == AgreementsInit /\ [][AgreementsNext]_agreementVars

-----------------------------------------------------------------------------
\* What the operator's console says of a tenant.
forTenant(t) ==
  CASE versions = {} -> "no_agreement"
    [] versions # {} /\ (\E g \in signatures : g.tenant = t /\ g.version = Latest) -> "signed"
    [] OTHER -> "pending"

\* publish()'s comment, "version numbers stay gap-free", and the schema's
\* "record of exactly what was accepted": no publish is refused for a number
\* another took, versions count up from 1 one file each, and a tenant has one
\* signature of a version at most, made by an owner who was shown that very
\* version and whose evidence is that version's file.  A tenant the console
\* calls signed has such a signature of the latest version.
SignedAsRead ==
  /\ {v.version : v \in versions} = 1..Cardinality(versions)
  /\ \A p \in Publishers : press[p].at = "locked" => press[p].next = Latest + 1
  /\ \A g \in signatures :
       /\ g.read = g.version
       /\ [version |-> g.version, file |-> g.evidence] \in versions
       /\ \A h \in signatures : h.tenant = g.tenant /\ h.version = g.version => h = g
  /\ \A s \in Signers : forTenant(TenantOf[s]) = "signed" => current.file # NoFile
=============================================================================
