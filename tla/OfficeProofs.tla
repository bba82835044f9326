---------------------------- MODULE OfficeProofs ----------------------------
(***************************************************************************)
(* Proofs about the back office, for any number of requests in flight: a   *)
(* tenant's status and audit trail (TenantLifecycle), its onboarding       *)
(* (Onboarding), the agreement it signs (Agreements), what its menu offers *)
(* (MenuBook) and what the dishes cost (MenuPrices); the menu an import    *)
(* leaves (MenuImport), the alerts of silent devices (SyncHealth) and the  *)
(* sales as four readers of the rows show them (SalesFigures).             *)
(***************************************************************************)
EXTENDS TenantLifecycle, Onboarding, Agreements, MenuBook, MenuPrices, MenuImport, SyncHealth, SalesFigures,
        Sums, FiniteSetTheorems, SequenceTheorems, TLAPS

-----------------------------------------------------------------------------
(* The status and the audit trail.  Whoever writes the status writes the   *)
(* event in the same transaction, so the two move together; the request    *)
(* that was checked against an older status does not matter.               *)

\* The tenant's row and the newest events keep their types.
LifecycleTypeOK ==
  /\ moment \in Nat
  /\ tenant \in [status : {"provisioning", "active", "inactive"}, liveSince : Nat, deleted : BOOLEAN]
  /\ told \in [tenant : {"provisioned", "activated", "deactivated", "reactivated", "went_live"},
               sub : {"none", "suspend", "resume"}]

\* The inductive invariant of the tenant's lifecycle.
LifecycleInv == LifecycleTypeOK /\ AuditTellsStatus

\* A step that changes neither row nor event.
LEMMA UntoldStep ==
  ASSUME LifecycleInv, moment' \in Nat, UNCHANGED <<tenant, sub, told>>
  PROVE  LifecycleInv'
BY DEF LifecycleInv, LifecycleTypeOK, AuditTellsStatus, StatusTold

\* A step that changes the tenant's row, but not its status.
LEMMA SameStatusStep ==
  ASSUME LifecycleInv, UNCHANGED <<moment, sub, told>>, tenant'.status = tenant.status,
         tenant' \in [status : {"provisioning", "active", "inactive"}, liveSince : Nat, deleted : BOOLEAN]
  PROVE  LifecycleInv'
BY DEF LifecycleInv, LifecycleTypeOK, AuditTellsStatus, StatusTold

\* The four events that tell of a status, with the status they tell of.
LEMMA ToldStep ==
  ASSUME LifecycleInv, UNCHANGED <<moment, sub>>, NEW event, NEW status,
         \/ event \in {"activated", "reactivated", "went_live"} /\ status = "active"
         \/ event = "deactivated" /\ status = "inactive",
         tenant' = [tenant EXCEPT !.status = status],
         told' = [told EXCEPT !.tenant = event]
  PROVE  LifecycleInv'
<1>1. /\ tenant' \in [status : {"provisioning", "active", "inactive"}, liveSince : Nat, deleted : BOOLEAN]
      /\ tenant'.status = status
  BY DEF LifecycleInv, LifecycleTypeOK
<1>2. /\ told' \in [tenant : {"provisioned", "activated", "deactivated", "reactivated", "went_live"},
                    sub : {"none", "suspend", "resume"}]
      /\ told'.tenant = event /\ told'.sub = told.sub
  BY DEF LifecycleInv, LifecycleTypeOK
<1>3. tenant'.status = StatusTold'
  BY <1>1, <1>2 DEF StatusTold
<1>4. LifecycleTypeOK'
  BY <1>1, <1>2 DEF LifecycleInv, LifecycleTypeOK
<1> QED
  BY <1>2, <1>3, <1>4 DEF LifecycleInv, AuditTellsStatus

\* The first sale of a provisioning tenant, and any other finalize.
LEMMA FinalizeLifecycleStep ==
  ASSUME LifecycleInv, NEW k \in Seats, commitFinalize(k)
  PROVE  LifecycleInv'
<1>1. CASE trade # "open"
  BY <1>1, UntoldStep DEF commitFinalize, LifecycleInv, LifecycleTypeOK
<1>2. CASE trade = "open" /\ WentLive
  <2>1. tenant' = [tenant EXCEPT !.status = "active"] /\ told' = [told EXCEPT !.tenant = "went_live"]
    BY <1>2 DEF commitFinalize, WentLive
  <2> QED
    BY <2>1, ToldStep DEF commitFinalize
<1>3. CASE trade = "open" /\ ~WentLive
  <2>1. tenant' = [tenant EXCEPT !.status = tenant.status] /\ told' = told
    BY <1>3 DEF commitFinalize, WentLive
  <2>2. tenant' = tenant
    BY <2>1 DEF LifecycleInv, LifecycleTypeOK
  <2> QED
    BY <2>1, <2>2, UntoldStep DEF commitFinalize, LifecycleInv, LifecycleTypeOK
<1> QED
  BY <1>1, <1>2, <1>3

\* Every step of operators, owner, tills and time keeps the invariant.
LEMMA LifecycleInductive == LifecycleInv /\ [LifecycleNext]_lifecycleVars => LifecycleInv'
<1> SUFFICES ASSUME LifecycleInv, [LifecycleNext]_lifecycleVars PROVE LifecycleInv'
  OBVIOUS
<1> USE LifecycleInv
<1>1. moment \in Nat /\ moment + 1 \in Nat
  BY DEF LifecycleInv, LifecycleTypeOK
<1>2. CASE TimeGoes \/ updateStep \/ OpenOrder \/ UNCHANGED lifecycleVars
  BY <1>1, <1>2, UntoldStep DEF TimeGoes, updateStep, OpenOrder, lifecycleVars
<1>3. ASSUME NEW k \in Seats, NEW op, Take(k, op) PROVE LifecycleInv'
  BY <1>1, <1>3, UntoldStep DEF Take
<1>4. ASSUME NEW k \in Seats, StatusWrite(k) PROVE LifecycleInv'
  <2>1. seat[k].op \in {"activated", "deactivated", "reactivated"}
    BY <1>4 DEF StatusWrite, To
  <2> QED
    BY <1>4, <2>1, ToldStep DEF StatusWrite, To
<1>5. ASSUME NEW k \in Seats, setMode(k) \/ softDelete(k) PROVE LifecycleInv'
  <2>1. /\ tenant' \in [status : {"provisioning", "active", "inactive"}, liveSince : Nat, deleted : BOOLEAN]
        /\ tenant'.status = tenant.status
    <3>1. ASSUME NEW n \in Nat, tenant' = [tenant EXCEPT !.liveSince = n] 
          PROVE  /\ tenant' \in [status : {"provisioning", "active", "inactive"}, liveSince : Nat, deleted : BOOLEAN]
                 /\ tenant'.status = tenant.status
      BY <3>1 DEF LifecycleInv, LifecycleTypeOK
    <3>2. CASE tenant' = [tenant EXCEPT !.deleted = TRUE]
      BY <3>2 DEF LifecycleInv, LifecycleTypeOK
    <3> QED
      BY <1>1, <1>5, <3>1, <3>2 DEF setMode, softDelete
  <2> QED
    BY <1>5, <2>1, SameStatusStep DEF setMode, softDelete
<1>6. ASSUME NEW k \in Seats, SubWrite(k) PROVE LifecycleInv'
  <2>1. /\ told' \in [tenant : {"provisioned", "activated", "deactivated", "reactivated", "went_live"},
                      sub : {"none", "suspend", "resume"}]
        /\ told'.tenant = told.tenant /\ told'.sub = seat[k].op
    BY <1>6 DEF SubWrite, LifecycleInv, LifecycleTypeOK
  <2>2. (sub' = "suspended") = (told'.sub = "suspend")
    BY <1>6, <2>1 DEF SubWrite
  <2>3. tenant' = tenant /\ moment' = moment
    BY <1>6 DEF SubWrite
  <2>4. LifecycleTypeOK'
    BY <2>1, <2>3 DEF LifecycleInv, LifecycleTypeOK
  <2>5. tenant'.status = StatusTold'
    BY <2>1, <2>3 DEF LifecycleInv, AuditTellsStatus, StatusTold
  <2> QED
    BY <2>2, <2>4, <2>5 DEF LifecycleInv, AuditTellsStatus
<1>7. ASSUME NEW k \in Seats, GoLiveRead(k) PROVE LifecycleInv'
  BY <1>1, <1>7, UntoldStep DEF GoLiveRead
<1>8. ASSUME NEW k \in Seats, goLive(k) PROVE LifecycleInv'
  BY <1>8, ToldStep DEF goLive
<1> QED
  BY <1>2, <1>3, <1>4, <1>5, <1>6, <1>7, <1>8, FinalizeLifecycleStep
     DEF LifecycleNext, StatusRead, ModeRead, DeleteRead, SubRead, GoLiveAdmit, SaleAdmit

\* The audit trail tells the status a tenant has and whether its subscription
\* is suspended, however many operators, Go lives and first sales cross.
THEOREM AuditTrailTrue == LifecycleSpec => []AuditTellsStatus
<1>1. LifecycleInit => LifecycleInv
  BY DEF LifecycleInit, LifecycleInv, LifecycleTypeOK, AuditTellsStatus, StatusTold
<1>2. LifecycleInv => AuditTellsStatus
  BY DEF LifecycleInv
<1> QED
  BY <1>1, <1>2, LifecycleInductive, PTL DEF LifecycleSpec

-----------------------------------------------------------------------------
(* Onboarding.  Insertable is evaluated by the insert itself, so what the  *)
(* wizard had checked before does not matter.                              *)

NewTenant == [slug : {Candidates[i] : i \in DOMAIN Candidates}, tax : Registrations, by : Operators]

\* What was created is a sequence of tenants, and a submit names one.
OnboardingTypeOK ==
  /\ tenants \in Seq(NewTenant)
  /\ DOMAIN wizard = Wizards
  /\ \A w \in Wizards : wizard[w].op = "submit" =>
       [slug |-> wizard[w].slug, tax |-> wizard[w].tax, by |-> wizard[w].by] \in NewTenant

\* The inductive invariant of onboarding.
OnboardingInv == OnboardingTypeOK /\ NoTwinTenants

\* Every step of the wizards keeps the invariant.
LEMMA OnboardingInductive == OnboardingInv /\ [OnboardingNext]_onboardingVars => OnboardingInv'
<1> SUFFICES ASSUME OnboardingInv, [OnboardingNext]_onboardingVars PROVE OnboardingInv'
  OBVIOUS
<1>1. ASSUME NEW w \in Wizards, NEW x, wizard' = [wizard EXCEPT ![w] = x], UNCHANGED tenants,
             x.op = "submit" => [slug |-> x.slug, tax |-> x.tax, by |-> x.by] \in NewTenant
      PROVE  OnboardingInv'
  <2>1. /\ DOMAIN wizard' = Wizards /\ wizard'[w] = x
        /\ \A v \in Wizards \ {w} : wizard'[v] = wizard[v]
    BY <1>1 DEF OnboardingInv, OnboardingTypeOK
  <2> QED
    BY <1>1, <2>1 DEF OnboardingInv, OnboardingTypeOK, NoTwinTenants
<1>2. IdleWizard.op = "idle"
  BY DEF IdleWizard
<1>3. ASSUME NEW w \in Wizards, NEW o \in Operators, NEW s \in Steps, SaveRead(w, o, s) PROVE OnboardingInv'
  BY <1>1, <1>3 DEF SaveRead
<1>4. ASSUME NEW w \in Wizards, saveDraftStep(w) PROVE OnboardingInv'
  BY <1>1, <1>2, <1>4 DEF saveDraftStep
<1>5. ASSUME NEW w \in Wizards, NEW o \in Operators, NEW tax \in Registrations, chooseSlug(w, o, tax)
      PROVE  OnboardingInv'
  <2>1. PICK i \in DOMAIN Candidates :
          wizard' = [wizard EXCEPT ![w] = [op |-> "submit", by |-> o, slug |-> Candidates[i], tax |-> tax]]
    BY <1>5 DEF chooseSlug
  <2>2. [slug |-> Candidates[i], tax |-> tax, by |-> o] \in NewTenant
    BY DEF NewTenant
  <2> QED
    BY <1>1, <1>5, <2>1, <2>2 DEF chooseSlug
<1>6. ASSUME NEW w \in Wizards, provision(w) PROVE OnboardingInv'
  <2> DEFINE new == [slug |-> wizard[w].slug, tax |-> wizard[w].tax, by |-> wizard[w].by]
  <2>1. CASE ~Insertable(wizard[w])
    BY <1>1, <1>2, <1>6, <2>1 DEF provision
  <2>2. CASE Insertable(wizard[w])
    <3>1. /\ tenants' = Append(tenants, new) /\ wizard' = [wizard EXCEPT ![w] = IdleWizard]
          /\ wizard[w].op = "submit"
      BY <1>6, <2>2 DEF provision
    <3>2. new \in NewTenant /\ new.slug = wizard[w].slug /\ new.tax = wizard[w].tax
      BY <3>1 DEF OnboardingInv, OnboardingTypeOK
    <3>3. \A i \in DOMAIN tenants : tenants[i].slug # new.slug /\ tenants[i].tax # new.tax
      BY <2>2, <3>2 DEF Insertable
    <3> HIDE DEF new
    <3>4. /\ tenants' \in Seq(NewTenant)
          /\ DOMAIN tenants' = 1..(Len(tenants) + 1) /\ DOMAIN tenants = 1..Len(tenants) /\ Len(tenants) \in Nat
          /\ \A i \in 1..Len(tenants) : tenants'[i] = tenants[i]
          /\ tenants'[Len(tenants) + 1] = new
      BY <3>1, <3>2 DEF OnboardingInv, OnboardingTypeOK
    <3>5. NoTwinTenants'
      <4> SUFFICES ASSUME NEW i \in DOMAIN tenants', NEW j \in DOMAIN tenants', i # j
                   PROVE  tenants'[i].slug # tenants'[j].slug /\ tenants'[i].tax # tenants'[j].tax
        BY DEF NoTwinTenants
      <4>1. CASE i \in DOMAIN tenants /\ j \in DOMAIN tenants
        BY <3>4, <4>1 DEF OnboardingInv, NoTwinTenants
      <4>2. CASE i = Len(tenants) + 1
        BY <3>3, <3>4, <4>2
      <4>3. CASE j = Len(tenants) + 1
        BY <3>3, <3>4, <4>3
      <4> QED
        BY <3>4, <4>1, <4>2, <4>3
    <3>6. /\ DOMAIN wizard' = Wizards /\ wizard'[w] = IdleWizard
          /\ \A v \in Wizards \ {w} : wizard'[v] = wizard[v]
      BY <3>1 DEF OnboardingInv, OnboardingTypeOK
    <3>7. OnboardingTypeOK'
      BY <1>2, <3>4, <3>6 DEF OnboardingInv, OnboardingTypeOK
    <3> QED
      BY <3>5, <3>7 DEF OnboardingInv
  <2> QED
    BY <2>1, <2>2
<1>7. CASE UNCHANGED onboardingVars \/ \E o \in Operators : deleteDraft(o)
  BY <1>7 DEF onboardingVars, deleteDraft, OnboardingInv, OnboardingTypeOK, NoTwinTenants
<1> QED
  BY <1>3, <1>4, <1>5, <1>6, <1>7 DEF OnboardingNext

\* No two tenants share a subdomain or a tax registration, however many
\* wizards had found the subdomain free before any of them inserted.
THEOREM TenantsDistinct == OnboardingSpec => []NoTwinTenants
<1>1. OnboardingInit => OnboardingInv
  BY DEF OnboardingInit, IdleWizard, OnboardingInv, OnboardingTypeOK, NoTwinTenants
<1>2. OnboardingInv => NoTwinTenants
  BY DEF OnboardingInv
<1> QED
  BY <1>1, <1>2, OnboardingInductive, PTL DEF OnboardingSpec

-----------------------------------------------------------------------------
(* The agreement.  The advisory lock makes the number read under it still  *)
(* the next one at the write, so the numbers are 1 to the count of rows;   *)
(* a row never changes, so what an owner was shown is what is signed.      *)

VersionRow == [version : Nat, file : Files \cup {NoFile}]
PenRow == [at : {"idle", "loaded"}, shown : VersionRow, opened : Files \cup {NoFile}, current : VersionRow]

Count == Cardinality(versions)

\* The versions, publishes and signings keep their types.
AgreementsTypeOK ==
  /\ versions \subseteq VersionRow /\ IsFiniteSet(versions)
  /\ press \in [Publishers -> [at : {"rest", "locked", "written"}, next : Nat]]
  /\ pen \in [Signers -> PenRow]

\* The rows are numbered 1 to their count, each number once; one publish at
\* most is under way and has the next number.
NumberedInv ==
  /\ \A v \in versions : v.version \in 1..Count
  /\ \A n \in 1..Count : \E v \in versions : v.version = n
  /\ \A v, w \in versions : v.version = w.version => v = w
  /\ \A p, q \in Publishers : press[p].at = "locked" /\ press[q].at = "locked" => p = q
  /\ \A p \in Publishers : press[p].at = "locked" => press[p].next = Count + 1

\* A signing under way is of the row its owner was shown, and a signature is
\* of a row with a file, once for a tenant.
SignaturesInv ==
  /\ \A s \in Signers : pen[s].at = "loaded" =>
       /\ pen[s].current \in versions /\ pen[s].current.file # NoFile
       /\ pen[s].current.version = pen[s].shown.version
  /\ \A g \in signatures :
       /\ g.read = g.version /\ g.evidence # NoFile
       /\ [version |-> g.version, file |-> g.evidence] \in versions
       /\ \A h \in signatures : h.tenant = g.tenant /\ h.version = g.version => h = g

\* The inductive invariant of the agreement.
AgreementsInv == AgreementsTypeOK /\ NumberedInv /\ SignaturesInv

\* The largest of a set of integers is the one that no other exceeds.
LEMMA MaxIs ==
  ASSUME NEW S \in SUBSET Int, NEW m \in S, \A y \in S : m >= y
  PROVE  Max(S) = m
<1>1. Max(S) \in S /\ \A y \in S : Max(S) >= y
  BY DEF Max
<1>2. Max(S) \in Int /\ m \in Int /\ Max(S) >= m /\ m >= Max(S)
  BY <1>1
<1> QED
  BY <1>2

\* The latest number is the count of the rows, and the current version is the
\* row that has it.
LEMMA LatestIsCount ==
  ASSUME AgreementsInv
  PROVE  /\ Count \in Nat /\ (Count = 0 <=> versions = {})
         /\ Latest = Count
         /\ {v.version : v \in versions} = 1..Count
         /\ versions # {} => current \in versions /\ current.version = Count
         /\ current \in VersionRow
<1>1. Count \in Nat /\ (Count = 0 <=> versions = {})
  BY FS_CardinalityType, FS_EmptySet DEF AgreementsInv, AgreementsTypeOK, Count
<1>2. {v.version : v \in versions} = 1..Count
  BY DEF AgreementsInv, NumberedInv
<1>3. Latest = Count
  <2>1. CASE versions = {}
    BY <1>1, <2>1 DEF Latest
  <2>2. CASE versions # {}
    <3>1. Latest = Max(1..Count)
      BY <1>2, <2>2 DEF Latest
    <3>2. 1..Count \subseteq Int /\ Count \in 1..Count /\ \A y \in 1..Count : Count >= y
      BY <1>1, <2>2
    <3> QED
      BY <3>1, <3>2, MaxIs
  <2> QED
    BY <2>1, <2>2
<1>4. ASSUME versions # {} PROVE current \in versions /\ current.version = Count
  <2>1. \E v \in versions : v.version = Latest
    BY <1>1, <1>3, <1>4 DEF AgreementsInv, NumberedInv
  <2> QED
    BY <1>3, <1>4, <2>1 DEF current
<1>5. current \in VersionRow
  BY <1>4 DEF current, NoVersion, VersionRow, AgreementsInv, AgreementsTypeOK
<1> QED
  BY <1>1, <1>2, <1>3, <1>4, <1>5

\* A slot that rests, and one that has read nothing.
LEMMA RestTypes ==
  /\ AtRest \in [at : {"rest", "locked", "written"}, next : Nat] /\ AtRest.at = "rest"
  /\ Unread \in PenRow /\ Unread.at = "idle"
BY DEF AtRest, Unread, NoVersion, VersionRow, PenRow

\* With or without a text version left from before, the invariant holds.
LEMMA AgreementsInitial == AgreementsInit => AgreementsInv
<1> SUFFICES ASSUME AgreementsInit PROVE AgreementsInv
  OBVIOUS
<1>1. CASE versions = {}
  <2>1. IsFiniteSet(versions) /\ Count = 0
    BY <1>1, FS_EmptySet DEF Count
  <2> QED
    BY <1>1, <2>1, RestTypes DEF AgreementsInit, AgreementsInv, AgreementsTypeOK, NumberedInv, SignaturesInv
<1>2. CASE versions = {[version |-> 1, file |-> NoFile]}
  <2>1. IsFiniteSet(versions) /\ Count = 1
    BY <1>2, FS_Singleton DEF Count
  <2>2. versions \subseteq VersionRow /\ \A v \in versions : v.version = 1 /\ v = [version |-> 1, file |-> NoFile]
    BY <1>2 DEF VersionRow
  <2>3. AgreementsTypeOK
    BY <2>1, <2>2, RestTypes DEF AgreementsInit, AgreementsTypeOK
  <2>4. 1..Count = {1}
    BY <2>1
  <2>5. NumberedInv
    BY <1>2, <2>2, <2>4, RestTypes DEF AgreementsInit, NumberedInv
  <2> QED
    BY <2>3, <2>5, RestTypes DEF AgreementsInit, AgreementsInv, SignaturesInv
<1> QED
  BY <1>1, <1>2 DEF AgreementsInit

\* A publish moves on without a write: it may take the lock, with the next
\* number, only when nobody has it.
LEMMA PressStep ==
  ASSUME AgreementsInv, NEW p \in Publishers, NEW x \in [at : {"rest", "locked", "written"}, next : Nat],
         press' = [press EXCEPT ![p] = x], UNCHANGED <<versions, signatures, pen>>,
         x.at = "locked" => LockFree /\ x.next = Count + 1
  PROVE  AgreementsInv'
<1>1. /\ press'[p] = x /\ \A q \in Publishers \ {p} : press'[q] = press[q]
      /\ press' \in [Publishers -> [at : {"rest", "locked", "written"}, next : Nat]]
      /\ Count' = Count
  BY DEF AgreementsInv, AgreementsTypeOK, Count
<1>2. NumberedInv'
  BY <1>1 DEF AgreementsInv, NumberedInv, LockFree
<1> QED
  BY <1>1, <1>2 DEF AgreementsInv, AgreementsTypeOK, SignaturesInv

\* The row that is written under the lock takes the number after the last.
LEMMA WriteStep ==
  ASSUME AgreementsInv, NEW p \in Publishers, NEW f \in Files, PublishWrite(p, f)
  PROVE  AgreementsInv'
<1> DEFINE new == [version |-> press[p].next, file |-> f]
<1>1. CASE \E v \in versions : v.version = press[p].next
  BY <1>1, PressStep, RestTypes DEF PublishWrite
<1>2. CASE ~\E v \in versions : v.version = press[p].next
  <2>1. /\ press[p].at = "locked" /\ press' = [press EXCEPT ![p].at = "written"]
        /\ versions' = versions \cup {new} /\ UNCHANGED <<signatures, pen>>
    BY <1>2 DEF PublishWrite
  <2>2. press[p].next = Count + 1 /\ Count \in Nat
    BY <2>1, LatestIsCount DEF AgreementsInv, NumberedInv
  <2>3. new \in VersionRow /\ new.version = Count + 1 /\ new \notin versions
    BY <1>2, <2>2 DEF VersionRow
  <2> HIDE DEF new
  <2>4. IsFiniteSet(versions') /\ Count' = Count + 1
    BY <2>1, <2>3, FS_AddElement DEF AgreementsInv, AgreementsTypeOK, Count
  <2>5. /\ press' \in [Publishers -> [at : {"rest", "locked", "written"}, next : Nat]]
        /\ \A q \in Publishers : press'[q].at # "locked"
    BY <2>1 DEF AgreementsInv, AgreementsTypeOK, NumberedInv
  <2>6. AgreementsTypeOK'
    BY <2>1, <2>3, <2>4, <2>5 DEF AgreementsInv, AgreementsTypeOK
  <2>7. 1..Count' = 1..Count \cup {Count + 1} /\ Count + 1 \notin 1..Count
    BY <2>2, <2>4
  <2>8. /\ \A v \in versions' : v.version \in 1..Count'
        /\ \A n \in 1..Count' : \E v \in versions' : v.version = n
    BY <2>1, <2>3, <2>7 DEF AgreementsInv, NumberedInv
  <2>9. \A v, w \in versions' : v.version = w.version => v = w
    BY <2>1, <2>3, <2>7 DEF AgreementsInv, NumberedInv
  <2>10. NumberedInv'
    BY <2>5, <2>8, <2>9 DEF NumberedInv
  <2>11. SignaturesInv'
    BY <2>1 DEF AgreementsInv, SignaturesInv
  <2> QED
    BY <2>6, <2>10, <2>11 DEF AgreementsInv
<1> QED
  BY <1>1, <1>2

\* An owner reads, or loads the current version after the checks.
LEMMA PenStep ==
  ASSUME AgreementsInv, NEW s \in Signers, NEW x \in PenRow,
         pen' = [pen EXCEPT ![s] = x], UNCHANGED <<versions, signatures, press>>,
         x.at = "loaded" =>
           /\ x.current \in versions /\ x.current.file # NoFile
           /\ x.current.version = x.shown.version
  PROVE  AgreementsInv'
<1>1. /\ pen'[s] = x /\ \A t \in Signers \ {s} : pen'[t] = pen[t]
      /\ pen' \in [Signers -> PenRow] /\ Count' = Count
  BY DEF AgreementsInv, AgreementsTypeOK, Count
<1>2. SignaturesInv'
  BY <1>1 DEF AgreementsInv, SignaturesInv
<1> QED
  BY <1>1, <1>2 DEF AgreementsInv, AgreementsTypeOK, NumberedInv

\* ownerView(), file() and the checks of sign().
LEMMA ReadingStep ==
  ASSUME AgreementsInv, NEW s \in Signers, ownerView(s) \/ file(s) \/ SignLoad(s)
  PROVE  AgreementsInv'
<1>1. pen[s] \in PenRow /\ current \in VersionRow
  BY LatestIsCount DEF AgreementsInv, AgreementsTypeOK
<1>2. CASE ownerView(s)
  <2> DEFINE x == [Unread EXCEPT !.shown = current]
  <2>1. x \in PenRow /\ x.at = "idle"
    <3> HIDE DEF current
    <3> QED BY <1>1 DEF Unread, NoVersion, VersionRow, PenRow
  <2> QED
    BY <1>2, <2>1, PenStep DEF ownerView
<1>3. CASE file(s)
  <2> DEFINE x == [pen[s] EXCEPT !.opened = pen[s].shown.file]
  <2>1. x \in PenRow /\ x.at = "idle"
    BY <1>1, <1>3 DEF file, VersionRow, PenRow
  <2>2. pen' = [pen EXCEPT ![s] = x]
    BY <1>3 DEF file, AgreementsInv, AgreementsTypeOK
  <2> QED
    BY <1>3, <2>1, <2>2, PenStep DEF file
<1>4. CASE SignLoad(s)
  <2> DEFINE x == [pen[s] EXCEPT !.at = "loaded", !.current = current]
  <2>1. pen' = [pen EXCEPT ![s] = x]
    BY <1>4 DEF SignLoad, AgreementsInv, AgreementsTypeOK
  <2>2. current \in versions /\ current.file # NoFile /\ current.version = pen[s].shown.version
    BY <1>4, LatestIsCount DEF SignLoad, Signable
  <2>3. x \in PenRow /\ x.current = current /\ x.shown = pen[s].shown
    BY <1>1 DEF PenRow
  <2> HIDE DEF x
  <2> QED
    BY ZenonT(60), <1>4, <2>1, <2>2, <2>3, PenStep DEF SignLoad
<1> QED
  BY <1>2, <1>3, <1>4

\* The signature of the version that was loaded, unless the tenant has one.
LEMMA SigningStep ==
  ASSUME AgreementsInv, NEW s \in Signers, SignWrite(s)
  PROVE  AgreementsInv'
<1> DEFINE c == pen[s].current
           taken == \E g \in signatures : g.tenant = TenantOf[s] /\ g.version = c.version
           new == [tenant |-> TenantOf[s], version |-> c.version, signer |-> s,
                   evidence |-> c.file, read |-> pen[s].shown.version]
<1>1. /\ signatures' = IF taken THEN signatures ELSE signatures \cup {new}
      /\ pen' = [pen EXCEPT ![s] = Unread] /\ pen[s].at = "loaded" /\ UNCHANGED <<versions, press>>
  BY DEF SignWrite
<1>2. CASE taken
  BY <1>1, <1>2, PenStep, RestTypes
<1>3. CASE ~taken
  <2>1. /\ c \in versions /\ c.file # NoFile /\ c.version = pen[s].shown.version
        /\ c = [version |-> c.version, file |-> c.file]
    BY <1>1 DEF AgreementsInv, SignaturesInv, AgreementsTypeOK, PenRow, VersionRow
  <2>2. /\ new.read = new.version /\ new.evidence # NoFile
        /\ [version |-> new.version, file |-> new.evidence] \in versions
        /\ \A g \in signatures : ~(g.tenant = new.tenant /\ g.version = new.version)
    BY <1>3, <2>1
  <2>3. signatures' = signatures \cup {new}
    BY <1>1, <1>3
  <2> HIDE DEF new
  <2>4. /\ \A t \in Signers : pen'[t] = IF t = s THEN Unread ELSE pen[t]
        /\ pen' \in [Signers -> PenRow] /\ Count' = Count
    BY <1>1, RestTypes DEF AgreementsInv, AgreementsTypeOK, Count
  <2>5. \A g \in signatures' :
          /\ g.read = g.version /\ g.evidence # NoFile
          /\ [version |-> g.version, file |-> g.evidence] \in versions
          /\ \A h \in signatures' : h.tenant = g.tenant /\ h.version = g.version => h = g
    BY <2>2, <2>3 DEF AgreementsInv, SignaturesInv
  <2>6. SignaturesInv'
    BY <1>1, <2>4, <2>5, RestTypes DEF AgreementsInv, SignaturesInv
  <2> QED
    BY <1>1, <2>4, <2>6 DEF AgreementsInv, AgreementsTypeOK, NumberedInv
<1> QED
  BY <1>2, <1>3

\* Every step of operators and owners keeps the invariant.
LEMMA AgreementsInductive == AgreementsInv /\ [AgreementsNext]_agreementVars => AgreementsInv'
<1> SUFFICES ASSUME AgreementsInv, [AgreementsNext]_agreementVars PROVE AgreementsInv'
  OBVIOUS
<1>1. ASSUME NEW p \in Publishers, PublishLock(p) PROVE AgreementsInv'
  <2> DEFINE x == [at |-> "locked", next |-> Count + 1]
  <2>1. x \in [at : {"rest", "locked", "written"}, next : Nat] /\ x.next = Count + 1
    BY LatestIsCount
  <2>2. press' = [press EXCEPT ![p] = x] /\ LockFree /\ UNCHANGED <<versions, signatures, pen>>
    BY <1>1, LatestIsCount DEF PublishLock
  <2> HIDE DEF x
  <2> QED
    BY <2>1, <2>2, PressStep
<1>2. ASSUME NEW p \in Publishers, PublishAudit(p) \/ PublishLost(p) PROVE AgreementsInv'
  BY <1>2, PressStep, RestTypes DEF PublishAudit, PublishLost
<1>3. CASE UNCHANGED agreementVars
  BY <1>3 DEF agreementVars, AgreementsInv, AgreementsTypeOK, NumberedInv, SignaturesInv, Count
<1> QED
  BY <1>1, <1>2, <1>3, WriteStep, ReadingStep, SigningStep DEF AgreementsNext

\* Versions are numbered without gaps and without a refused publish, a tenant
\* signs a version once, with the file its owner was shown as evidence, and one
\* that is called signed has signed the latest version.
THEOREM AgreementsSigned == AgreementsSpec => []SignedAsRead
<1>1. ASSUME AgreementsInv PROVE SignedAsRead
  <2>1. ASSUME NEW s \in Signers, forTenant(TenantOf[s]) = "signed" PROVE current.file # NoFile
    <3>1. versions # {} /\ \E g \in signatures : g.version = Latest
      BY <2>1 DEF forTenant
    <3>2. PICK g \in signatures : g.version = Latest
      BY <3>1
    <3> DEFINE row == [version |-> g.version, file |-> g.evidence]
    <3>3. row \in versions /\ row.version = Count /\ row.file # NoFile
      BY <1>1, <3>2, LatestIsCount DEF AgreementsInv, SignaturesInv
    <3> HIDE DEF row
    <3>4. current = row
      BY <1>1, <3>1, <3>3, LatestIsCount DEF AgreementsInv, NumberedInv
    <3> QED
      BY <3>3, <3>4
  <2>2. {v.version : v \in versions} = 1..Cardinality(versions)
    BY <1>1, LatestIsCount DEF Count
  <2>3. \A p \in Publishers : press[p].at = "locked" => press[p].next = Latest + 1
    BY <1>1, LatestIsCount DEF AgreementsInv, NumberedInv
  <2> QED
    BY <1>1, <2>1, <2>2, <2>3 DEF SignedAsRead, AgreementsInv, SignaturesInv
<1> QED
  BY <1>1, AgreementsInitial, AgreementsInductive, PTL DEF AgreementsSpec
-----------------------------------------------------------------------------
(* Combos.  A cart may hold picks of slots that are gone; what is ordered  *)
(* was checked against the slots of one edition, all in one step.          *)

\* The inductive invariant of the menu: an order that passed its check holds
\* picks of the edition it was checked with only.
MenuInv ==
  /\ DOMAIN phone = Phones
  /\ \A k \in Phones : phone[k].op = "order" => phone[k].editions \subseteq {phone[k].of}
  /\ NoStalePicks

\* A guest's request is any but a checked order, and no order is committed.
LEMMA PhoneStep ==
  ASSUME MenuInv, UNCHANGED sold, NEW k \in Phones, NEW p, p.op # "order",
         phone' = [phone EXCEPT ![k] = p]
  PROVE  MenuInv'
BY DEF MenuInv, NoStalePicks

\* However the owner rewrites a combo while guests add and order it, a combo is
\* ordered only with picks of the slots it had when the order was checked.
THEOREM CombosOrderedAsOffered == MenuSpec => []NoStalePicks
<1>1. MenuInit => MenuInv
  BY DEF MenuInit, MenuInv, NoStalePicks, IdlePhone
<1>2. ASSUME MenuInv, [MenuNext]_menuVars PROVE MenuInv'
  <2>1. CASE UNCHANGED <<phone, sold>>
    BY <1>2, <2>1 DEF MenuInv, NoStalePicks
  <2>2. ASSUME NEW k \in Phones, NEW i \in Items, AddItemRead(k, i) \/ AddComboRead(k, i) PROVE MenuInv'
    <3>1. UNCHANGED sold /\ \E line : phone' = [phone EXCEPT ![k] = [op |-> "add", line |-> line]]
      BY <2>2 DEF AddItemRead, AddComboRead, Ask
    <3>2. PICK line : phone' = [phone EXCEPT ![k] = [op |-> "add", line |-> line]]
      BY <3>1
    <3> QED
      BY <1>2, <3>1, <3>2, PhoneStep
  <2>3. ASSUME NEW k \in Phones, NEW l \in CartLines, AddWrite(k, l) PROVE MenuInv'
    BY <1>2, <2>3, PhoneStep DEF AddWrite, IdlePhone
  <2>4. ASSUME NEW k \in Phones, PlaceCartRead(k) PROVE MenuInv'
    BY <1>2, <2>4, PhoneStep DEF PlaceCartRead, Ask
  <2>5. ASSUME NEW k \in Phones, PlaceCheck(k) PROVE MenuInv'
    <3> DEFINE combos == {l \in CartLines : phone[k].lines[l].kind = "combo"}
               eds == {phone[k].lines[l].edition : l \in combos}
               p == [op |-> "order", of |-> combo.edition, editions |-> eds]
    <3>1. UNCHANGED sold
      BY <2>5 DEF PlaceCheck
    <3>2. CASE \A l \in combos : Resolves(phone[k].lines[l])
      <4>1. eds \subseteq {combo.edition}
        BY <3>2 DEF Resolves
      <4>2. phone' = [phone EXCEPT ![k] = p]
        BY <2>5, <3>2 DEF PlaceCheck
      <4>3. p.op = "order" /\ p.editions = eds /\ p.of = combo.edition
        OBVIOUS
      <4> HIDE DEF eds, p
      <4>4. p.editions \subseteq {p.of}
        BY <4>1, <4>3
      <4> QED
        BY <1>2, <3>1, <4>2, <4>4 DEF MenuInv, NoStalePicks
    <3>3. CASE ~\A l \in combos : Resolves(phone[k].lines[l])
      <4>1. phone' = [phone EXCEPT ![k] = IdlePhone]
        BY <2>5, <3>3 DEF PlaceCheck
      <4> QED
        BY <1>2, <3>1, <4>1, PhoneStep DEF IdlePhone
    <3> QED
      BY <3>2, <3>3
  <2>6. ASSUME NEW k \in Phones, placeOrder(k) PROVE MenuInv'
    <3>1. /\ phone[k].op = "order"
          /\ sold' = [editions |-> phone[k].editions, of |-> phone[k].of]
          /\ phone' = [phone EXCEPT ![k] = IdlePhone]
      BY <2>6 DEF placeOrder
    <3>2. phone[k].editions \subseteq {phone[k].of}
      BY <1>2, <3>1 DEF MenuInv
    <3>3. NoStalePicks'
      BY <3>1, <3>2 DEF NoStalePicks
    <3> QED
      BY <1>2, <3>1, <3>3 DEF MenuInv, IdlePhone
  <2>7. ASSUME NEW i \in Items,
               \/ \E on \in BOOLEAN : setAvailability(i, on)
               \/ \E o \in {"none", "on", "off"} : setOverride(i, o)
               \/ archiveItem(i)
        PROVE  UNCHANGED <<phone, sold>>
    BY <2>7 DEF setAvailability, setOverride, archiveItem
  <2>8. ASSUME (\E options \in SUBSET Items, on \in BOOLEAN : SaveCombo(options, on)) \/ archiveCombo
        PROVE  UNCHANGED <<phone, sold>>
    BY <2>8 DEF SaveCombo, archiveCombo
  <2>9. UNCHANGED menuVars => UNCHANGED <<phone, sold>>
    BY DEF menuVars
  <2> QED
    BY <1>2, <2>1, <2>2, <2>3, <2>4, <2>5, <2>6, <2>7, <2>8, <2>9 DEF MenuNext
<1>3. MenuInv /\ [MenuNext]_menuVars => MenuInv'
  BY <1>2
<1>4. MenuInv => NoStalePicks
  BY DEF MenuInv
<1> QED
  BY <1>1, <1>3, <1>4, PTL DEF MenuSpec
-----------------------------------------------------------------------------
(* Prices.  Rows are only ever added, each newer than all before, so a     *)
(* blanket change beats whatever is as specific; and no row can be of a    *)
(* portion that is not there, so a base portion starts from nothing but    *)
(* the copies.                                                             *)

PriceRow ==
  [id : Nat, of : Portions \cup {Base}, was : Portions \cup {Base}, outlet : {Everywhere, House},
   channel : Channels \cup {AnyChannel}, from : Nat, at : Nat]

Ids(rows) == {r.id : r \in rows}

\* The rows are in force for portions that exist, in the order of their ids.
RowsInv ==
  /\ prices \subseteq PriceRow
  /\ \A r \in prices : r.at = r.id /\ r.of \in portions \cup {Base}
  /\ \E m \in Ids(prices) : \A n \in Ids(prices) : m >= n

\* What a request read: where a price goes, or the item's own rows.
EditInv(h) ==
  /\ h.op = "price" =>
       /\ h.of \in Portions \cup {Base} /\ h.outlet \in {Everywhere, House}
       /\ h.channels \subseteq Channels \cup {AnyChannel}
  /\ h.op = "portion" =>
       /\ h.new \in Portions \ {Regular}
       /\ h.base \subseteq PriceRow /\ Ids(h.base) \subseteq Ids(prices)
       /\ \A r \in h.base : r.of = Base /\ r.at = r.id

\* The inductive invariant of the price list.
PricesInv ==
  /\ DOMAIN editor = Editors /\ instant \in Nat /\ portions \subseteq Portions
  /\ RowsInv
  /\ \A e \in Editors : EditInv(editor[e])
  /\ PriceInForce

\* The next id is above every id there is.
LEMMA NextIdAbove ==
  ASSUME RowsInv
  PROVE  NextId \in Nat /\ \A r \in prices : r.id \in Nat /\ r.id < NextId
<1>1. PICK m \in Ids(prices) : \A n \in Ids(prices) : m >= n
  BY DEF RowsInv
<1>2. Ids(prices) \in SUBSET Int /\ \A r \in prices : r.id \in Nat
  BY DEF RowsInv, PriceRow, Ids
<1>3. Max(Ids(prices)) = m
  BY <1>1, <1>2, MaxIs
<1>4. NextId = m + 1
  BY <1>3 DEF NextId, Ids
<1>5. m \in Nat /\ \A r \in prices : r.id <= m
  BY <1>1, <1>2 DEF Ids
<1> QED
  BY <1>2, <1>4, <1>5

\* New price rows are rows, for the portion, outlet and channels asked for.
LEMMA NewRows ==
  ASSUME NEW h, h.of \in Portions \cup {Base}, h.outlet \in {Everywhere, House},
         h.channels \subseteq Channels \cup {AnyChannel}, NEW from \in Nat, NEW n \in Nat
  PROVE  /\ PriceRows(h, from, n) \subseteq PriceRow
         /\ \A r \in PriceRows(h, from, n) :
              /\ r.id = n /\ r.at = n /\ r.of = h.of /\ r.outlet = h.outlet /\ r.from = from
              /\ r.channel \in h.channels
         /\ \A c \in h.channels : \E r \in PriceRows(h, from, n) : r.channel = c
<1> DEFINE R(c) == [id |-> n, of |-> h.of, was |-> h.of, outlet |-> h.outlet,
                    channel |-> c, from |-> from, at |-> n]
<1>1. PriceRows(h, from, n) = {R(c) : c \in h.channels}
  BY DEF PriceRows
<1>2. ASSUME NEW c \in h.channels
      PROVE  /\ R(c).id = n /\ R(c).at = n /\ R(c).of = h.of /\ R(c).outlet = h.outlet
             /\ R(c).from = from /\ R(c).channel = c
  OBVIOUS
<1>3. ASSUME NEW c \in h.channels PROVE R(c) \in PriceRow
  BY <1>3 DEF PriceRow
<1> HIDE DEF R
<1> QED
  BY <1>1, <1>2, <1>3

\* A price change for all channels that takes effect now is what a channel
\* charges, unless the channel got a price of its own since the change looked.
LEMMA BlanketWins ==
  ASSUME RowsInv, instant \in Nat, NEW h, EditInv(h), h.op = "price", AnyChannel \in h.channels,
         NEW c \in Channels, c \notin OwnPriced(h.of, h.outlet) \ h.channels
  PROVE  Ids(pickCurrentPrice(prices \cup PriceRows(h, instant, NextId), h.of, h.outlet, c, instant))
           = {NextId}
<1> DEFINE new == PriceRows(h, instant, NextId)
           E == Eligible(prices \cup new, h.of, h.outlet, c, instant)
           P == pickCurrentPrice(prices \cup new, h.of, h.outlet, c, instant)
<1>1. NextId \in Nat /\ \A r \in prices : r.id \in Nat /\ r.id < NextId /\ r.at = r.id
  BY NextIdAbove DEF RowsInv
<1>2. /\ h.of \in Portions \cup {Base} /\ h.outlet \in {Everywhere, House}
      /\ h.channels \subseteq Channels \cup {AnyChannel} /\ c # AnyChannel
  BY PricesAssumption DEF EditInv
<1>3. /\ new \subseteq PriceRow
      /\ \A r \in new : /\ r.id = NextId /\ r.at = NextId /\ r.of = h.of /\ r.outlet = h.outlet
                        /\ r.from = instant /\ r.channel \in h.channels
      /\ \A d \in h.channels : \E r \in new : r.channel = d
  BY SMTT(40), <1>1, <1>2, NewRows
<1>4. PICK best \in new : best.channel = (IF c \in h.channels THEN c ELSE AnyChannel)
  BY <1>3
<1>5. P = {a \in E : \A b \in E : ~Beats(b, a)}
  BY DEF pickCurrentPrice
<1>6. /\ E \subseteq prices \cup new
      /\ \A r \in E : /\ r.of = h.of /\ r.from <= instant /\ r.outlet \in {Everywhere, h.outlet}
                      /\ r.channel \in {AnyChannel, c}
  BY DEF Eligible
<1>7. \A r \in prices \cup new : r.from \in Nat /\ r.at \in Nat
  BY <1>3 DEF RowsInv, PriceRow
<1>8. best \in E
  <2>1. best.from <= instant
    BY <1>3
  <2> QED
    BY <1>3, <1>4, <2>1 DEF Eligible
<1> HIDE DEF new, E, P
<1>9. ASSUME NEW b \in E PROVE Score(b) \in Nat /\ Score(best) \in Nat /\ Score(b) <= Score(best)
  <2>1. CASE b.channel = AnyChannel
    BY <1>3, <1>4, <1>6, <2>1 DEF Score
  <2>2. CASE b.channel = c /\ c \in h.channels
    BY <1>2, <1>3, <1>4, <1>6, <2>2 DEF Score
  <2>3. CASE b.channel = c /\ c \notin h.channels
    <3>1. b \in prices
      BY <1>3, <1>6, <2>3
    <3>2. b.outlet # h.outlet
      BY <1>2, <1>6, <2>3, <3>1 DEF OwnPriced
    <3>3. b.outlet = Everywhere /\ best.outlet # Everywhere
      BY <1>3, <1>6, <3>2
    <3> QED
      BY <3>3 DEF Score
  <2> QED
    BY <1>6, <2>1, <2>2, <2>3
<1>10. best \in P
  <2>1. ASSUME NEW b \in E PROVE ~Beats(b, best)
    <3>1. b.at \in Nat /\ b.from \in Nat /\ b.at <= NextId /\ b.from <= instant
      BY <1>1, <1>3, <1>6, <1>7
    <3>2. best.at = NextId /\ best.from = instant
      BY <1>3
    <3> QED
      BY <1>1, <1>9, <3>1, <3>2 DEF Beats
  <2> QED
    BY <1>5, <1>8, <2>1
<1>11. ASSUME NEW a \in P PROVE a.id = NextId
  <2>1. a \in E /\ ~Beats(best, a)
    BY <1>5, <1>8
  <2>2. CASE a \in new
    BY <1>3, <2>2
  <2>3. CASE a \in prices
    <3>1. a.at \in Nat /\ a.from \in Nat /\ a.at < NextId /\ a.from <= instant
      BY <1>1, <1>6, <1>7, <2>1, <2>3
    <3>2. best.at = NextId /\ best.from = instant
      BY <1>3
    <3>3. Score(a) \in Nat /\ Score(best) \in Nat /\ Score(a) <= Score(best)
      BY <1>9, <2>1
    <3>4. Beats(best, a)
      BY <1>1, <3>1, <3>2, <3>3 DEF Beats
    <3> QED
      BY <2>1, <3>4
  <2> QED
    BY <1>6, <2>1, <2>2, <2>3
<1>12. Ids(P) = {NextId}
  BY <1>3, <1>10, <1>11 DEF Ids
<1> QED
  BY <1>12 DEF P, new

\* A base portion whose rows are the copies of the item's rows costs, whenever
\* and wherever one asks, what the item cost.
LEMMA CopiesCostTheSame ==
  ASSUME NEW base \in SUBSET PriceRow, \A r \in base : r.of = Base,
         NEW rows, {r \in rows : r.of = Regular} = Copies(base), NEW outlet, NEW c, NEW t
  PROVE  Ids(pickCurrentPrice(rows, Regular, outlet, c, t)) = Ids(pickCurrentPrice(base, Base, outlet, c, t))
<1> DEFINE K(r) == [r EXCEPT !.of = Regular, !.was = Regular]
           A == Eligible(base, Base, outlet, c, t)
           B == Eligible(rows, Regular, outlet, c, t)
<1>1. ASSUME NEW r \in base
      PROVE  /\ K(r).id = r.id /\ K(r).of = Regular /\ K(r).outlet = r.outlet
             /\ K(r).channel = r.channel /\ K(r).from = r.from /\ K(r).at = r.at
  BY <1>1 DEF PriceRow
<1>2. Copies(base) = {K(r) : r \in base}
  BY DEF Copies
<1> HIDE DEF K
<1>3. A \subseteq base
  BY DEF Eligible
<1>4. B = {K(r) : r \in A}
  <2>1. B = {r \in Copies(base) : r.from <= t /\ r.outlet \in {Everywhere, outlet} /\ r.channel \in {AnyChannel, c}}
    BY DEF Eligible
  <2>2. A = {r \in base : r.from <= t /\ r.outlet \in {Everywhere, outlet} /\ r.channel \in {AnyChannel, c}}
    BY DEF Eligible
  <2> HIDE DEF A, B
  <2> QED
    BY <1>1, <1>2, <2>1, <2>2
<1> HIDE DEF A, B
<1>5. ASSUME NEW a \in A, NEW b \in A PROVE Beats(K(a), K(b)) <=> Beats(a, b)
  <2>1. Score(K(a)) = Score(a) /\ Score(K(b)) = Score(b)
    BY <1>1, <1>3 DEF Score
  <2>2. K(a).from = a.from /\ K(a).at = a.at /\ K(b).from = b.from /\ K(b).at = b.at
    BY <1>1, <1>3
  <2> QED
    BY <2>1, <2>2 DEF Beats
<1>6. {x \in B : \A y \in B : ~Beats(y, x)} = {K(r) : r \in {a \in A : \A b \in A : ~Beats(b, a)}}
  BY <1>4, <1>5
<1>7. Ids({x \in B : \A y \in B : ~Beats(y, x)}) = Ids({a \in A : \A b \in A : ~Beats(b, a)})
  BY <1>1, <1>3, <1>6 DEF Ids
<1> QED
  BY <1>7 DEF pickCurrentPrice, A, B

\* Added rows, newer than all before or as old as some, of portions that exist,
\* leave the rows in order.
LEMMA RowsAdded ==
  ASSUME RowsInv, NEW more \in SUBSET PriceRow, prices' = prices \cup more, portions \subseteq portions',
         \A r \in more : r.at = r.id /\ r.of \in portions' \cup {Base} /\ r.id \in Ids(prices) \cup {NextId}
  PROVE  RowsInv' /\ Ids(prices) \subseteq Ids(prices')
<1>1. Ids(prices') = Ids(prices) \cup Ids(more) /\ Ids(more) \subseteq Ids(prices) \cup {NextId}
  BY DEF Ids
<1>2. NextId \in Nat /\ \A n \in Ids(prices) : n \in Nat /\ n < NextId
  BY NextIdAbove DEF Ids
<1>3. PICK m \in Ids(prices) : \A n \in Ids(prices) : m >= n
  BY DEF RowsInv
<1>4. \E k \in Ids(prices') : \A n \in Ids(prices') : k >= n
  <2>1. CASE NextId \in Ids(more)
    BY SMTT(40), <1>1, <1>2, <2>1
  <2>2. CASE NextId \notin Ids(more)
    BY <1>1, <1>3, <2>2
  <2> QED
    BY <2>1, <2>2
<1>5. prices' \subseteq PriceRow /\ \A r \in prices' : r.at = r.id /\ r.of \in portions' \cup {Base}
  BY DEF RowsInv
<1> QED
  BY <1>1, <1>4, <1>5 DEF RowsInv

\* A request that still finds every id it read goes on as it was.
LEMMA EditsStay ==
  ASSUME \A e \in Editors : EditInv(editor[e]), Ids(prices) \subseteq Ids(prices'),
         NEW d \in Editors, DOMAIN editor = Editors, editor' = [editor EXCEPT ![d] = NoEdit] \/ editor' = editor
  PROVE  DOMAIN editor' = Editors /\ \A e \in Editors : EditInv(editor[e])'
<1>1. ASSUME NEW e \in Editors PROVE editor'[e] = editor[e] \/ editor'[e] = NoEdit
  BY <1>1
<1>2. ASSUME NEW e \in Editors PROVE EditInv(editor[e])'
  BY <1>1, <1>2 DEF EditInv, NoEdit
<1> QED
  BY <1>2

\* insertPrice() keeps the rows in order, and a blanket change is in force.
LEMMA InsertPriceInv ==
  ASSUME PricesInv, NEW e \in Editors, NEW from \in 0..MaxInstant, insertPrice(e, from)
  PROVE  PricesInv'
<1> DEFINE h == editor[e]
           new == PriceRows(h, from, NextId)
<1>1. /\ h.op = "price" /\ EditInv(h) /\ editor' = [editor EXCEPT ![e] = NoEdit]
      /\ UNCHANGED <<instant, portions, continued>> /\ from \in Nat
  BY PricesAssumption DEF insertPrice, PricesInv
<1>2. CASE h.of \notin portions \cup {Base}
  <2>1. UNCHANGED <<prices, reached>>
    BY <1>2 DEF insertPrice
  <2>2. DOMAIN editor' = Editors /\ \A d \in Editors : EditInv(editor[d])'
    BY <1>1, <2>1, EditsStay DEF PricesInv
  <2> QED
    BY <1>1, <2>1, <2>2 DEF PricesInv, RowsInv, PriceInForce, PortionKeepsPrice, BlanketPriceReaches
<1>3. CASE h.of \in portions \cup {Base}
  <2>1. /\ prices' = prices \cup new
        /\ reached' = (reached /\ (AnyChannel \in h.channels /\ from = instant =>
               \A c \in Channels : c \in OwnPriced(h.of, h.outlet) \ h.channels \/
                 Ids(pickCurrentPrice(prices', h.of, h.outlet, c, instant)) = {NextId}))
    BY <1>3 DEF insertPrice, Ids
  <2>2. RowsInv /\ NextId \in Nat /\ instant \in Nat
    BY NextIdAbove DEF PricesInv
  <2>3. new \subseteq PriceRow /\ \A r \in new : r.at = r.id /\ r.of = h.of /\ r.id = NextId
    BY <1>1, <2>2, NewRows DEF EditInv
  <2> HIDE DEF h
  <2>4. reached'
    <3>1. ASSUME AnyChannel \in h.channels, from = instant, NEW c \in Channels,
                 c \notin OwnPriced(h.of, h.outlet) \ h.channels
          PROVE  Ids(pickCurrentPrice(prices', h.of, h.outlet, c, instant)) = {NextId}
      BY <1>1, <2>1, <2>2, <3>1, BlanketWins
    <3> HIDE DEF new
    <3> QED
      BY <2>1, <3>1 DEF PricesInv, PriceInForce, BlanketPriceReaches
  <2> HIDE DEF new
  <2>5. RowsInv' /\ Ids(prices) \subseteq Ids(prices')
    <3>1. new \in SUBSET PriceRow /\ portions \subseteq portions'
      BY <1>1, <2>3
    <3>2. \A r \in new : r.at = r.id /\ r.of \in portions' \cup {Base} /\ r.id \in Ids(prices) \cup {NextId}
      BY <1>1, <1>3, <2>3
    <3> QED
      BY <2>1, <2>2, <3>1, <3>2, RowsAdded
  <2>6. DOMAIN editor' = Editors /\ \A d \in Editors : EditInv(editor[d])'
    BY <1>1, <2>5, EditsStay DEF PricesInv
  <2> QED
    BY <1>1, <2>4, <2>5, <2>6 DEF PricesInv, PriceInForce, PortionKeepsPrice, BlanketPriceReaches
<1> QED
  BY <1>2, <1>3

\* Copies of the item's rows are rows of the base portion, with their ids.
LEMMA CopiesAre ==
  ASSUME NEW base \in SUBSET PriceRow
  PROVE  /\ Copies(base) \subseteq PriceRow /\ \A k \in Copies(base) : k.of = Regular
         /\ \A k \in Copies(base) : \E r \in base : k.id = r.id /\ k.at = r.at
<1> DEFINE K(r) == [r EXCEPT !.of = Regular, !.was = Regular]
<1>1. ASSUME NEW r \in base PROVE K(r) \in PriceRow /\ K(r).of = Regular /\ K(r).id = r.id /\ K(r).at = r.at
  BY <1>1, PricesAssumption DEF PriceRow
<1>2. Copies(base) = {K(r) : r \in base}
  BY DEF Copies
<1> HIDE DEF K
<1> QED
  BY <1>1, <1>2

\* createVariant() keeps the rows in order, and the first portion's twin, the
\* base portion, costs what the item cost.
LEMMA PortionWriteInv ==
  ASSUME PricesInv, NEW e \in Editors, NEW priced \in BOOLEAN, PortionWrite(e, priced)
  PROVE  PricesInv'
<1> DEFINE h == editor[e]
           made == {h.new} \cup (IF h.base # {} THEN {Regular} ELSE {})
           q == [of |-> h.new, outlet |-> Everywhere, channels |-> {AnyChannel}]
           copied == IF h.base # {} THEN Copies(h.base) ELSE {}
           asked == IF priced THEN PriceRows(q, instant, NextId) ELSE {}
<1>1. /\ h.op = "portion" /\ EditInv(h) /\ editor' = [editor EXCEPT ![e] = NoEdit]
      /\ UNCHANGED <<instant, reached>>
  BY DEF PortionWrite, PricesInv
<1>2. CASE made \cap portions # {}
  <2>1. UNCHANGED <<portions, prices, continued>>
    BY <1>2 DEF PortionWrite
  <2>2. DOMAIN editor' = Editors /\ \A d \in Editors : EditInv(editor[d])'
    BY <1>1, <2>1, EditsStay DEF PricesInv
  <2> QED
    BY <1>1, <2>1, <2>2 DEF PricesInv, RowsInv, PriceInForce, PortionKeepsPrice, BlanketPriceReaches
<1>3. CASE made \cap portions = {}
  <2>1. /\ portions' = portions \cup made
        /\ prices' = prices \cup (copied \cup asked)
        /\ continued' = (continued /\ (h.base # {} =>
             \A outlet \in {Everywhere, House}, c \in Channels, t \in 0..MaxInstant :
               Ids(pickCurrentPrice(prices', Regular, outlet, c, t)) =
                 Ids(pickCurrentPrice(h.base, Base, outlet, c, t))))
    BY <1>3 DEF PortionWrite, Ids
  <2>2. RowsInv /\ NextId \in Nat /\ instant \in Nat /\ portions \subseteq Portions
    BY NextIdAbove DEF PricesInv
  <2>3. /\ h.new \in Portions \ {Regular} /\ h.base \in SUBSET PriceRow /\ Ids(h.base) \subseteq Ids(prices)
        /\ \A r \in h.base : r.of = Base /\ r.at = r.id
    BY <1>1 DEF EditInv
  <2>4. asked \subseteq PriceRow /\ \A r \in asked : r.at = r.id /\ r.of = h.new /\ r.id = NextId
    <3>1. q.of = h.new /\ q.outlet = Everywhere /\ q.channels = {AnyChannel}
      OBVIOUS
    <3> HIDE DEF q, h
    <3>2. /\ q.of \in Portions \cup {Base} /\ q.outlet \in {Everywhere, House}
          /\ q.channels \subseteq Channels \cup {AnyChannel}
      BY <2>3, <3>1
    <3>3. /\ PriceRows(q, instant, NextId) \subseteq PriceRow
          /\ \A r \in PriceRows(q, instant, NextId) : r.id = NextId /\ r.at = NextId /\ r.of = q.of
      BY <2>2, <3>2, NewRows
    <3> QED
      BY <3>1, <3>3
  <2>5. copied \subseteq PriceRow /\ \A k \in copied : k.of = Regular /\ k.at = k.id /\ k.id \in Ids(prices)
    BY <2>3, CopiesAre DEF Ids
  <2>6. ASSUME h.base # {}
        PROVE  {r \in prices' : r.of = Regular} = Copies(h.base)
    <3>1. Regular \notin portions /\ Regular # Base /\ h.new # Regular /\ copied = Copies(h.base)
      BY <1>3, <2>3, <2>6, PricesAssumption
    <3>2. \A r \in prices : r.of # Regular
      BY <2>2, <3>1 DEF RowsInv
    <3> HIDE DEF h, copied, asked
    <3> QED
      BY <2>1, <2>4, <2>5, <3>1, <3>2
  <2> HIDE DEF h
  <2>7. continued'
    <3>1. ASSUME h.base # {}, NEW outlet, NEW c, NEW t
          PROVE  Ids(pickCurrentPrice(prices', Regular, outlet, c, t)) =
                   Ids(pickCurrentPrice(h.base, Base, outlet, c, t))
      BY <2>3, <2>6, <3>1, CopiesCostTheSame
    <3> QED
      BY <2>1, <3>1 DEF PricesInv, PriceInForce, PortionKeepsPrice
  <2>8. portions' \subseteq Portions /\ portions \subseteq portions' /\ h.new \in portions'
        /\ (h.base # {} => Regular \in portions')
    BY <2>1, <2>2, <2>3, PricesAssumption
  <2>9. \A k \in copied : Regular \in portions'
    BY <2>8
  <2> HIDE DEF copied, asked, made
  <2>10. RowsInv' /\ Ids(prices) \subseteq Ids(prices')
    <3> DEFINE more == copied \cup asked
    <3>1. more \in SUBSET PriceRow /\ prices' = prices \cup more
      BY <2>1, <2>4, <2>5
    <3>2. \A r \in more : r.at = r.id /\ r.of \in portions' \cup {Base} /\ r.id \in Ids(prices) \cup {NextId}
      BY <2>4, <2>5, <2>8, <2>9
    <3> HIDE DEF more
    <3> QED
      BY <2>2, <2>8, <3>1, <3>2, RowsAdded
  <2>11. DOMAIN editor' = Editors /\ \A d \in Editors : EditInv(editor[d])'
    BY <1>1, <2>10, EditsStay DEF PricesInv
  <2> QED
    BY <1>1, <2>2, <2>7, <2>8, <2>10, <2>11 DEF PricesInv, PriceInForce, PortionKeepsPrice, BlanketPriceReaches
<1> QED
  BY <1>2, <1>3

\* removeVariant() turns the portion's rows into the item's, under their ids.
LEMMA RemoveVariantInv ==
  ASSUME PricesInv, NEW p \in Portions, removeVariant(p)
  PROVE  PricesInv'
<1> DEFINE F(r) == IF r.of = p THEN [r EXCEPT !.of = Base] ELSE r
<1>1. /\ portions' = portions \ {p} /\ prices' = {F(r) : r \in prices}
      /\ UNCHANGED <<instant, editor, continued, reached>>
  BY DEF removeVariant
<1>2. ASSUME NEW r \in prices
      PROVE  F(r) \in PriceRow /\ F(r).id = r.id /\ F(r).at = r.at /\ F(r).of \in (portions \ {p}) \cup {Base}
  BY <1>2 DEF PricesInv, RowsInv, PriceRow
<1> HIDE DEF F
<1>3. Ids(prices') = Ids(prices)
  BY <1>1, <1>2 DEF Ids
<1>4. RowsInv'
  <2>1. prices' \subseteq PriceRow /\ \A r \in prices' : r.at = r.id /\ r.of \in portions' \cup {Base}
    BY <1>1, <1>2 DEF PricesInv, RowsInv
  <2> QED
    BY <1>3, <2>1 DEF PricesInv, RowsInv
<1>5. \A e \in Editors : EditInv(editor[e])'
  BY <1>1, <1>3 DEF PricesInv, EditInv
<1> QED
  BY <1>1, <1>4, <1>5 DEF PricesInv, PriceInForce, PortionKeepsPrice, BlanketPriceReaches

\* A request that reads leaves a note of what it read.
LEMMA EditRead ==
  ASSUME PricesInv, NEW e \in Editors, NEW h, EditInv(h), editor' = [editor EXCEPT ![e] = h],
         UNCHANGED <<instant, prices, portions, continued, reached>>
  PROVE  PricesInv'
<1>1. DOMAIN editor' = Editors /\ \A d \in Editors : editor'[d] = editor[d] \/ editor'[d] = h
  BY DEF PricesInv
<1>2. \A d \in Editors : EditInv(editor[d])'
  BY <1>1 DEF PricesInv, EditInv
<1> QED
  BY <1>1, <1>2 DEF PricesInv, RowsInv, PriceInForce, PortionKeepsPrice, BlanketPriceReaches

\* A price the owner set stays in force, however many owners change prices and
\* portions at once: a blanket change reaches every channel that had a price of
\* its own when it looked, and a base portion costs what its item cost.
THEOREM PricesStayInForce == PricesSpec => []PriceInForce
<1>1. PricesInit => PricesInv
  <2> SUFFICES ASSUME PricesInit PROVE PricesInv
    OBVIOUS
  <2> DEFINE r == [id |-> 1, of |-> Base, was |-> Base, outlet |-> Everywhere,
                   channel |-> AnyChannel, from |-> 0, at |-> 1]
  <2>1. r \in PriceRow /\ r.id = 1 /\ r.at = 1 /\ r.of = Base
    BY DEF PriceRow
  <2>2. prices = {r}
    BY DEF PricesInit
  <2> HIDE DEF r
  <2>3. RowsInv
    BY <2>1, <2>2 DEF RowsInv, Ids
  <2>4. DOMAIN editor = Editors /\ \A e \in Editors : EditInv(editor[e])
    BY DEF PricesInit, EditInv, NoEdit
  <2> QED
    BY <2>3, <2>4 DEF PricesInit, PricesInv, PriceInForce, PortionKeepsPrice, BlanketPriceReaches
<1>2. ASSUME PricesInv, [PricesNext]_priceVars PROVE PricesInv'
  <2>1. CASE InstantPasses
    BY <1>2, <2>1 DEF InstantPasses, PricesInv, RowsInv, EditInv, PriceInForce, PortionKeepsPrice, BlanketPriceReaches
  <2>2. ASSUME NEW e \in Editors, NEW p \in Portions, PortionRead(e, p) PROVE PricesInv'
    <3> DEFINE b == IF portions = {} THEN {r \in prices : r.of = Base} ELSE {}
               h == [op |-> "portion", new |-> p, base |-> b]
    <3>1. b \subseteq prices /\ \A r \in b : r.of = Base /\ r.at = r.id /\ r \in PriceRow
      BY <1>2 DEF PricesInv, RowsInv
    <3>2. /\ p \in Portions \ {Regular} /\ editor' = [editor EXCEPT ![e] = h]
          /\ UNCHANGED <<instant, prices, portions, continued, reached>>
      BY <2>2 DEF PortionRead
    <3>3. h.op = "portion" /\ h.new = p /\ h.base = b
      OBVIOUS
    <3> HIDE DEF b, h
    <3>4. EditInv(h)
      BY <3>1, <3>2, <3>3 DEF EditInv, Ids
    <3> QED
      BY <1>2, <3>2, <3>4, EditRead
  <2>3. ASSUME NEW e \in Editors, NEW p \in Portions \cup {Base}, NEW outlet \in {Everywhere, House},
               NEW c \in Channels \cup {AnyChannel}, PriceRead(e, p, outlet, c)
        PROVE  PricesInv'
    <3> DEFINE cs == IF c = AnyChannel THEN OwnPriced(p, outlet) \cup {AnyChannel} ELSE {c}
               h == [op |-> "price", of |-> p, outlet |-> outlet, channels |-> cs]
    <3>1. cs \subseteq Channels \cup {AnyChannel}
      BY <1>2 DEF OwnPriced, PricesInv, RowsInv, PriceRow
    <3>2. /\ editor' = [editor EXCEPT ![e] = h]
          /\ UNCHANGED <<instant, prices, portions, continued, reached>>
      BY <2>3 DEF PriceRead
    <3>3. h.op = "price" /\ h.of = p /\ h.outlet = outlet /\ h.channels = cs
      OBVIOUS
    <3> HIDE DEF cs, h
    <3>4. EditInv(h)
      BY <3>1, <3>3 DEF EditInv
    <3> QED
      BY <1>2, <3>2, <3>4, EditRead
  <2>4. CASE UNCHANGED priceVars
    BY <1>2, <2>4 DEF priceVars, PricesInv, RowsInv, EditInv, PriceInForce, PortionKeepsPrice, BlanketPriceReaches
  <2> QED
    BY <1>2, <2>1, <2>2, <2>3, <2>4, InsertPriceInv, PortionWriteInv, RemoveVariantInv DEF PricesNext
<1>3. PricesInv /\ [PricesNext]_priceVars => PricesInv'
  BY <1>2
<1>4. PricesInv => PriceInForce
  BY DEF PricesInv
<1> QED
  BY <1>1, <1>3, <1>4, PTL DEF PricesSpec

-----------------------------------------------------------------------------
(* The silent-device watch *)

HealthTypes ==
  /\ contact \in [Watched -> [active : BOOLEAN, period : Nat, quiet : BOOLEAN]]
  /\ lastAlertedAt \in [Watched -> Nat \cup {Unmarked}]
  /\ lister = [l \in Listers |-> lister[l]]
  /\ alerts \in [Watched -> Nat] /\ unmarks \in [Watched -> Nat]

\* What was read of a device: not later than what is so now.
RowKnown(d, row) ==
  /\ row.period \in Nat /\ row.period <= contact[d].period /\ row.quiet \in BOOLEAN
  /\ row.quiet /\ row.period = contact[d].period => contact[d].quiet

\* The rows a list holds; of a quiet device they are of its current period.
HeldInv ==
  \A l \in Listers :
    /\ DOMAIN lister[l].rows \subseteq Watched
    /\ \A d \in DOMAIN lister[l].rows :
         /\ RowKnown(d, lister[l].rows[d])
         /\ contact[d].quiet => lister[l].rows[d].period = contact[d].period

\* A list in the middle of an alert: the device was silent at the walk's clock,
\* which is later than the rows.
WalkInv ==
  \A l \in Listers : lister[l].op = "notify" =>
    /\ lister[l].alerting \in DOMAIN lister[l].rows
    /\ silent(lister[l].alerting, lister[l].rows[lister[l].alerting], lister[l].now)
    /\ \A d \in DOMAIN lister[l].rows :
         RowKnown(d, lister[l].now[d]) /\ lister[l].rows[d].period <= lister[l].now[d].period

InFlight(d) == {l \in Listers : lister[l].op = "notify" /\ lister[l].alerting = d}
Marked(d) == IF lastAlertedAt[d] = contact[d].period THEN 1 ELSE 0

\* Alerts delivered and under way are paid for: one by the mark, the others by
\* marks that were cleared.
CountInv ==
  \A d \in Watched :
    /\ alerts[d] <= 1 + unmarks[d]
    /\ contact[d].active /\ ~ contact[d].quiet => alerts[d] = 0
    /\ contact[d].active /\ contact[d].quiet => alerts[d] + Cardinality(InFlight(d)) <= unmarks[d] + Marked(d)

HealthInv == HealthTypes /\ HeldInv /\ WalkInv /\ CountInv

LEMMA InFlightFinite ==
  ASSUME NEW d
  PROVE  /\ IsFiniteSet(InFlight(d)) /\ Cardinality(InFlight(d)) \in Nat
         /\ \A l : /\ IsFiniteSet(InFlight(d) \ {l}) /\ Cardinality(InFlight(d) \ {l}) \in Nat
                   /\ l \in InFlight(d) => Cardinality(InFlight(d)) = Cardinality(InFlight(d) \ {l}) + 1
                   /\ l \notin InFlight(d) => InFlight(d) \ {l} = InFlight(d)
<1>1. IsFiniteSet(Listers)
  BY HealthAssumption, FS_AddElement DEF Listers
<1>2. IsFiniteSet(InFlight(d))
  BY <1>1, FS_Subset DEF InFlight
<1>3. Cardinality(InFlight(d)) \in Nat
  BY <1>2, FS_CardinalityType
<1>4. ASSUME NEW l
      PROVE  /\ IsFiniteSet(InFlight(d) \ {l}) /\ Cardinality(InFlight(d) \ {l}) \in Nat
             /\ l \in InFlight(d) => Cardinality(InFlight(d)) = Cardinality(InFlight(d) \ {l}) + 1
  <2>1. IsFiniteSet(InFlight(d) \ {l})
    BY <1>2, FS_RemoveElement
  <2>2. Cardinality(InFlight(d) \ {l}) \in Nat
    BY <2>1, FS_CardinalityType
  <2>3. ASSUME l \in InFlight(d) PROVE Cardinality(InFlight(d)) = Cardinality(InFlight(d) \ {l}) + 1
    <3>1. Cardinality(InFlight(d) \ {l}) = Cardinality(InFlight(d)) - 1
      BY <1>2, <2>3, FS_RemoveElement
    <3> QED
      BY <1>3, <2>2, <3>1
  <2> QED
    BY <2>1, <2>2, <2>3
<1>5. ASSUME NEW l, l \notin InFlight(d) PROVE InFlight(d) \ {l} = InFlight(d)
  BY <1>5
<1> QED
  BY <1>2, <1>3, <1>4, <1>5

\* The watch starts with nothing read, marked or sent.
LEMMA HealthStarts == HealthInit => HealthInv
<1> SUFFICES ASSUME HealthInit PROVE HealthInv
  OBVIOUS
<1>1. \A l \in Listers : lister[l] = NoList
  BY DEF HealthInit
<1>2. \A l \in Listers : lister[l].op = "none" /\ DOMAIN lister[l].rows = {}
  BY <1>1 DEF NoList, NoRows
<1>3. HealthTypes
  BY DEF HealthInit, HealthTypes
<1>4. HeldInv /\ WalkInv
  BY <1>2 DEF HeldInv, WalkInv
<1>5. \A d \in Watched : alerts[d] = 0 /\ unmarks[d] = 0 /\ contact[d].quiet = FALSE
  BY DEF HealthInit
<1>6. CountInv
  BY <1>5 DEF CountInv
<1> QED
  BY <1>3, <1>4, <1>6 DEF HealthInv

\* A device that is not quiet has no alert of its current period under way.
LEMMA NothingUnderWay ==
  ASSUME HealthInv, NEW l \in Listers, lister[l].op = "notify", NEW d, d = lister[l].alerting, ~ contact[d].quiet
  PROVE  d \in Watched /\ lister[l].rows[d].period # contact[d].period
<1>1. d \in Watched /\ d \in DOMAIN lister[l].rows
  BY DEF HealthInv, WalkInv, HeldInv
<1>2. RowKnown(d, lister[l].rows[d]) /\ RowKnown(d, lister[l].now[d]) /\ silent(d, lister[l].rows[d], lister[l].now)
  BY <1>1 DEF HealthInv, WalkInv, HeldInv
<1> QED
  BY <1>1, <1>2 DEF RowKnown, silent

\* Going on with a walk keeps the count, when what has been delivered by then
\* and is under way elsewhere is paid for.
LEMMA WalkKeeps ==
  ASSUME HealthInv, contact' = contact, alerts' \in [Watched -> Nat],
         NEW l \in Listers, NEW rows, NEW now, NEW marks,
         DOMAIN rows \subseteq DOMAIN lister[l].rows, \A d \in DOMAIN rows : rows[d] = lister[l].rows[d],
         \A d \in DOMAIN rows : RowKnown(d, now[d]) /\ rows[d].period <= now[d].period,
         marks \in [Watched -> Nat \cup {Unmarked}],
         \A d \in Watched : marks[d] = lastAlertedAt[d] \/ (marks[d] = Unmarked /\ d \notin DOMAIN rows),
         \A d \in Watched :
           /\ ~ contact[d].active => alerts'[d] = alerts[d]
           /\ contact[d].active /\ ~ contact[d].quiet => alerts'[d] = 0
           /\ contact[d].active /\ contact[d].quiet =>
                alerts'[d] + Cardinality(InFlight(d) \ {l}) <= unmarks[d] + Marked(d),
         Walk(l, rows, now, marks)
  PROVE  HealthInv'
<1> DEFINE due == {d \in DOMAIN rows : Due(d, rows[d], now, marks)}
           stopped(d, gone) ==
             [op |-> "notify", scope |-> lister[l].scope, rows |-> [e \in DOMAIN rows \ gone |-> rows[e]],
              now |-> now, alerting |-> d]
<1>1. /\ contact \in [Watched -> [active : BOOLEAN, period : Nat, quiet : BOOLEAN]]
      /\ lastAlertedAt \in [Watched -> Nat \cup {Unmarked}]
      /\ alerts \in [Watched -> Nat] /\ unmarks \in [Watched -> Nat]
      /\ lister = [k \in Listers |-> lister[k]]
  BY DEF HealthInv, HealthTypes
<1>2. DOMAIN rows \subseteq Watched
  BY DEF HealthInv, HeldInv
<1>3. Unmarked \notin Nat
  BY HealthAssumption
<1>4. \A d \in Watched :
        unmarks'[d] = unmarks[d] + IF /\ contact[d].active /\ contact[d].quiet
                                      /\ lastAlertedAt[d] # Unmarked /\ lastAlertedAt'[d] = Unmarked THEN 1 ELSE 0
  BY DEF Walk
<1>5. unmarks' \in [Watched -> Nat]
  <2>1. DOMAIN unmarks' = Watched /\ unmarks' = [d \in Watched |-> unmarks'[d]]
    BY DEF Walk
  <2>2. \A d \in Watched : unmarks'[d] \in Nat
    BY <1>1, <1>4
  <2> QED
    BY <2>1, <2>2
<1>6. \A gone : Passed(gone, rows, now, marks) \in [Watched -> Nat \cup {Unmarked}]
  BY DEF Passed
<1>7. \A gone : \A d \in Watched : Passed(gone, rows, now, marks)[d] \in {lastAlertedAt[d], Unmarked}
  BY DEF Passed
\* What the count needs of the marks and of the alerts under way.
<1>8. SUFFICES
        /\ lastAlertedAt' \in [Watched -> Nat \cup {Unmarked}]
        /\ lister' = [k \in Listers |-> lister'[k]]
        /\ \A k \in Listers : k # l => lister'[k] = lister[k]
        /\ lister'[l] = NoList \/ \E d \in due, gone \in SUBSET (DOMAIN rows \ due) : lister'[l] = stopped(d, gone)
        /\ \A d \in Watched :
             \/ InFlight(d)' = InFlight(d) \ {l} /\ lastAlertedAt'[d] \in {lastAlertedAt[d], Unmarked}
             \/ d \in due /\ lastAlertedAt'[d] = now[d].period /\ InFlight(d)' = (InFlight(d) \ {l}) \cup {l}
  <2>0. /\ lastAlertedAt' \in [Watched -> Nat \cup {Unmarked}]
        /\ lister' = [k \in Listers |-> lister'[k]]
        /\ \A k \in Listers : k # l => lister'[k] = lister[k]
        /\ lister'[l] = NoList \/ \E d \in due, gone \in SUBSET (DOMAIN rows \ due) : lister'[l] = stopped(d, gone)
    BY <1>8
  <2>1. HealthTypes'
    BY <1>1, <1>5, <2>0 DEF HealthTypes
  <2>2. ASSUME NEW k \in Listers
        PROVE  /\ DOMAIN lister'[k].rows \subseteq DOMAIN lister[k].rows
               /\ \A d \in DOMAIN lister'[k].rows : lister'[k].rows[d] = lister[k].rows[d]
    <3>1. CASE k # l
      BY <2>0, <3>1
    <3>2. CASE k = l /\ lister'[l] = NoList
      BY <3>2 DEF NoList, NoRows
    <3>3. CASE k = l /\ \E d \in due, gone \in SUBSET (DOMAIN rows \ due) : lister'[l] = stopped(d, gone)
      BY <3>3
    <3> QED
      BY <2>0, <3>1, <3>2, <3>3
  <2>3. \A d, row : RowKnown(d, row) => RowKnown(d, row)'
    BY DEF RowKnown
  <2>4. HeldInv'
    <3> SUFFICES ASSUME NEW k \in Listers
                 PROVE  /\ DOMAIN lister'[k].rows \subseteq Watched
                        /\ \A d \in DOMAIN lister'[k].rows :
                             /\ RowKnown(d, lister'[k].rows[d])
                             /\ contact'[d].quiet => lister'[k].rows[d].period = contact'[d].period
      BY <2>3 DEF HeldInv, RowKnown
    <3> QED
      BY <2>2 DEF HealthInv, HeldInv
  <2>5. WalkInv'
    <3> SUFFICES ASSUME NEW k \in Listers, lister'[k].op = "notify"
                 PROVE  /\ lister'[k].alerting \in DOMAIN lister'[k].rows
                        /\ silent(lister'[k].alerting, lister'[k].rows[lister'[k].alerting], lister'[k].now)
                        /\ \A d \in DOMAIN lister'[k].rows :
                             RowKnown(d, lister'[k].now[d]) /\ lister'[k].rows[d].period <= lister'[k].now[d].period
      BY <2>3 DEF WalkInv, RowKnown, silent
    <3>1. CASE k # l
      BY <2>0, <3>1 DEF HealthInv, WalkInv
    <3>2. CASE k = l /\ lister'[l] = NoList
      BY <3>2 DEF NoList
    <3>3. CASE k = l /\ \E d \in due, gone \in SUBSET (DOMAIN rows \ due) : lister'[l] = stopped(d, gone)
      <4>1. PICK d \in due, gone \in SUBSET (DOMAIN rows \ due) : lister'[l] = stopped(d, gone)
        BY <3>3
      <4>2. /\ lister'[l].alerting = d /\ lister'[l].now = now
            /\ lister'[l].rows = [e \in DOMAIN rows \ gone |-> rows[e]]
        BY <4>1
      <4>3. d \in DOMAIN rows \ gone /\ silent(d, rows[d], now)
        BY DEF Due
      <4> QED
        BY <3>3, <4>2, <4>3
    <3> QED
      BY <2>0, <3>1, <3>2, <3>3
  <2>6. CountInv'
    <3> SUFFICES ASSUME NEW d \in Watched
                 PROVE  /\ alerts'[d] <= 1 + unmarks'[d]
                        /\ contact[d].active /\ ~ contact[d].quiet => alerts'[d] = 0
                        /\ contact[d].active /\ contact[d].quiet =>
                             alerts'[d] + Cardinality(InFlight(d)') <= unmarks'[d] + Marked(d)'
      BY DEF CountInv
    <3>1. /\ unmarks[d] \in Nat /\ unmarks'[d] \in Nat /\ alerts[d] \in Nat /\ alerts'[d] \in Nat
          /\ unmarks'[d] >= unmarks[d] /\ contact[d].period \in Nat
          /\ contact[d].active \in BOOLEAN /\ contact[d].quiet \in BOOLEAN
      BY <1>1, <1>4, <1>5
    <3>2. PICK c \in Nat : c = Cardinality(InFlight(d) \ {l})
      BY InFlightFinite
    <3>3. IsFiniteSet(InFlight(d) \ {l})
      BY InFlightFinite
    <3>4. CASE ~ contact[d].active
      <4>1. alerts[d] <= 1 + unmarks[d] /\ alerts'[d] = alerts[d]
        BY <3>4 DEF HealthInv, CountInv
      <4> QED
        BY <3>1, <3>4, <4>1
    <3>5. CASE contact[d].active /\ ~ contact[d].quiet
      <4>1. alerts'[d] = 0
        BY <3>5
      <4>2. alerts'[d] <= 1 + unmarks'[d]
        BY <3>1, <4>1
      <4> QED
        BY <3>5, <4>1, <4>2
    <3>6. CASE contact[d].active /\ contact[d].quiet
      <4>1. alerts'[d] + c <= unmarks[d] + Marked(d)
        BY <3>2, <3>6
      <4>2. Marked(d) \in {0, 1} /\ Marked(d)' \in {0, 1}
        BY DEF Marked
      <4>3. CASE InFlight(d)' = InFlight(d) \ {l} /\ lastAlertedAt'[d] \in {lastAlertedAt[d], Unmarked}
        <5>1. CASE lastAlertedAt'[d] = lastAlertedAt[d]
          <6>1. Marked(d)' = Marked(d)
            BY <5>1 DEF Marked
          <6>2. alerts'[d] + c <= unmarks'[d] + Marked(d)'
            BY <3>1, <4>1, <4>2, <6>1
          <6> QED
            BY <3>1, <3>2, <3>6, <4>2, <4>3, <6>2
        <5>2. CASE lastAlertedAt'[d] # lastAlertedAt[d]
          <6>1. lastAlertedAt'[d] = Unmarked /\ lastAlertedAt[d] # Unmarked
            BY <4>3, <5>2
          <6>2. unmarks'[d] = unmarks[d] + 1
            BY <1>4, <3>6, <6>1
          <6>3. alerts'[d] + c <= unmarks'[d] + Marked(d)'
            BY <3>1, <4>1, <4>2, <6>2
          <6> QED
            BY <3>1, <3>2, <3>6, <4>2, <4>3, <6>3
        <5> QED
          BY <5>1, <5>2
      <4>4. CASE d \in due /\ lastAlertedAt'[d] = now[d].period /\ InFlight(d)' = (InFlight(d) \ {l}) \cup {l}
        <5>1. d \in DOMAIN rows /\ (marks[d] = Unmarked \/ rows[d].period > marks[d]) /\ marks[d] = lastAlertedAt[d]
          BY <4>4 DEF Due
        <5>2. rows[d].period = contact[d].period /\ rows[d].period <= now[d].period /\ now[d].period <= contact[d].period
              /\ now[d].period \in Nat
          BY <3>6, <5>1 DEF HealthInv, HeldInv, RowKnown
        <5>3. now[d].period = contact[d].period
          BY <3>1, <5>2
        <5>4. lastAlertedAt[d] # contact[d].period
          BY <1>1, <1>3, <3>1, <5>1, <5>2
        <5>5. Marked(d) = 0 /\ Marked(d)' = 1
          BY <4>4, <5>3, <5>4 DEF Marked
        <5>6. Cardinality(InFlight(d)') = c + 1
          <6>1. l \notin InFlight(d) \ {l}
            OBVIOUS
          <6>2. Cardinality((InFlight(d) \ {l}) \cup {l}) = Cardinality(InFlight(d) \ {l}) + 1
            BY <3>3, <6>1, FS_AddElement
          <6> QED
            BY <3>2, <4>4, <6>2
        <5> QED
          BY <3>1, <3>6, <4>1, <5>5, <5>6
      <4> QED
        BY <1>8, <4>3, <4>4
    <3> QED
      BY <3>1, <3>4, <3>5, <3>6
  <2> QED
    BY <2>1, <2>4, <2>5, <2>6 DEF HealthInv
<1>9. CASE /\ lastAlertedAt' = Passed(DOMAIN rows, rows, now, marks)
           /\ lister' = [lister EXCEPT ![l] = NoList]
  <2>1. lister' = [k \in Listers |-> lister'[k]] /\ lister'[l] = NoList /\ \A k \in Listers : k # l => lister'[k] = lister[k]
    BY <1>1, <1>9
  <2>2. \A d \in Watched : InFlight(d)' = InFlight(d) \ {l}
    BY <2>1 DEF InFlight, NoList
  <2>3. lastAlertedAt' \in [Watched -> Nat \cup {Unmarked}] /\ \A d \in Watched : lastAlertedAt'[d] \in {lastAlertedAt[d], Unmarked}
    BY <1>6, <1>7, <1>9
  <2> QED
    BY <2>1, <2>2, <2>3
<1>10. ASSUME NEW d \in due, NEW gone \in SUBSET (DOMAIN rows \ due),
              lastAlertedAt' = Reserve(Passed(gone, rows, now, marks), d, now),
              lister' = [lister EXCEPT ![l] = stopped(d, gone)]
       PROVE  /\ lastAlertedAt' \in [Watched -> Nat \cup {Unmarked}]
              /\ lister' = [k \in Listers |-> lister'[k]]
              /\ \A k \in Listers : k # l => lister'[k] = lister[k]
              /\ lister'[l] = stopped(d, gone)
              /\ \A e \in Watched :
                   \/ InFlight(e)' = InFlight(e) \ {l} /\ lastAlertedAt'[e] \in {lastAlertedAt[e], Unmarked}
                   \/ e \in due /\ lastAlertedAt'[e] = now[e].period /\ InFlight(e)' = (InFlight(e) \ {l}) \cup {l}
  <2>1. lister' = [k \in Listers |-> lister'[k]] /\ lister'[l] = stopped(d, gone) /\ \A k \in Listers : k # l => lister'[k] = lister[k]
    BY <1>1, <1>10
  <2>2. lister'[l].op = "notify" /\ lister'[l].alerting = d
    BY <2>1
  <2>3. d \in Watched /\ now[d].period \in Nat
    BY <1>2 DEF RowKnown
  <2>4. lastAlertedAt' = [Passed(gone, rows, now, marks) EXCEPT ![d] = now[d].period]
    BY <1>10 DEF Reserve
  <2>5. lastAlertedAt' \in [Watched -> Nat \cup {Unmarked}]
    BY <1>6, <2>3, <2>4
  <2>6. lastAlertedAt'[d] = now[d].period /\ \A e \in Watched : e # d => lastAlertedAt'[e] = Passed(gone, rows, now, marks)[e]
    BY <1>6, <2>3, <2>4
  <2>7. ASSUME NEW e \in Watched, e # d PROVE InFlight(e)' = InFlight(e) \ {l}
    BY <2>1, <2>2, <2>7 DEF InFlight
  <2>8. InFlight(d)' = (InFlight(d) \ {l}) \cup {l}
    BY <2>1, <2>2 DEF InFlight
  <2> QED
    BY <1>7, <2>1, <2>5, <2>6, <2>7, <2>8
<1>11. \/ /\ lastAlertedAt' = Passed(DOMAIN rows, rows, now, marks)
          /\ lister' = [lister EXCEPT ![l] = NoList]
       \/ \E d \in due, gone \in SUBSET (DOMAIN rows \ due) :
            /\ lastAlertedAt' = Reserve(Passed(gone, rows, now, marks), d, now)
            /\ lister' = [lister EXCEPT ![l] = stopped(d, gone)]
  BY DEF Walk
<1>12. CASE \E d \in due, gone \in SUBSET (DOMAIN rows \ due) :
              /\ lastAlertedAt' = Reserve(Passed(gone, rows, now, marks), d, now)
              /\ lister' = [lister EXCEPT ![l] = stopped(d, gone)]
  <2>1. PICK d \in due, gone \in SUBSET (DOMAIN rows \ due) :
              /\ lastAlertedAt' = Reserve(Passed(gone, rows, now, marks), d, now)
              /\ lister' = [lister EXCEPT ![l] = stopped(d, gone)]
    BY <1>12
  <2> HIDE DEF due, stopped
  <2> QED
    BY <1>10, <2>1
<1> QED
  BY <1>9, <1>11, <1>12

\* A step of a device that leaves the lists alone and the reads true.
LEMMA DeviceKeeps ==
  ASSUME HealthInv, HealthTypes', UNCHANGED <<lastAlertedAt, lister>>,
         \A d \in Watched : contact'[d].period >= contact[d].period,
         \A d \in Watched : contact'[d].period = contact[d].period /\ contact[d].quiet => contact'[d].quiet,
         \A d \in Watched : contact'[d].quiet =>
           \A l \in Listers : d \in DOMAIN lister[l].rows => lister[l].rows[d].period = contact'[d].period,
         CountInv'
  PROVE  HealthInv'
<1>1. /\ contact \in [Watched -> [active : BOOLEAN, period : Nat, quiet : BOOLEAN]]
      /\ contact' \in [Watched -> [active : BOOLEAN, period : Nat, quiet : BOOLEAN]]
  BY DEF HealthInv, HealthTypes
<1>2. ASSUME NEW d \in Watched, NEW row, RowKnown(d, row) PROVE RowKnown(d, row)'
  <2>1. contact[d].period \in Nat /\ contact'[d].period \in Nat /\ contact'[d].period >= contact[d].period
    BY <1>1
  <2>2. row.period \in Nat /\ row.period <= contact[d].period /\ row.quiet \in BOOLEAN
    BY <1>2 DEF RowKnown
  <2>3. row.period <= contact'[d].period
    BY <2>1, <2>2
  <2>4. ASSUME row.quiet, row.period = contact'[d].period PROVE contact'[d].quiet
    <3>1. contact'[d].period = contact[d].period
      BY <2>1, <2>2, <2>4
    <3> QED
      BY <1>2, <2>4, <3>1 DEF RowKnown
  <2> QED
    BY <2>2, <2>3, <2>4 DEF RowKnown
<1>3. HeldInv'
  <2> SUFFICES ASSUME NEW l \in Listers
               PROVE  /\ DOMAIN lister'[l].rows \subseteq Watched
                      /\ \A d \in DOMAIN lister'[l].rows :
                           /\ RowKnown(d, lister[l].rows[d])'
                           /\ contact'[d].quiet => lister[l].rows[d].period = contact'[d].period
    BY DEF HeldInv
  <2> QED
    BY <1>2 DEF HealthInv, HeldInv
<1>4. WalkInv'
  <2> SUFFICES ASSUME NEW l \in Listers, lister[l].op = "notify"
               PROVE  /\ lister[l].alerting \in DOMAIN lister[l].rows
                      /\ silent(lister[l].alerting, lister[l].rows[lister[l].alerting], lister[l].now)
                      /\ \A d \in DOMAIN lister[l].rows :
                           RowKnown(d, lister[l].now[d])' /\ lister[l].rows[d].period <= lister[l].now[d].period
    BY DEF WalkInv, silent
  <2>1. DOMAIN lister[l].rows \subseteq Watched
    BY DEF HealthInv, HeldInv
  <2> QED
    BY <1>2, <2>1 DEF HealthInv, WalkInv
<1> QED
  BY <1>3, <1>4 DEF HealthInv

LEMMA HeartbeatKeeps ==
  ASSUME HealthInv, NEW d \in Watched, heartbeat(d)
  PROVE  HealthInv'
<1>1. /\ contact \in [Watched -> [active : BOOLEAN, period : Nat, quiet : BOOLEAN]]
      /\ alerts \in [Watched -> Nat] /\ unmarks \in [Watched -> Nat] /\ HealthTypes
  BY DEF HealthInv, HealthTypes
<1>2. UNCHANGED <<lastAlertedAt, lister>>
  BY DEF heartbeat
<1>3. /\ contact' \in [Watched -> [active : BOOLEAN, period : Nat, quiet : BOOLEAN]]
      /\ contact'[d].period = contact[d].period + 1 /\ contact'[d].quiet = FALSE /\ contact'[d].active = contact[d].active
      /\ \A e \in Watched : e # d => contact'[e] = contact[e]
  BY <1>1 DEF heartbeat
<1>4. /\ alerts' \in [Watched -> Nat] /\ unmarks' \in [Watched -> Nat] /\ alerts'[d] = 0 /\ unmarks'[d] = 0
      /\ \A e \in Watched : e # d => alerts'[e] = alerts[e] /\ unmarks'[e] = unmarks[e]
  BY <1>1 DEF heartbeat
<1>5. HealthTypes'
  BY <1>1, <1>2, <1>3, <1>4 DEF HealthTypes
<1>6. CountInv'
  <2> SUFFICES ASSUME NEW e \in Watched
               PROVE  /\ alerts'[e] <= 1 + unmarks'[e]
                      /\ contact'[e].active /\ ~ contact'[e].quiet => alerts'[e] = 0
                      /\ contact'[e].active /\ contact'[e].quiet =>
                           alerts'[e] + Cardinality(InFlight(e)') <= unmarks'[e] + Marked(e)'
    BY DEF CountInv
  <2>1. CASE e = d
    BY <1>3, <1>4, <2>1
  <2>2. CASE e # d
    <3>1. InFlight(e)' = InFlight(e) /\ Marked(e)' = Marked(e)
      BY <1>2, <1>3, <2>2 DEF InFlight, Marked
    <3> QED
      BY <1>3, <1>4, <2>2, <3>1 DEF HealthInv, CountInv
  <2> QED
    BY <2>1, <2>2
<1>7. /\ \A e \in Watched : contact'[e].period >= contact[e].period
      /\ \A e \in Watched : contact'[e].period = contact[e].period /\ contact[e].quiet => contact'[e].quiet
  BY SMTT(40), <1>1, <1>3
<1>8. \A e \in Watched : contact'[e].quiet =>
           \A l \in Listers : e \in DOMAIN lister[l].rows => lister[l].rows[e].period = contact'[e].period
  BY <1>3 DEF HealthInv, HeldInv
<1> QED
  BY <1>2, <1>5, <1>6, <1>7, <1>8, DeviceKeeps

LEMMA RevokeKeeps ==
  ASSUME HealthInv, NEW d \in Watched, Revoke(d)
  PROVE  HealthInv'
<1>1. /\ contact \in [Watched -> [active : BOOLEAN, period : Nat, quiet : BOOLEAN]] /\ HealthTypes
  BY DEF HealthInv, HealthTypes
<1>2. UNCHANGED <<lastAlertedAt, lister, alerts, unmarks>>
  BY DEF Revoke
<1>3. /\ contact' \in [Watched -> [active : BOOLEAN, period : Nat, quiet : BOOLEAN]]
      /\ contact'[d].period = contact[d].period /\ contact'[d].quiet = contact[d].quiet /\ contact'[d].active = FALSE
      /\ \A e \in Watched : e # d => contact'[e] = contact[e]
  BY <1>1 DEF Revoke
<1>4. HealthTypes'
  BY <1>1, <1>2, <1>3 DEF HealthTypes
<1>5. CountInv'
  <2> SUFFICES ASSUME NEW e \in Watched
               PROVE  /\ alerts[e] <= 1 + unmarks[e]
                      /\ contact'[e].active /\ ~ contact'[e].quiet => alerts[e] = 0
                      /\ contact'[e].active /\ contact'[e].quiet =>
                           alerts[e] + Cardinality(InFlight(e)') <= unmarks[e] + Marked(e)'
    BY <1>2 DEF CountInv
  <2>1. CASE e = d
    BY <1>3, <2>1 DEF HealthInv, CountInv
  <2>2. CASE e # d
    <3>1. InFlight(e)' = InFlight(e) /\ Marked(e)' = Marked(e)
      BY <1>2, <1>3, <2>2 DEF InFlight, Marked
    <3> QED
      BY <1>3, <2>2, <3>1 DEF HealthInv, CountInv
  <2> QED
    BY <2>1, <2>2
<1>6. /\ \A e \in Watched : contact'[e].period >= contact[e].period
      /\ \A e \in Watched : contact'[e].period = contact[e].period /\ contact[e].quiet => contact'[e].quiet
  BY <1>1, <1>3
<1>7. \A e \in Watched : contact'[e].quiet =>
           \A l \in Listers : e \in DOMAIN lister[l].rows => lister[l].rows[e].period = contact'[e].period
  BY <1>3 DEF HealthInv, HeldInv
<1> QED
  BY <1>2, <1>4, <1>5, <1>6, <1>7, DeviceKeeps

LEMMA GoQuietKeeps ==
  ASSUME HealthInv, NEW d \in Watched, GoQuiet(d)
  PROVE  HealthInv'
<1>1. /\ contact \in [Watched -> [active : BOOLEAN, period : Nat, quiet : BOOLEAN]] /\ HealthTypes
      /\ alerts \in [Watched -> Nat] /\ unmarks \in [Watched -> Nat]
  BY DEF HealthInv, HealthTypes
<1>2. UNCHANGED <<lastAlertedAt, lister, alerts, unmarks>>
  BY DEF GoQuiet
<1>3. /\ contact' \in [Watched -> [active : BOOLEAN, period : Nat, quiet : BOOLEAN]]
      /\ contact'[d].period = contact[d].period /\ contact'[d].quiet = TRUE /\ contact'[d].active = contact[d].active
      /\ \A e \in Watched : e # d => contact'[e] = contact[e]
  BY <1>1 DEF GoQuiet
<1>4. HealthTypes'
  BY <1>1, <1>2, <1>3 DEF HealthTypes
<1>5. InFlight(d) = {}
  <2> SUFFICES ASSUME NEW l \in InFlight(d) PROVE FALSE
    OBVIOUS
  <2>1. l \in Listers /\ lister[l].op = "notify" /\ d = lister[l].alerting /\ ~ contact[d].quiet
    BY DEF InFlight, GoQuiet
  <2>2. lister[l].rows[d].period # contact[d].period
    BY <2>1, NothingUnderWay
  <2>3. d \in DOMAIN lister[l].rows
    BY <2>1 DEF HealthInv, WalkInv
  <2> QED
    BY <2>1, <2>2, <2>3 DEF GoQuiet
<1>6. CountInv'
  <2> SUFFICES ASSUME NEW e \in Watched
               PROVE  /\ alerts[e] <= 1 + unmarks[e]
                      /\ contact'[e].active /\ ~ contact'[e].quiet => alerts[e] = 0
                      /\ contact'[e].active /\ contact'[e].quiet =>
                           alerts[e] + Cardinality(InFlight(e)') <= unmarks[e] + Marked(e)'
    BY <1>2 DEF CountInv
  <2>1. CASE e = d
    <3>1. InFlight(d)' = {}
      BY <1>2, <1>5 DEF InFlight
    <3>2. Cardinality(InFlight(d)') = 0
      BY <3>1, FS_EmptySet
    <3>3. alerts[d] = 0
      BY DEF HealthInv, CountInv, GoQuiet
    <3>4. Marked(d)' \in {0, 1} /\ unmarks[d] \in Nat
      BY <1>1 DEF Marked
    <3>5. alerts[d] <= 1 + unmarks[d] /\ alerts[d] + 0 <= unmarks[d] + Marked(d)'
      BY <3>3, <3>4
    <3> QED
      BY <1>3, <2>1, <3>2, <3>5
  <2>2. CASE e # d
    <3>1. InFlight(e)' = InFlight(e) /\ Marked(e)' = Marked(e)
      BY <1>2, <1>3, <2>2 DEF InFlight, Marked
    <3> QED
      BY <1>3, <2>2, <3>1 DEF HealthInv, CountInv
  <2> QED
    BY <2>1, <2>2
<1>7. /\ \A e \in Watched : contact'[e].period >= contact[e].period
      /\ \A e \in Watched : contact'[e].period = contact[e].period /\ contact[e].quiet => contact'[e].quiet
  BY SMTT(40), <1>1, <1>3
<1>8. \A e \in Watched : contact'[e].quiet =>
           \A l \in Listers : e \in DOMAIN lister[l].rows => lister[l].rows[e].period = contact'[e].period
  <2> SUFFICES ASSUME NEW e \in Watched, contact'[e].quiet, NEW l \in Listers, e \in DOMAIN lister[l].rows
               PROVE  lister[l].rows[e].period = contact'[e].period
    OBVIOUS
  <2>1. CASE e = d
    <3>1. lister[l].rows[d].period = contact[d].period
      BY <2>1 DEF GoQuiet
    <3> QED
      BY <1>3, <2>1, <3>1
  <2>2. CASE e # d
    <3>1. contact'[e] = contact[e]
      BY <1>3, <2>2
    <3>2. contact[e].quiet
      BY <3>1
    <3>3. lister[l].rows[e].period = contact[e].period
      BY <3>2 DEF HealthInv, HeldInv
    <3> QED
      BY <3>1, <3>3
  <2> QED
    BY <2>1, <2>2
<1> QED
  BY <1>2, <1>4, <1>6, <1>7, <1>8, DeviceKeeps

LEMMA StartKeeps ==
  ASSUME HealthInv, NEW l \in Listers, NEW scope \in SUBSET Watched, Start(l, scope)
  PROVE  HealthInv'
<1>1. /\ contact \in [Watched -> [active : BOOLEAN, period : Nat, quiet : BOOLEAN]]
      /\ lister = [k \in Listers |-> lister[k]] /\ HealthTypes
  BY DEF HealthInv, HealthTypes
<1>2. UNCHANGED <<contact, lastAlertedAt, alerts, unmarks>> /\ lister[l].op = "none"
  BY DEF Start
<1>3. PICK rows : rows = [d \in {e \in scope : contact[e].active} |-> [period |-> contact[d].period, quiet |-> contact[d].quiet]]
  OBVIOUS
<1>4. /\ lister' = [k \in Listers |-> lister'[k]] /\ \A k \in Listers : k # l => lister'[k] = lister[k]
      /\ lister'[l] = [NoList EXCEPT !.op = "read", !.scope = scope, !.rows = rows]
  BY <1>1, <1>3 DEF Start
<1>5. lister'[l].op = "read" /\ lister'[l].rows = rows
  BY <1>4 DEF NoList
<1>6. HealthTypes'
  BY <1>1, <1>2, <1>4 DEF HealthTypes
<1>7. \A d, row : RowKnown(d, row) => RowKnown(d, row)'
  BY <1>2 DEF RowKnown
<1>8. HeldInv'
  <2> SUFFICES ASSUME NEW k \in Listers
               PROVE  /\ DOMAIN lister'[k].rows \subseteq Watched
                      /\ \A d \in DOMAIN lister'[k].rows :
                           /\ RowKnown(d, lister'[k].rows[d])
                           /\ contact'[d].quiet => lister'[k].rows[d].period = contact'[d].period
    BY <1>2 DEF HeldInv, RowKnown
  <2>1. CASE k # l
    BY <1>2, <1>4, <2>1 DEF HealthInv, HeldInv
  <2>2. CASE k = l
    <3>1. \A d \in DOMAIN rows : d \in Watched /\ rows[d].period = contact[d].period /\ rows[d].quiet = contact[d].quiet
      BY <1>3
    <3>2. \A d \in DOMAIN rows : RowKnown(d, rows[d])
      BY <1>1, <3>1 DEF RowKnown
    <3> QED
      BY <1>2, <1>5, <2>2, <3>1, <3>2
  <2> QED
    BY <2>1, <2>2
<1>9. WalkInv'
  <2> SUFFICES ASSUME NEW k \in Listers, lister'[k].op = "notify"
               PROVE  /\ lister'[k].alerting \in DOMAIN lister'[k].rows
                      /\ silent(lister'[k].alerting, lister'[k].rows[lister'[k].alerting], lister'[k].now)
                      /\ \A d \in DOMAIN lister'[k].rows :
                           RowKnown(d, lister'[k].now[d]) /\ lister'[k].rows[d].period <= lister'[k].now[d].period
    BY <1>2 DEF WalkInv, RowKnown, silent
  <2>1. lister'[k] = lister[k]
    BY <1>4, <1>5
  <2> QED
    BY <2>1 DEF HealthInv, WalkInv
<1>10. \A d : InFlight(d)' = InFlight(d) /\ Marked(d)' = Marked(d)
  BY ZenonT(60), <1>2, <1>4, <1>5 DEF InFlight, Marked
<1>11. CountInv'
  BY <1>2, <1>10 DEF HealthInv, CountInv
<1> QED
  BY <1>6, <1>8, <1>9, <1>11 DEF HealthInv

LEMMA WalkBeginKeeps ==
  ASSUME HealthInv, NEW l \in Listers, WalkBegin(l)
  PROVE  HealthInv'
<1>1. HealthTypes /\ HeldInv /\ CountInv
  BY DEF HealthInv
<1>2. PICK kept : kept = [d \in Watched |-> IF d \in Forgotten(l) THEN Unmarked ELSE lastAlertedAt[d]]
  OBVIOUS
<1>3. lister[l].op = "read" /\ Walk(l, lister[l].rows, contact, kept) /\ contact' = contact /\ alerts' = alerts
  BY <1>2 DEF WalkBegin
<1>4. PICK rows : rows = lister[l].rows
  OBVIOUS
<1>5. kept \in [Watched -> Nat \cup {Unmarked}]
  BY <1>1, <1>2 DEF HealthTypes
<1>6. \A d \in Watched : kept[d] = lastAlertedAt[d] \/ (kept[d] = Unmarked /\ d \notin DOMAIN rows)
  BY <1>2, <1>4 DEF Forgotten
<1>7. \A d \in DOMAIN rows : RowKnown(d, contact[d]) /\ rows[d].period <= contact[d].period
  <2>1. \A d \in DOMAIN rows : d \in Watched /\ RowKnown(d, rows[d])
    BY <1>1, <1>4 DEF HeldInv
  <2> QED
    BY <1>1, <2>1 DEF HealthTypes, RowKnown
<1>8. \A d \in Watched :
           /\ ~ contact[d].active => alerts'[d] = alerts[d]
           /\ contact[d].active /\ ~ contact[d].quiet => alerts'[d] = 0
           /\ contact[d].active /\ contact[d].quiet =>
                alerts'[d] + Cardinality(InFlight(d) \ {l}) <= unmarks[d] + Marked(d)
  <2>1. \A d : l \notin InFlight(d)
    BY <1>3 DEF InFlight
  <2>2. \A d : InFlight(d) \ {l} = InFlight(d)
    BY <2>1
  <2> QED
    BY <1>1, <1>3, <2>2 DEF CountInv
<1>9. alerts' \in [Watched -> Nat]
  BY <1>1, <1>3 DEF HealthTypes
<1>10. DOMAIN rows \subseteq DOMAIN lister[l].rows /\ \A d \in DOMAIN rows : rows[d] = lister[l].rows[d]
  BY <1>4
<1> QED
  BY ZenonT(60), <1>3, <1>4, <1>5, <1>6, <1>7, <1>8, <1>9, <1>10, WalkKeeps

LEMMA NotifiedKeeps ==
  ASSUME HealthInv, NEW l \in Listers, Notified(l)
  PROVE  HealthInv'
<1>1. HealthTypes /\ HeldInv /\ WalkInv /\ CountInv
  BY DEF HealthInv
<1>2. PICK d0 : d0 = lister[l].alerting
  OBVIOUS
<1>3. PICK rows : rows = [e \in DOMAIN lister[l].rows \ {d0} |-> lister[l].rows[e]]
  OBVIOUS
<1>4. /\ lister[l].op = "notify" /\ Walk(l, rows, lister[l].now, lastAlertedAt) /\ contact' = contact
      /\ alerts' = IF contact[d0].active /\ contact[d0].period = lister[l].rows[d0].period
                   THEN [alerts EXCEPT ![d0] = @ + 1] ELSE alerts
  BY <1>2, <1>3 DEF Notified
<1>5. d0 \in Watched /\ d0 \in DOMAIN lister[l].rows
  BY <1>1, <1>2, <1>4 DEF HeldInv, WalkInv
<1>6. alerts \in [Watched -> Nat] /\ unmarks \in [Watched -> Nat]
  BY <1>1 DEF HealthTypes
<1>7. /\ alerts' \in [Watched -> Nat]
      /\ \A d \in Watched : d # d0 => alerts'[d] = alerts[d]
      /\ alerts'[d0] = IF contact[d0].active /\ contact[d0].period = lister[l].rows[d0].period
                       THEN alerts[d0] + 1 ELSE alerts[d0]
  BY <1>4, <1>5, <1>6
<1>8. ASSUME NEW d \in Watched
      PROVE  /\ ~ contact[d].active => alerts'[d] = alerts[d]
             /\ contact[d].active /\ ~ contact[d].quiet => alerts'[d] = 0
             /\ contact[d].active /\ contact[d].quiet =>
                  alerts'[d] + Cardinality(InFlight(d) \ {l}) <= unmarks[d] + Marked(d)
  <2>1. CASE d # d0
    <3>1. l \notin InFlight(d)
      BY <1>2, <2>1 DEF InFlight
    <3>2. InFlight(d) \ {l} = InFlight(d)
      BY <3>1
    <3> QED
      BY <1>1, <1>7, <2>1, <3>2 DEF CountInv
  <2>2. CASE d = d0
    <3>1. ~ contact[d].active => alerts'[d] = alerts[d]
      BY <1>7, <2>2
    <3>2. ASSUME contact[d].active, ~ contact[d].quiet PROVE alerts'[d] = 0
      <4>1. lister[l].rows[d].period # contact[d].period
        BY <1>2, <1>4, <2>2, <3>2, NothingUnderWay
      <4> QED
        BY <1>1, <1>7, <2>2, <3>2, <4>1 DEF CountInv
    <3>3. ASSUME contact[d].active, contact[d].quiet
          PROVE  alerts'[d] + Cardinality(InFlight(d) \ {l}) <= unmarks[d] + Marked(d)
      <4>1. l \in InFlight(d)
        BY <1>2, <1>4, <2>2 DEF InFlight
      <4>2. lister[l].rows[d].period = contact[d].period
        BY <1>1, <1>5, <2>2, <3>3 DEF HeldInv
      <4>3. alerts'[d] = alerts[d] + 1 /\ alerts[d] \in Nat
        BY <1>6, <1>7, <2>2, <3>3, <4>2
      <4>4. PICK c \in Nat : c = Cardinality(InFlight(d) \ {l}) /\ Cardinality(InFlight(d)) = c + 1
        BY <4>1, InFlightFinite
      <4>5. alerts[d] + Cardinality(InFlight(d)) <= unmarks[d] + Marked(d)
        BY <1>1, <3>3 DEF CountInv
      <4>6. Marked(d) \in {0, 1} /\ unmarks[d] \in Nat
        BY <1>6 DEF Marked
      <4> QED
        BY <4>3, <4>4, <4>5, <4>6
    <3> QED
      BY <3>1, <3>2, <3>3
  <2> QED
    BY <2>1, <2>2
<1>9. PICK now : now = lister[l].now
  OBVIOUS
<1>10. \A d \in DOMAIN rows : RowKnown(d, now[d]) /\ rows[d].period <= now[d].period
  BY <1>1, <1>3, <1>4, <1>9 DEF WalkInv
<1>11. DOMAIN rows \subseteq DOMAIN lister[l].rows /\ \A d \in DOMAIN rows : rows[d] = lister[l].rows[d]
  BY <1>3
<1>12. PICK marks : marks = lastAlertedAt
  OBVIOUS
<1>13. marks \in [Watched -> Nat \cup {Unmarked}]
       /\ \A d \in Watched : marks[d] = lastAlertedAt[d] \/ (marks[d] = Unmarked /\ d \notin DOMAIN rows)
  BY <1>1, <1>12 DEF HealthTypes
<1>14. Walk(l, rows, now, marks)
  BY <1>4, <1>9, <1>12
<1> QED
  BY ZenonT(60), <1>4, <1>7, <1>8, <1>10, <1>11, <1>13, <1>14, WalkKeeps

LEMMA NotifyFailsKeeps ==
  ASSUME HealthInv, NEW l \in Listers, NotifyFails(l)
  PROVE  HealthInv'
<1>1. HealthTypes /\ HeldInv /\ WalkInv /\ CountInv
  BY DEF HealthInv
<1>2. /\ contact \in [Watched -> [active : BOOLEAN, period : Nat, quiet : BOOLEAN]]
      /\ lastAlertedAt \in [Watched -> Nat \cup {Unmarked}]
      /\ alerts \in [Watched -> Nat] /\ unmarks \in [Watched -> Nat]
      /\ lister = [k \in Listers |-> lister[k]]
  BY <1>1 DEF HealthTypes
<1>3. PICK d0 \in Watched : d0 = lister[l].alerting
  BY <1>1 DEF NotifyFails, HeldInv, WalkInv
<1>4. UNCHANGED <<contact, alerts, unmarks>> /\ lister[l].op = "notify"
  BY DEF NotifyFails
<1>5. /\ lastAlertedAt' \in [Watched -> Nat \cup {Unmarked}] /\ lastAlertedAt'[d0] = Unmarked
      /\ \A d \in Watched : d # d0 => lastAlertedAt'[d] = lastAlertedAt[d]
  BY <1>2, <1>3 DEF NotifyFails
<1>6. lister' = [k \in Listers |-> lister'[k]] /\ lister'[l] = NoList /\ \A k \in Listers : k # l => lister'[k] = lister[k]
  BY <1>2 DEF NotifyFails
<1>7. lister'[l].op = "none" /\ DOMAIN lister'[l].rows = {}
  BY <1>6 DEF NoList, NoRows
<1>8. HealthTypes'
  BY <1>2, <1>4, <1>5, <1>6 DEF HealthTypes
<1>9. HeldInv'
  <2> SUFFICES ASSUME NEW k \in Listers
               PROVE  /\ DOMAIN lister'[k].rows \subseteq Watched
                      /\ \A d \in DOMAIN lister'[k].rows :
                           /\ RowKnown(d, lister'[k].rows[d])
                           /\ contact'[d].quiet => lister'[k].rows[d].period = contact'[d].period
    BY <1>4 DEF HeldInv, RowKnown
  <2>1. CASE k # l
    BY <1>1, <1>4, <1>6, <2>1 DEF HeldInv
  <2>2. CASE k = l
    BY <1>7, <2>2
  <2> QED
    BY <2>1, <2>2
<1>10. WalkInv'
  <2> SUFFICES ASSUME NEW k \in Listers, lister'[k].op = "notify"
               PROVE  /\ lister'[k].alerting \in DOMAIN lister'[k].rows
                      /\ silent(lister'[k].alerting, lister'[k].rows[lister'[k].alerting], lister'[k].now)
                      /\ \A d \in DOMAIN lister'[k].rows :
                           RowKnown(d, lister'[k].now[d]) /\ lister'[k].rows[d].period <= lister'[k].now[d].period
    BY <1>4 DEF WalkInv, RowKnown, silent
  <2>1. lister'[k] = lister[k]
    BY <1>6, <1>7
  <2> QED
    BY <1>1, <2>1 DEF WalkInv
<1>11. CountInv'
  <2> SUFFICES ASSUME NEW d \in Watched
               PROVE  /\ alerts[d] <= 1 + unmarks[d]
                      /\ contact[d].active /\ ~ contact[d].quiet => alerts[d] = 0
                      /\ contact[d].active /\ contact[d].quiet =>
                           alerts[d] + Cardinality(InFlight(d)') <= unmarks[d] + Marked(d)'
    BY <1>4 DEF CountInv
  <2>1. InFlight(d)' = InFlight(d) \ {l}
    BY <1>6, <1>7 DEF InFlight
  <2>2. CASE d # d0
    <3>1. l \notin InFlight(d)
      BY <1>3, <2>2 DEF InFlight
    <3>2. InFlight(d)' = InFlight(d)
      BY <2>1, <3>1
    <3>3. Marked(d)' = Marked(d)
      BY <1>4, <1>5, <2>2 DEF Marked
    <3> QED
      BY <1>1, <3>2, <3>3 DEF CountInv
  <2>3. CASE d = d0
    <3>1. l \in InFlight(d)
      BY <1>3, <1>4, <2>3 DEF InFlight
    <3>2. PICK c \in Nat : c = Cardinality(InFlight(d) \ {l}) /\ Cardinality(InFlight(d)) = c + 1
      BY <3>1, InFlightFinite
    <3>3. Marked(d) \in {0, 1} /\ Marked(d)' \in {0, 1} /\ unmarks[d] \in Nat /\ alerts[d] \in Nat
      BY <1>2 DEF Marked
    <3>4. contact[d].active /\ contact[d].quiet => alerts[d] + (c + 1) <= unmarks[d] + Marked(d)
      BY <1>1, <3>2 DEF CountInv
    <3>5. contact[d].active /\ contact[d].quiet => alerts[d] + c <= unmarks[d] + Marked(d)'
      BY <3>3, <3>4
    <3> QED
      BY <1>1, <2>1, <3>2, <3>5 DEF CountInv
  <2> QED
    BY <2>2, <2>3
<1> QED
  BY <1>8, <1>9, <1>10, <1>11 DEF HealthInv

LEMMA RestartKeeps ==
  ASSUME HealthInv, Restart
  PROVE  HealthInv'
<1>1. contact \in [Watched -> [active : BOOLEAN, period : Nat, quiet : BOOLEAN]]
  BY DEF HealthInv, HealthTypes
<1>2. /\ contact' = contact /\ lastAlertedAt' = [d \in Watched |-> Unmarked]
      /\ lister' = [l \in Listers |-> NoList] /\ alerts' = [d \in Watched |-> 0] /\ unmarks' = [d \in Watched |-> 0]
  BY DEF Restart
<1>3. HealthTypes'
  BY <1>1, <1>2 DEF HealthTypes
<1>4. \A l \in Listers : lister'[l].op = "none" /\ DOMAIN lister'[l].rows = {}
  BY <1>2 DEF NoList, NoRows
<1>5. HeldInv' /\ WalkInv'
  BY <1>4 DEF HeldInv, WalkInv
<1>6. CountInv'
  <2> SUFFICES ASSUME NEW d \in Watched
               PROVE  /\ alerts'[d] <= 1 + unmarks'[d]
                      /\ contact'[d].active /\ ~ contact'[d].quiet => alerts'[d] = 0
                      /\ contact'[d].active /\ contact'[d].quiet =>
                           alerts'[d] + Cardinality(InFlight(d)') <= unmarks'[d] + Marked(d)'
    BY DEF CountInv
  <2>1. InFlight(d)' = {}
    BY <1>4 DEF InFlight
  <2>2. Cardinality(InFlight(d)') = 0
    BY <2>1, FS_EmptySet
  <2>3. alerts'[d] = 0 /\ unmarks'[d] = 0 /\ Marked(d)' \in {0, 1}
    BY <1>2 DEF Marked
  <2>4. alerts'[d] + 0 <= unmarks'[d] + Marked(d)' /\ alerts'[d] <= 1 + unmarks'[d]
    BY <2>3
  <2> QED
    BY <2>2, <2>3, <2>4
<1> QED
  BY <1>3, <1>5, <1>6 DEF HealthInv

LEMMA HealthStep == HealthInv /\ [HealthNext]_healthVars => HealthInv'
<1> SUFFICES ASSUME HealthInv, [HealthNext]_healthVars PROVE HealthInv'
  OBVIOUS
<1>1. Watched \in SUBSET Watched /\ Sweep \in Listers /\ Pages \subseteq Listers /\ Scopes \subseteq SUBSET Watched
  BY HealthAssumption DEF Listers
<1>2. ASSUME NEW d \in Watched, heartbeat(d) \/ Revoke(d) \/ GoQuiet(d) PROVE HealthInv'
  BY <1>2, HeartbeatKeeps, RevokeKeeps, GoQuietKeeps
<1>3. CASE SweepStart
  BY <1>1, <1>3, StartKeeps DEF SweepStart
<1>4. ASSUME NEW l \in Pages, NEW scope \in Scopes, PageStart(l, scope) PROVE HealthInv'
  BY <1>1, <1>4, StartKeeps DEF PageStart
<1>5. ASSUME NEW l \in Listers, WalkBegin(l) \/ Notified(l) \/ NotifyFails(l) PROVE HealthInv'
  BY <1>5, WalkBeginKeeps, NotifiedKeeps, NotifyFailsKeeps
<1>6. CASE Restart
  BY <1>6, RestartKeeps
<1>7. CASE UNCHANGED healthVars
  <2>1. UNCHANGED <<contact, lastAlertedAt, lister, alerts, unmarks>>
    BY <1>7 DEF healthVars
  <2>2. HealthTypes' /\ HeldInv' /\ WalkInv'
    BY <2>1 DEF HealthInv, HealthTypes, HeldInv, WalkInv, RowKnown, silent
  <2>3. \A d : InFlight(d)' = InFlight(d) /\ Marked(d)' = Marked(d)
    BY <2>1 DEF InFlight, Marked
  <2>4. CountInv'
    BY <2>1, <2>3 DEF HealthInv, CountInv
  <2> QED
    BY <2>2, <2>4 DEF HealthInv
<1> QED
  BY <1>2, <1>3, <1>4, <1>5, <1>6, <1>7 DEF HealthNext

\* However sweeps, page reads, failed deliveries and restarts overlap, a silence
\* is reported once, and once more for each mark of it a walk cleared
\* (sync-health.service.ts list).
THEOREM SilenceReportedOnce == HealthSpec => []ReportedOncePerSilence
<1>1. HealthInv => ReportedOncePerSilence
  BY DEF HealthInv, CountInv, ReportedOncePerSilence
<1> QED
  BY <1>1, HealthStarts, HealthStep, PTL DEF HealthSpec

-----------------------------------------------------------------------------
(* The menu and its imports *)

Row == [name : Named, category : Named]
Shelf == [name : Named, live : BOOLEAN, by : Nat]
Dish == [name : Named, category : Nat, st : {"live", "archived"}, by : Nat]
Found == [id : Nat, name : Named]

ImportTypes ==
  /\ sheet \in [st : {"none", "draft", "committed"}, rows : Seq(Row)]
  /\ shelf \in Seq(Shelf) /\ dish \in Seq(Dish)
  /\ tab \in [Tabs -> [op : {"idle", "patch", "commit", "import", "commitWrite", "importWrite"},
                       rows : Seq(Row), found : SUBSET Found]]
  /\ menuEdits \in Nat /\ commits \in Nat

\* Categories are never taken away, only marked, so what refers to one by its
\* id still does; and an import is told from those before it.
ReferencesInv ==
  /\ \A i \in DOMAIN dish : dish[i].category \in DOMAIN shelf
  /\ \A k \in Tabs : \A f \in tab[k].found : f.id \in DOMAIN shelf
  /\ \A c \in DOMAIN shelf : shelf[c].by <= commits

ImportInv == ImportTypes /\ ReferencesInv /\ MenuInOrder

LEMMA MaxOfSome ==
  ASSUME NEW m \in Nat, NEW S \in SUBSET (1..m), S # {}
  PROVE  Max(S) \in S
<1> DEFINE T == {m - x : x \in S}
<1>1. T \in SUBSET Nat /\ T # {}
  <2>1. \A x \in S : m - x \in Nat
    OBVIOUS
  <2> QED
    BY <2>1
<1>2. PICK t \in T : \A u \in T : t <= u
  BY <1>1, LeastNatural
<1>3. PICK x \in S : t = m - x
  OBVIOUS
<1>4. \A y \in S : x >= y
  <2> SUFFICES ASSUME NEW y \in S PROVE x >= y
    OBVIOUS
  <2>1. m - y \in T
    OBVIOUS
  <2>2. m - x <= m - y
    BY <1>2, <1>3, <2>1
  <2> QED
    BY <2>2
<1> QED
  BY <1>4 DEF Max

\* What commit n has placed so far: the categories there were, and new ones
\* that it made, each under a name of its own.
PlacedSoFar(n, acc) ==
  /\ acc.shelf \in Seq(Shelf) /\ acc.dish \in Seq(Dish)
  /\ Len(shelf) <= Len(acc.shelf) /\ \A c \in DOMAIN shelf : acc.shelf[c] = shelf[c]
  /\ \A c \in DOMAIN acc.shelf : c \notin DOMAIN shelf => acc.shelf[c].by = n
  /\ \A i \in DOMAIN acc.dish : acc.dish[i].category \in DOMAIN acc.shelf
  /\ \A c, d \in DOMAIN acc.shelf :
       acc.shelf[c].by = n /\ acc.shelf[d].by = n /\ c # d => Lower[acc.shelf[c].name] # Lower[acc.shelf[d].name]

LEMMA PlaceOne ==
  ASSUME shelf \in Seq(Shelf), NEW n \in Nat, NEW acc, PlacedSoFar(n, acc), NEW r \in Row,
         NEW found \in SUBSET Found, \A f \in found : f.id \in DOMAIN shelf
  PROVE  PlacedSoFar(n, PlaceRow(n, found, acc, r))
<1> DEFINE known == Known(found, acc.shelf, n)
           named == {c.id : c \in {x \in known : Lower[x.name] = Lower[r.category]}}
           shelves == IF named # {} THEN acc.shelf
                      ELSE Append(acc.shelf, [name |-> r.category, live |-> TRUE, by |-> n])
           at == IF named # {} THEN Max(named) ELSE Len(shelves)
           new == [shelf |-> shelves, dish |-> Append(acc.dish, [name |-> r.name, category |-> at, st |-> "live", by |-> n])]
<1>1. PlaceRow(n, found, acc, r) = new
  BY DEF PlaceRow
<1>2. /\ acc.shelf \in Seq(Shelf) /\ acc.dish \in Seq(Dish)
      /\ Len(shelf) <= Len(acc.shelf) /\ \A c \in DOMAIN shelf : acc.shelf[c] = shelf[c]
      /\ \A c \in DOMAIN acc.shelf : c \notin DOMAIN shelf => acc.shelf[c].by = n
      /\ \A i \in DOMAIN acc.dish : acc.dish[i].category \in DOMAIN acc.shelf
  BY DEF PlacedSoFar
<1>3. \A c, d \in DOMAIN acc.shelf :
        acc.shelf[c].by = n /\ acc.shelf[d].by = n /\ c # d => Lower[acc.shelf[c].name] # Lower[acc.shelf[d].name]
  BY DEF PlacedSoFar
<1>4. DOMAIN acc.shelf = 1..Len(acc.shelf) /\ DOMAIN shelf = 1..Len(shelf) /\ Len(acc.shelf) \in Nat /\ Len(shelf) \in Nat
  BY <1>2
<1>5. named \in SUBSET DOMAIN acc.shelf
  <2>1. \A x \in known : x.id \in DOMAIN acc.shelf
    BY <1>2, <1>4 DEF Known
  <2> QED
    BY <2>1
<1>6. \A c \in DOMAIN acc.shelf : acc.shelf[c].by = n /\ Lower[acc.shelf[c].name] = Lower[r.category] => c \in named
  <2> SUFFICES ASSUME NEW c \in DOMAIN acc.shelf, acc.shelf[c].by = n, Lower[acc.shelf[c].name] = Lower[r.category]
               PROVE  c \in named
    OBVIOUS
  <2>1. [id |-> c, name |-> acc.shelf[c].name] \in known
    BY DEF Known
  <2>2. [id |-> c, name |-> acc.shelf[c].name].id = c /\ [id |-> c, name |-> acc.shelf[c].name].name = acc.shelf[c].name
    OBVIOUS
  <2> QED
    BY <2>1, <2>2
<1>7. r.name \in Named /\ r.category \in Named
  BY DEF Row
<1> HIDE DEF named
<1>8. /\ shelves \in Seq(Shelf) /\ at \in DOMAIN shelves /\ at \in Nat
      /\ Len(acc.shelf) <= Len(shelves) /\ DOMAIN shelves = 1..Len(shelves)
      /\ \A c \in DOMAIN acc.shelf : shelves[c] = acc.shelf[c]
      /\ \A c \in DOMAIN shelves : c \notin DOMAIN acc.shelf => shelves[c].by = n
      /\ \A c, d \in DOMAIN shelves :
           shelves[c].by = n /\ shelves[d].by = n /\ c # d => Lower[shelves[c].name] # Lower[shelves[d].name]
  <2>1. CASE named # {}
    <3>1. shelves = acc.shelf /\ at = Max(named)
      BY <2>1
    <3>2. Max(named) \in named
      BY <1>4, <1>5, <2>1, MaxOfSome
    <3>3. at \in DOMAIN acc.shelf /\ at \in Nat /\ Len(acc.shelf) <= Len(acc.shelf)
      BY <1>4, <1>5, <3>1, <3>2
    <3> HIDE DEF shelves, at
    <3> QED
      BY <1>2, <1>3, <1>4, <3>1, <3>3
  <2>2. CASE named = {}
    <3>1. PICK s : s = [name |-> r.category, live |-> TRUE, by |-> n]
      OBVIOUS
    <3>2. s \in Shelf /\ s.name = r.category /\ s.by = n
      BY <1>7, <3>1 DEF Shelf
    <3>3. shelves = Append(acc.shelf, s) /\ at = Len(shelves)
      BY <2>2, <3>1
    <3>4. /\ shelves \in Seq(Shelf) /\ Len(shelves) = Len(acc.shelf) + 1 /\ DOMAIN shelves = 1..(Len(acc.shelf) + 1)
          /\ shelves[Len(acc.shelf) + 1] = s /\ \A c \in DOMAIN acc.shelf : shelves[c] = acc.shelf[c]
      <4>1. PICK ss \in Seq(Shelf) : ss = acc.shelf
        BY <1>2
      <4>2. /\ Append(ss, s) \in Seq(Shelf) /\ Len(Append(ss, s)) = Len(ss) + 1 /\ Append(ss, s)[Len(ss) + 1] = s
            /\ DOMAIN Append(ss, s) = 1..(Len(ss) + 1)
            /\ \A c \in DOMAIN ss : Append(ss, s)[c] = ss[c]
        BY <3>2
      <4> HIDE DEF shelves, at
      <4> QED
        BY <3>3, <4>1, <4>2
    <3>5. \A c \in DOMAIN shelves : c \in DOMAIN acc.shelf \/ c = Len(acc.shelf) + 1
      BY <1>4, <3>4
    <3>6. \A c \in DOMAIN acc.shelf : acc.shelf[c].by = n => Lower[acc.shelf[c].name] # Lower[r.category]
      BY <1>6, <2>2
    <3>7. \A c, d \in DOMAIN shelves :
           shelves[c].by = n /\ shelves[d].by = n /\ c # d => Lower[shelves[c].name] # Lower[shelves[d].name]
      BY SMTT(40), <1>3, <3>2, <3>4, <3>5, <3>6
    <3>8. at \in DOMAIN shelves /\ at \in Nat /\ Len(acc.shelf) <= Len(shelves) /\ DOMAIN shelves = 1..Len(shelves)
      BY <1>4, <3>3, <3>4
    <3>9. \A c \in DOMAIN shelves : c \notin DOMAIN acc.shelf => shelves[c].by = n
      BY <3>2, <3>4, <3>5
    <3> HIDE DEF shelves, at
    <3> QED
      BY <3>4, <3>7, <3>8, <3>9
  <2> QED
    BY <2>1, <2>2
<1> HIDE DEF shelves, at
<1>9. PICK e : e = [name |-> r.name, category |-> at, st |-> "live", by |-> n]
  OBVIOUS
<1>10. e \in Dish /\ e.category = at
  BY <1>7, <1>8, <1>9 DEF Dish
<1>11. new.shelf = shelves /\ new.dish = Append(acc.dish, e)
  BY <1>9
<1>12. new.dish \in Seq(Dish) /\ \A i \in DOMAIN new.dish : new.dish[i].category \in DOMAIN shelves
  <2>1. PICK ds : ds = acc.dish /\ ds \in Seq(Dish)
    BY <1>2
  <2>2. /\ Append(ds, e) \in Seq(Dish)
        /\ \A i \in DOMAIN Append(ds, e) : (i \in DOMAIN ds /\ Append(ds, e)[i] = ds[i]) \/ Append(ds, e)[i] = e
    BY <1>10, <2>1
  <2>3. \A i \in DOMAIN ds : ds[i].category \in DOMAIN shelves
    BY <1>2, <1>4, <1>8, <2>1
  <2> QED
    BY <1>8, <1>10, <1>11, <2>1, <2>2, <2>3
<1> HIDE DEF new
<1>13. Len(shelf) <= Len(shelves) /\ (\A c \in DOMAIN shelf : shelves[c] = shelf[c])
       /\ \A c \in DOMAIN shelves : c \notin DOMAIN shelf => shelves[c].by = n
  <2>1. DOMAIN shelf \subseteq DOMAIN acc.shelf /\ DOMAIN acc.shelf \subseteq DOMAIN shelves
    BY <1>2, <1>4, <1>8
  <2>2. Len(shelf) <= Len(shelves)
    BY <1>2, <1>4, <1>8
  <2>3. \A c \in DOMAIN shelf : shelves[c] = shelf[c]
    BY <1>2, <1>8, <2>1
  <2>4. ASSUME NEW c \in DOMAIN shelves, c \notin DOMAIN shelf PROVE shelves[c].by = n
    <3>1. CASE c \in DOMAIN acc.shelf
      BY <1>2, <1>8, <2>4, <3>1
    <3>2. CASE c \notin DOMAIN acc.shelf
      BY <1>8, <3>2
    <3> QED
      BY <3>1, <3>2
  <2> QED
    BY <2>2, <2>3, <2>4
<1> QED
  BY <1>1, <1>8, <1>11, <1>12, <1>13 DEF PlacedSoFar

\* g places the first m rows, one after the other.
Places(n, found, start, rows, m, g) ==
  g = [i \in 0..m |-> IF i = 0 THEN start ELSE PlaceRow(n, found, g[i - 1], rows[i])]

LEMMA PlacesExist ==
  ASSUME NEW n, NEW found, NEW start, NEW rows
  PROVE  \A m \in Nat : \E g : Places(n, found, start, rows, m, g)
<1> DEFINE M == {m \in Nat : \E g : Places(n, found, start, rows, m, g)}
<1>1. 0 \in M
  <2> DEFINE h == [i \in 0..0 |-> start]
  <2>1. \A i \in 0..0 : i = 0
    OBVIOUS
  <2>2. h = [i \in 0..0 |-> IF i = 0 THEN start ELSE PlaceRow(n, found, h[i - 1], rows[i])]
    BY <2>1
  <2> QED
    BY <2>2 DEF Places
<1>2. ASSUME NEW m \in Nat, m \in M PROVE m + 1 \in M
  <2>1. PICK g : Places(n, found, start, rows, m, g)
    BY <1>2
  <2> DEFINE h == [i \in 0..(m + 1) |-> IF i = 0 THEN start ELSE PlaceRow(n, found, g[i - 1], rows[i])]
  <2>2. \A i \in 0..m : h[i] = g[i]
    <3>1. \A i \in 0..m : i \in 0..(m + 1)
      OBVIOUS
    <3> QED
      BY <2>1, <3>1 DEF Places
  <2>3. \A i \in 0..(m + 1) : i # 0 => i - 1 \in 0..m
    OBVIOUS
  <2>4. \A i \in 0..(m + 1) : i # 0 => h[i - 1] = g[i - 1]
    BY <2>2, <2>3
  <2>5. h = [i \in 0..(m + 1) |-> IF i = 0 THEN start ELSE PlaceRow(n, found, h[i - 1], rows[i])]
    BY <2>4
  <2>6. Places(n, found, start, rows, m + 1, h)
    BY <2>5 DEF Places
  <2> QED
    BY <2>6
<1> HIDE DEF M
<1>3. Nat \subseteq M
  BY <1>1, <1>2, NaturalsAll
<1> QED
  BY <1>3 DEF M

\* Placing every row of a commit keeps what placing one keeps.
LEMMA PlaceAll ==
  ASSUME ImportInv, NEW k \in Tabs
  PROVE  PlacedSoFar(commits + 1, commitItems(k))
<1>1. /\ shelf \in Seq(Shelf) /\ dish \in Seq(Dish) /\ commits \in Nat
      /\ tab[k].rows \in Seq(Row) /\ tab[k].found \in SUBSET Found /\ \A f \in tab[k].found : f.id \in DOMAIN shelf
  BY DEF ImportInv, ImportTypes, ReferencesInv
<1>2. PICK rows, found, n : rows = tab[k].rows /\ found = tab[k].found /\ n = commits + 1
  OBVIOUS
<1>0. rows \in Seq(Row) /\ found \in SUBSET Found /\ n \in Nat
  BY <1>1, <1>2
<1>3. PICK start : start = [shelf |-> shelf, dish |-> dish]
  OBVIOUS
<1>4. PICK m \in Nat : m = Len(rows)
  BY <1>0
<1> DEFINE placed == CHOOSE g : Places(n, found, start, rows, m, g)
<1>5. Places(n, found, start, rows, m, placed)
  BY <1>4, PlacesExist
<1>6. commitItems(k) = placed[m]
  BY <1>2, <1>3, <1>4 DEF commitItems, Places
<1> HIDE DEF placed
<1>7. PlacedSoFar(n, start)
  <2>1. start.shelf = shelf /\ start.dish = dish
    BY <1>3
  <2>2. \A c \in DOMAIN shelf : shelf[c].by <= commits /\ shelf[c].by \in Nat
    <3>1. \A c \in DOMAIN shelf : shelf[c] \in Shelf
      BY <1>1
    <3> QED
      BY <3>1 DEF ImportInv, ReferencesInv, Shelf
  <2>3. \A c \in DOMAIN shelf : shelf[c].by # n
    BY <1>1, <1>2, <2>2
  <2>4. \A i \in DOMAIN dish : dish[i].category \in DOMAIN shelf
    BY DEF ImportInv, ReferencesInv
  <2>5. Len(shelf) <= Len(shelf)
    BY <1>1
  <2> QED
    BY <1>1, <2>1, <2>3, <2>4, <2>5 DEF PlacedSoFar
<1> DEFINE G == {i \in Nat : i <= m => PlacedSoFar(n, placed[i])}
<1>8. 0 \in G
  <2>1. 0 \in 0..m
    OBVIOUS
  <2>2. placed[0] = start
    BY <1>5, <2>1 DEF Places
  <2> QED
    BY <1>7, <2>2
<1>9. ASSUME NEW i \in Nat, i \in G PROVE i + 1 \in G
  <2> SUFFICES ASSUME i + 1 <= m PROVE PlacedSoFar(n, placed[i + 1])
    OBVIOUS
  <2>1. PlacedSoFar(n, placed[i])
    BY <1>9
  <2>2. i + 1 \in 0..m /\ i + 1 # 0 /\ (i + 1) - 1 = i /\ i + 1 \in 1..m
    OBVIOUS
  <2>3. placed[i + 1] = PlaceRow(n, found, placed[(i + 1) - 1], rows[i + 1])
    BY <1>5, <2>2 DEF Places
  <2>4. rows[i + 1] \in Row
    BY <1>0, <1>4, <2>2
  <2> QED
    BY <1>0, <1>1, <1>2, <2>1, <2>2, <2>3, <2>4, PlaceOne
<1> HIDE DEF G
<1>10. m \in G
  BY <1>8, <1>9, NaturalsAll
<1> QED
  BY <1>2, <1>6, <1>10 DEF G

\* Removing a row leaves rows.
LEMMA RowRemoved ==
  ASSUME NEW rows \in Seq(Row), NEW i \in DOMAIN rows
  PROVE  RemoveAt(rows, i) \in Seq(Row)
<1>1. i \in 1..Len(rows) /\ Len(rows) \in Nat
  OBVIOUS
<1>2. \A j \in 1..(i - 1) : rows[j] \in Row
  BY <1>1
<1>3. \A j \in (i + 1)..Len(rows) : rows[j] \in Row
  BY <1>1
<1>4. SubSeq(rows, 1, i - 1) \in Seq(Row)
  BY <1>1, <1>2, SubSeqProperties
<1>5. SubSeq(rows, i + 1, Len(rows)) \in Seq(Row)
  BY <1>1, <1>3, SubSeqProperties
<1> QED
  BY <1>4, <1>5, ConcatProperties DEF RemoveAt

\* A step of the drafts and the requests leaves the menu alone.
LEMMA RequestKeeps ==
  ASSUME ImportInv, UNCHANGED <<shelf, dish, commits>>, menuEdits' \in Nat, menuEdits' >= menuEdits,
         sheet' \in [st : {"none", "draft", "committed"}, rows : Seq(Row)],
         tab' \in [Tabs -> [op : {"idle", "patch", "commit", "import", "commitWrite", "importWrite"},
                            rows : Seq(Row), found : SUBSET Found]],
         \A k \in Tabs : \A f \in tab'[k].found : f.id \in DOMAIN shelf
  PROVE  ImportInv'
<1>1. ImportTypes'
  BY DEF ImportInv, ImportTypes
<1>2. ReferencesInv'
  BY DEF ImportInv, ReferencesInv
<1>3. menuEdits > 0 => menuEdits' > 0
  BY DEF ImportInv, ImportTypes
<1>4. MenuInOrder'
  BY <1>3 DEF ImportInv, MenuInOrder, Homeless, Clash
<1> QED
  BY <1>1, <1>2, <1>4 DEF ImportInv

\* A tab that starts a request, or ends one.
LEMMA TabKeeps ==
  ASSUME ImportInv, NEW k \in Tabs, UNCHANGED <<sheet, shelf, dish, menuEdits, commits>>,
         NEW t \in [op : {"idle", "patch", "commit", "import", "commitWrite", "importWrite"},
                    rows : Seq(Row), found : SUBSET Found],
         \A f \in t.found : f.id \in DOMAIN shelf, tab' = [tab EXCEPT ![k] = t]
  PROVE  ImportInv'
<1>1. /\ tab \in [Tabs -> [op : {"idle", "patch", "commit", "import", "commitWrite", "importWrite"},
                           rows : Seq(Row), found : SUBSET Found]]
      /\ sheet \in [st : {"none", "draft", "committed"}, rows : Seq(Row)] /\ menuEdits \in Nat
  BY DEF ImportInv, ImportTypes
<1>2. /\ tab' \in [Tabs -> [op : {"idle", "patch", "commit", "import", "commitWrite", "importWrite"},
                            rows : Seq(Row), found : SUBSET Found]]
      /\ \A j \in Tabs : tab'[j] = IF j = k THEN t ELSE tab[j]
  BY <1>1
<1>3. \A j \in Tabs : \A f \in tab'[j].found : f.id \in DOMAIN shelf
  BY <1>2 DEF ImportInv, ReferencesInv
<1>4. menuEdits' \in Nat /\ menuEdits' >= menuEdits
  BY <1>1
<1>5. sheet' \in [st : {"none", "draft", "committed"}, rows : Seq(Row)]
  BY <1>1
<1> QED
  BY <1>2, <1>3, <1>4, <1>5, RequestKeeps

LEMMA ImportStarts == ImportInit => ImportInv
<1> SUFFICES ASSUME ImportInit PROVE ImportInv
  OBVIOUS
<1>1. shelf = << >> /\ dish = << >> /\ menuEdits = 0 /\ commits = 0 /\ sheet = [st |-> "none", rows |-> << >>]
      /\ tab = [k \in Tabs |-> IdleTab]
  BY DEF ImportInit
<1>2. << >> \in Seq(Row) /\ << >> \in Seq(Shelf) /\ << >> \in Seq(Dish)
  OBVIOUS
<1>3. ImportTypes
  BY <1>1, <1>2 DEF ImportTypes, IdleTab
<1>4. DOMAIN shelf = {} /\ DOMAIN dish = {} /\ \A k \in Tabs : tab[k].found = {}
  BY <1>1 DEF IdleTab
<1>5. ReferencesInv
  BY <1>4 DEF ReferencesInv
<1>6. MenuInOrder
  BY <1>4 DEF MenuInOrder, Homeless, Clash
<1> QED
  BY <1>3, <1>5, <1>6 DEF ImportInv

\* The steps of a request before it writes, and its failure.
LEMMA ReadsKeep ==
  ASSUME ImportInv, NEW k \in Tabs, PatchRead(k) \/ CommitCheck(k) \/ ImportCheck(k) \/ ReadShelves(k) \/ RolledBack(k)
  PROVE  ImportInv'
<1>1. /\ sheet.rows \in Seq(Row) /\ shelf \in Seq(Shelf)
      /\ tab \in [Tabs -> [op : {"idle", "patch", "commit", "import", "commitWrite", "importWrite"},
                           rows : Seq(Row), found : SUBSET Found]]
  BY DEF ImportInv, ImportTypes
<1>2. << >> \in Seq(Row) /\ <<Product>> \in Seq(Row)
  BY MenuImportAssumption DEF Row
<1>3. CASE PatchRead(k)
  <2>1. PICK t : t = [IdleTab EXCEPT !.op = "patch", !.rows = sheet.rows]
    OBVIOUS
  <2>2. t = [op |-> "patch", rows |-> sheet.rows, found |-> {}]
    BY <2>1 DEF IdleTab
  <2>3. t.found = {} /\ t \in [op : {"idle", "patch", "commit", "import", "commitWrite", "importWrite"},
                               rows : Seq(Row), found : SUBSET Found]
    BY <1>1, <2>2
  <2> QED
    BY <1>3, <2>1, <2>3, TabKeeps DEF PatchRead
<1>4. CASE CommitCheck(k)
  <2>1. PICK t : t = [IdleTab EXCEPT !.op = "commit", !.rows = sheet.rows]
    OBVIOUS
  <2>2. t = [op |-> "commit", rows |-> sheet.rows, found |-> {}]
    BY <2>1 DEF IdleTab
  <2>3. t.found = {} /\ t \in [op : {"idle", "patch", "commit", "import", "commitWrite", "importWrite"},
                               rows : Seq(Row), found : SUBSET Found]
    BY <1>1, <2>2
  <2> QED
    BY <1>4, <2>1, <2>3, TabKeeps DEF CommitCheck
<1>5. CASE ImportCheck(k)
  <2>1. PICK t : t = [IdleTab EXCEPT !.op = "import", !.rows = <<Product>>]
    OBVIOUS
  <2>2. t = [op |-> "import", rows |-> <<Product>>, found |-> {}]
    BY <2>1 DEF IdleTab
  <2>3. t.found = {} /\ t \in [op : {"idle", "patch", "commit", "import", "commitWrite", "importWrite"},
                               rows : Seq(Row), found : SUBSET Found]
    BY <1>2, <2>2
  <2> QED
    BY <1>5, <2>1, <2>3, TabKeeps DEF ImportCheck
<1>6. CASE ReadShelves(k)
  <2>1. PICK found : found = {[id |-> c, name |-> shelf[c].name] : c \in Shelves}
    OBVIOUS
  <2>2. \A c \in Shelves : c \in Nat /\ c \in DOMAIN shelf /\ shelf[c].name \in Named
    <3>1. \A c \in DOMAIN shelf : c \in Nat /\ shelf[c] \in Shelf
      BY <1>1
    <3> QED
      BY <3>1 DEF Shelves, Shelf
  <2>3. found \in SUBSET Found /\ \A f \in found : f.id \in DOMAIN shelf
    BY <2>1, <2>2 DEF Found
  <2>4. PICK op : op = IF tab[k].op = "commit" THEN "commitWrite" ELSE "importWrite"
    OBVIOUS
  <2>5. PICK t : t = [op |-> op, rows |-> tab[k].rows, found |-> found]
    OBVIOUS
  <2>6. t \in [op : {"idle", "patch", "commit", "import", "commitWrite", "importWrite"},
               rows : Seq(Row), found : SUBSET Found] /\ t.found = found
    BY <1>1, <2>3, <2>4, <2>5
  <2>7. tab' = [tab EXCEPT ![k] = t]
    BY <1>1, <1>6, <2>1, <2>4, <2>5 DEF ReadShelves
  <2> QED
    BY <1>6, <2>3, <2>6, <2>7, TabKeeps DEF ReadShelves
<1>7. CASE RolledBack(k)
  <2>1. IdleTab.found = {} /\ IdleTab \in [op : {"idle", "patch", "commit", "import", "commitWrite", "importWrite"},
                                           rows : Seq(Row), found : SUBSET Found]
    BY <1>2 DEF IdleTab
  <2> QED
    BY <1>7, <2>1, TabKeeps DEF RolledBack
<1> QED
  BY <1>3, <1>4, <1>5, <1>6, <1>7

LEMMA PatchKeeps ==
  ASSUME ImportInv, NEW k \in Tabs, patch(k)
  PROVE  ImportInv'
<1>1. /\ sheet \in [st : {"none", "draft", "committed"}, rows : Seq(Row)] /\ menuEdits \in Nat
      /\ tab \in [Tabs -> [op : {"idle", "patch", "commit", "import", "commitWrite", "importWrite"},
                           rows : Seq(Row), found : SUBSET Found]]
  BY DEF ImportInv, ImportTypes
<1>2. menuEdits' = menuEdits + 1 /\ UNCHANGED <<shelf, dish, commits>> /\ tab' = [tab EXCEPT ![k] = IdleTab]
  BY DEF patch, MenuEdit
<1>3. PICK rows \in Seq(Row) : rows = tab[k].rows
  BY <1>1
<1>4. sheet' \in [st : {"none", "draft", "committed"}, rows : Seq(Row)]
  <2>1. PICK i \in DOMAIN rows : \/ \E n \in Named : sheet' = [sheet EXCEPT !.rows = [rows EXCEPT ![i].name = n]]
                                 \/ sheet' = [sheet EXCEPT !.rows = RemoveAt(rows, i)]
    BY <1>3 DEF patch
  <2>2. CASE sheet' = [sheet EXCEPT !.rows = RemoveAt(rows, i)]
    <3>1. RemoveAt(rows, i) \in Seq(Row)
      BY RowRemoved
    <3> QED
      BY <1>1, <2>2, <3>1
  <2>3. CASE \E n \in Named : sheet' = [sheet EXCEPT !.rows = [rows EXCEPT ![i].name = n]]
    <3>1. PICK n \in Named : sheet' = [sheet EXCEPT !.rows = [rows EXCEPT ![i].name = n]]
      BY <2>3
    <3>2. rows[i] \in Row /\ i \in 1..Len(rows)
      OBVIOUS
    <3>3. PICK e \in Row : e = [rows[i] EXCEPT !.name = n]
      BY <3>2 DEF Row
    <3>4. [rows EXCEPT ![i].name = n] = [rows EXCEPT ![i] = e]
      BY <3>3
    <3>5. [rows EXCEPT ![i] = e] \in Seq(Row)
      BY <3>2, ExceptSeq
    <3> QED
      BY <1>1, <3>1, <3>4, <3>5
  <2> QED
    BY <2>1, <2>2, <2>3
<1>5. << >> \in Seq(Row)
  OBVIOUS
<1>6. /\ tab' \in [Tabs -> [op : {"idle", "patch", "commit", "import", "commitWrite", "importWrite"},
                            rows : Seq(Row), found : SUBSET Found]]
      /\ \A j \in Tabs : j # k => tab'[j] = tab[j]
      /\ tab'[k].found = {}
  BY <1>1, <1>2, <1>5 DEF IdleTab
<1>7. \A j \in Tabs : \A f \in tab'[j].found : f.id \in DOMAIN shelf
  BY <1>6 DEF ImportInv, ReferencesInv
<1>8. menuEdits' \in Nat /\ menuEdits' >= menuEdits
  BY <1>1, <1>2
<1> QED
  BY <1>2, <1>4, <1>6, <1>7, <1>8, RequestKeeps

LEMMA UploadKeeps ==
  ASSUME ImportInv, upload
  PROVE  ImportInv'
<1>1. Uploaded \in Seq(Row)
  BY MenuImportAssumption DEF Row
<1>2. sheet' \in [st : {"none", "draft", "committed"}, rows : Seq(Row)]
  BY <1>1 DEF upload
<1>3. UNCHANGED <<shelf, dish, tab, menuEdits, commits>>
  BY DEF upload
<1>4. /\ tab' \in [Tabs -> [op : {"idle", "patch", "commit", "import", "commitWrite", "importWrite"},
                            rows : Seq(Row), found : SUBSET Found]]
      /\ menuEdits' \in Nat /\ menuEdits' >= menuEdits
  BY <1>3 DEF ImportInv, ImportTypes
<1>5. \A k \in Tabs : \A f \in tab'[k].found : f.id \in DOMAIN shelf
  BY <1>3 DEF ImportInv, ReferencesInv
<1> QED
  BY <1>2, <1>3, <1>4, <1>5, RequestKeeps

\* What a commit or an import writes, all or nothing.
LEMMA CommitKeeps ==
  ASSUME ImportInv, NEW k \in Tabs, CommitWrite(k)
  PROVE  ImportInv'
<1>1. /\ sheet \in [st : {"none", "draft", "committed"}, rows : Seq(Row)] /\ menuEdits \in Nat /\ commits \in Nat
      /\ shelf \in Seq(Shelf)
      /\ tab \in [Tabs -> [op : {"idle", "patch", "commit", "import", "commitWrite", "importWrite"},
                           rows : Seq(Row), found : SUBSET Found]]
  BY DEF ImportInv, ImportTypes
<1>2. PICK new : new = commitItems(k)
  OBVIOUS
<1>3. PICK n \in Nat : n = commits + 1
  BY <1>1
<1>4. PlacedSoFar(n, new)
  BY <1>2, <1>3, PlaceAll
<1>5. /\ shelf' = new.shelf /\ dish' = new.dish /\ commits' = n /\ menuEdits' = menuEdits
      /\ tab' = [tab EXCEPT ![k] = IdleTab]
      /\ sheet' = IF tab[k].op = "commitWrite" THEN [sheet EXCEPT !.st = "committed"] ELSE sheet
      /\ ~ Clash(new.dish) /\ ~ Homeless(new.shelf, new.dish)
  BY <1>2, <1>3 DEF CommitWrite, Storable
<1>6. << >> \in Seq(Row)
  OBVIOUS
<1>7. /\ tab' \in [Tabs -> [op : {"idle", "patch", "commit", "import", "commitWrite", "importWrite"},
                            rows : Seq(Row), found : SUBSET Found]]
      /\ \A j \in Tabs : j # k => tab'[j] = tab[j]
      /\ tab'[k].found = {}
  BY <1>1, <1>5, <1>6 DEF IdleTab
<1>8. ImportTypes'
  <2>1. sheet' \in [st : {"none", "draft", "committed"}, rows : Seq(Row)]
    BY <1>1, <1>5
  <2>2. shelf' \in Seq(Shelf) /\ dish' \in Seq(Dish)
    BY <1>4, <1>5 DEF PlacedSoFar
  <2> QED
    BY <1>1, <1>3, <1>5, <1>7, <2>1, <2>2 DEF ImportTypes
<1>9. /\ shelf' \in Seq(Shelf) /\ DOMAIN shelf \subseteq DOMAIN shelf' /\ \A c \in DOMAIN shelf : shelf'[c] = shelf[c]
      /\ \A c \in DOMAIN shelf' : c \notin DOMAIN shelf => shelf'[c].by = n
  <2>1. /\ shelf' \in Seq(Shelf) /\ Len(shelf) <= Len(shelf') /\ \A c \in DOMAIN shelf : shelf'[c] = shelf[c]
        /\ \A c \in DOMAIN shelf' : c \notin DOMAIN shelf => shelf'[c].by = n
    BY <1>4, <1>5 DEF PlacedSoFar
  <2>2. DOMAIN shelf \subseteq DOMAIN shelf'
    BY <1>1, <2>1
  <2> QED
    BY <2>1, <2>2
<1>10. \A c \in DOMAIN shelf : shelf[c].by <= commits /\ shelf[c].by \in Nat
  <2>1. \A c \in DOMAIN shelf : shelf[c] \in Shelf
    BY <1>1
  <2> QED
    BY <2>1 DEF ImportInv, ReferencesInv, Shelf
<1>11. ReferencesInv'
  <2>1. \A i \in DOMAIN dish' : dish'[i].category \in DOMAIN shelf'
    BY <1>4, <1>5 DEF PlacedSoFar
  <2>2. \A j \in Tabs : \A f \in tab'[j].found : f.id \in DOMAIN shelf'
    BY <1>7, <1>9 DEF ImportInv, ReferencesInv
  <2>3. \A c \in DOMAIN shelf' : shelf'[c].by <= commits'
    <3> SUFFICES ASSUME NEW c \in DOMAIN shelf' PROVE shelf'[c].by <= n
      BY <1>5
    <3>1. CASE c \in DOMAIN shelf
      BY <1>1, <1>3, <1>9, <1>10, <3>1
    <3>2. CASE c \notin DOMAIN shelf
      BY <1>9, <3>2
    <3> QED
      BY <3>1, <3>2
  <2> QED
    BY <2>1, <2>2, <2>3 DEF ReferencesInv
<1>12. ASSUME NEW c \in DOMAIN shelf', NEW d \in DOMAIN shelf', c # d, Lower[shelf'[c].name] = Lower[shelf'[d].name]
       PROVE  shelf'[c].by # shelf'[d].by \/ shelf'[c].by = 0 \/ menuEdits' > 0
  <2>1. CASE c \in DOMAIN shelf /\ d \in DOMAIN shelf
    BY <1>5, <1>9, <1>12, <2>1 DEF ImportInv, MenuInOrder
  <2>2. CASE c \in DOMAIN shelf /\ d \notin DOMAIN shelf
    BY <1>1, <1>3, <1>9, <1>10, <2>2
  <2>3. CASE c \notin DOMAIN shelf /\ d \in DOMAIN shelf
    BY <1>1, <1>3, <1>9, <1>10, <2>3
  <2>4. CASE c \notin DOMAIN shelf /\ d \notin DOMAIN shelf
    BY <1>4, <1>5, <1>9, <1>12, <2>4 DEF PlacedSoFar
  <2> QED
    BY <2>1, <2>2, <2>3, <2>4
<1>13. MenuInOrder'
  <2>1. ~ Homeless(shelf', dish') /\ ~ Clash(dish')
    BY <1>5
  <2> QED
    BY <1>12, <2>1 DEF MenuInOrder, Homeless, Clash
<1> QED
  BY <1>8, <1>11, <1>13 DEF ImportInv

\* A step that edits the menu by hand keeps what it does not itself refuse to
\* break; after it two categories may have one name.
LEMMA EditKeeps ==
  ASSUME ImportInv, UNCHANGED <<sheet, tab, commits>>, menuEdits' = menuEdits + 1,
         shelf' \in Seq(Shelf), dish' \in Seq(Dish), DOMAIN shelf \subseteq DOMAIN shelf',
         \A c \in DOMAIN shelf' : shelf'[c].by <= commits,
         \A i \in DOMAIN dish' : dish'[i].category \in DOMAIN shelf',
         ~ Homeless(shelf', dish'), ~ Clash(dish')
  PROVE  ImportInv'
<1>1. menuEdits \in Nat /\ menuEdits' \in Nat /\ menuEdits' > 0
  BY DEF ImportInv, ImportTypes
<1>2. ImportTypes'
  BY <1>1 DEF ImportInv, ImportTypes
<1>3. ReferencesInv'
  BY DEF ImportInv, ReferencesInv
<1>4. MenuInOrder'
  BY <1>1 DEF MenuInOrder, Homeless, Clash
<1> QED
  BY <1>2, <1>3, <1>4 DEF ImportInv

LEMMA CategoryEditsKeep ==
  ASSUME ImportInv, NEW n \in Named,
         createCategory(n) \/ \E c \in DOMAIN shelf : renameCategory(c, n) \/ removeCategory(c)
  PROVE  ImportInv'
<1>1. shelf \in Seq(Shelf) /\ dish \in Seq(Dish) /\ commits \in Nat
  BY DEF ImportInv, ImportTypes
<1>2. \A i \in DOMAIN dish : dish[i].category \in DOMAIN shelf /\ shelf[dish[i].category].live
  BY DEF ImportInv, ReferencesInv, MenuInOrder, Homeless
<1>3. ~ Clash(dish) /\ \A c \in DOMAIN shelf : shelf[c].by <= commits
  BY DEF ImportInv, ReferencesInv, MenuInOrder
<1>4. CASE createCategory(n)
  <2>1. PICK s \in Shelf : s = [name |-> n, live |-> TRUE, by |-> 0]
    BY DEF Shelf
  <2>2. shelf' = Append(shelf, s) /\ UNCHANGED <<sheet, dish, tab, commits>> /\ menuEdits' = menuEdits + 1
    BY <1>4, <2>1 DEF createCategory, MenuEdit
  <2>3. /\ shelf' \in Seq(Shelf) /\ DOMAIN shelf \subseteq DOMAIN shelf'
        /\ \A c \in DOMAIN shelf : shelf'[c] = shelf[c]
        /\ \A c \in DOMAIN shelf' : c \in DOMAIN shelf \/ shelf'[c] = s
    BY <1>1, <2>1, <2>2
  <2>4. \A c \in DOMAIN shelf' : shelf'[c].by <= commits
    <3>1. s.by <= commits
      BY <1>1, <2>1
    <3> QED
      BY <1>3, <2>3, <3>1
  <2>5. dish' = dish /\ \A i \in DOMAIN dish : dish[i].category \in DOMAIN shelf' /\ shelf'[dish[i].category].live
    BY <1>2, <2>2, <2>3
  <2>6. ~ Homeless(shelf', dish')
    BY <2>5 DEF Homeless
  <2> QED
    BY <1>1, <1>3, <2>2, <2>3, <2>4, <2>5, <2>6, EditKeeps
<1>5. ASSUME NEW c \in DOMAIN shelf, renameCategory(c, n) \/ removeCategory(c) PROVE ImportInv'
  <2>1. UNCHANGED <<sheet, dish, tab, commits>> /\ menuEdits' = menuEdits + 1
    BY <1>5 DEF renameCategory, removeCategory, MenuEdit
  <2>2. shelf[c] \in Shelf /\ c \in 1..Len(shelf)
    BY <1>1
  <2>3. PICK s \in Shelf : /\ shelf' = [shelf EXCEPT ![c] = s] /\ s.by = shelf[c].by
                           /\ s.live = shelf[c].live \/ \A i \in DOMAIN dish : dish[i].category # c
    <3>1. CASE renameCategory(c, n)
      <4>1. PICK s \in Shelf : s = [shelf[c] EXCEPT !.name = n]
        BY <2>2 DEF Shelf
      <4>2. shelf' = [shelf EXCEPT ![c] = s] /\ s.by = shelf[c].by /\ s.live = shelf[c].live
        BY <2>2, <3>1, <4>1 DEF renameCategory, Shelf
      <4> QED
        BY <4>2
    <3>2. CASE removeCategory(c)
      <4>1. PICK s \in Shelf : s = [shelf[c] EXCEPT !.live = FALSE]
        BY <2>2 DEF Shelf
      <4>2. shelf' = [shelf EXCEPT ![c] = s] /\ s.by = shelf[c].by /\ \A i \in DOMAIN dish : dish[i].category # c
        BY <2>2, <3>2, <4>1 DEF removeCategory, Shelf
      <4> QED
        BY <4>2
    <3> QED
      BY <1>5, <3>1, <3>2
  <2>4. /\ shelf' \in Seq(Shelf) /\ DOMAIN shelf = DOMAIN shelf' /\ shelf'[c] = s
        /\ \A d \in DOMAIN shelf : d # c => shelf'[d] = shelf[d]
    BY <1>1, <2>2, <2>3, ExceptSeq
  <2>5. \A d \in DOMAIN shelf' : shelf'[d].by <= commits
    BY <1>3, <2>3, <2>4
  <2>6. dish' = dish /\ \A i \in DOMAIN dish : dish[i].category \in DOMAIN shelf' /\ shelf'[dish[i].category].live
    BY <1>2, <2>1, <2>3, <2>4
  <2>7. ~ Homeless(shelf', dish')
    BY <2>6 DEF Homeless
  <2> QED
    BY <1>1, <1>3, <2>1, <2>4, <2>5, <2>6, <2>7, EditKeeps
<1> QED
  BY <1>4, <1>5

LEMMA ItemEditsKeep ==
  ASSUME ImportInv,
         \/ \E n \in Named, c \in DOMAIN shelf : createItem(n, c) \/ \E i \in DOMAIN dish : updateItem(i, n, c)
         \/ \E i \in DOMAIN dish : archiveDish(i)
  PROVE  ImportInv'
<1>1. shelf \in Seq(Shelf) /\ dish \in Seq(Dish) /\ commits \in Nat /\ \A c \in DOMAIN shelf : c \in Nat
  BY DEF ImportInv, ImportTypes
<1>2. \A i \in DOMAIN dish : dish[i].category \in DOMAIN shelf /\ shelf[dish[i].category].live
  BY DEF ImportInv, ReferencesInv, MenuInOrder, Homeless
<1>3. ~ Clash(dish) /\ \A c \in DOMAIN shelf : shelf[c].by <= commits
  BY DEF ImportInv, ReferencesInv, MenuInOrder
<1>4. SUFFICES ASSUME UNCHANGED <<sheet, shelf, tab, commits>>, menuEdits' = menuEdits + 1, dish' \in Seq(Dish),
                      \A i \in DOMAIN dish' : dish'[i].category \in DOMAIN shelf /\ shelf[dish'[i].category].live,
                      ~ Clash(dish')
               PROVE  ImportInv'
  <2>1. ASSUME NEW n \in Named, NEW c \in DOMAIN shelf, createItem(n, c)
        PROVE  /\ UNCHANGED <<sheet, shelf, tab, commits>> /\ menuEdits' = menuEdits + 1 /\ dish' \in Seq(Dish)
               /\ \A i \in DOMAIN dish' : dish'[i].category \in DOMAIN shelf /\ shelf[dish'[i].category].live
               /\ ~ Clash(dish')
    <3>1. PICK e \in Dish : e = [name |-> n, category |-> c, st |-> "live", by |-> 0]
      BY <1>1 DEF Dish
    <3>2. dish' = Append(dish, e) /\ UNCHANGED <<sheet, shelf, tab, commits>> /\ menuEdits' = menuEdits + 1
          /\ ~ Clash(dish') /\ shelf[c].live
      BY <2>1, <3>1 DEF createItem, MenuEdit, Shelves
    <3>3. /\ dish' \in Seq(Dish) /\ \A i \in DOMAIN dish : dish'[i] = dish[i]
          /\ \A i \in DOMAIN dish' : i \in DOMAIN dish \/ dish'[i] = e
      BY <1>1, <3>1, <3>2
    <3>4. e.category = c
      BY <3>1
    <3> QED
      BY <1>2, <3>2, <3>3, <3>4
  <2>2. ASSUME NEW n \in Named, NEW c \in DOMAIN shelf, NEW i \in DOMAIN dish, updateItem(i, n, c)
        PROVE  /\ UNCHANGED <<sheet, shelf, tab, commits>> /\ menuEdits' = menuEdits + 1 /\ dish' \in Seq(Dish)
               /\ \A j \in DOMAIN dish' : dish'[j].category \in DOMAIN shelf /\ shelf[dish'[j].category].live
               /\ ~ Clash(dish')
    <3>1. dish[i] \in Dish /\ i \in 1..Len(dish)
      BY <1>1
    <3>2. PICK e \in Dish : e = [dish[i] EXCEPT !.name = n, !.category = c]
      BY <1>1, <3>1 DEF Dish
    <3>3. dish' = [dish EXCEPT ![i] = e] /\ UNCHANGED <<sheet, shelf, tab, commits>> /\ menuEdits' = menuEdits + 1
          /\ ~ Clash(dish') /\ shelf[c].live
      BY <2>2, <3>1, <3>2 DEF updateItem, MenuEdit, Shelves
    <3>4. /\ dish' \in Seq(Dish) /\ DOMAIN dish' = DOMAIN dish /\ dish'[i] = e
          /\ \A j \in DOMAIN dish : j # i => dish'[j] = dish[j]
      BY <1>1, <3>1, <3>3, ExceptSeq
    <3>5. e.category = c
      BY <3>1, <3>2 DEF Dish
    <3> QED
      BY <1>2, <3>3, <3>4, <3>5
  <2>3. ASSUME NEW i \in DOMAIN dish, archiveDish(i)
        PROVE  /\ UNCHANGED <<sheet, shelf, tab, commits>> /\ menuEdits' = menuEdits + 1 /\ dish' \in Seq(Dish)
               /\ \A j \in DOMAIN dish' : dish'[j].category \in DOMAIN shelf /\ shelf[dish'[j].category].live
               /\ ~ Clash(dish')
    <3>1. dish[i] \in Dish /\ i \in 1..Len(dish)
      BY <1>1
    <3>2. PICK e \in Dish : e = [dish[i] EXCEPT !.st = "archived"]
      BY <3>1 DEF Dish
    <3>3. dish' = [dish EXCEPT ![i] = e] /\ UNCHANGED <<sheet, shelf, tab, commits>> /\ menuEdits' = menuEdits + 1
      BY <2>3, <3>2 DEF archiveDish, MenuEdit
    <3>4. /\ dish' \in Seq(Dish) /\ DOMAIN dish' = DOMAIN dish /\ dish'[i] = e
          /\ \A j \in DOMAIN dish : j # i => dish'[j] = dish[j]
      BY <1>1, <3>1, <3>3, ExceptSeq
    <3>5. e.category = dish[i].category /\ e.st = "archived"
      BY <3>1, <3>2 DEF Dish
    <3>6. ~ Clash(dish')
      <4> SUFFICES ASSUME NEW j \in DOMAIN dish, NEW m \in DOMAIN dish, j < m, dish'[j].st = "live", dish'[m].st = "live",
                          dish'[j].name = dish'[m].name, dish'[j].category = dish'[m].category
                   PROVE  FALSE
        BY <3>4 DEF Clash
      <4>1. j # i /\ m # i
        BY <3>4, <3>5
      <4>2. dish'[j] = dish[j] /\ dish'[m] = dish[m]
        BY <3>4, <4>1
      <4> QED
        BY <1>3, <4>2 DEF Clash
    <3> QED
      BY <1>2, <3>3, <3>4, <3>5, <3>6
  <2> QED
    BY <1>4, <2>1, <2>2, <2>3
<1>5. ~ Homeless(shelf', dish')
  BY <1>4 DEF Homeless
<1> QED
  BY <1>1, <1>3, <1>4, <1>5, EditKeeps

LEMMA ImportStep == ImportInv /\ [ImportNext]_importVars => ImportInv'
<1> SUFFICES ASSUME ImportInv, [ImportNext]_importVars PROVE ImportInv'
  OBVIOUS
<1>1. CASE upload
  BY <1>1, UploadKeeps
<1>2. ASSUME NEW k \in Tabs, \/ PatchRead(k) \/ patch(k) \/ CommitCheck(k) \/ ImportCheck(k)
                             \/ ReadShelves(k) \/ CommitWrite(k) \/ RolledBack(k)
      PROVE  ImportInv'
  BY <1>2, ReadsKeep, PatchKeeps, CommitKeeps
<1>3. ASSUME NEW n \in Named, createCategory(n) PROVE ImportInv'
  BY <1>3, CategoryEditsKeep
<1>4. ASSUME NEW c \in DOMAIN shelf, NEW n \in Named, renameCategory(c, n) \/ createItem(n, c) PROVE ImportInv'
  BY <1>4, CategoryEditsKeep, ItemEditsKeep
<1>5. ASSUME NEW c \in DOMAIN shelf, removeCategory(c) PROVE ImportInv'
  <2>1. Product.name \in Named
    BY MenuImportAssumption
  <2> QED
    BY <1>5, <2>1, CategoryEditsKeep
<1>6. ASSUME NEW i \in DOMAIN dish, NEW n \in Named, NEW c \in DOMAIN shelf, updateItem(i, n, c) PROVE ImportInv'
  BY <1>6, ItemEditsKeep
<1>7. ASSUME NEW i \in DOMAIN dish, archiveDish(i) PROVE ImportInv'
  BY <1>7, ItemEditsKeep
<1>8. CASE UNCHANGED importVars
  <2>1. UNCHANGED <<sheet, shelf, dish, tab, menuEdits, commits>>
    BY <1>8 DEF importVars
  <2> QED
    BY <2>1 DEF ImportInv, ImportTypes, ReferencesInv, MenuInOrder, Homeless, Clash
<1> QED
  BY <1>1, <1>2, <1>3, <1>4, <1>5, <1>6, <1>7, <1>8 DEF ImportNext

\* However imports, edits and removals of two tabs cross, every item has a
\* category, no category offers two live items of one name, and no import makes
\* a category twice (items.service.ts, menu-import.service.ts commitItems).
THEOREM MenuStaysInOrder == ImportSpec => []MenuInOrder
<1>1. ImportInv => MenuInOrder
  BY DEF ImportInv
<1> QED
  BY <1>1, ImportStarts, ImportStep, PTL DEF ImportSpec

-----------------------------------------------------------------------------
(* The same sales as the report, the dashboard, the till and the invoice   *)
(* show them.  A row that is finalized has tenders for its total and its   *)
(* round-off, and notes for no more than the order; every figure is a sum  *)
(* over such rows, taken by bill, by day or by method.                     *)

\* What a line costs, and what is taxed of an order.
LineTotal(order, i) == order.lines[i].qty * order.lines[i].unit
NetOf(order) == computeSubtotal(order) - order.discount

\* The figures of a priced order are natural.
LEMMA OrderFigures ==
  ASSUME NEW r \in Orders
  PROVE  /\ IsFiniteSet(DOMAIN r.lines)
         /\ \A i \in DOMAIN r.lines : /\ r.lines[i].qty \in Nat \ {0} /\ r.lines[i].unit \in Nat /\ r.lines[i].parent \in Nat
                                      /\ LineTotal(r, i) \in Nat
         /\ computeSubtotal(r) \in Nat /\ NetOf(r) \in Nat /\ r.tax \in Nat /\ r.discount \in Nat /\ r.roundOff \in Int
         /\ computeSubtotal(r) = SumFunctionOnSet([i \in DOMAIN r.lines |-> LineTotal(r, i)], DOMAIN r.lines)
         /\ totalOf(r) = (IF Inclusive THEN NetOf(r) ELSE NetOf(r) + r.tax)
         /\ totalOf(r) \in Nat
<1>1. Priced(r)
  BY SalesAssumption
<1>2. r.lines \in Seq([qty : Nat \ {0}, unit : Nat, parent : Nat])
  BY <1>1 DEF Priced
<1>3. DOMAIN r.lines = 1..Len(r.lines) /\ Len(r.lines) \in Nat
  BY <1>2
<1>4. IsFiniteSet(DOMAIN r.lines)
  BY <1>3, FS_Interval
<1>5. \A i \in DOMAIN r.lines : r.lines[i].qty \in Nat \ {0} /\ r.lines[i].unit \in Nat /\ r.lines[i].parent \in Nat
  <2> DEFINE Line == [qty : Nat \ {0}, unit : Nat, parent : Nat]
  <2>1. r.lines \in Seq(Line)
    BY <1>2
  <2>2. \A l \in Line : l.qty \in Nat \ {0} /\ l.unit \in Nat /\ l.parent \in Nat
    OBVIOUS
  <2> HIDE DEF Line
  <2>3. \A i \in DOMAIN r.lines : r.lines[i] \in Line
    BY <2>1, <1>3, ElementOfSeq
  <2> QED
    BY <2>2, <2>3
<1>6. \A i \in DOMAIN r.lines : LineTotal(r, i) \in Nat
  <2> SUFFICES ASSUME NEW i \in DOMAIN r.lines PROVE LineTotal(r, i) \in Nat
    OBVIOUS
  <2>1. PICK q \in Nat, u \in Nat : q = r.lines[i].qty /\ u = r.lines[i].unit
    BY <1>5
  <2>2. q * u \in Nat
    OBVIOUS
  <2> QED
    BY <2>1, <2>2 DEF LineTotal
<1> DEFINE costs == [i \in DOMAIN r.lines |-> LineTotal(r, i)]
<1>7. computeSubtotal(r) = SumFunctionOnSet(costs, DOMAIN r.lines)
  BY DEF computeSubtotal, Sum, LineTotal
<1>8. \A i \in DOMAIN r.lines : costs[i] \in Nat
  BY <1>6
<1> HIDE DEF costs
<1>9. SumFunctionOnSet(costs, DOMAIN r.lines) \in Nat
  <2>1. DOMAIN r.lines \in SUBSET DOMAIN r.lines
    OBVIOUS
  <2> QED
    BY <1>4, <1>8, <2>1, SumNaturals
<1>10. computeSubtotal(r) \in Nat
  BY <1>7, <1>9
<1>11. r.tax \in Nat /\ r.discount \in Nat /\ r.roundOff \in Int /\ r.discount <= computeSubtotal(r)
  BY <1>1 DEF Priced
<1>12. NetOf(r) \in Nat
  BY <1>10, <1>11 DEF NetOf
<1>13. totalOf(r) = (IF Inclusive THEN NetOf(r) ELSE NetOf(r) + r.tax)
  BY <1>10, <1>11 DEF totalOf, computeTotalMinor, NetOf
<1>14. totalOf(r) \in Nat
  BY <1>11, <1>12, <1>13
<1> QED
  BY <1>4, <1>5, <1>6, <1>7, <1>10, <1>11, <1>12, <1>13, <1>14 DEF costs

TenderRows == Seq([method : Methods, amount : Int, at : Nat])
NoteRows == Seq([subtotal : Nat, tax : Nat])

\* The amounts of the tenders and of the notes of a row, one by one.
Amounts(r) == [i \in DOMAIN r.tenders |-> r.tenders[i].amount]
Subtotals(r) == [i \in DOMAIN r.notes |-> r.notes[i].subtotal]
Taxes(r) == [i \in DOMAIN r.notes |-> r.notes[i].tax]

\* A row of a bill: its tenders were taken no later than now, or than it was
\* finalized; then they cover the total and the cash round-off; and its notes
\* take no more than there is.
RowOK(r, now) ==
  /\ r.st \in {"none", "open", "finalized"} /\ r.outlet \in Branches /\ r.order \in Orders
  /\ r.at \in Nat /\ r.at <= now
  /\ r.tenders \in TenderRows /\ r.notes \in NoteRows
  /\ Len(r.tenders) <= 2 /\ (r.st # "finalized" => Len(r.tenders) <= 1)
  /\ \A i \in DOMAIN r.tenders : r.tenders[i].at <= IF r.st = "finalized" THEN r.at ELSE now
  /\ r.st = "finalized" => Sum(Amounts(r)) = totalOf(r.order) + r.order.roundOff
  /\ Sum(Subtotals(r)) <= NetOf(r.order) /\ Sum(Taxes(r)) <= r.order.tax

\* The inductive invariant of the sales.
SalesInv == hour \in Nat /\ DOMAIN sales = Bills /\ \A b \in Bills : RowOK(sales[b], hour)

\* The sum of an empty sequence, and of one that got one more.
LEMMA SumOfSeq ==
  ASSUME NEW f, NEW n \in Nat, DOMAIN f = 1..n, \A i \in 1..n : f[i] \in Int
  PROVE  /\ Sum(f) \in Int
         /\ n = 0 => Sum(f) = 0
         /\ (\A i \in 1..n : f[i] \in Nat) => Sum(f) \in Nat
<1>1. Sum(f) = SumFunctionOnSet(f, 1..n) /\ IsFiniteSet(1..n)
  BY FS_Interval DEF Sum
<1>2. SumFunctionOnSet(f, 1..n) \in Int
  BY <1>1, SumIntegers
<1>3. n = 0 => 1..n = {}
  OBVIOUS
<1>4. (\A i \in 1..n : f[i] \in Nat) => SumFunctionOnSet(f, 1..n) \in Nat
  <2>1. 1..n \in SUBSET (1..n)
    OBVIOUS
  <2> QED
    BY <1>1, <2>1, SumNaturals
<1> QED
  BY <1>1, <1>2, <1>3, <1>4, SumEmpty

LEMMA SumAppended ==
  ASSUME NEW n \in Nat, NEW f, NEW e, DOMAIN f = 1..n, DOMAIN e = 1..(n + 1),
         \A i \in 1..n : f[i] \in Int /\ e[i] = f[i], e[n + 1] \in Int
  PROVE  Sum(e) = Sum(f) + e[n + 1] /\ Sum(f) \in Int
BY SumNext DEF Sum

\* A row that stays is still good later.
LEMMA SoldStep ==
  ASSUME SalesInv, NEW b \in Bills, NEW row, sales' = [sales EXCEPT ![b] = row], hour' = hour, RowOK(row, hour)
  PROVE  SalesInv'
<1>1. DOMAIN sales' = Bills /\ sales'[b] = row /\ \A c \in Bills : c # b => sales'[c] = sales[c]
  BY DEF SalesInv
<1>2. \A c \in Bills : RowOK(sales'[c], hour)
  BY <1>1 DEF SalesInv
<1>3. (\A c \in Bills : RowOK(sales[c], hour))'
  BY <1>2 DEF RowOK
<1> QED
  BY <1>1, <1>3 DEF SalesInv

\* The types of a row's lists.
LEMMA RowLists ==
  ASSUME NEW r, NEW now \in Nat, RowOK(r, now)
  PROVE  /\ DOMAIN r.tenders = 1..Len(r.tenders) /\ Len(r.tenders) \in Nat
         /\ \A i \in DOMAIN r.tenders : /\ r.tenders[i].method \in Methods /\ r.tenders[i].amount \in Int
                                        /\ r.tenders[i].at \in Nat
         /\ DOMAIN r.notes = 1..Len(r.notes) /\ Len(r.notes) \in Nat
         /\ \A i \in DOMAIN r.notes : r.notes[i].subtotal \in Nat /\ r.notes[i].tax \in Nat
         /\ Sum(Amounts(r)) \in Int /\ Sum(Subtotals(r)) \in Nat /\ Sum(Taxes(r)) \in Nat
<1> DEFINE T == [method : Methods, amount : Int, at : Nat]
           N == [subtotal : Nat, tax : Nat]
<1>1. r.tenders \in Seq(T) /\ r.notes \in Seq(N)
  BY DEF RowOK, TenderRows, NoteRows
<1>2. \A t \in T : t.method \in Methods /\ t.amount \in Int /\ t.at \in Nat
  OBVIOUS
<1>3. \A n \in N : n.subtotal \in Nat /\ n.tax \in Nat
  OBVIOUS
<1> HIDE DEF T, N
<1>4. DOMAIN r.tenders = 1..Len(r.tenders) /\ Len(r.tenders) \in Nat /\ DOMAIN r.notes = 1..Len(r.notes) /\ Len(r.notes) \in Nat
  BY <1>1
<1>5. (\A i \in DOMAIN r.tenders : r.tenders[i] \in T) /\ (\A i \in DOMAIN r.notes : r.notes[i] \in N)
  BY <1>1, <1>4, ElementOfSeq
<1>6. /\ \A i \in DOMAIN r.tenders : r.tenders[i].method \in Methods /\ r.tenders[i].amount \in Int /\ r.tenders[i].at \in Nat
      /\ \A i \in DOMAIN r.notes : r.notes[i].subtotal \in Nat /\ r.notes[i].tax \in Nat
  BY <1>2, <1>3, <1>5
<1>7. Sum(Amounts(r)) \in Int
  <2> DEFINE f == Amounts(r)
             n == Len(r.tenders)
  <2>1. n \in Nat /\ DOMAIN f = 1..n /\ \A i \in 1..n : f[i] \in Int
    BY <1>4, <1>6 DEF Amounts
  <2> HIDE DEF f, n
  <2>2. Sum(f) \in Int
    BY <2>1, SumOfSeq
  <2> QED
    BY <2>2 DEF f
<1>8. Sum(Subtotals(r)) \in Nat
  <2> DEFINE f == Subtotals(r)
             n == Len(r.notes)
  <2>1. n \in Nat /\ DOMAIN f = 1..n /\ \A i \in 1..n : f[i] \in Nat
    BY <1>4, <1>6 DEF Subtotals
  <2> HIDE DEF f, n
  <2>2. Sum(f) \in Nat
    BY <2>1, SumOfSeq
  <2> QED
    BY <2>2 DEF f
<1>9. Sum(Taxes(r)) \in Nat
  <2> DEFINE f == Taxes(r)
             n == Len(r.notes)
  <2>1. n \in Nat /\ DOMAIN f = 1..n /\ \A i \in 1..n : f[i] \in Nat
    BY <1>4, <1>6 DEF Taxes
  <2> HIDE DEF f, n
  <2>2. Sum(f) \in Nat
    BY <2>1, SumOfSeq
  <2> QED
    BY <2>2 DEF f
<1> QED
  BY <1>4, <1>6, <1>7, <1>8, <1>9

\* A row of a bill without notes that has at most one tender yet.
Fresh(r, now) ==
  /\ r.st \in {"none", "open"} /\ r.outlet \in Branches /\ r.order \in Orders /\ r.at = 0
  /\ r.notes = << >>
  /\ \/ r.tenders = << >>
     \/ \E t \in [method : Methods, amount : Int, at : Nat] : r.tenders = <<t>> /\ t.at <= now

LEMMA FreshRow ==
  ASSUME NEW now \in Nat, NEW r, Fresh(r, now)
  PROVE  RowOK(r, now)
<1> USE DEF Fresh
<1>1. NetOf(r.order) \in Nat /\ r.order.tax \in Nat
  BY OrderFigures
<1>2. Sum(Subtotals(r)) = 0 /\ Sum(Taxes(r)) = 0
  <2>1. DOMAIN Subtotals(r) = 1..0 /\ DOMAIN Taxes(r) = 1..0 /\ \A i \in 1..0 : FALSE
    BY DEF Subtotals, Taxes
  <2> HIDE DEF Fresh
  <2> QED
    BY <2>1, SumOfSeq
<1>3. /\ r.tenders \in TenderRows /\ Len(r.tenders) <= 1
      /\ \A i \in DOMAIN r.tenders : r.tenders[i].at <= now
  <2>1. CASE r.tenders = << >>
    BY <2>1 DEF TenderRows
  <2>2. CASE \E t \in [method : Methods, amount : Int, at : Nat] : r.tenders = <<t>> /\ t.at <= now
    <3>1. PICK t \in [method : Methods, amount : Int, at : Nat] : r.tenders = <<t>> /\ t.at <= now
      BY <2>2
    <3> QED
      BY <3>1 DEF TenderRows
  <2> QED
    BY <2>1, <2>2
<1>4. r.notes \in NoteRows
  BY DEF NoteRows
<1>5. Len(r.tenders) <= 2
  BY <1>3 DEF TenderRows
<1> QED
  BY <1>1, <1>2, <1>3, <1>4, <1>5 DEF RowOK

\* A bill is opened, or paid in part.
LEMMA SharesInv ==
  ASSUME SalesInv, NEW b \in Bills,
         \/ \E o \in Branches, r \in Orders : OpenBill(b, o, r)
         \/ \E m \in Methods : PayShare(b, m, 1)
  PROVE  SalesInv'
<1>1. CASE \E o \in Branches, r \in Orders : OpenBill(b, o, r)
  <2>1. PICK o \in Branches, r \in Orders : OpenBill(b, o, r)
    BY <1>1
  <2> DEFINE row == [st |-> "open", outlet |-> o, order |-> r, at |-> 0, tenders |-> << >>, notes |-> << >>]
  <2>2. row.st = "open" /\ row.outlet = o /\ row.order = r /\ row.at = 0 /\ row.tenders = << >> /\ row.notes = << >>
    OBVIOUS
  <2>3. sales' = [sales EXCEPT ![b] = row] /\ hour' = hour /\ hour \in Nat
    BY <2>1 DEF OpenBill, SalesInv
  <2> HIDE DEF row
  <2>4. Fresh(row, hour)
    BY <2>2 DEF Fresh
  <2>5. RowOK(row, hour)
    BY <2>3, <2>4, FreshRow
  <2> QED
    BY <2>3, <2>5, SoldStep
<1>2. CASE \E m \in Methods : PayShare(b, m, 1)
  <2>1. PICK m \in Methods : PayShare(b, m, 1)
    BY <1>2
  <2> DEFINE t == Tender(m, 1)
             row == [st |-> "open", outlet |-> sales[b].outlet, order |-> sales[b].order, at |-> 0,
                     tenders |-> <<t>>, notes |-> << >>]
  <2>2. t \in [method : Methods, amount : Int, at : Nat] /\ t.at <= hour
    BY DEF Tender, SalesInv
  <2>3. sales' = [sales EXCEPT ![b] = row] /\ hour' = hour /\ hour \in Nat
    BY <2>1 DEF PayShare, SalesInv
  <2>4. sales[b].outlet \in Branches /\ sales[b].order \in Orders
    BY DEF SalesInv, RowOK
  <2> HIDE DEF t
  <2>5. row.st \in {"none", "open"} /\ row.outlet \in Branches /\ row.order \in Orders /\ row.at = 0
        /\ row.tenders = <<t>> /\ row.notes = << >>
    BY <2>4
  <2> HIDE DEF row
  <2>6. RowOK(row, hour)
    <3>1. Fresh(row, hour)
      BY <2>2, <2>5 DEF Fresh
    <3> QED
      BY <2>3, <3>1, FreshRow
  <2> QED
    BY <2>3, <2>6, SoldStep
<1> QED
  BY <1>1, <1>2

\* What is still due is tendered: the tenders are then the total and the
\* round-off.
LEMMA FinalizeInv ==
  ASSUME SalesInv, NEW b \in Bills, NEW m \in Methods, Finalize(b, m)
  PROVE  SalesInv'
<1> DEFINE old == sales[b]
           due == totalOf(old.order) + old.order.roundOff - Paid(b)
           row == [st |-> "finalized", outlet |-> old.outlet, order |-> old.order, at |-> hour,
                   tenders |-> Append(old.tenders, Tender(m, due)), notes |-> << >>]
<1>1. RowOK(old, hour) /\ hour \in Nat
  BY DEF SalesInv
<1>2. old.st = "open" /\ sales' = [sales EXCEPT ![b] = row] /\ hour' = hour
  BY DEF Finalize
<1>3. Paid(b) = Sum(Amounts(old)) /\ Paid(b) \in Int
  BY <1>1, RowLists DEF Paid, Amounts
<1>4. totalOf(old.order) \in Nat /\ old.order.roundOff \in Int /\ NetOf(old.order) \in Nat /\ old.order.tax \in Nat
  BY <1>1, OrderFigures DEF RowOK
<1>5. due \in Int
  BY <1>3, <1>4
<1> DEFINE t == Tender(m, due)
<1>6. t.amount = due /\ t.at = hour /\ t \in [method : Methods, amount : Int, at : Nat]
  BY <1>1, <1>5 DEF Tender
<1>7. row.st = "finalized" /\ row.outlet = old.outlet /\ row.order = old.order /\ row.at = hour
      /\ row.tenders = Append(old.tenders, t) /\ row.notes = << >>
  OBVIOUS
<1>8. due + Paid(b) = totalOf(old.order) + old.order.roundOff
  BY <1>3, <1>4
<1> HIDE DEF t, row, due
<1>9. old.tenders \in TenderRows /\ Len(old.tenders) \in Nat /\ Len(old.tenders) <= 1
      /\ DOMAIN old.tenders = 1..Len(old.tenders) /\ \A i \in DOMAIN old.tenders : old.tenders[i].at <= hour
  BY <1>1, <1>2, RowLists DEF RowOK
<1>10. /\ row.tenders \in TenderRows /\ Len(row.tenders) = Len(old.tenders) + 1
       /\ DOMAIN row.tenders = 1..(Len(old.tenders) + 1) /\ row.tenders[Len(old.tenders) + 1] = t
       /\ \A i \in 1..Len(old.tenders) : row.tenders[i] = old.tenders[i]
  BY <1>6, <1>7, <1>9 DEF TenderRows
<1>11. \A i \in DOMAIN row.tenders : row.tenders[i].at <= hour
  BY <1>1, <1>6, <1>9, <1>10
<1>12. Sum(Amounts(row)) = totalOf(row.order) + row.order.roundOff
  <2> DEFINE n == Len(old.tenders)
  <2>1. \A i \in 1..n : old.tenders[i].amount \in Int
    BY <1>1, <1>9, RowLists
  <2>2. DOMAIN Amounts(old) = 1..n /\ DOMAIN Amounts(row) = 1..(n + 1)
    BY <1>9, <1>10 DEF Amounts
  <2>3. \A i \in 1..n : Amounts(old)[i] \in Int /\ Amounts(row)[i] = Amounts(old)[i]
    BY <1>9, <1>10, <2>1 DEF Amounts
  <2>4. Amounts(row)[n + 1] = due
    BY <1>6, <1>9, <1>10 DEF Amounts
  <2>5. Sum(Amounts(row)) = Sum(Amounts(old)) + due
    BY <1>5, <1>9, <2>2, <2>3, <2>4, SumAppended
  <2>6. Paid(b) + due = due + Paid(b)
    BY <1>3, <1>5
  <2> QED
    BY <1>3, <1>7, <1>8, <2>5, <2>6
<1>13. Sum(Subtotals(row)) = 0 /\ Sum(Taxes(row)) = 0
  <2>1. DOMAIN Subtotals(row) = 1..0 /\ DOMAIN Taxes(row) = 1..0
    BY <1>7 DEF Subtotals, Taxes
  <2> QED
    BY <2>1, SumOfSeq
<1>14. row.outlet \in Branches /\ row.order \in Orders /\ row.at \in Nat /\ row.at <= hour /\ row.notes \in NoteRows
  BY <1>1, <1>7 DEF RowOK, NoteRows
<1>15. Len(row.tenders) <= 2
  BY <1>9, <1>10
<1>16. RowOK(row, hour)
  BY SMTT(40), <1>4, <1>7, <1>10, <1>11, <1>12, <1>13, <1>14, <1>15 DEF RowOK
<1> QED
  BY <1>2, <1>16, SoldStep

\* One of `of' equal parts is no more than all.
LEMMA PartOf ==
  ASSUME NEW n \in Nat, NEW of \in 1..2
  PROVE  n \div of \in Nat /\ n \div of <= n
<1>1. CASE of = 1
  BY <1>1
<1>2. CASE of = 2
  BY <1>2
<1> QED
  BY <1>1, <1>2

\* A note takes no more than the others left.
LEMMA RefundInv ==
  ASSUME SalesInv, NEW b \in Bills, NEW of \in 1..2, Refund(b, of)
  PROVE  SalesInv'
<1> DEFINE old == sales[b]
           net == computeSubtotal(old.order) - old.order.discount - Sum(Subtotals(old))
           tax == old.order.tax - Sum(Taxes(old))
           note == [subtotal |-> net \div of, tax |-> tax \div of]
           row == [st |-> "finalized", outlet |-> old.outlet, order |-> old.order, at |-> old.at,
                   tenders |-> old.tenders, notes |-> Append(old.notes, note)]
<1>1. RowOK(old, hour) /\ hour \in Nat
  BY DEF SalesInv
<1>2. old.st = "finalized" /\ hour' = hour
  BY DEF Refund
<1>3. sales' = [sales EXCEPT ![b] = row]
  BY DEF Refund, Subtotals, Taxes
<1>4. NetOf(old.order) \in Nat /\ old.order.tax \in Nat /\ Sum(Subtotals(old)) \in Nat /\ Sum(Taxes(old)) \in Nat
      /\ Sum(Subtotals(old)) <= NetOf(old.order) /\ Sum(Taxes(old)) <= old.order.tax
  BY <1>1, OrderFigures, RowLists DEF RowOK
<1>5. net = NetOf(old.order) - Sum(Subtotals(old))
  BY DEF NetOf
<1>6. net \in Nat /\ tax \in Nat
  BY <1>4, <1>5
<1> HIDE DEF net, tax
<1>7. note.subtotal \in Nat /\ note.tax \in Nat /\ note \in [subtotal : Nat, tax : Nat]
      /\ note.subtotal <= net /\ note.tax <= tax
  BY <1>6, PartOf
<1> HIDE DEF note
<1>8. /\ row.st = "finalized" /\ row.outlet = old.outlet /\ row.order = old.order /\ row.at = old.at
      /\ row.tenders = old.tenders /\ row.notes = Append(old.notes, note)
  OBVIOUS
<1> HIDE DEF row
<1> DEFINE n == Len(old.notes)
<1>9. old.notes \in NoteRows /\ n \in Nat /\ DOMAIN old.notes = 1..n
      /\ \A i \in 1..n : old.notes[i].subtotal \in Nat /\ old.notes[i].tax \in Nat
  BY <1>1, RowLists DEF RowOK
<1>10. /\ row.notes \in NoteRows /\ DOMAIN row.notes = 1..(n + 1) /\ row.notes[n + 1] = note
       /\ \A i \in 1..n : row.notes[i] = old.notes[i]
  BY <1>7, <1>8, <1>9 DEF NoteRows
<1> HIDE DEF n
<1>11. Sum(Subtotals(row)) = Sum(Subtotals(old)) + note.subtotal
  <2>1. DOMAIN Subtotals(old) = 1..n /\ DOMAIN Subtotals(row) = 1..(n + 1)
    BY <1>9, <1>10 DEF Subtotals
  <2>2. \A i \in 1..n : Subtotals(old)[i] \in Int /\ Subtotals(row)[i] = Subtotals(old)[i]
    BY <1>9, <1>10 DEF Subtotals
  <2>3. Subtotals(row)[n + 1] = note.subtotal /\ note.subtotal \in Int
    BY <1>7, <1>9, <1>10 DEF Subtotals
  <2> QED
    BY <1>9, <2>1, <2>2, <2>3, SumAppended
<1>12. Sum(Taxes(row)) = Sum(Taxes(old)) + note.tax
  <2>1. DOMAIN Taxes(old) = 1..n /\ DOMAIN Taxes(row) = 1..(n + 1)
    BY <1>9, <1>10 DEF Taxes
  <2>2. \A i \in 1..n : Taxes(old)[i] \in Int /\ Taxes(row)[i] = Taxes(old)[i]
    BY <1>9, <1>10 DEF Taxes
  <2>3. Taxes(row)[n + 1] = note.tax /\ note.tax \in Int
    BY <1>7, <1>9, <1>10 DEF Taxes
  <2> QED
    BY <1>9, <2>1, <2>2, <2>3, SumAppended
<1>13. Sum(Subtotals(row)) <= NetOf(row.order) /\ Sum(Taxes(row)) <= row.order.tax
  <2>1. Sum(Subtotals(old)) + note.subtotal <= NetOf(old.order)
    BY <1>4, <1>5, <1>7
  <2>2. Sum(Taxes(old)) + note.tax <= old.order.tax
    BY <1>4, <1>7 DEF tax
  <2> QED
    BY <1>8, <1>11, <1>12, <2>1, <2>2
<1>14. Sum(Amounts(row)) = totalOf(row.order) + row.order.roundOff
  BY <1>1, <1>2, <1>8 DEF RowOK, Amounts
<1>15. RowOK(row, hour)
  BY <1>1, <1>2, <1>8, <1>10, <1>13, <1>14 DEF RowOK
<1> QED
  BY <1>2, <1>3, <1>15, SoldStep

\* The invariant holds of every reachable state, for any outlets, bills,
\* methods and priced orders.
THEOREM SalesInvariance == SalesSpec => []SalesInv
<1>1. SalesInit => SalesInv
  <2> SUFFICES ASSUME SalesInit PROVE SalesInv
    OBVIOUS
  <2>1. hour \in Nat /\ DOMAIN sales = Bills /\ \A b \in Bills : sales[b] = NoBill
    BY SalesAssumption DEF SalesInit
  <2>2. NoBill.outlet \in Branches /\ NoBill.order \in Orders
    BY SalesAssumption DEF NoBill
  <2>3. NoBill.st = "none" /\ NoBill.at = 0 /\ NoBill.tenders = << >> /\ NoBill.notes = << >>
    BY DEF NoBill
  <2>4. RowOK(NoBill, hour)
    <3>1. Fresh(NoBill, hour)
      BY <2>2, <2>3 DEF Fresh
    <3> QED
      BY <2>1, <3>1, FreshRow
  <2> QED
    BY <2>1, <2>4 DEF SalesInv
<1>2. SalesInv /\ [SalesNext]_salesVars => SalesInv'
  <2> SUFFICES ASSUME SalesInv, [SalesNext]_salesVars PROVE SalesInv'
    OBVIOUS
  <2>1. CASE HourPasses
    <3>1. hour \in Nat /\ hour' = hour + 1 /\ sales' = sales
      BY <2>1 DEF HourPasses, SalesInv
    <3>2. ASSUME NEW b \in Bills PROVE RowOK(sales[b], hour + 1)
      <4>1. RowOK(sales[b], hour)
        BY DEF SalesInv
      <4>2. sales[b].at \in Nat /\ sales[b].at <= hour + 1
        BY <3>1, <4>1 DEF RowOK
      <4>3. \A i \in DOMAIN sales[b].tenders : sales[b].tenders[i].at \in Nat
        BY <3>1, <4>1, RowLists
      <4>4. \A i \in DOMAIN sales[b].tenders :
               sales[b].tenders[i].at <= IF sales[b].st = "finalized" THEN sales[b].at ELSE hour + 1
        BY <3>1, <4>1, <4>3 DEF RowOK
      <4> QED
        BY <4>1, <4>2, <4>4 DEF RowOK
    <3>3. \A b \in Bills : RowOK(sales'[b], hour')
      BY <3>1, <3>2
    <3>4. (\A b \in Bills : RowOK(sales[b], hour))'
      BY <3>3 DEF RowOK
    <3> QED
      BY <3>1, <3>4 DEF SalesInv
  <2>2. CASE \E b \in Bills, o \in Branches, r \in Orders : OpenBill(b, o, r)
    BY <2>2, SharesInv
  <2>3. CASE \E b \in Bills, m \in Methods : PayShare(b, m, 1)
    BY <2>3, SharesInv
  <2>4. CASE \E b \in Bills, m \in Methods : Finalize(b, m)
    BY <2>4, FinalizeInv
  <2>5. CASE \E b \in Bills, of \in 1..2 : Refund(b, of)
    BY <2>5, RefundInv
  <2>6. CASE UNCHANGED salesVars
    <3>1. hour' = hour /\ sales' = sales
      BY <2>6 DEF salesVars
    <3>2. (\A b \in Bills : RowOK(sales[b], hour))'
      BY <3>1 DEF SalesInv, RowOK
    <3> QED
      BY <3>1, <3>2 DEF SalesInv
  <2> QED
    BY <2>1, <2>2, <2>3, <2>4, <2>5, <2>6 DEF SalesNext
<1> QED
  BY <1>1, <1>2, PTL DEF SalesSpec

\* What is of today is what came since the day began, and is younger than the
\* 48 hours a reader looks back.
LEMMA TodayFromStart ==
  ASSUME hour \in Nat, NEW o \in Branches
  PROVE  /\ DayStart(o) \in 0..hour
         /\ \A t \in 0..hour : /\ t >= DayStart(o) <=> isToday(t, o)
                               /\ isToday(t, o) => t + Lookback >= hour
<1> DEFINE key(t) == localDateKey(t, o)
           T == {t \in 0..hour : isToday(t, o)}
<1>1. PICK d \in Nat \ {0}, off \in Nat : d = DayLength /\ off = Offset[o] /\ Lookback = 2 * d
  BY SalesAssumption
<1>2. \A t \in Nat : key(t) = (t + off) \div d /\ t + off \in Nat
  BY <1>1 DEF localDateKey
<1>3. \A t \in 0..hour : isToday(t, o) <=> key(t) = key(hour)
  BY DEF isToday
<1>4. \A s \in 0..hour : \A t \in 0..hour : s <= t => key(s) <= key(t) /\ key(s) \in Nat /\ key(t) \in Nat
  <2> SUFFICES ASSUME NEW s \in 0..hour, NEW t \in 0..hour, s <= t
               PROVE  key(s) <= key(t) /\ key(s) \in Nat /\ key(t) \in Nat
    OBVIOUS
  <2>1. s \in Nat /\ t \in Nat
    OBVIOUS
  <2>2. s + off <= t + off /\ s + off \in Nat /\ t + off \in Nat
    BY <2>1
  <2> HIDE DEF key
  <2> QED
    BY <1>2, <2>1, <2>2, DaysInOrder
<1>5. \A t \in 0..hour : key(t) = key(hour) => hour < t + d
  <2> SUFFICES ASSUME NEW t \in 0..hour, key(t) = key(hour) PROVE hour < t + d
    OBVIOUS
  <2>1. (t + off) \div d = (hour + off) \div d /\ t + off \in Nat /\ hour + off \in Nat
    BY <1>2
  <2>2. hour + off < t + off + d
    BY <2>1, SameDayNear
  <2> QED
    BY <2>2
<1> HIDE DEF key
<1>6. T \in SUBSET Nat /\ hour \in T
  BY <1>3
<1>7. \E t \in T : \A s \in T : t <= s
  BY <1>6, LeastNatural
<1>8. DayStart(o) \in T /\ \A s \in T : DayStart(o) <= s
  BY <1>7 DEF DayStart
<1>9. DayStart(o) \in 0..hour /\ key(DayStart(o)) = key(hour)
  BY <1>3, <1>8
<1>10. ASSUME NEW t \in 0..hour PROVE t >= DayStart(o) <=> isToday(t, o)
  <2>1. CASE t >= DayStart(o)
    <3>1. key(DayStart(o)) <= key(t) /\ key(t) <= key(hour) /\ key(t) \in Nat /\ key(hour) \in Nat
      BY <1>4, <1>9, <2>1
    <3> QED
      BY <1>3, <1>9, <2>1, <3>1
  <2>2. ASSUME isToday(t, o) PROVE t >= DayStart(o)
    BY <1>8, <2>2
  <2> QED
    BY <2>1, <2>2
<1>11. ASSUME NEW t \in 0..hour, isToday(t, o) PROVE t + Lookback >= hour
  <2>1. hour < t + d
    BY <1>3, <1>5, <1>11
  <2> QED
    BY <1>1, <2>1
<1> QED
  BY <1>9, <1>10, <1>11

\* The finalized bills of an outlet's day: the report's and the dashboard's.
Day(o) == paymentsWhere(o, DayStart(o), hour)

LEMMA SameDay ==
  ASSUME SalesInv, NEW o \in Branches
  PROVE  /\ {b \in recentBills : sales[b].outlet = o /\ isToday(sales[b].at, o)} = Day(o)
         /\ Day(o) \subseteq Bills /\ IsFiniteSet(Day(o))
         /\ \A b \in Day(o) : sales[b].st = "finalized" /\ RowOK(sales[b], hour) /\ sales[b].order \in Orders
<1>1. hour \in Nat /\ \A b \in Bills : RowOK(sales[b], hour) /\ sales[b].at \in 0..hour
  BY DEF SalesInv, RowOK
<1>2. \A b \in Bills : sales[b].at \in DayStart(o)..hour <=> isToday(sales[b].at, o) /\ sales[b].at + Lookback >= hour
  <2> SUFFICES ASSUME NEW b \in Bills
               PROVE  sales[b].at \in DayStart(o)..hour <=> isToday(sales[b].at, o) /\ sales[b].at + Lookback >= hour
    OBVIOUS
  <2>1. PICK t \in 0..hour : t = sales[b].at
    BY <1>1
  <2>2. (t >= DayStart(o) <=> isToday(t, o)) /\ (isToday(t, o) => t + Lookback >= hour) /\ DayStart(o) \in 0..hour
    BY <1>1, TodayFromStart
  <2>3. t \in DayStart(o)..hour <=> t >= DayStart(o)
    BY <1>1, <2>2
  <2> QED
    BY <2>1, <2>2, <2>3
<1>3. {b \in recentBills : sales[b].outlet = o /\ isToday(sales[b].at, o)} = Day(o)
  BY <1>2 DEF recentBills, Day, paymentsWhere
<1>4. Day(o) \subseteq Bills /\ \A b \in Day(o) : sales[b].st = "finalized"
  BY DEF Day, paymentsWhere
<1>5. IsFiniteSet(Day(o))
  BY <1>4, SalesAssumption, FS_Subset
<1> QED
  BY <1>1, <1>3, <1>4, <1>5 DEF RowOK

\* What is shown of a bill: the report's and the dashboard's totals are the
\* bill's, its tenders are that and the round-off, and no more is refunded.
LEMMA BillFigures ==
  ASSUME NEW b, NEW now \in Nat, RowOK(sales[b], now)
  PROVE  /\ reportTotal(sales[b].order) = totalOf(sales[b].order) /\ grossMinor(sales[b].order) = reportTotal(sales[b].order)
         /\ reportTotal(sales[b].order) \in Nat /\ sales[b].order.roundOff \in Int /\ Paid(b) \in Int
         /\ sales[b].st = "finalized" => Paid(b) = reportTotal(sales[b].order) + sales[b].order.roundOff
         /\ CreditedMinor(b) \in Nat /\ CreditedMinor(b) <= reportTotal(sales[b].order)
<1> DEFINE r == sales[b]
           n == Len(r.notes)
           credits == [i \in DOMAIN r.notes |-> noteAmount(r.notes[i])]
<1>1. r.order \in Orders
  BY DEF RowOK
<1>2. /\ computeSubtotal(r.order) \in Nat /\ NetOf(r.order) \in Nat /\ r.order.tax \in Nat /\ r.order.discount \in Nat
      /\ r.order.roundOff \in Int /\ totalOf(r.order) \in Nat
      /\ totalOf(r.order) = (IF Inclusive THEN NetOf(r.order) ELSE NetOf(r.order) + r.order.tax)
  BY <1>1, OrderFigures
<1>3. reportTotal(r.order) = totalOf(r.order) /\ grossMinor(r.order) = reportTotal(r.order)
  BY <1>2 DEF reportTotal, grossMinor, NetOf
<1>4. Paid(b) = Sum(Amounts(r)) /\ Paid(b) \in Int
  BY RowLists DEF Paid, Amounts
<1>5. n \in Nat /\ DOMAIN r.notes = 1..n /\ \A i \in 1..n : r.notes[i].subtotal \in Nat /\ r.notes[i].tax \in Nat
  BY RowLists
<1>6. Sum(Subtotals(r)) \in Nat /\ Sum(Taxes(r)) \in Nat
      /\ Sum(Subtotals(r)) <= NetOf(r.order) /\ Sum(Taxes(r)) <= r.order.tax
  BY RowLists DEF RowOK
<1>7. CreditedMinor(b) = SumFunctionOnSet(credits, 1..n)
  BY <1>5 DEF CreditedMinor, Sum
<1>8. Sum(Subtotals(r)) = SumFunctionOnSet(Subtotals(r), 1..n) /\ Sum(Taxes(r)) = SumFunctionOnSet(Taxes(r), 1..n)
  BY <1>5 DEF Sum, Subtotals, Taxes
<1>9. \A i \in 1..n : /\ Subtotals(r)[i] \in Int /\ Taxes(r)[i] \in Int
                      /\ Inclusive => credits[i] = Subtotals(r)[i]
                      /\ ~Inclusive => credits[i] = Subtotals(r)[i] + Taxes(r)[i]
  <2> SUFFICES ASSUME NEW i \in 1..n
               PROVE  /\ Subtotals(r)[i] \in Int /\ Taxes(r)[i] \in Int
                      /\ Inclusive => credits[i] = Subtotals(r)[i]
                      /\ ~Inclusive => credits[i] = Subtotals(r)[i] + Taxes(r)[i]
    OBVIOUS
  <2>1. credits[i] = noteAmount(r.notes[i]) /\ Subtotals(r)[i] = r.notes[i].subtotal /\ Taxes(r)[i] = r.notes[i].tax
    BY <1>5 DEF Subtotals, Taxes
  <2>2. Inclusive => noteAmount(r.notes[i]) = r.notes[i].subtotal
    BY DEF noteAmount
  <2>3. ~Inclusive => noteAmount(r.notes[i]) = r.notes[i].subtotal + r.notes[i].tax
    BY DEF noteAmount
  <2>4. Subtotals(r)[i] \in Int /\ Taxes(r)[i] \in Int
    BY <1>5, <2>1
  <2> HIDE DEF credits, r, n
  <2>5. ASSUME Inclusive PROVE credits[i] = Subtotals(r)[i]
    BY <2>1, <2>2, <2>5
  <2>6. ASSUME ~Inclusive PROVE credits[i] = Subtotals(r)[i] + Taxes(r)[i]
    BY <2>1, <2>3, <2>6
  <2> QED
    BY <2>4, <2>5, <2>6
<1> HIDE DEF credits, n, r
<1>10. IsFiniteSet(1..n)
  BY <1>5, FS_Interval
<1>11. CASE Inclusive
  <2>1. SumFunctionOnSet(credits, 1..n) = SumFunctionOnSet(Subtotals(r), 1..n)
    BY <1>9, <1>10, <1>11, SumSame
  <2>2. CreditedMinor(b) \in Nat /\ CreditedMinor(b) <= reportTotal(r.order)
    BY <1>2, <1>3, <1>6, <1>7, <1>8, <1>11, <2>1
  <2> QED
    BY <1>2, <1>3, <1>4, <2>2 DEF r, RowOK
<1>12. CASE ~Inclusive
  <2>1. SumFunctionOnSet(credits, 1..n) = SumFunctionOnSet(Subtotals(r), 1..n) + SumFunctionOnSet(Taxes(r), 1..n)
    BY <1>9, <1>10, <1>12, SumPlus
  <2>2. CreditedMinor(b) \in Nat /\ CreditedMinor(b) <= reportTotal(r.order)
    BY <1>2, <1>3, <1>6, <1>7, <1>8, <1>12, <2>1
  <2> QED
    BY <1>2, <1>3, <1>4, <2>2 DEF r, RowOK
<1> QED
  BY <1>11, <1>12

\* What was tendered of a bill by one method, and of it today or earlier.
TakenBy(b, m) == Sum([i \in DOMAIN sales[b].tenders |->
                        IF sales[b].tenders[i].method = m THEN sales[b].tenders[i].amount ELSE 0])
TodayOf(b, o) == {i \in DOMAIN sales[b].tenders : isToday(sales[b].tenders[i].at, o)}
TakenToday(b, o) == SumFunctionOnSet([i \in TodayOf(b, o) |-> sales[b].tenders[i].amount], TodayOf(b, o))
TakenEarly(b, o) == Sum([i \in DOMAIN sales[b].tenders |->
                           IF isToday(sales[b].tenders[i].at, o) THEN 0 ELSE sales[b].tenders[i].amount])

\* The tenders of a bill by method, and by day, add up to what it was paid.
LEMMA PaidInParts ==
  ASSUME NEW b, NEW now \in Nat, RowOK(sales[b], now), NEW o
  PROVE  /\ \A m \in Methods : TakenBy(b, m) \in Int
         /\ Paid(b) = SumFunctionOnSet([m \in Methods |-> TakenBy(b, m)], Methods)
         /\ TakenToday(b, o) \in Int /\ TakenEarly(b, o) \in Int
         /\ Paid(b) = TakenToday(b, o) + TakenEarly(b, o)
<1> DEFINE r == sales[b]
           n == Len(r.tenders)
           f == Amounts(r)
           of == [i \in DOMAIN r.tenders |-> r.tenders[i].method]
           by(m) == [i \in DOMAIN r.tenders |-> IF r.tenders[i].method = m THEN r.tenders[i].amount ELSE 0]
           now_ == [i \in DOMAIN r.tenders |-> IF isToday(r.tenders[i].at, o) THEN r.tenders[i].amount ELSE 0]
           early == [i \in DOMAIN r.tenders |-> IF isToday(r.tenders[i].at, o) THEN 0 ELSE r.tenders[i].amount]
           today == [i \in TodayOf(b, o) |-> r.tenders[i].amount]
<1>1. n \in Nat /\ DOMAIN r.tenders = 1..n /\ IsFiniteSet(1..n)
      /\ \A i \in 1..n : r.tenders[i].method \in Methods /\ r.tenders[i].amount \in Int
  <2>1. n \in Nat /\ DOMAIN r.tenders = 1..n
        /\ \A i \in 1..n : r.tenders[i].method \in Methods /\ r.tenders[i].amount \in Int
    BY RowLists
  <2> HIDE DEF n
  <2>2. IsFiniteSet(1..n)
    BY <2>1, FS_Interval
  <2> QED
    BY <2>1, <2>2
<1>2. Paid(b) = SumFunctionOnSet(f, 1..n)
  BY <1>1 DEF Paid, Sum, Amounts
<1>3. \A i \in 1..n : f[i] \in Int /\ of[i] \in Methods /\ f[i] = r.tenders[i].amount /\ of[i] = r.tenders[i].method
  BY <1>1 DEF Amounts
<1>4. \A m : TakenBy(b, m) = SumFunctionOnSet(by(m), 1..n)
  BY <1>1 DEF TakenBy, Sum
<1>5. \A m : by(m) = [i \in 1..n |-> IF of[i] = m THEN f[i] ELSE 0]
  BY <1>1, <1>3
<1>6. \A m \in Methods : TakenBy(b, m) \in Int
  <2> TAKE m \in Methods
  <2>1. \A i \in 1..n : by(m)[i] \in Int
    BY <1>1
  <2> HIDE DEF by, n
  <2>2. SumFunctionOnSet(by(m), 1..n) \in Int
    BY <1>1, <2>1, SumIntegers
  <2> QED
    BY <1>4, <2>2
<1>7. Paid(b) = SumFunctionOnSet([m \in Methods |-> TakenBy(b, m)], Methods)
  <2> HIDE DEF f, of, by, n
  <2>1. IsFiniteSet(Methods)
    BY SalesAssumption
  <2> HIDE DEF r
  <2>2. SumFunctionOnSet(f, 1..n) =
          SumFunctionOnSet([m \in Methods |-> SumFunctionOnSet([i \in 1..n |-> IF of[i] = m THEN f[i] ELSE 0], 1..n)], Methods)
    <3> DEFINE U == 1..n
    <3>1. IsFiniteSet(U) /\ \A x \in U : f[x] \in Int /\ of[x] \in Methods
      BY <1>1, <1>3
    <3> HIDE DEF U
    <3>2. SumFunctionOnSet(f, U) =
            SumFunctionOnSet([m \in Methods |-> SumFunctionOnSet([i \in U |-> IF of[i] = m THEN f[i] ELSE 0], U)], Methods)
      BY <2>1, <3>1, SumByGroup
    <3> QED
      BY <3>2 DEF U
  <2>3. [m \in Methods |-> SumFunctionOnSet([i \in 1..n |-> IF of[i] = m THEN f[i] ELSE 0], 1..n)] =
          [m \in Methods |-> TakenBy(b, m)]
    BY <1>4, <1>5
  <2> QED
    BY <1>2, <2>2, <2>3
<1>8. \A i \in 1..n : /\ now_[i] \in Int /\ early[i] \in Int /\ f[i] = now_[i] + early[i]
                      /\ i \in TodayOf(b, o) => now_[i] = today[i] /\ today[i] \in Int
                      /\ i \notin TodayOf(b, o) => now_[i] = 0
  <2> SUFFICES ASSUME NEW i \in 1..n
               PROVE  /\ now_[i] \in Int /\ early[i] \in Int /\ f[i] = now_[i] + early[i]
                      /\ i \in TodayOf(b, o) => now_[i] = today[i] /\ today[i] \in Int
                      /\ i \notin TodayOf(b, o) => now_[i] = 0
    OBVIOUS
  <2>1. i \in DOMAIN r.tenders /\ f[i] = r.tenders[i].amount /\ r.tenders[i].amount \in Int
    BY <1>1, <1>3
  <2>2. now_[i] = (IF isToday(r.tenders[i].at, o) THEN r.tenders[i].amount ELSE 0)
        /\ early[i] = (IF isToday(r.tenders[i].at, o) THEN 0 ELSE r.tenders[i].amount)
    BY <2>1
  <2>3. i \in TodayOf(b, o) <=> isToday(r.tenders[i].at, o)
    BY <2>1 DEF TodayOf
  <2>4. i \in TodayOf(b, o) => today[i] = r.tenders[i].amount
    OBVIOUS
  <2> HIDE DEF now_, early, today, f, n, r
  <2>5. CASE isToday(r.tenders[i].at, o)
    BY <2>1, <2>2, <2>3, <2>4, <2>5
  <2>6. CASE ~isToday(r.tenders[i].at, o)
    BY <2>1, <2>2, <2>3, <2>6
  <2> QED
    BY <2>5, <2>6
<1>9. TodayOf(b, o) \in SUBSET (1..n)
  BY <1>1 DEF TodayOf
<1>10. TakenEarly(b, o) = SumFunctionOnSet(early, 1..n) /\ TakenToday(b, o) = SumFunctionOnSet(today, TodayOf(b, o))
  BY <1>1 DEF TakenEarly, Sum, TakenToday
<1> HIDE DEF now_, early, today, f, n
<1>11. SumFunctionOnSet(f, 1..n) = SumFunctionOnSet(now_, 1..n) + SumFunctionOnSet(early, 1..n)
  BY <1>1, <1>8, SumPlus
<1>12. SumFunctionOnSet(now_, 1..n) = SumFunctionOnSet(now_, TodayOf(b, o))
  BY <1>1, <1>8, <1>9, SumWithin
<1>13. IsFiniteSet(TodayOf(b, o)) /\ \A i \in TodayOf(b, o) : now_[i] = today[i] /\ today[i] \in Int
  BY <1>1, <1>8, <1>9, FS_Subset
<1>14. SumFunctionOnSet(now_, TodayOf(b, o)) = SumFunctionOnSet(today, TodayOf(b, o))
       /\ SumFunctionOnSet(today, TodayOf(b, o)) \in Int
  BY <1>13, SumSame, SumIntegers
<1>15. SumFunctionOnSet(early, 1..n) \in Int
  BY <1>1, <1>8, SumIntegers
<1> QED
  BY <1>2, <1>6, <1>7, <1>10, <1>11, <1>12, <1>14, <1>15

\* The day's takings by method add up to what was tendered.
LEMMA MethodsAddUp ==
  ASSUME SalesInv, NEW o \in Branches
  PROVE  SumFunctionOnSet([m \in Methods |-> SumFunctionOnSet([b \in Day(o) |-> TakenBy(b, m)], Day(o))], Methods) =
           SumFunctionOnSet([b \in Day(o) |-> Paid(b)], Day(o))
<1> DEFINE D == Day(o)
           F == [b \in D |-> [m \in Methods |-> TakenBy(b, m)]]
           rows == [b \in D |-> SumFunctionOnSet(F[b], Methods)]
           cols == [m \in Methods |-> SumFunctionOnSet([b \in D |-> F[b][m]], D)]
<1>1. IsFiniteSet(D) /\ IsFiniteSet(Methods) /\ hour \in Nat /\ \A b \in D : RowOK(sales[b], hour)
  BY SameDay, SalesAssumption DEF SalesInv
<1>2. \A b \in D : \A m \in Methods : TakenBy(b, m) \in Int
  BY <1>1, PaidInParts
<1>3. \A b \in D : Paid(b) = SumFunctionOnSet([m \in Methods |-> TakenBy(b, m)], Methods)
  BY <1>1, PaidInParts
<1>4. \A b \in D : \A m \in Methods : F[b][m] \in Int
  BY <1>2
<1>5. \A b \in D : F[b] = [m \in Methods |-> TakenBy(b, m)]
  OBVIOUS
<1>6. \A m \in Methods : [b \in D |-> F[b][m]] = [b \in D |-> TakenBy(b, m)]
  OBVIOUS
<1> HIDE DEF F, D
<1>7. rows = [b \in D |-> Paid(b)]
  BY <1>3, <1>5
<1>8. cols = [m \in Methods |-> SumFunctionOnSet([b \in D |-> TakenBy(b, m)], D)]
  BY <1>6
<1>9. SumFunctionOnSet(rows, D) = SumFunctionOnSet(cols, Methods)
  BY <1>1, <1>4, SumSwap
<1> HIDE DEF rows, cols
<1> QED
  BY <1>7, <1>8, <1>9 DEF D

\* What the dashboard shows of an outlet's day.
LEMMA TodayShown ==
  ASSUME SalesInv, NEW o \in Branches
  PROVE  /\ todayFor(o).count = Cardinality(Day(o))
         /\ todayFor(o).gross = SumFunctionOnSet([b \in Day(o) |-> grossMinor(sales[b].order)], Day(o))
         /\ todayFor(o).refunded = SumFunctionOnSet([b \in Day(o) |-> CreditedMinor(b)], Day(o))
         /\ todayFor(o).net = todayFor(o).gross - todayFor(o).refunded
         /\ todayFor(o).byMethod =
              [m \in Methods |-> SumFunctionOnSet([b \in Day(o) |-> TakenBy(b, m)], Day(o))]
<1> DEFINE today == {b \in recentBills : sales[b].outlet = o /\ isToday(sales[b].at, o)}
<1>1. today = Day(o)
  BY SameDay
<1>2. /\ todayFor(o).count = Cardinality(today)
      /\ todayFor(o).gross = SumFunctionOnSet([b \in today |-> grossMinor(sales[b].order)], today)
      /\ todayFor(o).refunded = SumFunctionOnSet([b \in today |-> CreditedMinor(b)], today)
      /\ todayFor(o).net = todayFor(o).gross - todayFor(o).refunded
      /\ todayFor(o).byMethod = [m \in Methods |-> SumFunctionOnSet([b \in today |-> TakenBy(b, m)], today)]
  BY DEF todayFor, Sum, TakenBy
<1> HIDE DEF today
<1> QED
  BY <1>1, <1>2

\* What the report shows of the same day.
LEMMA ReportShown ==
  ASSUME NEW S
  PROVE  /\ totalsFor(S).count = Cardinality(S)
         /\ totalsFor(S).total = SumFunctionOnSet([b \in S |-> reportTotal(sales[b].order)], S)
         /\ totalsFor(S).refunded = SumFunctionOnSet([b \in S |-> CreditedMinor(b)], S)
         /\ totalsFor(S).net = totalsFor(S).total - totalsFor(S).refunded
         /\ totalsFor(S).roundOff = SumFunctionOnSet([b \in S |-> sales[b].order.roundOff], S)
         /\ totalsFor(S).tendered = SumFunctionOnSet([b \in S |-> Paid(b)], S)
BY DEF totalsFor, Sum

\* The day's figures of the report: what was tendered is the totals and the
\* cash round-off, and no more than the totals is refunded.
LEMMA DayAddsUp ==
  ASSUME SalesInv, NEW o \in Branches
  PROVE  /\ totalsFor(Day(o)).tendered = totalsFor(Day(o)).total + totalsFor(Day(o)).roundOff
         /\ totalsFor(Day(o)).refunded <= totalsFor(Day(o)).total
         /\ totalsFor(Day(o)).total = SumFunctionOnSet([b \in Day(o) |-> grossMinor(sales[b].order)], Day(o))
<1> DEFINE D == Day(o)
           total == [b \in D |-> reportTotal(sales[b].order)]
           gross == [b \in D |-> grossMinor(sales[b].order)]
           refunded == [b \in D |-> CreditedMinor(b)]
           round == [b \in D |-> sales[b].order.roundOff]
           paid == [b \in D |-> Paid(b)]
<1>1. IsFiniteSet(D) /\ hour \in Nat /\ \A b \in D : RowOK(sales[b], hour) /\ sales[b].st = "finalized"
  BY SameDay DEF SalesInv
<1>2. \A b \in D : /\ reportTotal(sales[b].order) \in Int /\ sales[b].order.roundOff \in Int /\ Paid(b) \in Int
                   /\ CreditedMinor(b) \in Int /\ CreditedMinor(b) <= reportTotal(sales[b].order)
                   /\ Paid(b) = reportTotal(sales[b].order) + sales[b].order.roundOff
                   /\ grossMinor(sales[b].order) = reportTotal(sales[b].order)
  <2> SUFFICES ASSUME NEW b \in D
               PROVE  /\ reportTotal(sales[b].order) \in Int /\ sales[b].order.roundOff \in Int /\ Paid(b) \in Int
                      /\ CreditedMinor(b) \in Int /\ CreditedMinor(b) <= reportTotal(sales[b].order)
                      /\ Paid(b) = reportTotal(sales[b].order) + sales[b].order.roundOff
                      /\ grossMinor(sales[b].order) = reportTotal(sales[b].order)
    OBVIOUS
  <2>1. RowOK(sales[b], hour) /\ sales[b].st = "finalized"
    BY <1>1
  <2> QED
    BY <1>1, <2>1, BillFigures
<1> HIDE DEF D
<1>3. \A b \in D : total[b] \in Int /\ round[b] \in Int /\ paid[b] = total[b] + round[b]
                   /\ refunded[b] \in Int /\ refunded[b] <= total[b] /\ total[b] = gross[b]
  BY <1>2
<1> HIDE DEF total, gross, refunded, round, paid
<1>4. SumFunctionOnSet(paid, D) = SumFunctionOnSet(total, D) + SumFunctionOnSet(round, D)
  BY <1>1, <1>3, SumPlus
<1>5. SumFunctionOnSet(refunded, D) <= SumFunctionOnSet(total, D)
  BY <1>1, <1>3, SumLeq
<1>6. SumFunctionOnSet(total, D) = SumFunctionOnSet(gross, D)
  BY <1>1, <1>3, SumSame
<1> QED
  BY <1>4, <1>5, <1>6, ReportShown DEF D, total, gross, refunded, round, paid

\* The till shows the tenders that were taken today, and they are of the day's bills.
LEMMA TillShown ==
  ASSUME SalesInv, NEW o \in Branches
  PROVE  listPaymentsToday(o) = UNION {{<<b, i>> : i \in TodayOf(b, o)} : b \in Day(o)}
<1> DEFINE done == {c \in Bills : sales[c].st = "finalized" /\ sales[c].outlet = o}
           taken(b) == {i \in DOMAIN sales[b].tenders :
                          /\ sales[b].tenders[i].at + Lookback >= hour
                          /\ isToday(sales[b].tenders[i].at, o)}
<1>1. hour \in Nat /\ \A b \in Bills : RowOK(sales[b], hour)
  BY DEF SalesInv
<1>2. ASSUME NEW b \in done
      PROVE  /\ taken(b) = TodayOf(b, o)
             /\ \A i \in TodayOf(b, o) : b \in Day(o)
  <2>1. RowOK(sales[b], hour) /\ sales[b].st = "finalized" /\ sales[b].outlet = o /\ b \in Bills
    BY <1>1
  <2>2. \A i \in DOMAIN sales[b].tenders : sales[b].tenders[i].at \in Nat /\ sales[b].tenders[i].at <= sales[b].at
    BY <1>1, <2>1, RowLists DEF RowOK
  <2>3. sales[b].at \in Nat /\ sales[b].at <= hour
    BY <2>1 DEF RowOK
  <2>4. /\ DayStart(o) \in 0..hour
        /\ \A t \in 0..hour : (t >= DayStart(o) <=> isToday(t, o)) /\ (isToday(t, o) => t + Lookback >= hour)
    BY <1>1, TodayFromStart
  <2>5. \A i \in DOMAIN sales[b].tenders : sales[b].tenders[i].at \in 0..hour
    BY <1>1, <2>2, <2>3
  <2>6. taken(b) = TodayOf(b, o)
    BY <2>4, <2>5 DEF TodayOf
  <2>7. ASSUME NEW i \in TodayOf(b, o) PROVE b \in Day(o)
    <3>1. i \in DOMAIN sales[b].tenders /\ isToday(sales[b].tenders[i].at, o)
      BY DEF TodayOf
    <3>2. PICK t \in 0..hour : t = sales[b].tenders[i].at
      BY <2>5, <3>1
    <3>3. t >= DayStart(o) /\ t <= sales[b].at
      BY <2>2, <2>4, <3>1, <3>2
    <3>4. sales[b].at \in DayStart(o)..hour
      BY <1>1, <2>3, <2>4, <3>3
    <3> QED
      BY <2>1, <3>4 DEF Day, paymentsWhere
  <2> QED
    BY <2>6, <2>7
<1>3. Day(o) \subseteq done
  BY DEF Day, paymentsWhere
<1>4. listPaymentsToday(o) = UNION {{<<b, i>> : i \in taken(b)} : b \in done}
  BY DEF listPaymentsToday
<1> HIDE DEF done, taken
<1>5. UNION {{<<b, i>> : i \in taken(b)} : b \in done} = UNION {{<<b, i>> : i \in TodayOf(b, o)} : b \in Day(o)}
  <2> DEFINE A == UNION {{<<b, i>> : i \in taken(b)} : b \in done}
             B == UNION {{<<b, i>> : i \in TodayOf(b, o)} : b \in Day(o)}
  <2>1. ASSUME NEW p \in A PROVE p \in B
    <3>1. PICK b \in done : p \in {<<b, i>> : i \in taken(b)}
      OBVIOUS
    <3>2. PICK i \in taken(b) : p = <<b, i>>
      BY <3>1
    <3>3. i \in TodayOf(b, o) /\ b \in Day(o)
      BY <1>2, <3>2
    <3> QED
      BY <3>2, <3>3
  <2>2. ASSUME NEW p \in B PROVE p \in A
    <3>1. PICK b \in Day(o) : p \in {<<b, i>> : i \in TodayOf(b, o)}
      OBVIOUS
    <3>2. PICK i \in TodayOf(b, o) : p = <<b, i>>
      BY <3>1
    <3>3. b \in done /\ i \in taken(b)
      BY <1>2, <1>3
    <3> QED
      BY <3>2, <3>3
  <2> QED
    BY <2>1, <2>2
<1> QED
  BY <1>4, <1>5

\* The till's list and what was paid before the day add up to the day's tenders.
LEMMA TillAddsUp ==
  ASSUME SalesInv, NEW o \in Branches
  PROVE  Sum([p \in listPaymentsToday(o) |-> sales[p[1]].tenders[p[2]].amount])
           + SumFunctionOnSet([b \in Day(o) |-> TakenEarly(b, o)], Day(o)) =
         SumFunctionOnSet([b \in Day(o) |-> Paid(b)], Day(o))
<1> DEFINE D == Day(o)
           I == [b \in D |-> TodayOf(b, o)]
           list == listPaymentsToday(o)
           f == [p \in list |-> sales[p[1]].tenders[p[2]].amount]
           today == [b \in D |-> TakenToday(b, o)]
           early == [b \in D |-> TakenEarly(b, o)]
           paid == [b \in D |-> Paid(b)]
           rows == [b \in D |-> SumFunctionOnSet([i \in I[b] |-> f[<<b, i>>]], I[b])]
<1>1. IsFiniteSet(D) /\ hour \in Nat /\ \A b \in D : RowOK(sales[b], hour)
  BY SameDay DEF SalesInv
<1>2. \A b \in D : TakenToday(b, o) \in Int /\ TakenEarly(b, o) \in Int /\ Paid(b) = TakenToday(b, o) + TakenEarly(b, o)
  BY <1>1, PaidInParts
<1>3. list = UNION {{<<b, i>> : i \in I[b]} : b \in D}
  <2>1. \A b \in D : I[b] = TodayOf(b, o)
    OBVIOUS
  <2>2. list = UNION {{<<b, i>> : i \in TodayOf(b, o)} : b \in D}
    BY TillShown
  <2> HIDE DEF I, D, list
  <2> QED
    BY <2>1, <2>2
<1>4. \A b \in D : /\ I[b] = TodayOf(b, o) /\ IsFiniteSet(I[b])
                   /\ \A i \in I[b] : f[<<b, i>>] = sales[b].tenders[i].amount /\ f[<<b, i>>] \in Int
  <2> SUFFICES ASSUME NEW b \in D
               PROVE  /\ I[b] = TodayOf(b, o) /\ IsFiniteSet(I[b])
                      /\ \A i \in I[b] : f[<<b, i>>] = sales[b].tenders[i].amount /\ f[<<b, i>>] \in Int
    OBVIOUS
  <2>1. I[b] = TodayOf(b, o)
    OBVIOUS
  <2>2. RowOK(sales[b], hour)
    BY <1>1
  <2> DEFINE n == Len(sales[b].tenders)
  <2>3. DOMAIN sales[b].tenders = 1..n /\ n \in Nat /\ \A i \in 1..n : sales[b].tenders[i].amount \in Int
    BY <1>1, <2>2, RowLists
  <2> HIDE DEF n
  <2>4. IsFiniteSet(1..n)
    BY <2>3, FS_Interval
  <2>5. TodayOf(b, o) \in SUBSET (1..n)
    BY <2>3 DEF TodayOf
  <2>6. IsFiniteSet(TodayOf(b, o))
    BY <2>4, <2>5, FS_Subset
  <2>7. ASSUME NEW i \in I[b] PROVE f[<<b, i>>] = sales[b].tenders[i].amount /\ f[<<b, i>>] \in Int
    <3>1. <<b, i>> \in list
      <4> HIDE DEF list, I, D, f
      <4> QED
        BY <1>3, <2>7
    <3>2. f[<<b, i>>] = sales[b].tenders[i].amount
      <4> HIDE DEF list, I, D
      <4> QED
        BY <3>1
    <3> QED
      BY <2>1, <2>3, <2>5, <3>2
  <2> QED
    BY <2>1, <2>6, <2>7
<1> HIDE DEF list, D, f
<1>5. rows = today
  <2>1. ASSUME NEW b \in D PROVE SumFunctionOnSet([i \in I[b] |-> f[<<b, i>>]], I[b]) = TakenToday(b, o)
    <3>1. I[b] = TodayOf(b, o) /\ \A i \in TodayOf(b, o) : f[<<b, i>>] = sales[b].tenders[i].amount
      BY <1>4
    <3>2. [i \in TodayOf(b, o) |-> f[<<b, i>>]] = [i \in TodayOf(b, o) |-> sales[b].tenders[i].amount]
      BY <3>1
    <3> QED
      BY <3>1, <3>2 DEF TakenToday
  <2> HIDE DEF I
  <2> QED
    BY <2>1
<1> HIDE DEF I
<1>6. SumFunctionOnSet(f, list) = SumFunctionOnSet(rows, D)
  <2>1. \A b \in D : IsFiniteSet(I[b])
    BY <1>4
  <2>2. \A b \in D : \A i \in I[b] : f[<<b, i>>] \in Int
    BY <1>4
  <2>3. SumFunctionOnSet(f, UNION {{<<b, i>> : i \in I[b]} : b \in D}) = SumFunctionOnSet(rows, D)
    BY <1>1, <2>1, <2>2, SumPairs
  <2> QED
    BY <1>3, <2>3
<1>7. \A b \in D : today[b] \in Int /\ early[b] \in Int /\ paid[b] = today[b] + early[b]
  BY <1>2
<1> HIDE DEF today, early, paid, rows
<1>8. SumFunctionOnSet(paid, D) = SumFunctionOnSet(today, D) + SumFunctionOnSet(early, D)
  BY <1>1, <1>7, SumPlus
<1>9. Sum(f) = SumFunctionOnSet(f, list)
  BY DEF Sum, f
<1>10. Sum(f) + SumFunctionOnSet(early, D) = SumFunctionOnSet(paid, D)
  BY SMTT(40), <1>5, <1>6, <1>8, <1>9
<1> QED
  BY <1>10 DEF f, list, early, paid, D

\* The picks of a line, what they cost, and what the invoice prints of the line.
PicksOf(order, i) == {j \in DOMAIN order.lines : order.lines[j].parent = i}
PicksTotal(order, i) == SumFunctionOnSet([j \in PicksOf(order, i) |-> LineTotal(order, j)], PicksOf(order, i))
TopLines(order) == {i \in DOMAIN order.lines : order.lines[i].parent = 0}

LEMMA InvoiceShown ==
  ASSUME NEW r
  PROVE  /\ DOMAIN invoiceLines(r) = TopLines(r)
         /\ \A i \in TopLines(r) :
              /\ invoiceLines(r)[i].qty = r.lines[i].qty
              /\ invoiceLines(r)[i].total = LineTotal(r, i) + PicksTotal(r, i)
              /\ invoiceLines(r)[i].unit = (LineTotal(r, i) + PicksTotal(r, i)) \div r.lines[i].qty
BY DEF invoiceLines, TopLines, PicksOf, PicksTotal, LineTotal, Sum

\* A pick is of a top line, so many per combo.
LEMMA PicksArePerCombo ==
  ASSUME NEW r \in Orders, NEW j \in DOMAIN r.lines, r.lines[j].parent # 0
  PROVE  /\ r.lines[j].parent \in TopLines(r)
         /\ \E each \in Nat : r.lines[j].qty = each * r.lines[r.lines[j].parent].qty
<1> DEFINE p == r.lines[j].parent
<1>1. p \in DOMAIN r.lines /\ r.lines[p].parent = 0 /\ \E each \in 1..r.lines[j].qty : r.lines[j].qty = r.lines[p].qty * each
  BY SalesAssumption DEF Priced
<1>2. PICK each \in Nat : r.lines[j].qty = r.lines[p].qty * each
  BY <1>1, OrderFigures
<1>3. PICK q \in Nat : q = r.lines[p].qty
  BY <1>1, OrderFigures
<1>4. q * each = each * q
  OBVIOUS
<1>5. r.lines[j].qty = each * r.lines[p].qty
  BY <1>2, <1>3, <1>4
<1> QED
  BY <1>1, <1>2, <1>5 DEF TopLines

\* The lines an invoice prints add up to the subtotal.
LEMMA InvoiceAddsUp ==
  ASSUME NEW r \in Orders
  PROVE  Sum([i \in DOMAIN invoiceLines(r) |-> invoiceLines(r)[i].total]) = computeSubtotal(r)
<1> DEFINE N == DOMAIN r.lines
           L == TopLines(r)
           cost == [i \in N |-> LineTotal(r, i)]
           of == [i \in N |-> IF r.lines[i].parent = 0 THEN i ELSE r.lines[i].parent]
           In(l) == [x \in N |-> IF of[x] = l THEN cost[x] ELSE 0]
           printed == [i \in L |-> LineTotal(r, i) + PicksTotal(r, i)]
<1>1. IsFiniteSet(N) /\ computeSubtotal(r) = SumFunctionOnSet(cost, N) /\ \A i \in N : cost[i] \in Int
  BY OrderFigures
<1>2. L \in SUBSET N /\ 0 \notin N
  <2>1. N = 1..Len(r.lines) /\ Len(r.lines) \in Nat
    BY SalesAssumption DEF Priced
  <2> QED
    BY <2>1 DEF TopLines
<1>3. IsFiniteSet(L)
  BY <1>1, <1>2, FS_Subset
<1>4. \A i \in N : of[i] \in L
  <2> SUFFICES ASSUME NEW i \in N PROVE of[i] \in L
    OBVIOUS
  <2>1. CASE r.lines[i].parent = 0
    BY <2>1 DEF TopLines
  <2>2. CASE r.lines[i].parent # 0
    BY <2>2, PicksArePerCombo
  <2> QED
    BY <2>1, <2>2
<1>5. ASSUME NEW l \in L PROVE SumFunctionOnSet(In(l), N) = printed[l]
  <2> DEFINE K == PicksOf(r, l)
             f == In(l)
             picks == [j \in K |-> LineTotal(r, j)]
  <2>1. K \in SUBSET N /\ l \in N /\ l \notin K /\ l # 0
    BY <1>2 DEF PicksOf, TopLines
  <2>2. \A x \in N : f[x] \in Int
    BY <1>1
  <2>3. of[l] = l /\ f[l] = LineTotal(r, l)
    BY <2>1 DEF TopLines
  <2>4. \A x \in K : of[x] = l /\ f[x] = LineTotal(r, x) /\ picks[x] = f[x]
    BY <2>1 DEF PicksOf
  <2>5. \A x \in N \ (K \cup {l}) : f[x] = 0
    BY <2>1 DEF PicksOf
  <2> HIDE DEF f, K, picks, N, L
  <2>6. SumFunctionOnSet(f, N) = SumFunctionOnSet(f, K \cup {l})
    <3>1. K \cup {l} \in SUBSET N
      BY <2>1
    <3> QED
      BY <1>1, <2>2, <2>5, <3>1, SumWithin
  <2>7. SumFunctionOnSet(f, K \cup {l}) = f[l] + SumFunctionOnSet(f, K)
    BY <1>1, <2>1, <2>2, SumInsert
  <2>8. SumFunctionOnSet(f, K) = SumFunctionOnSet(picks, K)
    <3>1. IsFiniteSet(K)
      BY <1>1, <2>1, FS_Subset
    <3> QED
      BY <2>4, <3>1, SumSame
  <2>9. SumFunctionOnSet(picks, K) = PicksTotal(r, l)
    BY DEF PicksTotal, picks, K
  <2> QED
    BY <2>3, <2>6, <2>7, <2>8, <2>9 DEF f, L
<1>6. [l \in L |-> SumFunctionOnSet(In(l), N)] = printed
  <2> HIDE DEF In, N, L
  <2> QED
    BY <1>5
<1>7. SumFunctionOnSet(cost, N) =
        SumFunctionOnSet([l \in L |-> SumFunctionOnSet([x \in N |-> IF of[x] = l THEN cost[x] ELSE 0], N)], L)
  <2> HIDE DEF cost, of, N, L
  <2> QED
    BY <1>1, <1>3, <1>4, SumByGroup
<1>8. SumFunctionOnSet(cost, N) = SumFunctionOnSet(printed, L)
  <2> HIDE DEF cost, of, N, L, printed
  <2> QED
    BY <1>6, <1>7
<1>9. Sum([i \in DOMAIN invoiceLines(r) |-> invoiceLines(r)[i].total]) = SumFunctionOnSet(printed, L)
  <2>1. DOMAIN invoiceLines(r) = L /\ \A i \in L : invoiceLines(r)[i].total = printed[i]
    BY InvoiceShown
  <2> HIDE DEF L, printed
  <2>2. [i \in DOMAIN invoiceLines(r) |-> invoiceLines(r)[i].total] = [i \in L |-> printed[i]]
    BY <2>1
  <2>3. printed = [i \in L |-> printed[i]]
    BY DEF printed
  <2>4. DOMAIN printed = L
    BY DEF printed
  <2> QED
    BY <2>2, <2>3, <2>4 DEF Sum
<1> QED
  BY <1>1, <1>8, <1>9

\* What the invoice prints of a line is a whole number of units.
LEMMA InvoiceUnits ==
  ASSUME NEW r \in Orders, NEW i \in DOMAIN invoiceLines(r)
  PROVE  invoiceLines(r)[i].unit * invoiceLines(r)[i].qty = invoiceLines(r)[i].total
<1> DEFINE K == PicksOf(r, i)
           picks == [j \in K |-> LineTotal(r, j)]
           per == [j \in K |-> (r.lines[j].qty \div r.lines[i].qty) * r.lines[j].unit]
<1>1. i \in TopLines(r) /\ i \in DOMAIN r.lines
  BY InvoiceShown DEF TopLines
<1>2. i # 0
  <2>1. DOMAIN r.lines = 1..Len(r.lines) /\ Len(r.lines) \in Nat
    BY SalesAssumption DEF Priced
  <2> QED
    BY <1>1, <2>1
<1>3. PICK q \in Nat \ {0}, u \in Nat : q = r.lines[i].qty /\ u = r.lines[i].unit
  BY <1>1, OrderFigures
<1>4. IsFiniteSet(K)
  <2>1. K \in SUBSET (DOMAIN r.lines)
    BY DEF PicksOf
  <2> QED
    BY <2>1, OrderFigures, FS_Subset
<1>5. ASSUME NEW j \in K PROVE per[j] \in Int /\ picks[j] = q * per[j]
  <2>1. j \in DOMAIN r.lines /\ r.lines[j].parent = i
    BY DEF PicksOf
  <2>2. PICK each \in Nat : r.lines[j].qty = each * q
    BY <1>2, <1>3, <2>1, PicksArePerCombo
  <2>3. (each * q) \div q = each
    BY <1>3, DivisionExact
  <2>4. PICK v \in Nat : v = r.lines[j].unit
    BY <2>1, OrderFigures
  <2>5. per[j] = each * v
    BY <1>3, <2>2, <2>3, <2>4
  <2>6. picks[j] = (each * q) * v
    BY <2>2, <2>4 DEF LineTotal
  <2>7. (each * q) * v = q * (each * v) /\ each * v \in Int
    OBVIOUS
  <2> QED
    BY <2>5, <2>6, <2>7
<1> HIDE DEF K, picks, per
<1>6. PICK s \in Int : s = SumFunctionOnSet(per, K)
  BY <1>4, <1>5, SumIntegers
<1>7. SumFunctionOnSet(picks, K) = q * s
  <2>1. Scales(q, per, picks, K)
    BY <1>5 DEF Scales
  <2>2. q \in Int /\ \A x \in K : per[x] \in Int
    BY <1>5
  <2> QED
    BY <1>4, <1>6, <2>1, <2>2, SumScale
<1>8. PicksTotal(r, i) = q * s
  BY <1>7 DEF PicksTotal, picks, K
<1>9. LineTotal(r, i) = q * u
  BY <1>3 DEF LineTotal
<1>10. PICK t \in Int : t = u + s
  OBVIOUS
<1>11. q * u + q * s = t * q
  BY <1>10
<1>12. (t * q) \div q = t
  BY DivisionExact
<1>13. invoiceLines(r)[i].qty = q /\ invoiceLines(r)[i].total = t * q /\ invoiceLines(r)[i].unit = t
  BY <1>1, <1>3, <1>8, <1>9, <1>11, <1>12, InvoiceShown
<1> QED
  BY <1>13

\* Every reader shows the same figures of a day.
LEMMA DayAgrees ==
  ASSUME SalesInv, NEW o \in Branches
  PROVE  LET day == todayFor(o)
             report == totalsFor(paymentsWhere(o, DayStart(o), hour))
             takings == Sum(day.byMethod)
             early == Sum([b \in paymentsWhere(o, DayStart(o), hour) |->
                             Sum([i \in DOMAIN sales[b].tenders |->
                                    IF isToday(sales[b].tenders[i].at, o) THEN 0 ELSE sales[b].tenders[i].amount])])
             csv == exportPaymentsCsv(o, DayStart(o), hour)
             till == Sum([p \in listPaymentsToday(o) |-> sales[p[1]].tenders[p[2]].amount])
         IN  /\ <<day.count, day.gross, day.refunded, day.net>> =
                  <<report.count, report.total, report.refunded, report.net>>
             /\ <<report.total, report.tendered, report.refunded>> =
                  <<Sum([b \in DOMAIN csv |-> csv[b].total]), Sum([b \in DOMAIN csv |-> csv[b].tendered]),
                    Sum([b \in DOMAIN csv |-> csv[b].refunded])>>
             /\ takings = report.tendered
             /\ report.tendered = report.total + report.roundOff
             /\ report.refunded <= report.total
             /\ till + early = takings
<1> DEFINE D == Day(o)
           day == todayFor(o)
           report == totalsFor(D)
           csv == exportPaymentsCsv(o, DayStart(o), hour)
           early == Sum([b \in paymentsWhere(o, DayStart(o), hour) |->
                           Sum([i \in DOMAIN sales[b].tenders |->
                                  IF isToday(sales[b].tenders[i].at, o) THEN 0 ELSE sales[b].tenders[i].amount])])
           till == Sum([p \in listPaymentsToday(o) |-> sales[p[1]].tenders[p[2]].amount])
<1>1. paymentsWhere(o, DayStart(o), hour) = D
  BY DEF Day
<1>2. /\ day.count = report.count /\ day.gross = report.total /\ day.refunded = report.refunded
      /\ day.net = report.net
  <2>1. /\ day.count = Cardinality(D)
        /\ day.gross = SumFunctionOnSet([b \in D |-> grossMinor(sales[b].order)], D)
        /\ day.refunded = SumFunctionOnSet([b \in D |-> CreditedMinor(b)], D)
        /\ day.net = day.gross - day.refunded
    BY TodayShown
  <2>2. /\ report.count = Cardinality(D) /\ report.net = report.total - report.refunded
        /\ report.refunded = SumFunctionOnSet([b \in D |-> CreditedMinor(b)], D)
    BY ReportShown
  <2>3. report.total = SumFunctionOnSet([b \in D |-> grossMinor(sales[b].order)], D)
    BY DayAddsUp
  <2> HIDE DEF day, report, D
  <2> QED
    BY <2>1, <2>2, <2>3
<1>3. csv = [b \in D |-> toPaymentRow(b)]
  BY DEF exportPaymentsCsv, Day
<1>4. DOMAIN csv = D /\ \A b \in D : /\ csv[b].total = reportTotal(sales[b].order) /\ csv[b].tendered = Paid(b)
                                     /\ csv[b].refunded = CreditedMinor(b)
  BY <1>3 DEF toPaymentRow
<1>5. /\ Sum([b \in DOMAIN csv |-> csv[b].total]) = report.total
      /\ Sum([b \in DOMAIN csv |-> csv[b].tendered]) = report.tendered
      /\ Sum([b \in DOMAIN csv |-> csv[b].refunded]) = report.refunded
  <2> HIDE DEF csv, D
  <2>1. /\ [b \in DOMAIN csv |-> csv[b].total] = [b \in D |-> reportTotal(sales[b].order)]
        /\ [b \in DOMAIN csv |-> csv[b].tendered] = [b \in D |-> Paid(b)]
        /\ [b \in DOMAIN csv |-> csv[b].refunded] = [b \in D |-> CreditedMinor(b)]
    BY <1>4
  <2>2. /\ Sum([b \in D |-> reportTotal(sales[b].order)]) = SumFunctionOnSet([b \in D |-> reportTotal(sales[b].order)], D)
        /\ Sum([b \in D |-> Paid(b)]) = SumFunctionOnSet([b \in D |-> Paid(b)], D)
        /\ Sum([b \in D |-> CreditedMinor(b)]) = SumFunctionOnSet([b \in D |-> CreditedMinor(b)], D)
    BY DEF Sum
  <2> QED
    BY <2>1, <2>2, ReportShown
<1>6. Sum(day.byMethod) = report.tendered
  <2> DEFINE by == [m \in Methods |-> SumFunctionOnSet([b \in D |-> TakenBy(b, m)], D)]
  <2>1. day.byMethod = by
    BY TodayShown
  <2>2. Sum(by) = SumFunctionOnSet(by, Methods)
    BY DEF Sum
  <2>3. SumFunctionOnSet(by, Methods) = SumFunctionOnSet([b \in D |-> Paid(b)], D)
    BY MethodsAddUp
  <2> HIDE DEF by, day
  <2> QED
    BY <2>1, <2>2, <2>3, ReportShown
<1>7. early = SumFunctionOnSet([b \in D |-> TakenEarly(b, o)], D)
  BY DEF Sum, TakenEarly, Day
<1>8. till + early = Sum(day.byMethod)
  <2>1. till + SumFunctionOnSet([b \in D |-> TakenEarly(b, o)], D) = SumFunctionOnSet([b \in D |-> Paid(b)], D)
    BY TillAddsUp
  <2> HIDE DEF till, early, day, D
  <2> QED
    BY <1>6, <1>7, <2>1, ReportShown
<1>9. report.tendered = report.total + report.roundOff /\ report.refunded <= report.total
  BY DayAddsUp
<1> HIDE DEF D, day, report, csv, early, till
<1>10. /\ <<day.count, day.gross, day.refunded, day.net>> =
            <<report.count, report.total, report.refunded, report.net>>
       /\ <<report.total, report.tendered, report.refunded>> =
            <<Sum([b \in DOMAIN csv |-> csv[b].total]), Sum([b \in DOMAIN csv |-> csv[b].tendered]),
              Sum([b \in DOMAIN csv |-> csv[b].refunded])>>
       /\ Sum(day.byMethod) = report.tendered
       /\ report.tendered = report.total + report.roundOff
       /\ report.refunded <= report.total
       /\ till + early = Sum(day.byMethod)
  BY <1>2, <1>5, <1>6, <1>8, <1>9
<1> QED
  BY <1>10 DEF D, day, report, csv, early, till, Day

\* The invoice prints the report's figures, and its lines add up.
LEMMA InvoiceAgrees ==
  ASSUME SalesInv, NEW b \in Bills
  PROVE  LET invoice == buildInvoiceView(b) IN
         /\ Sum([i \in DOMAIN invoice.lines |-> invoice.lines[i].total]) = invoice.subtotal
         /\ \A i \in DOMAIN invoice.lines : invoice.lines[i].unit * invoice.lines[i].qty = invoice.lines[i].total
         /\ sales[b].st = "finalized" =>
              <<invoice.total, invoice.tendered, invoice.credited>> =
                <<toPaymentRow(b).total, toPaymentRow(b).tendered, toPaymentRow(b).refunded>>
<1> DEFINE invoice == buildInvoiceView(b)
           r == sales[b].order
<1>1. hour \in Nat /\ RowOK(sales[b], hour)
  BY DEF SalesInv
<1>2. r \in Orders
  BY <1>1 DEF RowOK
<1>3. /\ invoice.lines = invoiceLines(r) /\ invoice.subtotal = computeSubtotal(r) /\ invoice.total = totalOf(r)
      /\ invoice.credited = CreditedMinor(b)
      /\ sales[b].st = "finalized" => invoice.tendered = Paid(b)
  BY DEF buildInvoiceView
<1>4. toPaymentRow(b).total = reportTotal(r) /\ toPaymentRow(b).tendered = Paid(b) /\ toPaymentRow(b).refunded = CreditedMinor(b)
  BY DEF toPaymentRow
<1>5. reportTotal(r) = totalOf(r)
  BY <1>1, BillFigures
<1> HIDE DEF invoice, r
<1>6. Sum([i \in DOMAIN invoice.lines |-> invoice.lines[i].total]) = invoice.subtotal
  BY <1>2, <1>3, InvoiceAddsUp
<1>7. \A i \in DOMAIN invoice.lines : invoice.lines[i].unit * invoice.lines[i].qty = invoice.lines[i].total
  BY <1>2, <1>3, InvoiceUnits
<1>8. sales[b].st = "finalized" =>
        <<invoice.total, invoice.tendered, invoice.credited>> =
          <<toPaymentRow(b).total, toPaymentRow(b).tendered, toPaymentRow(b).refunded>>
  BY <1>3, <1>4, <1>5
<1> QED
  BY <1>6, <1>7, <1>8 DEF invoice

\* The dashboard, the payments report, its export, the till and the invoice
\* never disagree about a sale (SalesAgree), whatever the orders, the outlets'
\* time zones and the days on which a bill is paid in parts and refunded.
THEOREM SalesAlwaysAgree == SalesSpec => []SalesAgree
<1>1. SalesInv => SalesAgree
  <2> SUFFICES ASSUME SalesInv PROVE SalesAgree
    OBVIOUS
  <2> QED
    BY DayAgrees, InvoiceAgrees DEF SalesAgree
<1> QED
  BY <1>1, SalesInvariance, PTL

=============================================================================
