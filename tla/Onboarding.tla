------------------------------ MODULE Onboarding ------------------------------
(***************************************************************************)
(* Onboarding tenants: an operator's wizard draft, saved step by step, and *)
(* the final submit, which picks a free subdomain and then creates the     *)
(* tenant and everything under it in one transaction                       *)
(* (ops/tenants/tenants.service).  Several wizards run at once.            *)
(***************************************************************************)
EXTENDS Naturals, Sequences, FiniteSets

CONSTANTS
  Operators,
  Steps,       \* wizard steps
  Candidates,  \* a company name's subdomains in the order chooseSlug tries them
  Registrations, \* tax registration numbers
  Wizards,     \* slots for requests in flight
  MaxTenants

ASSUME OnboardingAssumption == MaxTenants \in Nat

VARIABLES
  draft,    \* steps saved in each operator's onboarding_drafts row
  tenants,  \* sequence of tenants created: subdomain, tax number, who asked
  wizard    \* the request in each slot

onboardingVars == <<draft, tenants, wizard>>

IdleWizard == [op |-> "idle"]

OnboardingInit ==
  /\ draft = [o \in Operators |-> {}]
  /\ tenants = <<>>
  /\ wizard = [w \in Wizards |-> IdleWizard]

\* A row without steps and no row are the same to getDraft's reader.
SaveRead(w, o, s) ==
  /\ wizard[w] = IdleWizard
  /\ wizard' = [wizard EXCEPT ![w] = [op |-> "save", by |-> o, steps |-> draft[o] \cup {s}]]
  /\ UNCHANGED <<draft, tenants>>

saveDraftStep(w) ==
  /\ wizard[w].op = "save"
  /\ draft' = [draft EXCEPT ![wizard[w].by] = wizard[w].steps]
  /\ wizard' = [wizard EXCEPT ![w] = IdleWizard]
  /\ UNCHANGED tenants

deleteDraft(o) ==
  /\ draft[o] # {}
  /\ draft' = [draft EXCEPT ![o] = {}]
  /\ UNCHANGED <<tenants, wizard>>

slugTaken(slug) == \E i \in DOMAIN tenants : tenants[i].slug = slug

\* A subdomain asked for is refused when it is taken; one made from the
\* company name is the first free one.
chooseSlug(w, o, tax) ==
  /\ wizard[w] = IdleWizard
  /\ Len(tenants) < MaxTenants
  /\ \E i \in DOMAIN Candidates :
       /\ ~slugTaken(Candidates[i])
       /\ wizard' = [wizard EXCEPT ![w] = [op |-> "submit", by |-> o, slug |-> Candidates[i], tax |-> tax]]
  /\ UNCHANGED <<draft, tenants>>

\* The unique indexes on subdomain and registration number.
Mut_Insertable(new) == \A i \in DOMAIN tenants : tenants[i].tax # new.tax
Insertable(new) == \A i \in DOMAIN tenants : tenants[i].slug # new.slug /\ tenants[i].tax # new.tax

\* One transaction: the tenant with its outlets, roles, sample menu and owner
\* invite, and the operator's draft gone; or a conflict, and nothing changed.
provision(w) ==
  LET new == wizard[w] IN
  /\ new.op = "submit"
  /\ Insertable(new) => Len(tenants) < MaxTenants
  /\ IF Insertable(new)
     THEN /\ tenants' = Append(tenants, [slug |-> new.slug, tax |-> new.tax, by |-> new.by])
          /\ draft' = [draft EXCEPT ![new.by] = {}]
     ELSE UNCHANGED <<tenants, draft>>
  /\ wizard' = [wizard EXCEPT ![w] = IdleWizard]

OnboardingNext ==
  \/ \E o \in Operators : deleteDraft(o)
  \/ \E w \in Wizards :
       \/ \E o \in Operators, s \in Steps : SaveRead(w, o, s)
       \/ \E o \in Operators, tax \in Registrations : chooseSlug(w, o, tax)
       \/ saveDraftStep(w) \/ provision(w)

OnboardingSpec == OnboardingInit /\ [][OnboardingNext]_onboardingVars

-----------------------------------------------------------------------------
\* However two wizards race from the check for a free subdomain to the insert,
\* and however often a submit is repeated, no two tenants share a subdomain
\* and no business is onboarded twice (provision, chooseSlug).
NoTwinTenants ==
  \A i, j \in DOMAIN tenants : i # j => tenants[i].slug # tenants[j].slug /\ tenants[i].tax # tenants[j].tax
=============================================================================
