------------------------------- MODULE MCOffice -------------------------------
(***************************************************************************)
(* The parts of the back office that share no state, checked side by side: *)
(* a behaviour is a behaviour of one of them (part), the others rest in    *)
(* one of their initial states.  Every invariant is about one part.        *)
(***************************************************************************)
EXTENDS OwnerAccounts, TenantLifecycle, Onboarding, MenuPrices, MenuBook, MenuImport,
  Agreements, TLC

VARIABLE part

\* Onboarding: two wizards that would take the same slug.
CONSTANTS slug, slug2
TheSlugs == <<slug, slug2>>

\* MenuImport: a file of two rows, a catalogue product that differs from one of them in case only.
CONSTANTS tea, TEA, cake
TheLower == [n \in {tea, TEA, cake} |-> IF n = TEA THEN tea ELSE n]
TheFile == <<[name |-> tea, category |-> cake], [name |-> cake, category |-> cake]>>
TheProduct == [name |-> TEA, category |-> cake]

\* Agreements: two owners of one tenant.
CONSTANTS owner1, owner2, tenant1
TheTenants == [s \in {owner1, owner2} |-> tenant1]

officeVars == <<part, accountVars, lifecycleVars, onboardingVars, priceVars, menuVars,
                importVars, agreementVars>>

OfficeInit ==
  /\ part \in {"accounts", "lifecycle", "onboarding", "prices", "menu", "import", "agreements"}
  /\ AccountsInit /\ LifecycleInit /\ OnboardingInit /\ PricesInit /\ MenuInit
  /\ ImportInit /\ AgreementsInit
  /\ part = "accounts" \/ kind = "operator"
  /\ part = "lifecycle" \/ tenant.liveSince = 0
  /\ part = "agreements" \/ versions = {}

OfficeNext ==
  /\ UNCHANGED part
  /\ IF part = "accounts" THEN AccountsNext ELSE UNCHANGED accountVars
  /\ IF part = "lifecycle" THEN LifecycleNext ELSE UNCHANGED lifecycleVars
  /\ IF part = "onboarding" THEN OnboardingNext ELSE UNCHANGED onboardingVars
  /\ IF part = "prices" THEN PricesNext ELSE UNCHANGED priceVars
  /\ IF part = "menu" THEN MenuNext ELSE UNCHANGED menuVars
  /\ IF part = "import" THEN ImportNext ELSE UNCHANGED importVars
  /\ IF part = "agreements" THEN AgreementsNext ELSE UNCHANGED agreementVars

OfficeSpec == OfficeInit /\ [][OfficeNext]_officeVars

Sym == Permutations(Editors) \cup Permutations(Tabs)
=============================================================================
