----------------------------- MODULE BackOffice -----------------------------
(***************************************************************************)
(* The parts of the server that administrators work with, the pages they   *)
(* work at and the wrapper around commands, side by side.  They share no   *)
(* state: each is a module of its own, over variables of its own.  A       *)
(* behaviour is one of a single part, chosen at the start, while the others *)
(* stand still; every behaviour of every part is among them, and no        *)
(* interleaving of two parts could show anything else.                     *)
(***************************************************************************)
EXTENDS AuditChain, BranchHours, OrderPricing, Menu, TaxProfiles, LoginThrottle,
        MultiFactor, Access, Privacy, SecurityAlerts, Layout, CashierRuntime, Commands,
        Availability, Pages

VARIABLE office     \* the part that moves


Offices ==
    {"audit", "hours", "pricing", "menu", "tax", "throttle",
     "factor", "access", "privacy", "alerts", "layout", "till",
     "commands", "availability", "pages"}

backOfficeVars ==
    <<office, auditVars, hoursVars, pricingVars, menuVars, taxVars,
      throttleVars, factorVars, accessVars, privacyVars, alertVars,
      layoutVars, runtimeVars, commandVars, availabilityVars, pageVars>>

\* Only the part that moves can leave its types.
BackOfficeTypeOK ==
    CASE office = "audit" -> AuditTypeOK
      [] office = "hours" -> HoursTypeOK
      [] office = "pricing" -> PricingTypeOK
      [] office = "menu" -> MenuTypeOK
      [] office = "tax" -> TaxTypeOK
      [] office = "throttle" -> ThrottleTypeOK
      [] office = "factor" -> FactorTypeOK
      [] office = "access" -> AccessTypeOK
      [] office = "privacy" -> PrivacyTypeOK
      [] office = "alerts" -> AlertTypeOK
      [] office = "layout" -> LayoutTypeOK
      [] office = "till" -> RuntimeTypeOK
      [] office = "commands" -> CommandTypeOK
      [] office = "availability" -> AvailabilityTypeOK
      [] office = "pages" -> PageTypeOK

\* A part that does not move starts from one of its initial states only.
Init ==
    /\ office \in Offices
    /\ office # "pricing" => taxRules = CHOOSE p \in TaxRules : TRUE
    /\ office # "access" => roles = {CHOOSE r \in Roles : TRUE}
    /\ office # "commands" => wrapper = OrdersWrapper
    /\ office # "pages" => conduct = CHOOSE c \in Conducts : TRUE
    /\ AuditInit /\ HoursInit /\ PricingInit /\ MenuInit
    /\ TaxInit /\ ThrottleInit /\ FactorInit /\ AccessInit
    /\ PrivacyInit /\ AlertInit /\ LayoutInit /\ RuntimeInit
    /\ CommandInit /\ AvailabilityInit /\ PageInit

AuditTurn ==
    /\ office = "audit" /\ AuditNext
    /\ UNCHANGED <<office, hoursVars, pricingVars, menuVars, taxVars, throttleVars,
                   factorVars, accessVars, privacyVars, alertVars, layoutVars,
                   runtimeVars, commandVars, availabilityVars, pageVars>>

HoursTurn ==
    /\ office = "hours" /\ HoursNext
    /\ UNCHANGED <<office, auditVars, pricingVars, menuVars, taxVars, throttleVars,
                   factorVars, accessVars, privacyVars, alertVars, layoutVars,
                   runtimeVars, commandVars, availabilityVars, pageVars>>

PricingTurn ==
    /\ office = "pricing" /\ PricingNext
    /\ UNCHANGED <<office, auditVars, hoursVars, menuVars, taxVars, throttleVars,
                   factorVars, accessVars, privacyVars, alertVars, layoutVars,
                   runtimeVars, commandVars, availabilityVars, pageVars>>

MenuTurn ==
    /\ office = "menu" /\ MenuNext
    /\ UNCHANGED <<office, auditVars, hoursVars, pricingVars, taxVars, throttleVars,
                   factorVars, accessVars, privacyVars, alertVars, layoutVars,
                   runtimeVars, commandVars, availabilityVars, pageVars>>

TaxTurn ==
    /\ office = "tax" /\ TaxNext
    /\ UNCHANGED <<office, auditVars, hoursVars, pricingVars, menuVars, throttleVars,
                   factorVars, accessVars, privacyVars, alertVars, layoutVars,
                   runtimeVars, commandVars, availabilityVars, pageVars>>

ThrottleTurn ==
    /\ office = "throttle" /\ ThrottleNext
    /\ UNCHANGED <<office, auditVars, hoursVars, pricingVars, menuVars, taxVars,
                   factorVars, accessVars, privacyVars, alertVars, layoutVars,
                   runtimeVars, commandVars, availabilityVars, pageVars>>

FactorTurn ==
    /\ office = "factor" /\ FactorNext
    /\ UNCHANGED <<office, auditVars, hoursVars, pricingVars, menuVars, taxVars,
                   throttleVars, accessVars, privacyVars, alertVars, layoutVars,
                   runtimeVars, commandVars, availabilityVars, pageVars>>

AccessTurn ==
    /\ office = "access" /\ AccessNext
    /\ UNCHANGED <<office, auditVars, hoursVars, pricingVars, menuVars, taxVars,
                   throttleVars, factorVars, privacyVars, alertVars, layoutVars,
                   runtimeVars, commandVars, availabilityVars, pageVars>>

PrivacyTurn ==
    /\ office = "privacy" /\ PrivacyNext
    /\ UNCHANGED <<office, auditVars, hoursVars, pricingVars, menuVars, taxVars,
                   throttleVars, factorVars, accessVars, alertVars, layoutVars,
                   runtimeVars, commandVars, availabilityVars, pageVars>>

AlertTurn ==
    /\ office = "alerts" /\ AlertNext
    /\ UNCHANGED <<office, auditVars, hoursVars, pricingVars, menuVars, taxVars,
                   throttleVars, factorVars, accessVars, privacyVars, layoutVars,
                   runtimeVars, commandVars, availabilityVars, pageVars>>

LayoutTurn ==
    /\ office = "layout" /\ LayoutNext
    /\ UNCHANGED <<office, auditVars, hoursVars, pricingVars, menuVars, taxVars,
                   throttleVars, factorVars, accessVars, privacyVars, alertVars,
                   runtimeVars, commandVars, availabilityVars, pageVars>>

RuntimeTurn ==
    /\ office = "till" /\ RuntimeNext
    /\ UNCHANGED <<office, auditVars, hoursVars, pricingVars, menuVars, taxVars,
                   throttleVars, factorVars, accessVars, privacyVars, alertVars,
                   layoutVars, commandVars, availabilityVars, pageVars>>

CommandTurn ==
    /\ office = "commands" /\ CommandNext
    /\ UNCHANGED <<office, auditVars, hoursVars, pricingVars, menuVars, taxVars,
                   throttleVars, factorVars, accessVars, privacyVars, alertVars,
                   layoutVars, runtimeVars, availabilityVars, pageVars>>

AvailabilityTurn ==
    /\ office = "availability" /\ AvailabilityNext
    /\ UNCHANGED <<office, auditVars, hoursVars, pricingVars, menuVars, taxVars,
                   throttleVars, factorVars, accessVars, privacyVars, alertVars,
                   layoutVars, runtimeVars, commandVars, pageVars>>

PageTurn ==
    /\ office = "pages" /\ PageNext
    /\ UNCHANGED <<office, auditVars, hoursVars, pricingVars, menuVars, taxVars,
                   throttleVars, factorVars, accessVars, privacyVars, alertVars,
                   layoutVars, runtimeVars, commandVars, availabilityVars>>

Next ==
    \/ AuditTurn \/ HoursTurn \/ PricingTurn \/ MenuTurn
    \/ TaxTurn \/ ThrottleTurn \/ FactorTurn \/ AccessTurn
    \/ PrivacyTurn \/ AlertTurn \/ LayoutTurn \/ RuntimeTurn
    \/ CommandTurn \/ AvailabilityTurn \/ PageTurn

Spec == Init /\ [][Next]_backOfficeVars
=============================================================================
