------------------------ MODULE AdministrationProofs ------------------------
(***************************************************************************)
(* Proofs about the administration, for any number of users, tables, items, *)
(* prices, profiles, codes and time spans: what its parts promise, each of  *)
(* which runs as its own module says while the others move.                 *)
(***************************************************************************)
EXTENDS BackOffice, SumLemmas, TLAPS

(* Every part of the back office runs as its own module says: while another *)
(* part moves, it stands still.                                             *)
LEMMA LayoutRuns == Spec => LayoutInit /\ [][LayoutNext]_layoutVars
<1>1. Init => LayoutInit
  BY DEF Init
<1>2. [Next]_backOfficeVars => [LayoutNext]_layoutVars
  BY DEF Next, backOfficeVars, AuditTurn, HoursTurn, PricingTurn, MenuTurn, TaxTurn,
         ThrottleTurn, FactorTurn, AccessTurn, PrivacyTurn, AlertTurn, LayoutTurn,
         RuntimeTurn, CommandTurn, AvailabilityTurn, PageTurn
<1>. QED BY <1>1, <1>2, PTL DEF Spec

LEMMA PrivacyRuns == Spec => PrivacyInit /\ [][PrivacyNext]_privacyVars
<1>1. Init => PrivacyInit
  BY DEF Init
<1>2. [Next]_backOfficeVars => [PrivacyNext]_privacyVars
  BY DEF Next, backOfficeVars, AuditTurn, HoursTurn, PricingTurn, MenuTurn, TaxTurn,
         ThrottleTurn, FactorTurn, AccessTurn, PrivacyTurn, AlertTurn, LayoutTurn,
         RuntimeTurn, CommandTurn, AvailabilityTurn, PageTurn
<1>. QED BY <1>1, <1>2, PTL DEF Spec

LEMMA FactorRuns == Spec => FactorInit /\ [][FactorNext]_factorVars
<1>1. Init => FactorInit
  BY DEF Init
<1>2. [Next]_backOfficeVars => [FactorNext]_factorVars
  BY DEF Next, backOfficeVars, AuditTurn, HoursTurn, PricingTurn, MenuTurn, TaxTurn,
         ThrottleTurn, FactorTurn, AccessTurn, PrivacyTurn, AlertTurn, LayoutTurn,
         RuntimeTurn, CommandTurn, AvailabilityTurn, PageTurn
<1>. QED BY <1>1, <1>2, PTL DEF Spec

LEMMA TaxRuns == Spec => TaxInit /\ [][TaxNext]_taxVars
<1>1. Init => TaxInit
  BY DEF Init
<1>2. [Next]_backOfficeVars => [TaxNext]_taxVars
  BY DEF Next, backOfficeVars, AuditTurn, HoursTurn, PricingTurn, MenuTurn, TaxTurn,
         ThrottleTurn, FactorTurn, AccessTurn, PrivacyTurn, AlertTurn, LayoutTurn,
         RuntimeTurn, CommandTurn, AvailabilityTurn, PageTurn
<1>. QED BY <1>1, <1>2, PTL DEF Spec

LEMMA MenuRuns == Spec => MenuInit /\ [][MenuNext]_menuVars
<1>1. Init => MenuInit
  BY DEF Init
<1>2. [Next]_backOfficeVars => [MenuNext]_menuVars
  BY DEF Next, backOfficeVars, AuditTurn, HoursTurn, PricingTurn, MenuTurn, TaxTurn,
         ThrottleTurn, FactorTurn, AccessTurn, PrivacyTurn, AlertTurn, LayoutTurn,
         RuntimeTurn, CommandTurn, AvailabilityTurn, PageTurn
<1>. QED BY <1>1, <1>2, PTL DEF Spec

LEMMA ThrottleRuns == Spec => ThrottleInit /\ [][ThrottleNext]_throttleVars
<1>1. Init => ThrottleInit
  BY DEF Init
<1>2. [Next]_backOfficeVars => [ThrottleNext]_throttleVars
  BY DEF Next, backOfficeVars, AuditTurn, HoursTurn, PricingTurn, MenuTurn, TaxTurn,
         ThrottleTurn, FactorTurn, AccessTurn, PrivacyTurn, AlertTurn, LayoutTurn,
         RuntimeTurn, CommandTurn, AvailabilityTurn, PageTurn
<1>. QED BY <1>1, <1>2, PTL DEF Spec

LEMMA AccessRuns == Spec => AccessInit /\ [][AccessNext]_accessVars
<1>1. Init => AccessInit
  BY DEF Init
<1>2. [Next]_backOfficeVars => [AccessNext]_accessVars
  BY DEF Next, backOfficeVars, AuditTurn, HoursTurn, PricingTurn, MenuTurn, TaxTurn,
         ThrottleTurn, FactorTurn, AccessTurn, PrivacyTurn, AlertTurn, LayoutTurn,
         RuntimeTurn, CommandTurn, AvailabilityTurn, PageTurn
<1>. QED BY <1>1, <1>2, PTL DEF Spec

LEMMA AlertRuns == Spec => AlertInit /\ [][AlertNext]_alertVars
<1>1. Init => AlertInit
  BY DEF Init
<1>2. [Next]_backOfficeVars => [AlertNext]_alertVars
  BY DEF Next, backOfficeVars, AuditTurn, HoursTurn, PricingTurn, MenuTurn, TaxTurn,
         ThrottleTurn, FactorTurn, AccessTurn, PrivacyTurn, AlertTurn, LayoutTurn,
         RuntimeTurn, CommandTurn, AvailabilityTurn, PageTurn
<1>. QED BY <1>1, <1>2, PTL DEF Spec

LEMMA AuditRuns == Spec => AuditInit /\ [][AuditNext]_auditVars
<1>1. Init => AuditInit
  BY DEF Init
<1>2. [Next]_backOfficeVars => [AuditNext]_auditVars
  BY DEF Next, backOfficeVars, AuditTurn, HoursTurn, PricingTurn, MenuTurn, TaxTurn,
         ThrottleTurn, FactorTurn, AccessTurn, PrivacyTurn, AlertTurn, LayoutTurn,
         RuntimeTurn, CommandTurn, AvailabilityTurn, PageTurn
<1>. QED BY <1>1, <1>2, PTL DEF Spec

LEMMA RuntimeRuns == Spec => RuntimeInit /\ [][RuntimeNext]_runtimeVars
<1>1. Init => RuntimeInit
  BY DEF Init
<1>2. [Next]_backOfficeVars => [RuntimeNext]_runtimeVars
  BY DEF Next, backOfficeVars, AuditTurn, HoursTurn, PricingTurn, MenuTurn, TaxTurn,
         ThrottleTurn, FactorTurn, AccessTurn, PrivacyTurn, AlertTurn, LayoutTurn,
         RuntimeTurn, CommandTurn, AvailabilityTurn, PageTurn
<1>. QED BY <1>1, <1>2, PTL DEF Spec

-----------------------------------------------------------------------------
(* Layout.                                                                  *)
Placed == \A t \in Tables : table[t].state # "none" => table[t].area \in Areas
LayoutInv == LayoutTypeOK /\ Placed /\ ActiveTablesAreInActiveAreas

LEMMA LayoutStep ==
    ASSUME LayoutInv, [LayoutNext]_layoutVars
    PROVE  LayoutInv'
<1>. DEFINE TableRecords ==
         [state: {"none", "inactive", "active"}, area: Areas \cup {NoArea}]
<1>0. /\ area \in [Areas -> {"none", "inactive", "active"}]
      /\ table \in [Tables -> TableRecords]
      /\ \A t \in Tables : table[t] \in TableRecords
  BY DEF LayoutInv, LayoutTypeOK
<1>1. CASE UNCHANGED layoutVars
  BY <1>1 DEF layoutVars, LayoutInv, LayoutTypeOK, Placed, ActiveTablesAreInActiveAreas
<1>2. ASSUME NEW a \in Areas, CreateArea(a) \/ ActivateArea(a)
      PROVE  LayoutInv'
  BY <1>0, <1>2 DEF CreateArea, ActivateArea, LayoutInv, LayoutTypeOK, Placed,
                    ActiveTablesAreInActiveAreas
<1>3. ASSUME NEW a \in Areas, DeactivateArea(a)
      PROVE  LayoutInv'
  <2>1. ASSUME NEW t \in Tables, table[t].state = "active", table[t].area = a
        PROVE  FALSE
    <3>1. table[t] = [state |-> "active", area |-> a]
      BY <1>0, <2>1
    <3>. QED BY <1>3, <3>1 DEF DeactivateArea, ActiveTables
  <2>. QED
    BY <1>0, <1>3, <2>1 DEF DeactivateArea, LayoutInv, LayoutTypeOK, Placed,
                            ActiveTablesAreInActiveAreas
<1>4. ASSUME NEW t \in Tables, ActivateTable(t) \/ DeactivateTable(t)
      PROVE  LayoutInv'
  BY <1>0, <1>4 DEF ActivateTable, DeactivateTable, LayoutInv, LayoutTypeOK, Placed,
                    ActiveTablesAreInActiveAreas
<1>5. ASSUME NEW t \in Tables, NEW a \in Areas, CreateTable(t, a) \/ UpdateTable(t, a)
      PROVE  LayoutInv'
  BY <1>0, <1>5 DEF CreateTable, UpdateTable, LayoutInv, LayoutTypeOK, Placed,
                    ActiveTablesAreInActiveAreas
<1>. QED BY <1>1, <1>2, <1>3, <1>4, <1>5 DEF LayoutNext

LEMMA LayoutFirst == LayoutInit => LayoutInv
  BY DEF LayoutInit, LayoutInv, LayoutTypeOK, Placed, ActiveTablesAreInActiveAreas

(* A table guests can be seated at is in an area that is open, for any      *)
(* number of areas and tables (LayoutService.deactivateArea, updateTable).  *)
THEOREM OpenTablesAreInOpenAreas == Spec => []ActiveTablesAreInActiveAreas
<1>1. LayoutInv => ActiveTablesAreInActiveAreas
  BY DEF LayoutInv
<1>. QED BY LayoutFirst, <1>1, LayoutStep, LayoutRuns, PTL

-----------------------------------------------------------------------------
(* Privacy.                                                                 *)
KeptContacts == [key: 0..LastKey, phone: BOOLEAN, linked: BOOLEAN, anonymized: BOOLEAN]
InquiryStates ==
    {"none", "RECEIVED", "IDENTITY_VERIFIED", "IN_PROGRESS", "COMPLETED", "REJECTED", "CANCELLED"}

(* An anonymised profile is empty, and so is every contact that names it;   *)
(* only an anonymised profile has a completed request for it.               *)
Erased ==
    /\ customer.status = "ANONYMIZED" =>
          customer.key = 0 /\ \A o \in Linked : contact[o].anonymized /\ contact[o].key = 0
    /\ \A q \in Inquiries :
          inquiry[q].status = "COMPLETED" /\ inquiry[q].type = "ANONYMIZATION"
             => customer.status = "ANONYMIZED"

PrivacyInv == PrivacyTypeOK /\ Erased

LEMMA PrivacyStep ==
    ASSUME PrivacyInv, [PrivacyNext]_privacyVars
    PROVE  PrivacyInv'
<1>0. /\ customer \in [status: {"none", "ACTIVE", "RESTRICTED", "ANONYMIZED"},
                       key: 0..LastKey, held: BOOLEAN]
      /\ contact \in [Contacts -> KeptContacts \cup {NoContact}]
      /\ inquiry \in [Inquiries -> [status: InquiryStates, type: {"RESTRICTION", "ANONYMIZATION"}]]
      /\ activeKey \in 0..LastKey /\ activeKey \in KeyVersions /\ 0 \in 0..LastKey
      /\ LastKey \in Nat
  BY PrivacyAssumption DEF PrivacyInv, PrivacyTypeOK, KeptContacts, InquiryStates, KeyVersions
<1>1. CASE UNCHANGED privacyVars
  BY <1>1 DEF privacyVars, PrivacyInv, PrivacyTypeOK, Erased, Linked, Kept
<1>2. CASE LegalHoldEnds
  <2>1. /\ customer' \in [status: {"none", "ACTIVE", "RESTRICTED", "ANONYMIZED"},
                           key: 0..LastKey, held: BOOLEAN]
        /\ customer'.status = customer.status /\ customer'.key = customer.key
        /\ UNCHANGED <<contact, inquiry, activeKey>>
    BY <1>0, <1>2 DEF LegalHoldEnds
  <2>. QED BY <2>1 DEF PrivacyInv, PrivacyTypeOK, Erased, Linked, Kept
<1>8. CASE RotateKey
  BY <1>0, <1>8 DEF RotateKey, PrivacyInv, PrivacyTypeOK, Erased, Linked, Kept, KeyVersions
<1>3. ASSUME NEW held \in BOOLEAN, CreateCustomer(held) \/ UpdateCustomer(held)
      PROVE  PrivacyInv'
  <2>1. /\ customer' \in [status: {"none", "ACTIVE", "RESTRICTED", "ANONYMIZED"},
                           key: 0..LastKey, held: BOOLEAN]
        /\ customer.status # "ANONYMIZED" /\ customer'.status # "ANONYMIZED"
        /\ UNCHANGED <<contact, inquiry, activeKey>>
    <3>1. CASE CreateCustomer(held)
      BY <1>0, <3>1 DEF CreateCustomer
    <3>2. CASE UpdateCustomer(held)
      BY <1>0, <3>2 DEF UpdateCustomer
    <3>. QED BY <1>3, <3>1, <3>2
  <2>. QED BY <2>1 DEF PrivacyInv, PrivacyTypeOK, Erased
<1>4. ASSUME NEW o \in Contacts, NEW phone \in BOOLEAN, NEW linked \in BOOLEAN,
             CreateOrder(o, phone, linked)
      PROVE  PrivacyInv'
  <2>. DEFINE new == [key |-> activeKey, phone |-> phone, linked |-> linked,
                      anonymized |-> FALSE]
  <2>1. new \in KeptContacts /\ new.linked = linked
    <3>1. new.linked = linked
      OBVIOUS
    <3>2. new \in KeptContacts
      BY <1>0 DEF KeptContacts
    <3>. QED BY <3>1, <3>2
  <2>2. /\ contact' = [contact EXCEPT ![o] = new]
        /\ UNCHANGED <<customer, inquiry, activeKey>>
        /\ linked => customer.status = "ACTIVE"
    BY <1>4 DEF CreateOrder, KeepContact
  <2>. HIDE DEF new
  <2>3. contact' \in [Contacts -> KeptContacts \cup {NoContact}]
    BY <1>0, <2>1, <2>2
  <2>4. customer.status = "ANONYMIZED" => Linked' = Linked \ {o}
    BY <1>0, <2>1, <2>2 DEF Linked, Kept
  <2>5. Erased'
    BY <1>0, <2>2, <2>4 DEF PrivacyInv, Erased, Linked, Kept
  <2>. QED BY <2>2, <2>3, <2>5 DEF PrivacyInv, PrivacyTypeOK, KeptContacts
<1>5. ASSUME NEW q \in Inquiries, NEW type \in {"RESTRICTION", "ANONYMIZATION"},
             CreatePrivacyRequest(q, type)
      PROVE  PrivacyInv'
  BY <1>0, <1>5 DEF CreatePrivacyRequest, PrivacyInv, PrivacyTypeOK, Erased, Linked, Kept,
                    InquiryStates
<1>6. ASSUME NEW q \in Inquiries,
             NEW to \in {"IDENTITY_VERIFIED", "IN_PROGRESS", "COMPLETED", "REJECTED", "CANCELLED"},
             TransitionPrivacyRequest(q, to)
      PROVE  PrivacyInv'
  <2>1. /\ inquiry' = [inquiry EXCEPT ![q].status = to] /\ activeKey' = activeKey
        /\ inquiry' \in [Inquiries -> [status: InquiryStates,
                                       type: {"RESTRICTION", "ANONYMIZATION"}]]
    BY <1>0, <1>6 DEF TransitionPrivacyRequest, InquiryStates
  <2>2. CASE UNCHANGED <<customer, contact>> /\ to # "COMPLETED"
    BY <1>0, <2>1, <2>2 DEF PrivacyInv, PrivacyTypeOK, Erased, Linked, Kept, InquiryStates
  <2>3. CASE Anonymize /\ inquiry[q].type = "ANONYMIZATION"
    <3>. DEFINE emptied(o) == [contact[o] EXCEPT !.key = 0, !.anonymized = TRUE]
    <3>1. /\ contact' = [o \in Contacts |-> IF o \in Linked THEN emptied(o) ELSE contact[o]]
          /\ customer' = [customer EXCEPT !.status = "ANONYMIZED", !.key = 0]
      BY <2>3 DEF Anonymize
    <3>2. /\ customer'.status = "ANONYMIZED" /\ customer'.key = 0
          /\ customer' \in [status: {"none", "ACTIVE", "RESTRICTED", "ANONYMIZED"},
                            key: 0..LastKey, held: BOOLEAN]
      BY <1>0, <3>1
    <3>3. \A o \in Linked :
             /\ contact[o] \in KeptContacts
             /\ emptied(o) \in KeptContacts
             /\ emptied(o).key = 0 /\ emptied(o).anonymized /\ emptied(o).linked
      <4>. TAKE o \in Linked
      <4>1. contact[o] \in KeptContacts /\ contact[o].linked
        BY <1>0 DEF Linked, Kept
      <4>. QED BY <1>0, <4>1 DEF KeptContacts
    <3>. HIDE DEF emptied
    <3>4. contact' \in [Contacts -> KeptContacts \cup {NoContact}]
      BY <1>0, <3>1, <3>3
    <3>5. \A o \in Linked' : contact'[o].anonymized /\ contact'[o].key = 0
      <4>1. \A o \in Linked' : o \in Linked
        BY <1>0, <3>1 DEF Linked, Kept
      <4>. QED BY <3>1, <3>3, <4>1 DEF Linked, Kept
    <3>. QED BY <1>0, <2>1, <3>2, <3>4, <3>5
             DEF PrivacyInv, PrivacyTypeOK, Erased, KeptContacts, InquiryStates
  <2>4. CASE RestrictUse /\ inquiry[q].type = "RESTRICTION"
    BY <1>0, <2>1, <2>4 DEF RestrictUse, PrivacyInv, PrivacyTypeOK, Erased, Linked, Kept,
                            InquiryStates
  <2>. QED BY <1>0, <1>6, <2>2, <2>3, <2>4 DEF TransitionPrivacyRequest
<1>7. ASSUME NEW source \in KeyVersions, NEW batch \in SUBSET Contacts,
             RewrapCustomerPii(source, batch)
      PROVE  PrivacyInv'
  <2>. DEFINE rewrapped(o) == [contact[o] EXCEPT !.key = activeKey]
  <2>1. /\ contact' = [o \in Contacts |-> IF o \in batch THEN rewrapped(o) ELSE contact[o]]
        /\ \A o \in batch : contact[o] # NoContact /\ ~contact[o].anonymized
        /\ UNCHANGED <<inquiry, activeKey>>
    BY <1>7 DEF RewrapCustomerPii, Kept
  <2>2. /\ customer' \in [status: {"none", "ACTIVE", "RESTRICTED", "ANONYMIZED"},
                           key: 0..LastKey, held: BOOLEAN]
        /\ customer'.status = customer.status
        /\ customer.status = "ANONYMIZED" => customer' = customer
    BY <1>0, <1>7 DEF RewrapCustomerPii, KeyVersions
  <2>3. \A o \in batch : /\ contact[o] \in KeptContacts
                         /\ rewrapped(o) \in KeptContacts
                         /\ rewrapped(o).linked = contact[o].linked
    BY <1>0, <2>1 DEF KeptContacts, KeyVersions
  <2>. HIDE DEF rewrapped
  <2>4. contact' \in [Contacts -> KeptContacts \cup {NoContact}]
    BY <1>0, <2>1, <2>3
  <2>5. \A o \in Linked' : o \in Linked
    BY <1>0, <2>1, <2>3 DEF Linked, Kept
  <2>6. customer.status = "ANONYMIZED" => \A o \in Linked' : contact'[o] = contact[o]
    BY <1>0, <2>1, <2>5 DEF PrivacyInv, Erased, Linked, Kept
  <2>7. Erased'
    BY <2>1, <2>2, <2>5, <2>6 DEF PrivacyInv, Erased
  <2>. QED BY <1>0, <2>1, <2>2, <2>4, <2>7 DEF PrivacyInv, PrivacyTypeOK, KeptContacts, InquiryStates
<1>. QED BY <1>1, <1>2, <1>3, <1>4, <1>5, <1>6, <1>7, <1>8 DEF PrivacyNext

LEMMA PrivacyFirst == PrivacyInit => PrivacyInv
  BY PrivacyAssumption DEF PrivacyInit, PrivacyInv, PrivacyTypeOK, Erased, KeyVersions, Linked, Kept

(* Once a request for anonymisation has been completed, neither the profile *)
(* nor any order that named it holds data of the customer, ever after, for  *)
(* any number of orders, requests and keys (transitionPrivacyRequest).      *)
THEOREM ErasedDataStaysErased == Spec => []ErasedForGood
<1>1. PrivacyInv => ErasedForGood
  BY DEF PrivacyInv, PrivacyTypeOK, Erased, ErasedForGood
<1>. QED BY PrivacyFirst, <1>1, PrivacyStep, PrivacyRuns, PTL

-----------------------------------------------------------------------------
(* The second factor.                                                       *)
OneCurrent == \A m, n \in Current : m = n
Paid == \A n \in Numbers : opened[n] = IF code[n] = "used" THEN 1 ELSE 0
FactorInv == FactorTypeOK /\ OneCurrent /\ Paid

(* A request comes back, with or without the code it read as unused.        *)
LEMMA RequestReads ==
    ASSUME FactorInv, NEW r \in Requests,
           NEW what \in {"enroll", "activate", "reset", "disable", "login"},
           NEW n \in 0..MaxCredentials, NEW paid \in 0..MaxCredentials, Reads(r, what, n, paid)
    PROVE  FactorInv'
  BY DEF Reads, FactorInv, FactorTypeOK, OneCurrent, Paid, Current

LEMMA RequestReturns ==
    ASSUME FactorInv, NEW r \in Requests, Returns(r), MaxCredentials \in Nat
    PROVE  request' \in [Requests -> [does: {"nothing", "enroll", "activate", "reset", "disable",
                                             "login"},
                                      reads: 0..MaxCredentials, pays: 0..MaxCredentials]]
  BY DEF FactorInv, FactorTypeOK, Returns, Waiting

(* A code that is redeemed was unused, and is used from then on.            *)
LEMMA CodeIsRedeemed ==
    ASSUME FactorInv, NEW paid \in 0..MaxCredentials, Redeem(paid)
    PROVE  /\ Paid'
           /\ code' \in [Numbers -> {"unused", "used"}]
           /\ opened' \in [Numbers -> Nat]
  BY DEF FactorInv, FactorTypeOK, Paid, Redeem, Numbers

(* A credential that moves on was current, and there is no other.            *)
LEMMA CredentialMoves ==
    ASSUME FactorInv, NEW r \in Requests, NEW status \in {"ACTIVE", "DISABLED"}, Becomes(r, status)
    PROVE  /\ OneCurrent'
           /\ credential' \in [Numbers -> {"none", "PENDING", "ACTIVE", "DISABLED"}]
<1>. DEFINE n == request[r].reads
<1>1. /\ credential' = [credential EXCEPT ![n] = status]
      /\ credential[n] \in {"PENDING", "ACTIVE"}
  BY DEF Becomes, Allowed
<1>2. Current' \subseteq Current
  BY <1>1 DEF Current, FactorInv, FactorTypeOK
<1>. QED BY <1>1, <1>2 DEF FactorInv, FactorTypeOK, OneCurrent

LEMMA FactorStep ==
    ASSUME FactorInv, [FactorNext]_factorVars
    PROVE  FactorInv'
<1>0. MaxCredentials \in Nat /\ 0 \in 0..MaxCredentials /\ Numbers \subseteq 0..MaxCredentials
  BY FactorAssumption DEF Numbers
<1>1. CASE UNCHANGED factorVars
  BY <1>1 DEF factorVars, FactorInv, FactorTypeOK, OneCurrent, Paid, Current
<1>2. ASSUME NEW r \in Requests,
             BeginEnroll(r) \/ BeginActivate(r) \/ BeginReset(r) \/ BeginDisable(r) \/ BeginLogin(r)
      PROVE  FactorInv'
  <2>1. CASE BeginEnroll(r)
    BY <1>0, <2>1, RequestReads DEF BeginEnroll
  <2>2. CASE BeginActivate(r) \/ BeginReset(r)
    BY <1>0, <2>2, RequestReads DEF BeginActivate, BeginReset, Current
  <2>3. \A n \in Numbers : Proof(n) \subseteq 0..MaxCredentials
    BY <1>0 DEF Proof
  <2>4. CASE BeginDisable(r) \/ BeginLogin(r)
    BY <1>0, <2>3, <2>4, RequestReads DEF BeginDisable, BeginLogin, Current
  <2>. QED BY <1>2, <2>1, <2>2, <2>4
<1>3. ASSUME NEW r \in Requests, EndEnroll(r)
      PROVE  FactorInv'
  <2>1. PICK n \in Numbers : credential' = [credential EXCEPT ![n] = "PENDING"]
    BY <1>3 DEF EndEnroll
  <2>2. /\ Current = {} /\ Returns(r) /\ UNCHANGED <<code, opened>>
        /\ credential' \in [Numbers -> {"none", "PENDING", "ACTIVE", "DISABLED"}]
    BY <1>3, <2>1 DEF EndEnroll, FactorInv, FactorTypeOK
  <2>3. Current' \subseteq {n}
    BY <2>1, <2>2 DEF Current, FactorInv, FactorTypeOK
  <2>. QED BY <1>0, <2>2, <2>3, RequestReturns DEF FactorInv, FactorTypeOK, OneCurrent, Paid
<1>4. ASSUME NEW r \in Requests, EndActivate(r) \/ EndReset(r)
      PROVE  FactorInv'
  <2>1. PICK status \in {"ACTIVE", "DISABLED"} : Becomes(r, status)
    BY <1>4 DEF EndActivate, EndReset
  <2>. QED BY <1>0, <1>4, <2>1, RequestReturns, CredentialMoves
           DEF EndActivate, EndReset, FactorInv, FactorTypeOK, Paid
<1>5. ASSUME NEW r \in Requests, EndDisable(r)
      PROVE  FactorInv'
  <2>1. request[r].pays \in 0..MaxCredentials
    BY DEF FactorInv, FactorTypeOK
  <2>. QED BY <1>0, <1>5, <2>1, RequestReturns, CredentialMoves, CodeIsRedeemed
           DEF EndDisable, FactorInv, FactorTypeOK
<1>6. ASSUME NEW r \in Requests, EndLogin(r)
      PROVE  FactorInv'
  <2>1. request[r].pays \in 0..MaxCredentials
    BY DEF FactorInv, FactorTypeOK
  <2>. QED BY <1>0, <1>6, <2>1, RequestReturns, CodeIsRedeemed
           DEF EndLogin, FactorInv, FactorTypeOK, OneCurrent, Current
<1>7. ASSUME NEW r \in Requests, Fails(r)
      PROVE  FactorInv'
  BY <1>0, <1>7, RequestReturns DEF Fails, FactorInv, FactorTypeOK, OneCurrent, Current, Paid
<1>. QED BY <1>1, <1>2, <1>3, <1>4, <1>5, <1>6, <1>7 DEF FactorNext

LEMMA FactorFirst == FactorInit => FactorInv
  BY FactorAssumption
     DEF FactorInit, FactorInv, FactorTypeOK, OneCurrent, Paid, Current, Waiting

(* A recovery code is worth one login or one disabling, and a person never  *)
(* has two credentials that count, for any number of requests that overlap. *)
THEOREM RecoveryCodesAreSpentOnce == Spec => []CodesAreSpentOnce
<1>1. FactorInv => CodesAreSpentOnce
  <2>. SUFFICES ASSUME FactorInv PROVE CodesAreSpentOnce
    OBVIOUS
  <2>1. Cardinality(Current) <= 1
    BY AtMostOne DEF FactorInv, OneCurrent
  <2>. QED BY <2>1 DEF FactorInv, Paid, CodesAreSpentOnce
<1>. QED BY FactorFirst, <1>1, FactorStep, FactorRuns, PTL

-----------------------------------------------------------------------------
(* Tax profiles.                                                            *)

(* A page shows a profile as it is or as it was before it was edited.       *)
ShownOrOlder ==
    \A p \in Profiles :
        /\ page[p].revision <= profile[p].revision
        /\ page[p].revision = profile[p].revision => page[p].content = profile[p].content
        /\ profile[p].status = "none" => profile[p].revision = 0
        /\ profile[p].status \in {"CONFIRMED", "ACTIVE"} => profile[p].content = page[p].content

ActiveApart ==
    \A p, q \in Profiles :
        profile[p].status = "ACTIVE" /\ profile[q].status = "ACTIVE" /\ p # q
        => ~IntervalsOverlap(profile[p].content, profile[q].content)

TaxRecords == [status: {"none", "DRAFT", "CONFIRMED", "ACTIVE"}, content: Contents, revision: Nat]
TaxShape ==
    /\ profile \in [Profiles -> TaxRecords]
    /\ page \in [Profiles -> [content: Contents, revision: Nat]]

TaxInv == TaxShape /\ ShownOrOlder /\ ActiveApart

(* A profile is written, with a higher revision.                            *)
LEMMA ProfileIsWritten ==
    ASSUME TaxInv, NEW p \in Profiles,
           NEW r \in TaxRecords, profile' = [profile EXCEPT ![p] = r], page' = page,
           r.revision > profile[p].revision, r.status # "none",
           r.status \in {"CONFIRMED", "ACTIVE"} => r.content = page[p].content,
           r.status = "ACTIVE" => \A q \in Profiles \ {p} :
              profile[q].status = "ACTIVE" => ~IntervalsOverlap(profile[q].content, r.content)
    PROVE  TaxInv'
<1>0. \A q \in Profiles : /\ profile[q].revision \in Nat /\ page[q].revision \in Nat
                          /\ profile'[q] = IF q = p THEN r ELSE profile[q]
  BY DEF TaxInv, TaxShape, TaxRecords
<1>1. TaxShape'
  BY DEF TaxInv, TaxShape
<1>2. ShownOrOlder'
  <2>. SUFFICES ASSUME NEW q \in Profiles
                PROVE  /\ page[q].revision <= profile'[q].revision
                       /\ page[q].revision = profile'[q].revision
                             => page[q].content = profile'[q].content
                       /\ profile'[q].status = "none" => profile'[q].revision = 0
                       /\ profile'[q].status \in {"CONFIRMED", "ACTIVE"}
                             => profile'[q].content = page[q].content
    BY DEF ShownOrOlder
  <2>1. CASE q = p
    <3>1. page[p].revision < r.revision /\ profile'[q] = r
      BY <1>0, <2>1 DEF TaxInv, ShownOrOlder, TaxRecords
    <3>. QED BY <1>0, <2>1, <3>1 DEF TaxRecords
  <2>2. CASE q # p
    BY <1>0, <2>2 DEF TaxInv, ShownOrOlder
  <2>. QED BY <2>1, <2>2
<1>3. ActiveApart'
  BY <1>0 DEF TaxInv, ActiveApart, IntervalsOverlap
<1>. QED BY <1>1, <1>2, <1>3 DEF TaxInv

LEMMA TaxStep ==
    ASSUME TaxInv, [TaxNext]_taxVars
    PROVE  TaxInv'
<1>0. \A p \in Profiles : /\ profile[p] \in TaxRecords /\ profile[p].revision + 1 \in Nat
                          /\ profile[p].revision + 1 > profile[p].revision
                          /\ page[p] \in [content: Contents, revision: Nat]
  BY DEF TaxInv, TaxShape, TaxRecords
<1>1. CASE UNCHANGED taxVars \/ Advance
  BY <1>1 DEF taxVars, Advance, TaxInv, TaxShape, ShownOrOlder, ActiveApart
<1>2. ASSUME NEW p \in Profiles, NEW c \in Contents, CreateProfile(p, c)
      PROVE  TaxInv'
  <2>1. profile[p].revision = 0
    BY <1>2 DEF CreateProfile, TaxInv, ShownOrOlder
  <2>. DEFINE r == [status |-> "DRAFT", content |-> c, revision |-> 1]
  <2>2. profile' = [profile EXCEPT ![p] = r] /\ page' = page
    BY <1>2 DEF CreateProfile
  <2>3. r \in TaxRecords /\ r.revision > profile[p].revision /\ r.status = "DRAFT"
    BY <2>1 DEF TaxRecords
  <2>. HIDE DEF r
  <2>. QED BY <2>1, <2>2, <2>3, ProfileIsWritten
<1>3. ASSUME NEW p \in Profiles, NEW c \in Contents, UpdateProfile(p, c)
      PROVE  TaxInv'
  <2>. DEFINE n == profile[p].revision + 1
             r == [profile[p] EXCEPT !.content = c, !.revision = n]
  <2>1. profile' = [profile EXCEPT ![p] = r] /\ page' = page /\ profile[p].status = "DRAFT"
    BY <1>3 DEF UpdateProfile
  <2>2. r \in TaxRecords /\ r.revision = n /\ r.status = "DRAFT"
    <3>1. profile[p] \in TaxRecords /\ n \in Nat
      BY <1>0
    <3>. HIDE DEF n
    <3>. QED BY <2>1, <3>1 DEF TaxRecords
  <2>. HIDE DEF r
  <2>. QED BY <1>0, <2>1, <2>2, ProfileIsWritten
<1>4. ASSUME NEW p \in Profiles, ReadProfile(p)
      PROVE  TaxInv'
  <2>. DEFINE r == [content |-> profile[p].content, revision |-> profile[p].revision]
  <2>1. /\ page' = [page EXCEPT ![p] = r] /\ profile' = profile /\ profile[p].status = "DRAFT"
    BY <1>4 DEF ReadProfile
  <2>2. /\ r \in [content: Contents, revision: Nat]
        /\ r.content = profile[p].content /\ r.revision = profile[p].revision
        /\ r.revision \in Nat
    BY <1>0 DEF TaxRecords
  <2>. HIDE DEF r
  <2>3. \A q \in Profiles : page'[q] = IF q = p THEN r ELSE page[q]
    BY <2>1 DEF TaxInv, TaxShape
  <2>4. TaxShape'
    BY <2>1, <2>2 DEF TaxInv, TaxShape
  <2>5. ShownOrOlder'
    BY <2>1, <2>2, <2>3 DEF TaxInv, ShownOrOlder
  <2>. QED BY <2>1, <2>4, <2>5 DEF TaxInv, ActiveApart
<1>5. ASSUME NEW p \in Profiles, NEW status \in {"CONFIRMED", "ACTIVE"},
             profile' = [profile EXCEPT ![p].status = status, ![p].revision = @ + 1],
             page' = page, page[p].content = profile[p].content,
             status = "ACTIVE" => \A q \in Profiles \ {p} :
                profile[q].status = "ACTIVE"
                => ~IntervalsOverlap(profile[q].content, profile[p].content)
      PROVE  TaxInv'
  <2>. DEFINE n == profile[p].revision + 1
             r == [profile[p] EXCEPT !.status = status, !.revision = n]
  <2>1. profile' = [profile EXCEPT ![p] = r]
    BY <1>5
  <2>2. r \in TaxRecords /\ r.revision = n /\ r.status = status
        /\ r.content = profile[p].content
    <3>1. profile[p] \in TaxRecords /\ n \in Nat
      BY <1>0
    <3>. HIDE DEF n
    <3>. QED BY <3>1 DEF TaxRecords
  <2>. HIDE DEF r
  <2>. QED BY <1>0, <1>5, <2>1, <2>2, ProfileIsWritten
<1>6. ASSUME NEW p \in Profiles, ConfirmProfile(p) \/ ActivateProfile(p)
      PROVE  TaxInv'
  BY <1>5, <1>6 DEF ConfirmProfile, ActivateProfile, TaxInv, ShownOrOlder
<1>. QED BY <1>1, <1>2, <1>3, <1>4, <1>6 DEF TaxNext

LEMMA TaxFirst == TaxInit => TaxInv
<1>1. Blank \in Contents
  <2>1. PICK r : r \in Rates
    BY TaxAssumption
  <2>2. [rate |-> r, from |-> 0, to |-> 1] \in Contents
    BY <2>1, TaxAssumption DEF Contents, Ends
  <2>. QED BY <2>2 DEF Blank
<1>. QED BY <1>1 DEF TaxInit, TaxInv, TaxShape, TaxRecords, ShownOrOlder, ActiveApart

(* The tax of every instant is settled and as its approver was shown it,    *)
(* for any number of profiles, edits and instants (TaxService).             *)
THEOREM TaxStaysAsApproved == Spec => []TaxIsAsApproved
<1>1. TaxInv => TaxIsAsApproved
  <2>. SUFFICES ASSUME TaxInv PROVE TaxIsAsApproved
    OBVIOUS
  <2>1. ASSUME NEW i \in 0..(MaxInstant + 1)
        PROVE  Cardinality(InForce(i)) <= 1
    <3>1. \A p, q \in InForce(i) : p = q
      <4>1. \A c, d \in Contents :
               c.from <= i /\ i < c.to /\ d.from <= i /\ i < d.to => IntervalsOverlap(c, d)
        BY TaxAssumption DEF Contents, Ends, Endless, IntervalsOverlap
      <4>. QED BY <4>1 DEF InForce, TaxInv, TaxShape, TaxRecords, ActiveApart
    <3>. QED BY <3>1, AtMostOne
  <2>. QED BY <2>1 DEF TaxInv, ShownOrOlder, TaxIsAsApproved
<1>. QED BY TaxFirst, <1>1, TaxStep, TaxRuns, PTL

-----------------------------------------------------------------------------
(* Failed logins.                                                           *)
ThrottleShape ==
    /\ tick \in Nat
    /\ bucket \in [Buckets -> [failures: Nat, since: Nat, until: Nat]]
    /\ login \in [Logins -> [step: {"idle", "started", "checked", "passed", "unlocked"},
                             at: Nat, account: Accounts]]

(* No login is from the future.                                             *)
ThrottleInv == ThrottleShape /\ \A l \in Logins : login[l].at <= tick

LEMMA CountedFailure ==
    ASSUME NEW b \in [failures: Nat, since: Nat, until: Nat], NEW at \in Nat, NEW limit
    PROVE  /\ NextState(b, at, limit) \in [failures: Nat, since: Nat, until: Nat]
           /\ b.until > at => NextState(b, at, limit) = b
  BY ThrottleAssumption DEF NextState

LEMMA IdleLogin ==
    ASSUME Logins # {} \/ Accounts # {}
    PROVE  Idle \in [step: {"idle", "started", "checked", "passed", "unlocked"},
                     at: Nat, account: Accounts] /\ Idle.at = 0
  BY ThrottleAssumption DEF Idle

LEMMA ThrottleStep ==
    ASSUME ThrottleInv, [ThrottleNext]_throttleVars
    PROVE  /\ ThrottleInv'
           /\ \A k \in Buckets : Locked(k, tick) =>
                 \/ bucket'[k].until >= bucket[k].until
                 \/ \E l \in Logins : login[l].step = "unlocked" /\ login[l].account = k
<1>0. /\ tick \in Nat
      /\ \A k \in Buckets : bucket[k] \in [failures: Nat, since: Nat, until: Nat]
      /\ \A l \in Logins : login[l] \in [step: {"idle", "started", "checked", "passed", "unlocked"},
                                         at: Nat, account: Accounts]
  BY DEF ThrottleInv, ThrottleShape
<1>1. CASE UNCHANGED throttleVars
  BY <1>0, <1>1 DEF throttleVars, ThrottleInv, ThrottleShape
<1>2. CASE TickOn
  BY <1>0, <1>2 DEF TickOn, ThrottleInv, ThrottleShape
<1>3. ASSUME NEW l \in Logins, NEW a \in Accounts, Start(l, a)
      PROVE  ThrottleInv' /\ bucket' = bucket
  BY <1>0, <1>3 DEF Start, ThrottleInv, ThrottleShape
<1>4. ASSUME NEW l \in Logins, Finished(l), tick' = tick
      PROVE  /\ login' \in [Logins -> [step: {"idle", "started", "checked", "passed", "unlocked"},
                                       at: Nat, account: Accounts]]
             /\ \A m \in Logins : login'[m].at <= tick'
  BY <1>0, <1>4, IdleLogin DEF Finished, ThrottleInv, ThrottleShape
<1>5. ASSUME NEW l \in Logins, NEW step \in {"checked", "passed", "unlocked"}, Goes(l, step)
      PROVE  ThrottleInv' /\ bucket' = bucket
  BY <1>0, <1>5 DEF Goes, ThrottleInv, ThrottleShape
<1>6. ASSUME NEW l \in Logins, CheckAccount(l) \/ Pass(l) \/ Recheck(l)
      PROVE  ThrottleInv' /\ bucket' = bucket
  BY <1>4, <1>5, <1>6 DEF CheckAccount, Pass, Recheck, ThrottleInv, ThrottleShape
<1>7. ASSUME NEW l \in Logins, Fail(l)
      PROVE  /\ ThrottleInv'
             /\ \A k \in Buckets : Locked(k, tick) => bucket'[k] = bucket[k]
  <2>1. /\ bucket' = [k \in Buckets |-> IF k \in Mine(l)
                                        THEN NextState(bucket[k], login[l].at, Limit(k))
                                        ELSE bucket[k]]
        /\ tick' = tick /\ Finished(l)
    BY <1>7 DEF Fail
  <2>2. login[l].at \in Nat /\ login[l].at <= tick
    BY <1>0 DEF ThrottleInv
  <2>3. bucket' \in [Buckets -> [failures: Nat, since: Nat, until: Nat]]
    BY <1>0, <2>1, <2>2, CountedFailure
  <2>4. \A k \in Buckets : Locked(k, tick) => bucket'[k] = bucket[k]
    BY <1>0, <2>1, <2>2, CountedFailure DEF Locked
  <2>. QED BY <1>4, <2>1, <2>3, <2>4 DEF ThrottleInv, ThrottleShape
<1>8. ASSUME NEW l \in Logins, Succeed(l)
      PROVE  /\ ThrottleInv'
             /\ \A k \in Buckets : \/ bucket'[k] = bucket[k]
                                   \/ login[l].step = "unlocked" /\ login[l].account = k
  <2>1. /\ login[l].step = "unlocked" /\ login[l].at \in Nat /\ Finished(l) /\ tick' = tick
        /\ bucket' = [bucket EXCEPT ![login[l].account] =
                         [failures |-> 0, since |-> login[l].at, until |-> 0]]
        /\ \A m \in Logins : login'[m].at <= tick'
        /\ login' \in [Logins -> [step: {"idle", "started", "checked", "passed", "unlocked"},
                                  at: Nat, account: Accounts]]
    BY <1>0, <1>4, <1>8 DEF Succeed
  <2>2. bucket' \in [Buckets -> [failures: Nat, since: Nat, until: Nat]]
    BY <2>1 DEF ThrottleInv, ThrottleShape
  <2>3. \A k \in Buckets : k # login[l].account => bucket'[k] = bucket[k]
    BY <2>1 DEF ThrottleInv, ThrottleShape
  <2>4. ThrottleInv'
    BY <1>0, <2>1, <2>2 DEF ThrottleInv, ThrottleShape
  <2>. QED BY <2>1, <2>3, <2>4
<1>. QED BY <1>0, <1>1, <1>2, <1>3, <1>6, <1>7, <1>8 DEF ThrottleNext

LEMMA ThrottleFirst == ThrottleInit => ThrottleInv
  BY IdleLogin DEF ThrottleInit, ThrottleInv, ThrottleShape, Empty

(* A lock lasts as long as it was set for, whatever overlapping logins      *)
(* still report, for any number of logins, accounts and addresses           *)
(* (nextLoginThrottleState).                                                *)
THEOREM LocksLast == Spec => LocksHold
<1>. DEFINE Held ==
         \A k \in Buckets :
             Locked(k, tick) =>
                \/ bucket'[k].until >= bucket[k].until
                \/ \E l \in Logins : login[l].step = "unlocked" /\ login[l].account = k
<1>1. ThrottleInv /\ [ThrottleNext]_throttleVars => ThrottleInv' /\ [Held]_throttleVars
  BY ThrottleStep
<1>. HIDE DEF Held
<1>2. Spec => [][Held]_throttleVars
  BY ThrottleFirst, <1>1, ThrottleRuns, PTL
<1>. QED BY <1>2 DEF Held, LocksHold

-----------------------------------------------------------------------------
(* Access.                                                                  *)
SessionRecords == [status: {"none", "ACTIVE", "REVOKED"}, expired: BOOLEAN,
                   device: Devices \cup {NoDevice}, era: Nat]
ArrivalRecords == [step: {"none", "device", "user"}, device: Devices \cup {NoDevice}]

AccessShape ==
    /\ era \in Nat
    /\ device \in [Devices -> {"none", "PENDING", "ACTIVE", "REVOKED"}]
    /\ session \in [Sessions -> SessionRecords]
    /\ arrival \in [Arrivals -> ArrivalRecords]

(* A login under way and an opened session have a device; a session that is *)
(* active has not been outlived by a withdrawal.                            *)
AccessInv ==
    /\ AccessShape
    /\ \A a \in Arrivals : arrival[a].step # "none" => arrival[a].device \in Devices
    /\ \A s \in Sessions :
          /\ session[s].status # "none" => session[s].device \in Devices
          /\ session[s].status = "none" => ~session[s].expired
          /\ session[s].status = "ACTIVE" => session[s].era = era

(* What no step may do to a session or a device.                            *)
NothingRevives ==
    /\ \A d \in Devices : device[d] = "REVOKED" => device'[d] = "REVOKED"
    /\ \A s \in Sessions :
          session[s].status # "none" =>
             /\ session'[s].device = session[s].device
             /\ session[s].status = "REVOKED" => session'[s].status = "REVOKED"
             /\ session[s].expired => session'[s].expired

(* Some sessions end.                                                       *)
LEMMA SessionsEnd ==
    ASSUME AccessInv, NEW S, session' = Revoked(S), UNCHANGED arrival,
           era' = era \/ (S = Sessions /\ era' = era + 1),
           device' \in [Devices -> {"none", "PENDING", "ACTIVE", "REVOKED"}],
           \A d \in Devices : device[d] = "REVOKED" => device'[d] = "REVOKED"
    PROVE  AccessInv' /\ NothingRevives
<1>1. \A s \in Sessions :
         /\ session'[s] \in SessionRecords
         /\ session'[s].device = session[s].device /\ session'[s].era = session[s].era
         /\ session'[s].expired = session[s].expired
         /\ session[s].status # "ACTIVE" => session'[s].status = session[s].status
         /\ session[s].status = "ACTIVE" => session'[s].status = IF s \in S THEN "REVOKED" ELSE "ACTIVE"
  <2>. SUFFICES ASSUME NEW s \in Sessions
                PROVE  /\ session'[s] \in SessionRecords
                       /\ session'[s].device = session[s].device
                       /\ session'[s].era = session[s].era
                       /\ session'[s].expired = session[s].expired
                       /\ session[s].status # "ACTIVE" => session'[s].status = session[s].status
                       /\ session[s].status = "ACTIVE"
                             => session'[s].status = IF s \in S THEN "REVOKED" ELSE "ACTIVE"
    OBVIOUS
  <2>1. session[s] \in SessionRecords
    BY DEF AccessInv, AccessShape
  <2>2. CASE s \in S /\ session[s].status = "ACTIVE"
    <3>1. session'[s] = [session[s] EXCEPT !.status = "REVOKED"]
      BY <2>2 DEF Revoked
    <3>. QED BY <2>1, <2>2, <3>1 DEF SessionRecords
  <2>3. CASE ~(s \in S /\ session[s].status = "ACTIVE")
    <3>1. session'[s] = session[s]
      BY <2>3 DEF Revoked
    <3>. QED BY <2>1, <2>3, <3>1
  <2>. QED BY <2>2, <2>3
<1>2. session' \in [Sessions -> SessionRecords]
  BY <1>1 DEF Revoked
<1>3. era \in Nat /\ era' \in Nat
  BY DEF AccessInv, AccessShape
<1>. QED BY <1>1, <1>2, <1>3 DEF AccessInv, AccessShape, NothingRevives

(* A session is opened or expires.                                          *)
LEMMA SessionIsWritten ==
    ASSUME AccessInv, NEW s \in Sessions, NEW r \in SessionRecords,
           session' = [session EXCEPT ![s] = r],
           r.status # "none" /\ r.device \in Devices,
           r.status = "ACTIVE" => r.era = era,
           session[s].status # "none" =>
              /\ r.device = session[s].device /\ r.status = session[s].status
              /\ session[s].expired => r.expired,
           arrival' \in [Arrivals -> ArrivalRecords],
           \A a \in Arrivals : arrival'[a].step # "none" => arrival'[a].device \in Devices,
           UNCHANGED <<device, era>>
    PROVE  AccessInv' /\ NothingRevives
<1>1. \A t \in Sessions : session'[t] = IF t = s THEN r ELSE session[t]
  BY DEF AccessInv, AccessShape
<1>2. AccessShape'
  BY DEF AccessInv, AccessShape
<1>. QED BY <1>1, <1>2 DEF AccessInv, NothingRevives

LEMMA AccessStep ==
    ASSUME AccessInv, [AccessNext]_accessVars
    PROVE  AccessInv' /\ NothingRevives
<1>0. /\ device \in [Devices -> {"none", "PENDING", "ACTIVE", "REVOKED"}]
      /\ era \in Nat
      /\ \A s \in Sessions : session[s] \in SessionRecords
      /\ \A a \in Arrivals : arrival[a] \in ArrivalRecords
  BY DEF AccessInv, AccessShape
<1>1. ASSUME UNCHANGED <<session, arrival, era>>,
             device' \in [Devices -> {"none", "PENDING", "ACTIVE", "REVOKED"}],
             \A d \in Devices : device[d] = "REVOKED" => device'[d] = "REVOKED"
      PROVE  AccessInv' /\ NothingRevives
  BY <1>1 DEF AccessInv, AccessShape, NothingRevives
<1>2. CASE UNCHANGED accessVars
  BY <1>0, <1>1, <1>2 DEF accessVars
<1>3. CASE DisableStaff \/ ReactivateStaff
  BY <1>0, <1>3, SessionsEnd DEF DisableStaff, ReactivateStaff, Withdraws
<1>4. ASSUME NEW r \in Roles, AssignStaffRole(r)
      PROVE  AccessInv' /\ NothingRevives
  BY <1>0, <1>1, <1>4 DEF AssignStaffRole
<1>5. ASSUME NEW r \in Roles, RemoveStaffRole(r)
      PROVE  AccessInv' /\ NothingRevives
  BY <1>0, <1>5, SessionsEnd DEF RemoveStaffRole, Withdraws
<1>6. ASSUME NEW d \in Devices, CreateDevice(d) \/ ActivateDevice(d)
      PROVE  AccessInv' /\ NothingRevives
  BY <1>0, <1>1, <1>6 DEF CreateDevice, ActivateDevice
<1>7. ASSUME NEW d \in Devices, RevokeDevice(d)
      PROVE  AccessInv' /\ NothingRevives
  <2>1. /\ device' \in [Devices -> {"none", "PENDING", "ACTIVE", "REVOKED"}]
        /\ \A e \in Devices : device[e] = "REVOKED" => device'[e] = "REVOKED"
    BY <1>0, <1>7 DEF RevokeDevice
  <2>2. PICK S : session' = Revoked(S) /\ UNCHANGED <<arrival, era>>
    BY <1>7 DEF RevokeDevice
  <2>. QED BY <2>1, <2>2, SessionsEnd
<1>8. ASSUME NEW a \in Arrivals, NEW r \in ArrivalRecords, arrival' = [arrival EXCEPT ![a] = r],
             r.step # "none" => r.device \in Devices,
             UNCHANGED <<session, device, era>>
      PROVE  AccessInv' /\ NothingRevives
  BY <1>8 DEF AccessInv, AccessShape, NothingRevives
<1>9. Gone \in ArrivalRecords /\ Gone.step = "none"
  BY DEF Gone, ArrivalRecords
<1>10. ASSUME NEW a \in Arrivals, NEW d \in Devices, CheckDevice(a, d)
       PROVE  AccessInv' /\ NothingRevives
  BY <1>8, <1>10 DEF CheckDevice, ArrivalRecords
<1>11. ASSUME NEW a \in Arrivals, CheckUser(a) \/ Reject(a)
       PROVE  AccessInv' /\ NothingRevives
  <2>1. CASE CheckUser(a)
    <3>. DEFINE r == [arrival[a] EXCEPT !.step = "user"]
    <3>1. /\ arrival' = [arrival EXCEPT ![a] = r] /\ arrival[a].step = "device"
          /\ UNCHANGED <<session, device, era>>
      BY <2>1 DEF CheckUser
    <3>2. r \in ArrivalRecords /\ r.device \in Devices
      BY <1>0, <3>1 DEF ArrivalRecords, AccessInv
    <3>. HIDE DEF r
    <3>. QED BY <1>8, <3>1, <3>2
  <2>2. CASE Reject(a)
    BY <1>8, <1>9, <2>2 DEF Reject
  <2>. QED BY <1>11, <2>1, <2>2
<1>12. ASSUME NEW a \in Arrivals, NEW s \in Sessions, OpenSession(a, s)
       PROVE  AccessInv' /\ NothingRevives
  <2>. DEFINE r == [status |-> "ACTIVE", expired |-> FALSE, device |-> arrival[a].device,
                    era |-> era]
  <2>1. /\ session' = [session EXCEPT ![s] = r] /\ session[s].status = "none"
        /\ arrival' = [arrival EXCEPT ![a] = Gone] /\ arrival[a].step = "user"
        /\ UNCHANGED <<device, era>>
    BY <1>12 DEF OpenSession
  <2>2. arrival[a].device \in Devices
    BY <2>1 DEF AccessInv
  <2>3. r \in SessionRecords /\ r.status = "ACTIVE" /\ r.device \in Devices /\ r.era = era
    BY <1>0, <2>2 DEF SessionRecords
  <2>4. /\ arrival' \in [Arrivals -> ArrivalRecords]
        /\ \A b \in Arrivals : arrival'[b].step # "none" => arrival'[b].device \in Devices
    BY <1>9, <2>1 DEF AccessInv, AccessShape
  <2>. HIDE DEF r
  <2>. QED BY <2>1, <2>3, <2>4, SessionIsWritten
<1>13. ASSUME NEW s \in Sessions, Expire(s)
       PROVE  AccessInv' /\ NothingRevives
  <2>. DEFINE r == [session[s] EXCEPT !.expired = TRUE]
  <2>1. /\ session' = [session EXCEPT ![s] = r] /\ session[s].status = "ACTIVE"
        /\ UNCHANGED <<device, arrival, era>>
    BY <1>13 DEF Expire
  <2>2. /\ r \in SessionRecords /\ r.status = "ACTIVE" /\ r.device = session[s].device
        /\ r.era = session[s].era
    BY <1>0, <2>1 DEF SessionRecords
  <2>3. r.expired
    BY <1>0 DEF SessionRecords
  <2>4. session[s].device \in Devices /\ session[s].era = era
    BY <2>1 DEF AccessInv
  <2>5. /\ arrival' \in [Arrivals -> ArrivalRecords]
        /\ \A a \in Arrivals : arrival'[a].step # "none" => arrival'[a].device \in Devices
    BY <2>1 DEF AccessInv, AccessShape
  <2>. HIDE DEF r
  <2>. QED BY <2>1, <2>2, <2>3, <2>4, <2>5, SessionIsWritten
<1>14. ASSUME NEW s \in Sessions, Logout(s) \/ RevokeSession(s) \/ ChangePassword(s)
       PROVE  AccessInv' /\ NothingRevives
  <2>1. PICK S : session' = Revoked(S)
    BY <1>14 DEF Logout, RevokeSession, ChangePassword
  <2>2. UNCHANGED <<device, arrival, era>>
    BY <1>14 DEF Logout, RevokeSession, ChangePassword
  <2>. QED BY <1>0, <2>1, <2>2, SessionsEnd
<1>15. ASSUME NEW s \in Sessions, AskForPassword(s)
       PROVE  AccessInv' /\ NothingRevives
  BY <1>0, <1>1, <1>15 DEF AskForPassword
<1>. QED BY <1>2, <1>3, <1>4, <1>5, <1>6, <1>7, <1>10, <1>11, <1>12, <1>13, <1>14, <1>15
         DEF AccessNext

LEMMA AccessFirst == AccessInit => AccessInv
<1>. SUFFICES ASSUME AccessInit PROVE AccessInv
  OBVIOUS
<1>. DEFINE r == [status |-> "none", expired |-> FALSE, device |-> NoDevice, era |-> 0]
<1>1. session = [s \in Sessions |-> r]
  BY DEF AccessInit
<1>2. r \in SessionRecords /\ r.status = "none" /\ ~r.expired
  BY DEF SessionRecords
<1>3. Gone \in ArrivalRecords /\ Gone.step = "none"
  BY DEF Gone, ArrivalRecords
<1>. HIDE DEF r
<1>. QED BY <1>1, <1>2, <1>3 DEF AccessInit, AccessInv, AccessShape

(* Whatever access was withdrawn stays withdrawn, for any number of         *)
(* sessions, devices and logins that overlap (SessionAuthGuard,             *)
(* AdministrationService).                                                  *)
THEOREM AccessStaysWithdrawn == Spec => WithdrawnAccessStays
<1>. DEFINE InEra == \A s \in Sessions :
                        session[s].status # "none" /\ Served(s) => session[s].era = era
            StayOut == \A s \in Sessions :
                          (\/ session[s].status = "REVOKED" \/ session[s].expired
                           \/ session[s].status = "ACTIVE" /\ device[session[s].device] = "REVOKED")
                          => ~Served(s)'
<1>1. AccessInv => InEra
  BY DEF AccessInv, Served
<1>2. AccessInv /\ [AccessNext]_accessVars => AccessInv' /\ [StayOut]_accessVars
  <2>. SUFFICES ASSUME AccessInv, [AccessNext]_accessVars
                PROVE  AccessInv' /\ StayOut
    OBVIOUS
  <2>1. AccessInv' /\ NothingRevives
    BY AccessStep
  <2>. QED BY <2>1 DEF AccessInv, NothingRevives, Served
<1>. HIDE DEF InEra, StayOut
<1>3. Spec => []InEra /\ [][StayOut]_accessVars
  BY AccessFirst, <1>1, <1>2, AccessRuns, PTL
<1>. QED BY <1>3 DEF InEra, StayOut, WithdrawnAccessStays

-----------------------------------------------------------------------------
(* The menu.                                                                *)
PriceRows == [amount: Amounts, from: Nat, to: Nat]

(* Prices of one target never overlap.                                      *)
Apart(S) == \A p, q \in S : p = q \/ p.to <= q.from \/ q.to <= p.from

MenuInv ==
    /\ clock \in Nat
    /\ taxClass \in [TaxClasses -> States]
    /\ item \in [state: States, station: Stations \cup {None}, taxClass: TaxClasses \cup {None}]
    /\ prices \in [Targets -> SUBSET PriceRows]
    /\ \A t \in Targets : Apart(prices[t])
    /\ ActiveItemIsComplete

(* A price row is added where there is none.                                *)
LEMMA PriceIsAdded ==
    ASSUME NEW S \in SUBSET PriceRows, Apart(S), NEW r \in PriceRows,
           \A p \in S : ~(p.from < r.to /\ p.to > r.from)
    PROVE  S \cup {r} \in SUBSET PriceRows /\ Apart(S \cup {r})
  BY DEF PriceRows, Apart

(* What a row of a file makes of the prices of its target.                  *)
LEMMA TargetIsRepriced ==
    ASSUME MenuInv, NEW t \in Targets, NEW price \in Amounts \cup {0},
           price > 0 => \A p \in prices[t] : p.from <= clock,
           \A p \in Repriced(t, price) : p.from < p.to
    PROVE  /\ Repriced(t, price) \in SUBSET PriceRows
           /\ Apart(Repriced(t, price))
           /\ \A p \in prices[t] : \E q \in Repriced(t, price) :
                 /\ q.amount = p.amount /\ q.from = p.from
                 /\ q.to = p.to \/ q.to = clock
<1>. DEFINE current == EffectiveAt(t, clock)
            ended(p) == [p EXCEPT !.to = clock]
            new == [amount |-> price, from |-> clock, to |-> Forever]
<1>0. /\ clock \in Nat /\ Forever \in Nat
      /\ prices[t] \in SUBSET PriceRows /\ Apart(prices[t])
      /\ \A p \in prices[t] : p \in PriceRows /\ p.from \in Nat /\ p.to \in Nat
  BY MenuAssumption DEF MenuInv, PriceRows, Forever
<1>1. CASE price = 0 \/ \E p \in current : p.amount = price
  <2>1. Repriced(t, price) = prices[t]
    BY <1>1 DEF Repriced
  <2>. QED BY <1>0, <2>1
<1>2. CASE ~(price = 0 \/ \E p \in current : p.amount = price)
  <2>1. Repriced(t, price) = (prices[t] \ current) \cup {ended(p) : p \in current} \cup {new}
    BY <1>2 DEF Repriced
  <2>2. /\ price \in Amounts /\ price > 0
        /\ \A p \in prices[t] : p.from <= clock
    BY <1>2, MenuAssumption
  <2>3. /\ \A p \in current : p \in prices[t] /\ p.from <= clock /\ p.to > clock
        /\ \A p \in prices[t] \ current : p.to <= clock
    BY <1>0, <2>2 DEF EffectiveAt
  <2>4. \A p \in current : /\ ended(p) \in PriceRows /\ ended(p).amount = p.amount
                           /\ ended(p).from = p.from /\ ended(p).to = clock
    BY <1>0, <2>3 DEF PriceRows
  <2>5. /\ new \in PriceRows /\ new.from = clock
    BY <1>0, <2>2 DEF PriceRows
  <2>6. \A p, q \in current : p = q
    BY <1>0, <2>3 DEF Apart
  <2>. HIDE DEF new, ended, current
  <2>7. Repriced(t, price) \in SUBSET PriceRows
    BY <1>0, <2>1, <2>4, <2>5
  <2>8. \A p \in (prices[t] \ current) \cup {ended(c) : c \in current} : p.to <= clock
    BY <1>0, <2>3, <2>4
  <2>9. Apart((prices[t] \ current) \cup {ended(c) : c \in current})
    <3>1. \A p \in prices[t] \ current, c \in current : p.to <= ended(c).from
      BY <1>0, <2>2, <2>3, <2>4 DEF Apart
    <3>. QED BY <1>0, <2>6, <3>1 DEF Apart
  <2>10. Apart(Repriced(t, price))
    BY <2>1, <2>5, <2>8, <2>9 DEF Apart
  <2>11. \A p \in prices[t] : \E q \in Repriced(t, price) :
            q.amount = p.amount /\ q.from = p.from /\ (q.to = p.to \/ q.to = clock)
    BY <2>1, <2>4
  <2>. QED BY <2>7, <2>10, <2>11
<1>. QED BY <1>1, <1>2

(* What was charged stays: each price stays, or ends now.                   *)
PricesStay ==
    \A t \in Targets : \A p \in prices[t] : \E q \in prices'[t] :
        /\ q.amount = p.amount /\ q.from = p.from
        /\ q.to = p.to \/ q.to = clock

LEMMA MenuStep ==
    ASSUME MenuInv, [MenuNext]_menuVars
    PROVE  MenuInv' /\ PricesStay
<1>1. CASE UNCHANGED menuVars
  BY <1>1 DEF menuVars, MenuInv, ActiveItemIsComplete, StationIsActive, TaxClassIsActive,
              PricesStay
<1>2. CASE MenuTick
  BY <1>2 DEF MenuTick, MenuInv, ActiveItemIsComplete, StationIsActive, TaxClassIsActive,
              PricesStay
<1>3. ASSUME item' \in [state: States, station: Stations \cup {None},
                       taxClass: TaxClasses \cup {None}],
             item'.state = "active" =>
                StationIsActive(item'.station) /\ TaxClassIsActive(item'.taxClass),
             UNCHANGED <<clock, stations, taxClass, prices>>
      PROVE  MenuInv' /\ PricesStay
  BY <1>3 DEF MenuInv, ActiveItemIsComplete, StationIsActive, TaxClassIsActive, PricesStay
<1>4. CASE ActivateMenuItem
  <2>1. /\ item' = [item EXCEPT !.state = "active"]
        /\ StationIsActive(item.station) /\ TaxClassIsActive(item.taxClass)
        /\ UNCHANGED <<clock, stations, taxClass, prices>>
    BY <1>4 DEF ActivateMenuItem
  <2>2. /\ item' \in [state: States, station: Stations \cup {None}, taxClass: TaxClasses \cup {None}]
        /\ item'.station = item.station /\ item'.taxClass = item.taxClass
    BY <2>1 DEF MenuInv, States
  <2>. QED BY <1>3, <2>1, <2>2
<1>5. CASE DeactivateMenuItem
  <2>1. /\ item' = [item EXCEPT !.state = "inactive"]
        /\ UNCHANGED <<clock, stations, taxClass, prices>>
    BY <1>5 DEF DeactivateMenuItem
  <2>2. /\ item' \in [state: States, station: Stations \cup {None}, taxClass: TaxClasses \cup {None}]
        /\ item'.state = "inactive"
    BY <2>1 DEF MenuInv, States
  <2>. QED BY <1>3, <2>1, <2>2
<1>6. ASSUME NEW s \in Stations \cup {None}, NEW c \in TaxClasses \cup {None},
             CreateMenuItem(s, c) \/ UpdateMenuItem(s, c)
      PROVE  MenuInv' /\ PricesStay
  <2>1. UNCHANGED <<clock, stations, taxClass, prices>>
    BY <1>6 DEF CreateMenuItem, UpdateMenuItem
  <2>2. CASE CreateMenuItem(s, c)
    <3>1. item' = [state |-> "inactive", station |-> s, taxClass |-> c]
      BY <2>2 DEF CreateMenuItem
    <3>. QED BY <1>3, <2>1, <3>1 DEF States
  <2>3. CASE UpdateMenuItem(s, c)
    <3>1. /\ item' = [item EXCEPT !.station = s, !.taxClass = c]
          /\ item.state = "active" => StationIsActive(s) /\ TaxClassIsActive(c)
      BY <2>3 DEF UpdateMenuItem
    <3>2. /\ item' \in [state: States, station: Stations \cup {None},
                        taxClass: TaxClasses \cup {None}]
          /\ item'.state = item.state /\ item'.station = s /\ item'.taxClass = c
      BY <3>1 DEF MenuInv, States
    <3>. QED BY <1>3, <2>1, <3>1, <3>2
  <2>. QED BY <1>6, <2>2, <2>3
<1>7. ASSUME NEW s \in Stations, CreateStation(s)
      PROVE  MenuInv' /\ PricesStay
  BY <1>7 DEF CreateStation, MenuInv, ActiveItemIsComplete, StationIsActive, TaxClassIsActive,
              PricesStay
<1>8. ASSUME NEW c \in TaxClasses, CreateTaxClass(c) \/ ActivateTaxClass(c)
      PROVE  MenuInv' /\ PricesStay
  <2>1. /\ UNCHANGED <<clock, stations, item, prices>>
        /\ taxClass' \in [TaxClasses -> States]
        /\ \A d \in TaxClasses : taxClass[d] = "active" => taxClass'[d] = "active"
    BY <1>8 DEF CreateTaxClass, ActivateTaxClass, MenuInv, States
  <2>. QED BY <2>1 DEF MenuInv, ActiveItemIsComplete, StationIsActive, TaxClassIsActive,
                       PricesStay
<1>9. ASSUME NEW v \in Variants, CreateVariant(v) \/ ActivateVariant(v)
      PROVE  MenuInv' /\ PricesStay
  <2>1. UNCHANGED <<clock, stations, taxClass, item, prices>>
    BY <1>9 DEF CreateVariant, ActivateVariant
  <2>. QED BY <2>1 DEF MenuInv, ActiveItemIsComplete, StationIsActive, TaxClassIsActive,
                       PricesStay
<1>10. ASSUME NEW t \in Targets, NEW a \in Amounts, NEW from \in 0..LastClock,
              NEW to \in 1..(LastClock + 1) \cup {Forever}, CreatePrice(t, a, from, to)
       PROVE  MenuInv' /\ PricesStay
  <2>. DEFINE r == [amount |-> a, from |-> from, to |-> to]
  <2>1. /\ prices' = [prices EXCEPT ![t] = @ \cup {r}] /\ ~Overlaps(t, from, to)
        /\ UNCHANGED <<clock, stations, taxClass, item>>
    BY <1>10 DEF CreatePrice
  <2>2. r \in PriceRows /\ r.from = from /\ r.to = to
    BY MenuAssumption DEF PriceRows, Forever
  <2>. HIDE DEF r
  <2>3. prices[t] \in SUBSET PriceRows /\ Apart(prices[t])
    BY DEF MenuInv
  <2>4. prices[t] \cup {r} \in SUBSET PriceRows /\ Apart(prices[t] \cup {r})
    BY <2>1, <2>2, <2>3, PriceIsAdded DEF Overlaps
  <2>5. \A u \in Targets : prices'[u] = IF u = t THEN prices[t] \cup {r} ELSE prices[u]
    BY <2>1 DEF MenuInv
  <2>6. prices' \in [Targets -> SUBSET PriceRows]
    BY <2>1, <2>4 DEF MenuInv
  <2>. QED BY <2>1, <2>4, <2>5, <2>6
           DEF MenuInv, ActiveItemIsComplete, StationIsActive, TaxClassIsActive, PricesStay
<1>11. ASSUME NEW s \in Stations \cup {None}, NEW c \in TaxClasses \cup {None},
              NEW rows \in Files, Import(rows, s, c)
       PROVE  MenuInv' /\ PricesStay
  <2>1. PICK D \in SUBSET Targets : rows \in [D -> FileRows]
    BY DEF Files
  <2>2. /\ prices' = [t \in Targets |-> IF t \in D THEN Repriced(t, rows[t].price)
                                                   ELSE prices[t]]
        /\ \A t \in D : \A p \in Repriced(t, rows[t].price) : p.from < p.to
        /\ \A t \in D : rows[t].price > 0 => \A p \in prices[t] : p.from <= clock
        /\ UNCHANGED <<clock, stations, taxClass>>
    BY <1>11, <2>1 DEF Import, Valid
  <2>3. \A t \in D : t \in Targets /\ rows[t].price \in Amounts \cup {0}
    BY <2>1 DEF FileRows
  <2>4. \A t \in D : /\ prices'[t] \in SUBSET PriceRows /\ Apart(prices'[t])
                     /\ \A p \in prices[t] : \E q \in prices'[t] :
                           /\ q.amount = p.amount /\ q.from = p.from
                           /\ q.to = p.to \/ q.to = clock
    BY <2>2, <2>3, TargetIsRepriced
  <2>5. \A t \in Targets \ D : prices'[t] = prices[t]
    BY <2>2
  <2>6. PricesStay /\ (\A t \in Targets : Apart(prices'[t])) /\ prices' \in [Targets -> SUBSET PriceRows]
    <3>1. \A t \in Targets : prices[t] \in SUBSET PriceRows /\ Apart(prices[t])
      BY DEF MenuInv
    <3>2. \A t \in Targets : prices'[t] \in SUBSET PriceRows /\ Apart(prices'[t])
      BY <2>4, <2>5, <3>1
    <3>3. PricesStay
      BY <2>4, <2>5 DEF PricesStay
    <3>. QED BY <2>2, <3>2, <3>3
  <2>7. /\ item' = [state |-> IF Base \in D THEN Activity(rows[Base].active)
                              ELSE IF item.state = "none" THEN "inactive" ELSE item.state,
                    station |-> s, taxClass |-> c]
        /\ ItemWillBeActive(rows) => StationIsActive(s) /\ TaxClassIsActive(c)
    BY <1>11, <2>1 DEF Import, Valid
  <2>8. item'.state = "active" => ItemWillBeActive(rows)
    BY <2>1, <2>7 DEF ItemWillBeActive, Activity
  <2>9. item' \in [state: States, station: Stations \cup {None}, taxClass: TaxClasses \cup {None}]
    BY <2>7 DEF States, Activity, MenuInv
  <2>10. item'.station = s /\ item'.taxClass = c
    BY <2>7
  <2>. QED BY <2>2, <2>6, <2>7, <2>8, <2>9, <2>10
           DEF MenuInv, ActiveItemIsComplete, StationIsActive, TaxClassIsActive
<1>. QED BY <1>1, <1>2, <1>4, <1>5, <1>6, <1>7, <1>8, <1>9, <1>10, <1>11 DEF MenuNext

LEMMA MenuStart == MenuInit => MenuInv
  BY DEF MenuInit, MenuInv, States, Apart, ActiveItemIsComplete

(* An active item has an active station and an approved tax class, whatever *)
(* commands and files have changed it.                                      *)
THEOREM ActiveItemsAreComplete == Spec => []ActiveItemIsComplete
<1>1. MenuInv => ActiveItemIsComplete
  BY DEF MenuInv
<1>. QED BY <1>1, MenuStart, MenuStep, MenuRuns, PTL

(* At every instant a target has at most one price, and what was charged    *)
(* stays, for any number of prices, targets and files (CreatePrice,         *)
(* MenuImportService).                                                      *)
THEOREM ChargedPricesStand == Spec => PricesStand
<1>. DEFINE OnePrice == \A t \in Targets, i \in 0..(LastClock + 1) : Cardinality(EffectiveAt(t, i)) <= 1
            Charged == \A t \in Targets, i \in 0..LastClock :
                          i < clock => \A p \in EffectiveAt(t, i) :
                                          \E q \in EffectiveAt(t, i)' : q.amount = p.amount
<1>1. MenuInv => OnePrice
  <2>. SUFFICES ASSUME MenuInv, NEW t \in Targets, NEW i \in 0..(LastClock + 1)
                PROVE  Cardinality(EffectiveAt(t, i)) <= 1
    OBVIOUS
  <2>1. \A p, q \in EffectiveAt(t, i) : p = q
    BY MenuAssumption DEF MenuInv, EffectiveAt, Apart, PriceRows
  <2>. QED BY <2>1, AtMostOne
<1>2. MenuInv /\ [MenuNext]_menuVars => MenuInv' /\ [Charged]_menuVars
  <2>. SUFFICES ASSUME MenuInv, [MenuNext]_menuVars
                PROVE  MenuInv' /\ Charged
    OBVIOUS
  <2>1. MenuInv' /\ PricesStay
    BY MenuStep
  <2>2. ASSUME NEW t \in Targets, NEW i \in 0..LastClock, i < clock, NEW p \in EffectiveAt(t, i)
        PROVE  \E q \in EffectiveAt(t, i)' : q.amount = p.amount
    <3>1. p \in prices[t] /\ p.from <= i /\ p.to > i
      BY <2>2 DEF EffectiveAt
    <3>2. PICK q \in prices'[t] : q.amount = p.amount /\ q.from = p.from
                                  /\ (q.to = p.to \/ q.to = clock)
      BY <2>1, <3>1 DEF PricesStay
    <3>3. q \in EffectiveAt(t, i)'
      BY <2>2, <3>1, <3>2 DEF EffectiveAt
    <3>. QED BY <3>2, <3>3
  <2>. QED BY <2>1, <2>2
<1>. HIDE DEF OnePrice, Charged
<1>3. Spec => []OnePrice /\ [][Charged]_menuVars
  BY <1>1, <1>2, MenuStart, MenuRuns, PTL
<1>. QED BY <1>3 DEF OnePrice, Charged, PricesStand


-----------------------------------------------------------------------------
(* Alerts.  The events an alert has counted are among those that happened   *)
(* up to the last one it has seen, so the later ones are new.               *)

Counted == {e \in Happenings : occurred[e] <= alert["events"].last}

AlertInv ==
    /\ occurred \in [Happenings -> Moments \cup {Unrecorded}]
    /\ DOMAIN alert = {"events", "sync"}
    /\ alert["events"] \in [status: {"none", "OPEN", "ACKNOWLEDGED", "RESOLVED"},
                            count: Nat, last: Moments]
    /\ alert["events"].count <= Cardinality(Counted)

(* More events have happened up to a later moment.                          *)
LEMMA CountedGrows ==
    ASSUME AlertInv, AlertInv!1', alert'["events"].last \in Moments,
           alert["events"].last <= alert'["events"].last,
           \A e \in Happenings : occurred[e] # Unrecorded => occurred'[e] = occurred[e]
    PROVE  /\ Counted \subseteq Counted' /\ IsFiniteSet(Counted')
           /\ Cardinality(Counted) <= Cardinality(Counted')
           /\ Cardinality(Counted') \in Nat /\ Cardinality(Counted) \in Nat
<1>1. Counted \subseteq Counted'
  BY AlertAssumption DEF AlertInv, Counted, Moments, Unrecorded
<1>2. IsFiniteSet(Counted') /\ IsFiniteSet(Counted)
  BY AlertAssumption, FS_Subset DEF Counted
<1>. QED BY <1>1, <1>2, FS_Subset, FS_CardinalityType

LEMMA EvaluateKeeps ==
    ASSUME AlertInv, NEW from \in Moments, NEW to \in Moments, Evaluate(from, to)
    PROVE  AlertInv'
<1>. DEFINE a == alert["events"]
            seen == Observed(from, to)
            news == IF a = NoAlert THEN seen ELSE {e \in seen : occurred[e] > a.last}
<1>1. /\ occurred' = occurred /\ DOMAIN alert' = {"events", "sync"}
      /\ alert'["events"] = EventAlert(from, to)
  BY DEF Evaluate
<1>2. CASE news = {}
  <2>1. alert'["events"] = a
    BY <1>1, <1>2 DEF EventAlert
  <2>. QED BY <1>1, <2>1 DEF AlertInv, Counted
<1>3. CASE news # {}
  <2>1. alert'["events"] = [status |-> Reopened(a.status), count |-> a.count + Cardinality(news),
                            last |-> Max({a.last, NewestOf(seen)})]
    BY <1>1, <1>3 DEF EventAlert
  <2>2. /\ seen \subseteq Happenings /\ news \subseteq seen /\ seen # {}
        /\ \A e \in seen : occurred[e] \in Moments
        /\ a.last \in Moments /\ a.count \in Nat /\ LastMoment \in Nat
    BY <1>3, AlertAssumption DEF AlertInv, Observed, Recorded, Moments, Unrecorded
  <2>. HIDE DEF a, seen
  <2>3. /\ NewestOf(seen) \in Moments
        /\ \A e \in seen : occurred[e] <= NewestOf(seen)
    <3>. DEFINE S == {occurred[e] : e \in seen}
    <3>1. S # {} /\ S \subseteq Moments /\ S \subseteq Nat
      BY <2>2 DEF Moments
    <3>2. IsFiniteSet(S)
      <4>1. IsFiniteSet(Moments)
        BY AlertAssumption, FS_Interval DEF Moments
      <4>. QED BY <3>1, <4>1, FS_Subset
    <3>3. \A x \in S : x \in Int
      BY <3>1
    <3>. HIDE DEF S
    <3>4. \E x \in S : \A y \in S : x >= y
      BY <3>1, <3>2, <3>3, GreatestExists
    <3>5. Max(S) \in S /\ \A y \in S : Max(S) >= y
      BY <3>4 DEF Max
    <3>6. Max(S) \in Moments /\ \A y \in S : y <= Max(S)
      BY <3>1, <3>5
    <3>. QED BY <3>6 DEF NewestOf, S
  <2>4. /\ Max({a.last, NewestOf(seen)}) \in Moments
        /\ a.last <= Max({a.last, NewestOf(seen)})
        /\ NewestOf(seen) <= Max({a.last, NewestOf(seen)})
    <3>. DEFINE x == a.last
                y == NewestOf(seen)
    <3>1. x \in Int /\ y \in Int /\ x \in Moments /\ y \in Moments
      BY <2>2, <2>3 DEF Moments
    <3>. HIDE DEF x, y
    <3>2. \E m \in {x, y} : \A z \in {x, y} : m >= z
      BY <3>1
    <3>3. Max({x, y}) \in {x, y} /\ \A z \in {x, y} : Max({x, y}) >= z
      BY <3>2 DEF Max
    <3>4. Max({x, y}) \in Moments /\ x <= Max({x, y}) /\ y <= Max({x, y})
      BY <3>1, <3>3
    <3>. QED BY <3>4 DEF x, y
  <2>5. /\ alert'["events"].last = Max({a.last, NewestOf(seen)})
        /\ alert'["events"].count = a.count + Cardinality(news)
        /\ alert'["events"].status = Reopened(a.status)
    BY <2>1
  <2>6. IsFiniteSet(news)
    BY <2>2, AlertAssumption, FS_Subset
  <2>7. Cardinality(news) \in Nat
    BY <2>6, FS_CardinalityType
  <2>8. /\ Counted \subseteq Counted' /\ IsFiniteSet(Counted') /\ IsFiniteSet(Counted)
        /\ Cardinality(Counted) <= Cardinality(Counted')
        /\ Cardinality(Counted') \in Nat /\ Cardinality(Counted) \in Nat
    <3>1. IsFiniteSet(Counted)
      BY AlertAssumption, FS_Subset DEF Counted
    <3>2. AlertInv!1' /\ alert["events"].last <= alert'["events"].last
          /\ alert'["events"].last \in Moments
      BY <1>1, <2>4, <2>5 DEF AlertInv, a
    <3>. QED BY <1>1, <3>1, <3>2, CountedGrows
  <2>9. news \subseteq Counted'
    <3>1. ASSUME NEW e \in news
          PROVE  e \in Happenings /\ occurred'[e] <= alert'["events"].last
      <4>1. e \in seen /\ occurred[e] \in Moments /\ occurred[e] <= NewestOf(seen)
        BY <2>2, <2>3
      <4>2. occurred[e] <= Max({a.last, NewestOf(seen)})
        BY <2>3, <2>4, <4>1 DEF Moments
      <4>. QED BY <1>1, <2>2, <2>5, <4>1, <4>2
    <3>. QED BY <3>1 DEF Counted
  <2>10. a.count + Cardinality(news) <= Cardinality(Counted')
    <3>1. CASE a = NoAlert
      <4>1. a.count = 0
        BY <3>1 DEF NoAlert
      <4>2. Cardinality(news) <= Cardinality(Counted')
        BY <2>8, <2>9, FS_Subset
      <4>. QED BY <2>7, <4>1, <4>2
    <3>2. CASE a # NoAlert
      <4>1. Counted \cap news = {}
        <5>1. \A e \in news : occurred[e] > a.last /\ occurred[e] \in Nat /\ a.last \in Nat
          BY <2>2, <3>2 DEF Moments
        <5>. HIDE DEF news
        <5>2. \A e \in news : ~(occurred[e] <= a.last)
          BY <5>1
        <5>. QED BY <5>2 DEF Counted, a
      <4>. HIDE DEF news
      <4>2. Cardinality(Counted \cup news) = Cardinality(Counted) + Cardinality(news)
        <5>1. Cardinality(Counted \cup news)
                 = Cardinality(Counted) + Cardinality(news) - Cardinality(Counted \cap news)
          BY <2>6, <2>8, FS_Union
        <5>2. Cardinality(Counted \cap news) = 0
          BY <4>1, FS_EmptySet
        <5>. QED BY <2>7, <2>8, <5>1, <5>2
      <4>3. Cardinality(Counted \cup news) <= Cardinality(Counted')
        <5>1. Counted \cup news \in SUBSET Counted'
          BY <2>8, <2>9
        <5>. QED BY <2>8, <5>1, FS_Subset
      <4>4. a.count <= Cardinality(Counted)
        BY DEF AlertInv, a
      <4>. QED BY <2>2, <2>7, <2>8, <4>2, <4>3, <4>4
    <3>. QED BY <3>1, <3>2
  <2>11. alert'["events"] \in [status: {"none", "OPEN", "ACKNOWLEDGED", "RESOLVED"},
                               count: Nat, last: Moments]
    <3>1. Reopened(a.status) \in {"none", "OPEN", "ACKNOWLEDGED", "RESOLVED"}
      BY DEF Reopened, AlertInv, a
    <3>2. a.count + Cardinality(news) \in Nat
      BY <2>2, <2>7
    <3>. QED BY <2>1, <2>4, <3>1, <3>2
  <2>. QED BY <1>1, <2>5, <2>10, <2>11 DEF AlertInv
<1>. QED BY <1>2, <1>3

LEMMA AlertStep == AlertInv /\ [AlertNext]_alertVars => AlertInv'
<1>. SUFFICES ASSUME AlertInv, [AlertNext]_alertVars PROVE AlertInv'
  OBVIOUS
<1>1. CASE UNCHANGED <<occurred, alert>>
  BY <1>1 DEF AlertInv, Counted
<1>2. ASSUME NEW e \in Happenings, NEW t \in Moments, RecordHappening(e, t) PROVE AlertInv'
  <2>1. /\ occurred' \in [Happenings -> Moments \cup {Unrecorded}] /\ alert' = alert
        /\ \A x \in Happenings : occurred[x] # Unrecorded => occurred'[x] = occurred[x]
    BY <1>2 DEF RecordHappening, AlertInv
  <2>2. alert["events"].last \in Moments /\ alert["events"].last <= alert["events"].last
    BY AlertAssumption DEF AlertInv, Moments
  <2>3. Cardinality(Counted) <= Cardinality(Counted') /\ Cardinality(Counted') \in Nat
        /\ Cardinality(Counted) \in Nat
    BY <2>1, <2>2, CountedGrows
  <2>. QED BY <2>1, <2>3 DEF AlertInv
<1>3. ASSUME NEW from \in Moments, NEW to \in Moments, Evaluate(from, to) PROVE AlertInv'
  BY <1>3, EvaluateKeeps
<1>4. ASSUME NEW k \in {"events", "sync"}, AcknowledgeAlert(k) \/ ResolveAlert(k) PROVE AlertInv'
  <2>1. /\ occurred' = occurred /\ DOMAIN alert' = DOMAIN alert
        /\ alert'["events"].count = alert["events"].count
        /\ alert'["events"].last = alert["events"].last
        /\ alert'["events"] \in [status: {"none", "OPEN", "ACKNOWLEDGED", "RESOLVED"},
                                 count: Nat, last: Moments]
    BY <1>4 DEF AcknowledgeAlert, ResolveAlert, AlertInv
  <2>. QED BY <2>1 DEF AlertInv, Counted
<1>. QED BY <1>1, <1>2, <1>3, <1>4 DEF AlertNext, SyncConflicts, SyncIsResolved, alertVars

LEMMA AlertStart == AlertInit => AlertInv
<1>. SUFFICES ASSUME AlertInit PROVE AlertInv
  OBVIOUS
<1>1. Cardinality(Counted) \in Nat
  BY AlertAssumption, FS_Subset, FS_CardinalityType DEF Counted
<1>2. /\ occurred \in [Happenings -> Moments \cup {Unrecorded}]
      /\ DOMAIN alert = {"events", "sync"} /\ alert["events"] = NoAlert
  BY DEF AlertInit
<1>3. 0 \in Moments
  BY AlertAssumption DEF Moments
<1>. QED BY <1>1, <1>2, <1>3 DEF AlertInv, NoAlert

(* An alert never claims more events than there are, for any number of      *)
(* events and windows that overlap, repeat or go back                       *)
(* (SecurityOperationsService.applySignals).                                *)
THEOREM EventsAreCountedOnce == Spec => []EventsCountOnce
<1>1. AlertInv => EventsCountOnce
  <2>. SUFFICES ASSUME AlertInv PROVE EventsCountOnce
    OBVIOUS
  <2>1. Counted \subseteq Recorded
    BY AlertAssumption DEF AlertInv, Counted, Recorded, Moments, Unrecorded
  <2>2. IsFiniteSet(Recorded) /\ IsFiniteSet(Counted)
    BY AlertAssumption, FS_Subset DEF Recorded, Counted
  <2>3. /\ Cardinality(Counted) <= Cardinality(Recorded)
        /\ Cardinality(Counted) \in Nat /\ Cardinality(Recorded) \in Nat
    BY <2>1, <2>2, FS_Subset, FS_CardinalityType
  <2>. QED BY <2>3 DEF AlertInv, EventsCountOnce
<1>. QED BY <1>1, AlertStart, AlertStep, AlertRuns, PTL
-----------------------------------------------------------------------------
(* The audit chain.                                                         *)
Positions == Nat \X Nat

(* The order of rows is total.                                              *)
LEMMA RowsAreOrdered ==
    ASSUME NEW k \in Positions, NEW l \in Positions, NEW m \in Positions
    PROVE  /\ ~Precedes(k, k)
           /\ Precedes(k, l) => ~Precedes(l, k)
           /\ Precedes(k, l) /\ Precedes(l, m) => Precedes(k, m)
           /\ k = l \/ Precedes(k, l) \/ Precedes(l, k)
  BY DEF Positions, Precedes

(* Any rows have an earliest and a latest one.                              *)
LEMMA EndsExist ==
    ASSUME NEW S, IsFiniteSet(S), S # {}, NEW key, \A e \in S : key[e] \in Positions
    PROVE  /\ \E e \in S : \A d \in S : ~Precedes(key[d], key[e])
           /\ \E e \in S : \A d \in S : ~Precedes(key[e], key[d])
<1>. DEFINE Earliest(T) == \E e \in T : \A d \in T : ~Precedes(key[d], key[e])
            Latest(T) == \E e \in T : \A d \in T : ~Precedes(key[e], key[d])
            G == {T \in SUBSET S : T # {} => Earliest(T) /\ Latest(T)}
<1>1. ASSUME NEW T \in SUBSET S, \A U \in SUBSET T : U # T => U \in G, T # {}
      PROVE  Earliest(T) /\ Latest(T)
  <2>1. PICK x \in T : TRUE
    BY <1>1
  <2>2. CASE T \ {x} = {}
    <3>1. T = {x}
      BY <2>1, <2>2
    <3>. QED BY <3>1, RowsAreOrdered
  <2>3. CASE T \ {x} # {}
    <3>1. T \ {x} \in G
      BY <1>1, <2>1
    <3>2. PICK e \in T \ {x} : \A d \in T \ {x} : ~Precedes(key[d], key[e])
      BY <3>1, <2>3
    <3>3. PICK f \in T \ {x} : \A d \in T \ {x} : ~Precedes(key[f], key[d])
      BY <3>1, <2>3
    <3>4. Earliest(T)
      <4>1. CASE Precedes(key[x], key[e])
        <5>1. \A d \in T : ~Precedes(key[d], key[x])
          BY <4>1, <3>2, RowsAreOrdered
        <5>. QED BY <5>1, <2>1
      <4>2. CASE ~Precedes(key[x], key[e])
        BY <4>2, <3>2
      <4>. QED BY <4>1, <4>2
    <3>5. Latest(T)
      <4>1. CASE Precedes(key[f], key[x])
        <5>1. \A d \in T : ~Precedes(key[x], key[d])
          BY <4>1, <3>3, RowsAreOrdered
        <5>. QED BY <5>1, <2>1
      <4>2. CASE ~Precedes(key[f], key[x])
        BY <4>2, <3>3
      <4>. QED BY <4>1, <4>2
    <3>. QED BY <3>4, <3>5
  <2>. QED BY <2>2, <2>3
<1>2. \A T \in SUBSET S : (\A U \in SUBSET T : U # T => U \in G) => T \in G
  BY <1>1
<1>3. S \in G
  <2>. HIDE DEF G
  <2>. QED BY <1>2, SetInduction
<1>. QED BY <1>3

(* The rows a batch was made of.                                            *)
Members(n) == {r[1][2] : r \in batches[n].hash.rows}

AuditRows == [state: {"unused", "open", "stored", "lost"}, at: 0..MaxTime,
              text: {"original", "changed"}]

AuditShape ==
    /\ now \in 0..MaxTime /\ row \in [Events -> AuditRows] /\ damaged \subseteq Events
    /\ \E S : batches \in Seq(S)

(* Batch n records the rows it was made of, in its place in the chain.      *)
Chained(n) ==
    /\ Members(n) \subseteq Events
    /\ batches[n].hash =
          [previous |-> IF n = 1 THEN "GENESIS" ELSE batches[n - 1].hash,
           rows |-> {<<Key(e), "original">> : e \in Members(n)}]
    /\ batches[n].count = Cardinality(Members(n))
    /\ batches[n].first \in Positions /\ batches[n].last \in Positions
    /\ \E e \in Members(n) : batches[n].first = Key(e)
    /\ \E e \in Members(n) : batches[n].last = Key(e)
    /\ \A e \in Members(n) :
          /\ ~Precedes(Key(e), batches[n].first) /\ ~Precedes(batches[n].last, Key(e))
          /\ Past(n - 1, e) /\ row[e].state \in {"stored", "lost"}

Ascending ==
    \A m, n \in DOMAIN batches : m < n => Precedes(batches[m].last, batches[n].last)

(* What is damaged is in the chain, and nothing else is lost or changed.    *)
DamageIsChained ==
    /\ \A e \in damaged : \E n \in DOMAIN batches : e \in Members(n)
    /\ \A e \in Events : e \in damaged <=> row[e].state = "lost" \/ row[e].text = "changed"

ChainKept == AuditShape /\ Ascending /\ DamageIsChained /\ \A n \in DOMAIN batches : Chained(n)
ChainInv == ChainKept /\ (verdict.status # "NONE" => VerdictIsTrue)

LEMMA KeysAreRows ==
    ASSUME AuditShape
    PROVE  /\ \A e \in Events : Key(e) \in Positions /\ Key(e)[1] = row[e].at /\ Key(e)[2] = e
           /\ \A e, d \in Events : Key(e) = Key(d) => e = d
  BY AuditAssumption DEF AuditAssumption, AuditShape, AuditRows, Key, Positions

(* The ends of a set of rows.                                               *)
LEMMA EndsOfRows ==
    ASSUME AuditShape, NEW S \in SUBSET Events, S # {}
    PROVE  /\ IsFiniteSet(S)
           /\ FirstOf(S) \in S /\ \A d \in S : ~Precedes(Key(d), Key(FirstOf(S)))
           /\ LastOf(S) \in S /\ \A d \in S : ~Precedes(Key(LastOf(S)), Key(d))
<1>. DEFINE key == [e \in Events |-> Key(e)]
<1>1. IsFiniteSet(S)
  BY AuditAssumption, FS_Subset DEF AuditAssumption
<1>2. \A e \in Events : key[e] = Key(e) /\ key[e] \in Positions
  BY KeysAreRows
<1>3. /\ \E e \in S : \A d \in S : ~Precedes(key[d], key[e])
      /\ \E e \in S : \A d \in S : ~Precedes(key[e], key[d])
  <2>. HIDE DEF key
  <2>. QED BY <1>1, <1>2, EndsExist
<1>4. /\ \E e \in S : \A d \in S : ~Precedes(Key(d), Key(e))
      /\ \E e \in S : \A d \in S : ~Precedes(Key(e), Key(d))
  BY <1>2, <1>3
<1>. QED BY <1>1, <1>4 DEF FirstOf, LastOf

(* A row that is found for a batch and none of its own has strayed.         *)
LEMMA FoundOrStray ==
    ASSUME ChainKept, NEW n \in DOMAIN batches, NEW e \in RowsOf(n), e \notin Members(n)
    PROVE  e \in Stray /\ InRange(n, Key(e))
<1>0. n \in Nat \ {0} /\ n <= Len(batches) /\ Len(batches) \in DOMAIN batches /\ e \in Events
  BY DEF ChainKept, AuditShape, RowsOf, Stored
<1>1. Key(e) \in Positions /\ \A m \in DOMAIN batches : batches[m].last \in Positions
  BY <1>0, KeysAreRows DEF ChainKept, Chained
<1>2. InRange(n, Key(e))
  BY <1>0 DEF InRange, RowsOf, Past
<1>3. ~Past(Len(batches), e)
  <2>1. CASE n = Len(batches)
    BY <2>1, <1>0 DEF RowsOf, Past
  <2>2. CASE n < Len(batches)
    <3>1. Precedes(batches[n].last, batches[Len(batches)].last)
      BY <2>2, <1>0 DEF ChainKept, Ascending
    <3>. QED BY <3>1, <1>0, <1>1, <1>2, RowsAreOrdered DEF Past, InRange
  <2>. QED BY <2>1, <2>2, <1>0
<1>4. ASSUME NEW m \in DOMAIN batches, Key(e) \in Covered(m) PROVE FALSE
  <2>1. e \in Members(m)
    BY <1>4, <1>0, KeysAreRows DEF ChainKept, Covered, Members
  <2>2. m \in Nat \ {0} /\ ~Precedes(batches[m].last, Key(e)) /\ Past(m - 1, e)
    <3>1. m \in Nat \ {0} /\ Chained(m)
      BY <1>4 DEF ChainKept, AuditShape
    <3>. QED BY <3>1, <2>1 DEF Chained
  <2>3. CASE m < n
    <3>1. n - 1 \in DOMAIN batches /\ m <= n - 1 /\ Precedes(batches[n - 1].last, Key(e))
      BY <2>3, <2>2, <1>0 DEF RowsOf, Past, ChainKept, AuditShape
    <3>2. m = n - 1 \/ Precedes(batches[m].last, batches[n - 1].last)
      BY <3>1, <2>2, <1>0 DEF ChainKept, Ascending
    <3>. QED BY <3>1, <3>2, <2>2, <1>1, <1>4, RowsAreOrdered
  <2>4. CASE n < m
    <3>1. m - 1 \in DOMAIN batches /\ n <= m - 1 /\ Precedes(batches[m - 1].last, Key(e))
      BY <2>4, <2>2, <1>0 DEF Past, ChainKept, AuditShape
    <3>2. n = m - 1 \/ Precedes(batches[n].last, batches[m - 1].last)
      BY <3>1, <2>2, <1>0 DEF ChainKept, Ascending
    <3>. QED BY <3>1, <3>2, <1>2, <1>1, <1>0, RowsAreOrdered DEF InRange
  <2>. QED BY <2>1, <2>2, <2>3, <2>4, <1>0
<1>. QED BY <1>0, <1>2, <1>3, <1>4 DEF Stray, RowsOf

(* A batch matches exactly when its rows are all there, and no others.      *)
LEMMA MatchesSo ==
    ASSUME ChainKept, NEW n \in DOMAIN batches
    PROVE  Matches(n) <=> /\ RowsOf(n) = Members(n)
                          /\ \A e \in Members(n) : row[e].text = "original"
<1>. DEFINE T == Members(n)
            R == RowsOf(n)
<1>0. /\ n \in Nat \ {0} /\ Chained(n) /\ AuditShape
      /\ R \subseteq Events /\ T \subseteq Events
  BY DEF ChainKept, AuditShape, RowsOf, Stored, Chained
<1>1. Hash(n - 1, R) = batches[n].hash
        <=> {<<Key(e), row[e].text>> : e \in R} = {<<Key(e), "original">> : e \in T}
  <2>1. (IF n - 1 = 0 THEN "GENESIS" ELSE batches[n - 1].hash) =
           (IF n = 1 THEN "GENESIS" ELSE batches[n - 1].hash)
    BY <1>0
  <2>2. PICK previous : previous = IF n = 1 THEN "GENESIS" ELSE batches[n - 1].hash
    OBVIOUS
  <2>3. batches[n].hash = [previous |-> previous, rows |-> {<<Key(e), "original">> : e \in T}]
    BY <2>2, <1>0 DEF Chained
  <2>4. Hash(n - 1, R) = [previous |-> previous, rows |-> {<<Key(e), row[e].text>> : e \in R}]
    BY <2>1, <2>2 DEF Hash
  <2>5. \A x, y : [previous |-> previous, rows |-> x] = [previous |-> previous, rows |-> y] <=> x = y
    <3>1. ASSUME NEW x, NEW y, [previous |-> previous, rows |-> x] = [previous |-> previous, rows |-> y]
          PROVE  x = y
      <4>1. [previous |-> previous, rows |-> x].rows = [previous |-> previous, rows |-> y].rows
        BY <3>1
      <4>. QED BY <4>1
    <3>. QED BY <3>1
  <2>. QED BY Zenon, <2>3, <2>4, <2>5
<1>2. {<<Key(e), row[e].text>> : e \in R} = {<<Key(e), "original">> : e \in T}
        <=> R = T /\ \A e \in T : row[e].text = "original"
  <2>1. ASSUME {<<Key(e), row[e].text>> : e \in R} = {<<Key(e), "original">> : e \in T}
        PROVE  R = T /\ \A e \in T : row[e].text = "original"
    <3>1. ASSUME NEW e \in R PROVE e \in T /\ row[e].text = "original"
      <4>1. PICK d \in T : <<Key(e), row[e].text>> = <<Key(d), "original">>
        BY <2>1
      <4>2. Key(e) = Key(d) /\ row[e].text = "original"
        BY <4>1
      <4>. QED BY <4>2, <1>0, KeysAreRows
    <3>2. ASSUME NEW e \in T PROVE e \in R
      <4>1. PICK d \in R : <<Key(d), row[d].text>> = <<Key(e), "original">>
        BY <2>1
      <4>2. Key(d) = Key(e)
        BY <4>1
      <4>. QED BY <4>2, <1>0, KeysAreRows
    <3>. QED BY <3>1, <3>2
  <2>2. ASSUME R = T, \A e \in T : row[e].text = "original"
        PROVE  {<<Key(e), row[e].text>> : e \in R} = {<<Key(e), "original">> : e \in T}
    BY <2>2
  <2>. QED BY <2>1, <2>2
<1>3. ASSUME R = T
      PROVE  /\ Cardinality(R) = batches[n].count
             /\ Key(FirstOf(R)) = batches[n].first /\ Key(LastOf(R)) = batches[n].last
  <2>1. PICK f \in T, l \in T : /\ batches[n].first = Key(f) /\ batches[n].last = Key(l)
                                /\ \A e \in T : ~Precedes(Key(e), Key(f)) /\ ~Precedes(Key(l), Key(e))
    BY <1>0 DEF Chained
  <2>2. /\ FirstOf(T) \in T /\ \A d \in T : ~Precedes(Key(d), Key(FirstOf(T)))
        /\ LastOf(T) \in T /\ \A d \in T : ~Precedes(Key(LastOf(T)), Key(d))
    BY <2>1, <1>0, EndsOfRows
  <2>3. Key(f) = Key(FirstOf(T)) /\ Key(l) = Key(LastOf(T))
    <3>1. \A e \in T : Key(e) \in Positions
      BY <1>0, KeysAreRows
    <3>. QED BY <3>1, <2>1, <2>2, RowsAreOrdered
  <2>. QED BY <2>1, <2>3, <1>3, <1>0 DEF Chained
<1>. QED BY <1>1, <1>2, <1>3 DEF Matches

(* The keys of a batch are those of its rows.                               *)
LEMMA CoveredRows ==
    ASSUME ChainKept, NEW n \in DOMAIN batches, NEW e \in Events
    PROVE  Key(e) \in Covered(n) <=> e \in Members(n)
<1>1. AuditShape /\ Chained(n)
  BY DEF ChainKept
<1>2. batches[n].hash.rows = {<<Key(d), "original">> : d \in Members(n)} /\ Members(n) \subseteq Events
  BY <1>1 DEF Chained
<1>3. ASSUME Key(e) \in Covered(n) PROVE e \in Members(n)
  <2>1. PICK r \in batches[n].hash.rows : Key(e) = r[1]
    BY <1>3 DEF Covered
  <2>2. PICK d \in Members(n) : r = <<Key(d), "original">>
    BY <1>2, <2>1
  <2>. QED BY <2>1, <2>2, <1>1, <1>2, KeysAreRows
<1>4. ASSUME e \in Members(n) PROVE Key(e) \in Covered(n)
  <2>1. <<Key(e), "original">> \in batches[n].hash.rows
    BY <1>2, <1>4
  <2>. QED BY <2>1 DEF Covered
<1>. QED BY <1>3, <1>4

(* A verification, which adds its own row, tells which batches are unharmed. *)
LEMMA VerifyTells ==
    ASSUME ChainKept, NEW own \in Events, NEW from, NEW limit, Verify(own, from, limit),
           NEW n \in DOMAIN batches
    PROVE  Intact(n)' <=> Matches(n)
<1>1. /\ AuditShape /\ Chained(n) /\ n \in Nat \ {0}
      /\ \A e \in Events : e \in damaged <=> row[e].state = "lost" \/ row[e].text = "changed"
      /\ batches' = batches /\ damaged' = damaged /\ verdict'.own = own
      /\ row[own].state = "unused" /\ row' = [row EXCEPT ![own].state = "stored", ![own].at = now]
      /\ row \in [Events -> AuditRows] /\ damaged \subseteq Events
  BY DEF ChainKept, AuditShape, DamageIsChained, Verify, Log
<1>2. ASSUME NEW m \in DOMAIN batches PROVE own \notin Members(m)
  BY <1>1, <1>2 DEF ChainKept, Chained
<1>3. own \notin damaged /\ own \notin Stored
  BY <1>1, <1>2 DEF ChainKept, DamageIsChained, Stored
<1>4. \A e \in Events \ {own} : row'[e] = row[e] /\ Key(e)' = Key(e)
  BY <1>1 DEF Key
<1>5. Covered(n)' = Covered(n) /\ \A m \in DOMAIN batches : Covered(m)' = Covered(m)
  BY <1>1 DEF Covered
<1>6. \A e \in Events \ {own} : e \in Stray' <=> e \in Stray
  BY <1>1, <1>4, <1>5 DEF Stray, Stored, Past
<1>7. \A e \in Events \ {own} : InRange(n, Key(e))' <=> InRange(n, Key(e))
  BY <1>1, <1>4 DEF InRange
<1>8. Intact(n)' <=> /\ \A d \in damaged : Key(d) \notin Covered(n)
                     /\ \A e \in Stray : ~InRange(n, Key(e))
  <2>1. Stray \subseteq Events \ {own} /\ Stray' \subseteq Events /\ damaged \subseteq Events \ {own}
    BY <1>1, <1>3 DEF Stray, Stored
  <2>2. \A d \in damaged : Key(d)' \in Covered(n)' <=> Key(d) \in Covered(n)
    BY <2>1, <1>4, <1>5
  <2>3. Stray' \ {own} = Stray
    BY <2>1, <1>6
  <2>. QED BY <2>1, <2>2, <2>3, <1>1, <1>3, <1>7 DEF Intact
<1>9. ASSUME \A d \in damaged : Key(d) \notin Covered(n), \A e \in Stray : ~InRange(n, Key(e))
      PROVE  Matches(n)
  <2>1. ASSUME NEW e \in Members(n) PROVE e \in RowsOf(n) /\ row[e].text = "original"
    <3>1. e \in Events /\ row[e].state \in {"stored", "lost"}
          /\ ~Precedes(batches[n].last, Key(e)) /\ Past(n - 1, e)
      BY <1>1 DEF Chained
    <3>2. e \notin damaged
      BY <3>1, <1>9, CoveredRows
    <3>. QED BY <3>1, <3>2, <1>1 DEF RowsOf, Stored, AuditRows
  <2>2. \A e \in RowsOf(n) : e \in Members(n)
    BY <1>9, FoundOrStray
  <2>. QED BY <2>1, <2>2, MatchesSo
<1>10. ASSUME Matches(n)
       PROVE  (\A d \in damaged : Key(d) \notin Covered(n)) /\ (\A e \in Stray : ~InRange(n, Key(e)))
  <2>1. RowsOf(n) = Members(n) /\ \A e \in Members(n) : row[e].text = "original"
    BY <1>10, MatchesSo
  <2>2. ASSUME NEW d \in damaged, Key(d) \in Covered(n) PROVE FALSE
    <3>1. d \in Members(n) /\ d \in Events
      BY <2>2, <1>1, CoveredRows
    <3>. QED BY <3>1, <2>1, <2>2, <1>1 DEF RowsOf, Stored
  <2>3. ASSUME NEW e \in Stray, InRange(n, Key(e)) PROVE FALSE
    <3>1. e \in RowsOf(n) /\ e \in Events
      BY <2>3, <1>1 DEF Stray, Stored, RowsOf, InRange, Past
    <3>2. Key(e) \in Covered(n)
      BY <3>1, <2>1, CoveredRows
    <3>. QED BY <3>2, <2>3 DEF Stray
  <2>. QED BY <2>2, <2>3
<1>. QED BY <1>8, <1>9, <1>10

LEMMA VerdictTells ==
    ASSUME ChainKept, NEW own \in Events, NEW from \in 1..(MaxBatches + 1), NEW limit \in Limits,
           Verify(own, from, limit)
    PROVE  VerdictIsTrue'
<1>. DEFINE last == IF from + limit - 1 < Len(batches) THEN from + limit - 1 ELSE Len(batches)
            Checks(n) == /\ \A i \in from..(from + n - 1) : Matches(i)
                         /\ from + n <= last => ~Matches(from + n)
            checked == CHOOSE n \in 0..(last + 1 - from) : Checks(n)
            N == {n \in 0..(last + 1 - from) : \A i \in from..(from + n - 1) : Matches(i)}
<1>0. /\ Len(batches) \in Nat /\ DOMAIN batches = 1..Len(batches) /\ limit \in Nat \ {0}
      /\ from \in 1..(Len(batches) + 1)
  BY AuditAssumption DEF AuditAssumption, ChainKept, AuditShape, Verify
<1>1. last \in Nat /\ last <= Len(batches) /\ last + 1 - from \in Nat /\ from \in Nat \ {0}
  BY <1>0
<1>2. \E n \in 0..(last + 1 - from) : Checks(n)
  <2>1. 0 \in N
    BY <1>1
  <2>2. IsFiniteSet(0..(last + 1 - from)) /\ N \subseteq 0..(last + 1 - from)
    BY <1>1, FS_Interval
  <2>3. IsFiniteSet(N) /\ \A n \in N : n \in Int
    BY <2>2, <1>1, FS_Subset
  <2>4. PICK n \in N : \A m \in N : n >= m
    <3>. HIDE DEF N, last
    <3>. QED BY <2>1, <2>3, GreatestExists
  <2>5. ASSUME from + n <= last, Matches(from + n) PROVE FALSE
    <3>1. n + 1 \in 0..(last + 1 - from)
      BY <2>5, <1>1
    <3>2. \A i \in from..(from + (n + 1) - 1) : i = from + n \/ i \in from..(from + n - 1)
      BY <1>1
    <3>3. n + 1 \in N
      BY <3>1, <3>2, <2>5
    <3>. QED BY <3>3, <2>4, <2>2, <1>1
  <2>. QED BY <2>5
<1>3. checked \in 0..(last + 1 - from) /\ Checks(checked)
  <2>. HIDE DEF last, Checks
  <2>. QED BY <1>2
<1>4. verdict' = [status |-> IF from + checked <= last THEN "INVALID"
                             ELSE IF from > Len(batches) THEN "EMPTY"
                             ELSE IF last < Len(batches) THEN "PARTIAL" ELSE "VALID",
                  from |-> from, count |-> checked, own |-> own]
  BY DEF Verify
<1>. HIDE DEF checked
<1>5. \A n \in DOMAIN batches : Intact(n)' <=> Matches(n)
  BY VerifyTells
<1>6. PICK passed : passed = checked
  OBVIOUS
<1>7. passed \in 0..(last + 1 - from) /\ Checks(passed)
  BY <1>3, <1>6
<1>8. ASSUME NEW n \in from..(from + passed - 1) PROVE Intact(n)'
  <2>1. n \in DOMAIN batches /\ Matches(n)
    BY <1>0, <1>1, <1>6, <1>7
  <2>. QED BY <2>1, <1>5
<1>9. ASSUME verdict'.status = "INVALID" PROVE ~Intact(from + passed)'
  <2>1. from + passed \in DOMAIN batches /\ ~Matches(from + passed)
    BY <1>0, <1>1, <1>4, <1>6, <1>7, <1>9
  <2>. QED BY <2>1, <1>5
<1>10. verdict'.from = from /\ verdict'.count = passed
  BY <1>4, <1>6
<1>11. (\A n \in from..(from + passed - 1) : Intact(n)') <=>
           \A n \in verdict'.from..(verdict'.from + verdict'.count - 1) : Intact(n)'
  BY <1>10
<1>12. Intact(verdict.from + verdict.count)' <=> Intact(from + passed)'
  BY <1>10 DEF Intact, InRange, Covered
<1>. QED BY <1>8, <1>9, <1>11, <1>12 DEF VerdictIsTrue

(* As long as chained rows keep their times, the chain stays what it was.   *)
LEMMA ChainStays ==
    ASSUME ChainKept, AuditShape', DamageIsChained', batches' = batches,
           \A n \in DOMAIN batches : \A e \in Members(n) :
               row'[e].at = row[e].at /\ row'[e].state \in {"stored", "lost"}
    PROVE  ChainKept'
<1>1. ASSUME NEW n \in DOMAIN batches PROVE Chained(n)'
  <2>1. Chained(n) /\ Members(n)' = Members(n)
    BY DEF ChainKept, Members
  <2>2. \A e \in Members(n) : Key(e)' = Key(e) /\ Past(n - 1, e)' = Past(n - 1, e)
    BY DEF Key, Past
  <2>3. {<<Key(e), "original">> : e \in Members(n)}' = {<<Key(e), "original">> : e \in Members(n)}
    BY <2>1, <2>2
  <2>. QED BY <2>1, <2>2, <2>3 DEF Chained
<1>2. Ascending'
  BY DEF ChainKept, Ascending
<1>. QED BY <1>1, <1>2 DEF ChainKept

(* The row a command writes of itself was not in use, so it is no part of    *)
(* the chain and not damaged.                                               *)
LEMMA OwnRow ==
    ASSUME ChainKept, NEW own \in Events, row[own].state \in {"unused", "open"}
    PROVE  own \notin damaged /\ \A n \in DOMAIN batches : own \notin Members(n)
  BY DEF ChainKept, Chained, DamageIsChained

(* A row that is not stored yet moves on.                                   *)
LEMMA RowMoves ==
    ASSUME ChainKept, NEW own \in Events, row[own].state \in {"unused", "open"},
           NEW state \in {"unused", "open", "stored"}, NEW at \in 0..MaxTime,
           row' = [row EXCEPT ![own].state = state, ![own].at = at],
           batches' = batches, damaged' = damaged, now' \in 0..MaxTime
    PROVE  ChainKept'
<1>0. /\ AuditShape /\ DamageIsChained /\ own \notin damaged
      /\ \A n \in DOMAIN batches : own \notin Members(n) /\ Members(n) \subseteq Events
      /\ \A n \in DOMAIN batches : \A e \in Members(n) : row[e].state \in {"stored", "lost"}
  BY OwnRow DEF ChainKept, Chained
<1>1. row' \in [Events -> AuditRows] /\ \A e \in Events \ {own} : row'[e] = row[e]
  BY <1>0 DEF AuditShape, AuditRows
<1>2. row'[own].state = state /\ row'[own].text = row[own].text
  BY <1>0 DEF AuditShape, AuditRows
<1>3. AuditShape'
  BY <1>0, <1>1 DEF AuditShape
<1>4. DamageIsChained'
  BY <1>0, <1>1, <1>2 DEF DamageIsChained, Members
<1>. QED BY <1>0, <1>1, <1>3, <1>4, ChainStays

LEMMA DamageKeeps ==
    ASSUME ChainKept, NEW e \in Events, NEW how, Damage(e, how)
    PROVE  ChainKept'
<1>0. /\ AuditShape /\ DamageIsChained /\ row[e].state = "stored"
      /\ batches' = batches /\ now' = now /\ damaged' = damaged \cup {e}
      /\ row' = IF how = "change" THEN [row EXCEPT ![e].text = "changed"]
                ELSE [row EXCEPT ![e].state = "lost"]
  BY DEF ChainKept, Damage, Stored
<1>1. row' \in [Events -> AuditRows] /\ \A d \in Events \ {e} : row'[d] = row[d]
  BY <1>0 DEF AuditShape, AuditRows
<1>2. /\ row'[e].at = row[e].at /\ row'[e].state \in {"stored", "lost"}
      /\ row'[e].state = "lost" \/ row'[e].text = "changed"
  BY <1>0 DEF AuditShape, AuditRows
<1>3. PICK n \in DOMAIN batches : e \in Members(n)
  BY CoveredRows DEF Damage
<1>4. AuditShape'
  BY <1>0, <1>1 DEF AuditShape
<1>5. DamageIsChained'
  <2>1. \A m \in DOMAIN batches : Members(m)' = Members(m)
    BY <1>0 DEF Members
  <2>. QED BY <2>1, <1>0, <1>1, <1>2, <1>3 DEF DamageIsChained
<1>6. \A m \in DOMAIN batches : \A d \in Members(m) :
          row'[d].at = row[d].at /\ row'[d].state \in {"stored", "lost"}
  BY <1>1, <1>2 DEF ChainKept, Chained
<1>. QED BY <1>0, <1>4, <1>5, <1>6, ChainStays

(* A new batch takes rows that follow all others.                           *)
LEMMA BatchKeeps ==
    ASSUME ChainKept, NEW own \in Events, NEW through \in 0..MaxTime, NEW limit \in Limits,
           CreateBatch(own, through, limit)
    PROVE  ChainKept'
<1>pick. PICK S, L : S = Take(limit, Unchained(through)) /\ L = Len(batches)
  OBVIOUS
<1>. DEFINE new == [first |-> Key(FirstOf(S)), last |-> Key(LastOf(S)),
                    count |-> Cardinality(S), hash |-> Hash(L, S)]
<1>0. /\ AuditShape /\ DamageIsChained /\ S # {} /\ batches' = Append(batches, new)
      /\ row[own].state = "unused" /\ row' = [row EXCEPT ![own].state = "stored", ![own].at = now]
      /\ damaged' = damaged /\ now' = now
  BY <1>pick DEF ChainKept, CreateBatch, Log
<1>1. S \subseteq Events /\ \A e \in S : row[e].state = "stored" /\ Past(L, e)
  BY <1>pick DEF Take, Unchained, Stored
<1>2. /\ FirstOf(S) \in S /\ \A d \in S : ~Precedes(Key(d), Key(FirstOf(S)))
      /\ LastOf(S) \in S /\ \A d \in S : ~Precedes(Key(LastOf(S)), Key(d))
  BY <1>0, <1>1, EndsOfRows
<1>3. /\ L \in Nat /\ DOMAIN batches = 1..L /\ DOMAIN batches' = 1..(L + 1)
      /\ \A n \in 1..L : batches'[n] = batches[n]
      /\ batches'[L + 1] = new /\ \E B : batches' \in Seq(B)
  <2>1. PICK B : batches \in Seq(B)
    BY <1>0 DEF AuditShape
  <2>2. batches' \in Seq(B \cup {new})
    <3>. HIDE DEF new
    <3>. QED BY <2>1, <1>0
  <2>. HIDE DEF new
  <2>. QED BY <2>1, <2>2, <1>0, <1>pick
<1>. HIDE DEF new
<1>new. /\ new.first = Key(FirstOf(S)) /\ new.last = Key(LastOf(S)) /\ new.count = Cardinality(S)
        /\ new.hash = Hash(L, S)
  BY DEF new
<1>old. /\ \A n \in 1..L : n \in Nat \ {0} /\ L \in 1..L /\ Chained(n) /\ batches[n].last \in Positions
        /\ \A n \in 1..L : n = L \/ Precedes(batches[n].last, batches[L].last)
        /\ \A e \in Events : Past(L, e) <=> L = 0 \/ Precedes(batches[L].last, Key(e))
  <2>1. \A n \in 1..L : Chained(n)
    BY <1>3 DEF ChainKept
  <2>2. \A n \in 1..L : batches[n].last \in Positions
    BY <2>1 DEF Chained
  <2>3. \A n \in 1..L : n \in Nat \ {0} /\ L \in 1..L
    BY <1>3
  <2>4. \A n \in 1..L : n = L \/ Precedes(batches[n].last, batches[L].last)
    BY <2>3, <1>3 DEF ChainKept, Ascending
  <2>. QED BY <2>1, <2>2, <2>3, <2>4 DEF Past
<1>4. /\ own \notin damaged /\ own \notin S /\ own \notin Stored
      /\ \A n \in 1..L : own \notin Members(n)
  BY <1>0, <1>1, <1>3, OwnRow DEF Stored
<1>5. row' \in [Events -> AuditRows] /\ \A e \in Events \ {own} : row'[e] = row[e] /\ Key(e)' = Key(e)
  BY <1>0 DEF AuditShape, AuditRows, Key
<1>6. AuditShape'
  BY <1>0, <1>3, <1>5 DEF AuditShape
(* No row of the batch was chained before, so none is damaged.              *)
<1>7. ASSUME NEW e \in S PROVE e \notin damaged /\ row[e].text = "original"
  <2>1. ASSUME NEW n \in 1..L, e \in Members(n) PROVE FALSE
    <3>1. Chained(n) /\ e \in Events /\ Key(e) \in Positions /\ batches[L].last \in Positions
          /\ batches[n].last \in Positions /\ ~Precedes(batches[n].last, Key(e))
      BY <1>0, <1>1, <1>old, <2>1, KeysAreRows DEF Chained
    <3>2. Precedes(batches[L].last, Key(e))
      BY <1>1, <1>old, <2>1, <3>1
    <3>3. n = L \/ Precedes(batches[n].last, batches[L].last)
      BY <1>old
    <3>. QED BY <3>1, <3>2, <3>3, RowsAreOrdered
  <2>2. e \notin damaged
    BY <2>1, <1>0, <1>3 DEF DamageIsChained
  <2>. QED BY <2>2, <1>0, <1>1 DEF DamageIsChained, AuditShape, AuditRows
<1>8. Members(L + 1)' = S
  <2>1. batches'[L + 1].hash.rows = {<<Key(e), row[e].text>> : e \in S}
    BY <1>3, <1>new DEF Hash
  <2>2. \A e \in S : <<Key(e), row[e].text>>[1][2] = e
    BY <1>0, <1>1, KeysAreRows
  <2>3. \A r \in batches'[L + 1].hash.rows : r[1][2] \in S
    BY <2>1, <2>2
  <2>4. \A e \in S : \E r \in batches'[L + 1].hash.rows : r[1][2] = e
    BY <2>1, <2>2
  <2>5. Members(L + 1)' = {r[1][2] : r \in batches'[L + 1].hash.rows}
    BY DEF Members
  <2>. QED BY <2>3, <2>4, <2>5
<1>9. Chained(L + 1)'
  <2>1. \A e \in S : e \in Events /\ e # own /\ Key(e)' = Key(e) /\ row'[e] = row[e] /\ Key(e) \in Positions
    BY <1>0, <1>1, <1>4, <1>5, KeysAreRows
  <2>2. {<<Key(e), row[e].text>> : e \in S} = {<<Key(e), "original">> : e \in S}'
    BY <2>1, <1>7
  <2>3. batches'[L + 1].hash =
           [previous |-> IF L + 1 = 1 THEN "GENESIS" ELSE batches'[L].hash,
            rows |-> {<<Key(e), "original">> : e \in S}']
    <3>1. L = 0 \/ batches'[L] = batches[L]
      BY <1>3
    <3>2. L \in Nat /\ (L = 0 <=> L + 1 = 1)
      BY <1>3
    <3>. QED BY <3>1, <3>2, <2>2, <1>3, <1>new DEF Hash
  <2>4. \A e \in S : L = 0 \/ Precedes(batches'[L].last, Key(e))
    BY <2>1, <1>1, <1>3, <1>old
  <2>5. batches'[L + 1].first = Key(FirstOf(S)) /\ batches'[L + 1].last = Key(LastOf(S))
        /\ batches'[L + 1].count = Cardinality(S)
    BY <1>3, <1>new
  <2>6. (L + 1) - 1 = L /\ L \in Nat
    BY <1>3
  <2>7. /\ \E e \in S : batches'[L + 1].first = Key(e)'
        /\ \E e \in S : batches'[L + 1].last = Key(e)'
    BY <2>1, <2>5, <1>2
  <2>8. batches'[L + 1].first \in Positions /\ batches'[L + 1].last \in Positions
    BY <2>1, <2>5, <1>2
  <2>9. \A e \in S : /\ ~Precedes(Key(e)', batches'[L + 1].first)
                     /\ ~Precedes(batches'[L + 1].last, Key(e)')
                     /\ Past(L, e)' /\ row'[e].state \in {"stored", "lost"}
    BY <2>1, <2>4, <2>5, <1>1, <1>2 DEF Past
  <2>10. {<<Key(e), "original">> : e \in S}' = {<<Key(e)', "original">> : e \in S}
    OBVIOUS
  <2>. QED BY <2>3, <2>5, <2>6, <2>7, <2>8, <2>9, <1>1, <1>8 DEF Chained
<1>10. ASSUME NEW n \in 1..L PROVE Chained(n)'
  <2>0. n \in Nat \ {0} /\ (n # 1 => n - 1 \in 1..L)
    BY <1>3
  <2>1. Chained(n) /\ batches'[n] = batches[n] /\ Members(n)' = Members(n)
        /\ (n # 1 => batches'[n - 1] = batches[n - 1]) /\ own \notin Members(n)
    BY <2>0, <1>3, <1>4, <1>old DEF Members
  <2>2. \A e \in Members(n) : e \in Events /\ e # own /\ row'[e] = row[e]
                              /\ Key(e)' = Key(e) /\ Past(n - 1, e)' = Past(n - 1, e)
    BY <2>1, <1>5 DEF Chained, Past
  <2>3. PICK T : T = Members(n)
    OBVIOUS
  <2>4. {<<Key(e), "original">> : e \in T}' = {<<Key(e), "original">> : e \in T}
    BY <2>2, <2>3
  <2>5. batches'[n].hash = [previous |-> IF n = 1 THEN "GENESIS" ELSE batches'[n - 1].hash,
                            rows |-> {<<Key(e), "original">> : e \in T}']
    BY <2>0, <2>1, <2>3, <2>4 DEF Chained
  <2>6. \A e \in T : Key(e)' = Key(e) /\ Past(n - 1, e)' = Past(n - 1, e) /\ row'[e] = row[e]
    BY <2>2, <2>3
  <2>7. /\ \E e \in T : batches'[n].first = Key(e)'
        /\ \E e \in T : batches'[n].last = Key(e)'
        /\ \A e \in T : /\ ~Precedes(Key(e)', batches'[n].first)
                        /\ ~Precedes(batches'[n].last, Key(e)')
                        /\ Past(n - 1, e)' /\ row'[e].state \in {"stored", "lost"}
    BY <2>1, <2>3, <2>6 DEF Chained
  <2>8. /\ T \subseteq Events /\ batches'[n].count = Cardinality(T)
        /\ batches'[n].first \in Positions /\ batches'[n].last \in Positions
    BY <2>1, <2>3 DEF Chained
  <2>. QED BY <2>1, <2>3, <2>5, <2>7, <2>8 DEF Chained
<1>11. Ascending'
  <2>1. ASSUME NEW m \in 1..L PROVE Precedes(batches'[m].last, batches'[L + 1].last)
    <3>1. batches'[m] = batches[m] /\ batches'[L + 1].last = Key(LastOf(S)) /\ L # 0 /\ m \in Nat
      BY <1>3, <1>new
    <3>2. Precedes(batches[L].last, Key(LastOf(S)))
      BY <3>1, <1>1, <1>2, <1>old
    <3>3. /\ batches[m].last \in Positions /\ batches[L].last \in Positions
          /\ Key(LastOf(S)) \in Positions
      BY <3>1, <1>0, <1>1, <1>2, <1>old, KeysAreRows
    <3>4. m = L \/ Precedes(batches[m].last, batches[L].last)
      BY <1>old
    <3>. QED BY <3>1, <3>2, <3>3, <3>4, RowsAreOrdered
  <2>2. \A m, n \in 1..L : m < n => Precedes(batches'[m].last, batches'[n].last)
    BY <1>3 DEF ChainKept, Ascending
  <2>. QED BY <2>1, <2>2, <1>3 DEF Ascending
<1>12. DamageIsChained'
  <2>1. \A n \in 1..L : Members(n)' = Members(n)
    BY <1>3 DEF Members
  <2>2. row'[own].state = "stored" /\ row'[own].text = row[own].text
    BY <1>0 DEF AuditShape, AuditRows
  <2>. QED BY <2>1, <2>2, <1>0, <1>3, <1>4, <1>5 DEF DamageIsChained
<1>13. \A n \in DOMAIN batches' : Chained(n)'
  BY <1>3, <1>9, <1>10
<1>. QED BY <1>6, <1>11, <1>12, <1>13 DEF ChainKept

LEMMA ChainStep == ChainInv /\ [AuditNext]_auditVars => ChainInv'
<1>. SUFFICES ASSUME ChainInv, [AuditNext]_auditVars PROVE ChainInv'
  OBVIOUS
<1>0. /\ ChainKept /\ now \in 0..MaxTime /\ MaxTime \in Nat
      /\ row \in [Events -> AuditRows]
  BY AuditAssumption DEF AuditAssumption, ChainInv, ChainKept, AuditShape
<1>. DEFINE Silent == verdict'.status = "NONE"
<1>1. CASE Tick
  <2>1. AuditShape' /\ DamageIsChained'
    BY <1>0, <1>1 DEF Tick, ChainKept, AuditShape, DamageIsChained, Members
  <2>2. \A n \in DOMAIN batches : \A e \in Members(n) :
            row'[e].at = row[e].at /\ row'[e].state \in {"stored", "lost"}
    BY <1>0, <1>1 DEF Tick, ChainKept, Chained
  <2>3. ChainKept'
    BY <2>1, <2>2, <1>0, <1>1, ChainStays DEF Tick
  <2>. QED BY <2>3, <1>1 DEF Tick, ChainInv, NoVerdict
<1>2. ASSUME NEW e \in Events, Begin(e) PROVE ChainInv'
  <2>1. row[e].state = "unused" /\ row' = [row EXCEPT ![e].state = "open", ![e].at = now]
        /\ batches' = batches /\ damaged' = damaged /\ now' = now /\ Silent
    BY <1>2 DEF Begin, NoVerdict
  <2>2. ChainKept'
    BY <2>1, <1>0, RowMoves
  <2>. QED BY <2>1, <2>2 DEF ChainInv
<1>3. ASSUME NEW e \in Events, Commit(e) PROVE ChainInv'
  <2>1. row[e].state = "open" /\ row' = [row EXCEPT ![e].state = "stored"]
        /\ batches' = batches /\ damaged' = damaged /\ now' = now /\ Silent
    BY <1>3 DEF Commit, NoVerdict
  <2>2. row[e].at \in 0..MaxTime
        /\ row' = [row EXCEPT ![e].state = "stored", ![e].at = row[e].at]
    BY <2>1, <1>0 DEF AuditRows
  <2>3. ChainKept'
    BY <2>1, <2>2, <1>0, RowMoves
  <2>. QED BY <2>1, <2>3 DEF ChainInv
<1>4. ASSUME NEW e \in Events, RollBack(e) PROVE ChainInv'
  <2>1. row[e].state = "open" /\ row' = [row EXCEPT ![e].state = "unused", ![e].at = 0]
        /\ batches' = batches /\ damaged' = damaged /\ now' = now /\ Silent
    BY <1>4 DEF RollBack, NoVerdict
  <2>2. 0 \in 0..MaxTime /\ row[e].state \in {"unused", "open"}
    BY <2>1, <1>0
  <2>3. ChainKept'
    BY <2>1, <2>2, <1>0, RowMoves
  <2>. QED BY <2>1, <2>3 DEF ChainInv
<1>5. ASSUME NEW e \in Events, NEW how \in {"change", "lose"}, Damage(e, how) PROVE ChainInv'
  <2>1. ChainKept' /\ Silent
    BY <1>0, <1>5, DamageKeeps DEF Damage, NoVerdict
  <2>. QED BY <2>1 DEF ChainInv
<1>6. ASSUME NEW own \in Events, NEW through \in 0..MaxTime, NEW limit \in Limits,
             CreateBatch(own, through, limit)
      PROVE  ChainInv'
  <2>1. ChainKept' /\ Silent
    BY <1>0, <1>6, BatchKeeps DEF CreateBatch, NoVerdict
  <2>. QED BY <2>1 DEF ChainInv
<1>7. ASSUME NEW own \in Events, NEW from \in 1..(MaxBatches + 1), NEW limit \in Limits,
             Verify(own, from, limit)
      PROVE  ChainInv'
  <2>1. row[own].state = "unused" /\ row' = [row EXCEPT ![own].state = "stored", ![own].at = now]
        /\ batches' = batches /\ damaged' = damaged /\ now' = now
    BY <1>7 DEF Verify, Log
  <2>2. ChainKept'
    BY <2>1, <1>0, RowMoves
  <2>3. VerdictIsTrue'
    BY <1>0, <1>7, VerdictTells
  <2>. QED BY <2>2, <2>3 DEF ChainInv
<1>8. CASE UNCHANGED auditVars
  <2>1. AuditShape' /\ DamageIsChained'
    BY <1>8 DEF auditVars, ChainInv, ChainKept, AuditShape, DamageIsChained, Members
  <2>2. \A n \in DOMAIN batches : \A e \in Members(n) :
            row'[e].at = row[e].at /\ row'[e].state \in {"stored", "lost"}
    BY <1>0, <1>8 DEF auditVars, ChainKept, Chained
  <2>3. ChainKept'
    BY <2>1, <2>2, <1>0, <1>8, ChainStays DEF auditVars
  <2>4. \A e : Key(e)' = Key(e)
    BY <1>8 DEF auditVars, Key
  <2>5. Stray' = Stray /\ \A n : Covered(n)' = Covered(n)
    BY <1>8, <2>4 DEF auditVars, Stray, Stored, Covered, Past
  <2>6. \A n : Intact(n)' <=> Intact(n)
    BY <1>8, <2>4, <2>5 DEF auditVars, Intact, InRange
  <2>7. verdict' = verdict
    BY <1>8 DEF auditVars
  <2>8. PICK next : next = verdict.from + verdict.count
    OBVIOUS
  <2>9. Intact(verdict.from + verdict.count)' <=> Intact(verdict.from + verdict.count)
    BY <2>6, <2>7, <2>8 DEF Intact, InRange, Covered
  <2>10. VerdictIsTrue' <=> VerdictIsTrue
    BY <2>6, <2>7, <2>9 DEF VerdictIsTrue
  <2>. QED BY <2>3, <2>7, <2>10 DEF ChainInv
<1>. QED BY <1>1, <1>2, <1>3, <1>4, <1>5, <1>6, <1>7, <1>8 DEF AuditNext

(* A new batch leaves no row behind that it could have taken.               *)
LEMMA NothingIsPassed ==
    ASSUME ChainKept, NEW own \in Events, NEW through \in 0..MaxTime, NEW limit \in Limits,
           CreateBatch(own, through, limit), NEW e \in Stray', row[e].state = "stored"
    PROVE  e \in Stray
<1>1. PICK S, U, L : /\ U = Unchained(through) /\ S = Take(limit, U) /\ L = Len(batches)
  OBVIOUS
<1>2. /\ AuditShape /\ S # {} /\ S \subseteq U /\ U \subseteq Events /\ limit \in Nat
      /\ row[own].state = "unused" /\ row' = [row EXCEPT ![own].state = "stored", ![own].at = now]
      /\ e \in Events /\ through \in Nat /\ L \in Nat
  <2>1. AuditShape /\ L \in Nat /\ limit \in Nat /\ through \in Nat
    BY <1>1, AuditAssumption DEF AuditAssumption, ChainKept, AuditShape
  <2>2. S \subseteq U /\ U \subseteq Events
    BY <1>1 DEF Take, Unchained, Stored
  <2>3. S # {} /\ row[own].state = "unused"
        /\ row' = [row EXCEPT ![own].state = "stored", ![own].at = now]
    BY <1>1 DEF CreateBatch, Log
  <2>. QED BY <2>1, <2>2, <2>3 DEF Stray, Stored
<1>3. Key(e)' = Key(e) /\ row'[e] = row[e]
  BY <1>2 DEF AuditShape, Key
<1>4. LastOf(S) \in S /\ S \subseteq Events
  BY <1>2, EndsOfRows
<1>5. PICK batch : batches' = Append(batches, batch) /\ batch.last = Key(LastOf(S))
                   /\ batch.hash = Hash(L, S)
  BY <1>1 DEF CreateBatch
<1>6. /\ DOMAIN batches = 1..L /\ Len(batches') = L + 1 /\ DOMAIN batches' = 1..(L + 1)
      /\ batches'[L + 1] = batch /\ \A n \in 1..L : batches'[n] = batches[n]
  BY <1>1, <1>2, <1>5 DEF AuditShape
<1>7. ~Precedes(Key(LastOf(S)), Key(e))
  BY <1>2, <1>3, <1>5, <1>6 DEF Stray, Past
<1>8. \A n \in 1..L : Key(e) \notin Covered(n)
  <2>1. \A n \in 1..L : n \in DOMAIN batches' /\ Covered(n)' = Covered(n)
    BY <1>6, <1>2 DEF Covered
  <2>2. \A n \in DOMAIN batches' : Key(e)' \notin Covered(n)'
    BY DEF Stray
  <2>. QED BY <2>1, <2>2, <1>3
<1>9. e \notin S
  <2>1. ASSUME e \in S PROVE <<Key(e), row[e].text>> \in batches'[L + 1].hash.rows
    BY <2>1, <1>5, <1>6 DEF Hash
  <2>2. ASSUME e \in S PROVE Key(e) \in Covered(L + 1)'
    <3>1. Covered(L + 1)' = {r[1] : r \in batches'[L + 1].hash.rows}
      BY DEF Covered
    <3>. QED BY <3>1, <2>1, <2>2
  <2>3. Key(e)' \notin Covered(L + 1)'
    BY <1>2, <1>6 DEF Stray
  <2>. QED BY <2>2, <2>3, <1>3
<1>10. CASE e \in U
  <2>. DEFINE d == LastOf(S)
              Before(x) == {y \in U : Precedes(Key(y), Key(x))}
  <2>1. \A x \in U : Key(x) \in Positions /\ IsFiniteSet(Before(x)) /\ Cardinality(Before(x)) \in Nat
    <3>1. IsFiniteSet(U)
      BY <1>2, AuditAssumption, FS_Subset DEF AuditAssumption
    <3>2. \A x \in U : IsFiniteSet(Before(x))
      BY <3>1, FS_Subset
    <3>. QED BY <3>2, <1>2, KeysAreRows, FS_CardinalityType
  <2>2. d \in U /\ Cardinality(Before(d)) < limit
    BY <1>1, <1>2, <1>4 DEF Take
  <2>3. ~Precedes(Key(d), Key(e))
    BY <1>7
  <2>4. Before(e) \subseteq Before(d)
    <3>1. ASSUME NEW y \in Before(e) PROVE y \in Before(d)
      <4>1. y \in U /\ Precedes(Key(y), Key(e))
        BY <3>1
      <4>2. Key(e) = Key(d) \/ Precedes(Key(e), Key(d))
        BY <1>10, <2>1, <2>2, <2>3, RowsAreOrdered
      <4>3. Precedes(Key(y), Key(d))
        BY <4>1, <4>2, <1>10, <2>1, <2>2, RowsAreOrdered
      <4>. QED BY <4>1, <4>3
    <3>. QED BY <3>1
  <2>5. Cardinality(Before(e)) <= Cardinality(Before(d))
    <3>. HIDE DEF Before, d
    <3>. QED BY <1>10, <2>1, <2>2, <2>4, FS_Subset
  <2>6. Cardinality(Before(e)) < limit
    <3>. HIDE DEF Before, d
    <3>. QED BY <1>10, <1>2, <2>1, <2>2, <2>5
  <2>7. e \in S
    BY <1>1, <1>10, <2>6 DEF Take
  <2>. QED BY <2>7, <1>9
<1>11. CASE e \notin U
  <2>1. row[e].at <= through
    <3>1. LastOf(S) \in Events /\ row[LastOf(S)].at <= through
      BY <1>1, <1>2, <1>4 DEF Unchained
    <3>2. Key(e) \in Positions /\ Key(LastOf(S)) \in Positions
          /\ Key(e)[1] = row[e].at /\ Key(LastOf(S))[1] = row[LastOf(S)].at
      BY <3>1, <1>2, KeysAreRows
    <3>3. Key(e)[1] <= Key(LastOf(S))[1]
      BY <3>2, <1>7 DEF Precedes, Positions
    <3>. QED BY <3>1, <3>2, <3>3, <1>2 DEF AuditShape, AuditRows
  <2>2. ~Past(L, e)
    BY <2>1, <1>1, <1>2, <1>11 DEF Unchained, Stored
  <2>3. batches # <<>>
    BY <2>2, <1>1, <1>6 DEF Past
  <2>. QED BY <2>2, <2>3, <1>1, <1>2, <1>6, <1>8 DEF Stray, Stored
<1>. QED BY <1>10, <1>11

LEMMA NothingStrays ==
    ASSUME ChainInv, [AuditNext]_auditVars, NEW e \in Stray', e \notin Stray
    PROVE  row[e].state # "stored"
<1>0. ChainKept /\ row \in [Events -> AuditRows] /\ e \in Events
  BY DEF ChainInv, ChainKept, AuditShape, Stray, Stored
<1>1. ASSUME NEW own \in Events, NEW through \in 0..MaxTime, NEW limit \in Limits,
             CreateBatch(own, through, limit)
      PROVE  row[e].state # "stored"
  BY <1>0, <1>1, NothingIsPassed
(* All other steps leave the chain as it is, and the times of stored rows.  *)
<1>2. ASSUME batches' = batches, row[e].state = "stored",
             row'[e].at = row[e].at
      PROVE  FALSE
  <2>1. Key(e)' = Key(e) /\ \A n \in DOMAIN batches : Covered(n)' = Covered(n)
    BY <1>2 DEF Key, Covered
  <2>. QED BY <2>1, <1>0, <1>2 DEF Stray, Stored, Past
<1>3. ASSUME NEW own \in Events, row[own].state # "stored", row[e].state = "stored",
             \/ row' = [row EXCEPT ![own].state = "open", ![own].at = now]
             \/ row' = [row EXCEPT ![own].state = "stored", ![own].at = now]
             \/ row' = [row EXCEPT ![own].state = "stored"]
             \/ row' = [row EXCEPT ![own].state = "unused", ![own].at = 0]
      PROVE  row'[e].at = row[e].at
  BY <1>0, <1>3
<1>4. CASE Tick \/ UNCHANGED auditVars
  BY <1>2, <1>4 DEF Tick, auditVars
<1>5. ASSUME NEW d \in Events, Begin(d) \/ Commit(d) \/ RollBack(d) PROVE row[e].state # "stored"
  BY <1>2, <1>3, <1>5 DEF Begin, Commit, RollBack
<1>6. ASSUME NEW d \in Events, NEW how \in {"change", "lose"}, Damage(d, how)
      PROVE  row[e].state # "stored"
  <2>1. row'[e].at = row[e].at
    BY <1>0, <1>6 DEF Damage, AuditRows
  <2>. QED BY <2>1, <1>2, <1>6 DEF Damage
<1>7. ASSUME NEW own \in Events, NEW from \in 1..(MaxBatches + 1), NEW limit \in Limits,
             Verify(own, from, limit)
      PROVE  row[e].state # "stored"
  BY <1>2, <1>3, <1>7 DEF Verify, Log
<1>. QED BY <1>1, <1>4, <1>5, <1>6, <1>7 DEF AuditNext

LEMMA ChainFirst == AuditInit => ChainInv
<1>. SUFFICES ASSUME AuditInit PROVE ChainInv
  OBVIOUS
<1>1. batches = <<>> /\ DOMAIN batches = {} /\ batches \in Seq({})
  BY DEF AuditInit
<1>2. AuditShape
  BY <1>1, AuditAssumption DEF AuditAssumption, AuditShape, AuditInit, AuditRows
<1>3. DamageIsChained /\ Ascending /\ \A n \in DOMAIN batches : Chained(n)
  BY <1>1 DEF DamageIsChained, Ascending, AuditInit
<1>. QED BY <1>2, <1>3 DEF ChainInv, ChainKept, AuditInit, NoVerdict

(* The chain can be relied on, for any number of rows, batches, limits,     *)
(* rows that share a time, and damage: a verification tells the truth of    *)
(* every batch, and no batch leaves a row behind that it could take         *)
(* (AuditIntegrityService).                                                 *)
THEOREM AuditChainIsReliable == Spec => ChainIsReliable
<1>1. Spec => []ChainInv
  BY AuditRuns, ChainFirst, ChainStep, PTL
<1>2. ChainInv => (verdict.status # "NONE" => VerdictIsTrue)
  BY DEF ChainInv
<1>3. ChainInv /\ [AuditNext]_auditVars =>
          [\A e \in Stray' \ Stray : row[e].state # "stored"]_auditVars
  BY NothingStrays
<1>. QED BY <1>1, <1>2, <1>3, AuditRuns, PTL DEF ChainIsReliable

-----------------------------------------------------------------------------
(* The till.  Orders and commands, without the bounds of the model.         *)
Statuses == {"NONE", "OPEN", "HELD", "PAYMENT_QUEUED", "COMPLETED"}
Edited == {"ADD", "REPLACE", "REMOVE", "SEND", "HOLD", "RESUME"}
OrderRecords ==
    [status: Statuses, revision: Nat, lines: [LineIds -> Nat], sent: SUBSET LineIds, paid: Nat]
CommandRecords ==
    [type: Edited \cup {"CREATE", "PAY"}, revision: Nat, line: LineIds \cup {0},
     wave: SUBSET LineIds, units: Nat, stopped: BOOLEAN]

Displayed == {shown, working, action, document, refresh.order}

(* A command for a line names it; what is added or replaced is something.   *)
Sensible(c) ==
    /\ c.type \in {"ADD", "REPLACE", "REMOVE"} => c.line \in LineIds
    /\ c.type \in {"ADD", "REPLACE"} => c.units > 0

AreSensible(q) == q \in Seq(CommandRecords) /\ \A n \in DOMAIN q : Sensible(q[n])

RuntimeShape ==
    /\ Displayed \cup {server} \subseteq OrderRecords /\ AreSensible(queue)
    /\ busy \in BOOLEAN /\ apart \in BOOLEAN
    /\ refresh.step \in {"none", "asked", "synchronizing", "completing", "read", "ending"}

(* What was sent stays on the order, and nothing is paid that is not.       *)
RuntimeOrders ==
    /\ \A o \in Displayed \cup {server} : o.sent \subseteq Standing(o)
    /\ \A o \in Displayed : o.paid <= server.paid

(* No action is under way while the sale is completed.                      *)
OneThing ==
    ~apart => /\ action # NoOrder => busy
              /\ refresh.step \in {"completing", "ending"} => busy /\ action = NoOrder

ScreenInStep ==
    (~apart /\ (shown # NoOrder \/ action # NoOrder))
        => InStep(IF action = NoOrder THEN shown ELSE action)

RuntimeInv == RuntimeShape /\ RuntimeOrders /\ OneThing /\ ScreenInStep

-----------------------------------------------------------------------------
(* What a queue makes of an order: the iteration of Advanced.                *)
From(o) == [order |-> o, accepted |-> TRUE]
Iterates(g, o, q) ==
    g = [n \in 0..Len(q) |-> IF n = 0 THEN From(o) ELSE Advanced(g[n - 1], q[n])]
Iteration(o, q) == CHOOSE g : Iterates(g, o, q)

LEMMA AheadIsIteration == \A o, q : AheadOf(o, q) = Iteration(o, q)[Len(q)]
  BY DEF AheadOf, Iteration, Iterates, From

(* What holds of 0 and of each next number holds up to any bound.           *)
LEMMA CountingUp ==
    ASSUME NEW N \in Nat, NEW G, 0 \in G, \A n \in 0..N : n \in G /\ n < N => n + 1 \in G
    PROVE  \A n \in 0..N : n \in G
<1>. DEFINE M == {m \in 0..N : \A n \in 0..m : n \in G}
<1>1. 0 \in M
  OBVIOUS
<1>2. IsFiniteSet(M) /\ \A m \in M : m \in Int
  <2>1. IsFiniteSet(0..N) /\ M \subseteq 0..N
    BY FS_Interval
  <2>. QED BY <2>1, FS_Subset
<1>3. PICK m \in M : \A n \in M : m >= n
  <2>. HIDE DEF M
  <2>. QED BY <1>1, <1>2, GreatestExists
<1>4. ASSUME m < N PROVE FALSE
  <2>1. m + 1 \in G /\ m + 1 \in 0..N /\ \A n \in 0..(m + 1) : n = m + 1 \/ n \in 0..m
    BY <1>4
  <2>2. m + 1 \in M
    BY <2>1
  <2>. QED BY <2>2, <1>3
<1>. QED BY <1>4

(* The iteration exists.                                                    *)
LEMMA IterationExists ==
    ASSUME NEW o, NEW S, NEW q \in Seq(S)
    PROVE  Iterates(Iteration(o, q), o, q)
<1>. DEFINE Upto(g, m) ==
               g = [n \in 0..m |-> IF n = 0 THEN From(o) ELSE Advanced(g[n - 1], q[n])]
            G == {m \in 0..Len(q) : \E g : Upto(g, m)}
<1>1. 0 \in G
  <2>1. Upto([n \in 0..0 |-> From(o)], 0)
    OBVIOUS
  <2>2. 0 \in 0..Len(q)
    OBVIOUS
  <2>. HIDE DEF Upto
  <2>. QED BY <2>1, <2>2
<1>2. ASSUME NEW m \in 0..Len(q), m \in G, m < Len(q) PROVE m + 1 \in G
  <2>1. PICK g : Upto(g, m)
    BY <1>2
  <2>. DEFINE h == [n \in 0..(m + 1) |-> IF n = m + 1 THEN Advanced(g[m], q[m + 1]) ELSE g[n]]
  <2>2. m \in Nat /\ m + 1 \in 0..Len(q)
    BY <1>2
  <2>3. ASSUME NEW n \in 0..(m + 1)
        PROVE  h[n] = IF n = 0 THEN From(o) ELSE Advanced(h[n - 1], q[n])
    <3>1. CASE n = m + 1
      <4>1. h[n] = Advanced(g[m], q[m + 1]) /\ h[m] = g[m] /\ n - 1 = m /\ n # 0
        BY <3>1, <2>2
      <4>. QED BY <4>1, <3>1
    <3>2. CASE n \in 1..m
      <4>1. h[n] = g[n] /\ h[n - 1] = g[n - 1] /\ n # 0 /\ n \in 0..m
        BY <3>2, <2>2
      <4>2. g[n] = Advanced(g[n - 1], q[n])
        BY <4>1, <2>1
      <4>. QED BY <4>1, <4>2
    <3>3. CASE n = 0
      <4>1. h[0] = g[0] /\ 0 \in 0..m
        BY <2>2
      <4>2. g[0] = From(o)
        BY <4>1, <2>1
      <4>. QED BY <4>1, <4>2, <3>3
    <3>. QED BY <3>1, <3>2, <3>3, <2>2
  <2>4. h = [n \in 0..(m + 1) |-> h[n]]
    OBVIOUS
  <2>5. Upto(h, m + 1)
    <3>. HIDE DEF h
    <3>. QED BY <2>3, <2>4
  <2>. HIDE DEF h, Upto
  <2>. QED BY <2>2, <2>5
<1>3. Len(q) \in G
  <2>1. Len(q) \in Nat /\ Len(q) \in 0..Len(q)
    OBVIOUS
  <2>2. \A n \in 0..Len(q) : n \in G
    <3>. HIDE DEF G
    <3>. QED BY <2>1, <1>1, <1>2, CountingUp
  <2>. QED BY <2>1, <2>2
<1>4. PICK g : Upto(g, Len(q))
  BY <1>3
<1>5. Iterates(g, o, q)
  BY <1>4 DEF Iterates
<1>. QED BY <1>5 DEF Iteration

LEMMA IterationAt ==
    ASSUME NEW o, NEW S, NEW q \in Seq(S)
    PROVE  /\ Iteration(o, q)[0] = From(o)
           /\ \A n \in 1..Len(q) : Iteration(o, q)[n] = Advanced(Iteration(o, q)[n - 1], q[n])
<1>. DEFINE g == Iteration(o, q)
<1>1. g = [n \in 0..Len(q) |-> IF n = 0 THEN From(o) ELSE Advanced(g[n - 1], q[n])]
  BY IterationExists DEF Iterates
<1>. HIDE DEF g
<1>2. \A n \in 0..Len(q) : g[n] = IF n = 0 THEN From(o) ELSE Advanced(g[n - 1], q[n])
  BY <1>1
<1>3. 0 \in 0..Len(q) /\ \A n \in 1..Len(q) : n \in 0..Len(q) /\ n # 0
  OBVIOUS
<1>. QED BY <1>2, <1>3 DEF g

(* Two orders that differ in what is paid at most.                          *)
Alike(a, b) ==
    /\ a.accepted = b.accepted
    /\ a.order.status = b.order.status /\ a.order.revision = b.order.revision
    /\ a.order.lines = b.order.lines /\ a.order.sent = b.order.sent
Forecasts == [order: OrderRecords, accepted: BOOLEAN]

LEMMA RevisionRises ==
    ASSUME NEW e \in OrderRecords
    PROVE  LET f == [e EXCEPT !.revision = @ + 1]
           IN  /\ f \in OrderRecords /\ f.revision = e.revision + 1 /\ f.status = e.status
               /\ f.paid = e.paid /\ f.sent = e.sent /\ f.lines = e.lines
  BY DEF OrderRecords

(* What an accepted command makes of an order.                              *)
LEMMA OutcomeSo ==
    ASSUME NEW o \in OrderRecords, NEW c \in CommandRecords, Sensible(c)
    PROVE  /\ Outcome(o, c) \in OrderRecords
           /\ Outcome(o, c).paid = IF c.type = "PAY" THEN o.paid + c.units ELSE o.paid
           /\ Outcome(o, c).revision = IF c.type = "CREATE" THEN 1
                                       ELSE IF c.type = "PAY" THEN o.revision ELSE o.revision + 1
           /\ Outcome(o, c).status = IF c.type \in {"CREATE", "RESUME"} THEN "OPEN"
                                     ELSE IF c.type = "HOLD" THEN "HELD" ELSE o.status
           /\ Outcome(o, c).sent = IF c.type = "SEND" THEN o.sent \cup c.wave ELSE o.sent
           /\ Outcome(o, c).lines =
                 IF c.type \in {"ADD", "REPLACE"} THEN [o.lines EXCEPT ![c.line] = c.units]
                 ELSE IF c.type = "REMOVE" THEN [o.lines EXCEPT ![c.line] = 0] ELSE o.lines
<1>1. c.type \in Edited \cup {"CREATE", "PAY"}
  BY DEF CommandRecords
<1>2. CASE c.type \in {"ADD", "REPLACE"}
  <2>. DEFINE e == [o EXCEPT !.lines[c.line] = c.units]
  <2>1. Outcome(o, c) = [e EXCEPT !.revision = @ + 1]
    BY <1>2 DEF Outcome
  <2>2. /\ e \in OrderRecords /\ e.lines = [o.lines EXCEPT ![c.line] = c.units]
        /\ e.status = o.status /\ e.revision = o.revision /\ e.sent = o.sent /\ e.paid = o.paid
    BY <1>2 DEF OrderRecords, CommandRecords, Sensible, Statuses
  <2>. HIDE DEF e
  <2>. QED BY <1>2, <2>1, <2>2, RevisionRises
<1>3. CASE c.type = "REMOVE"
  <2>. DEFINE e == [o EXCEPT !.lines[c.line] = 0]
  <2>1. Outcome(o, c) = [e EXCEPT !.revision = @ + 1]
    BY <1>3 DEF Outcome
  <2>2. /\ e \in OrderRecords /\ e.lines = [o.lines EXCEPT ![c.line] = 0]
        /\ e.status = o.status /\ e.revision = o.revision /\ e.sent = o.sent /\ e.paid = o.paid
    BY <1>3 DEF OrderRecords, CommandRecords, Sensible, Statuses
  <2>. HIDE DEF e
  <2>. QED BY <1>3, <2>1, <2>2, RevisionRises
<1>4. CASE c.type = "SEND"
  <2>. DEFINE e == [o EXCEPT !.sent = @ \cup c.wave]
  <2>1. Outcome(o, c) = [e EXCEPT !.revision = @ + 1]
    BY <1>4 DEF Outcome
  <2>2. /\ e \in OrderRecords /\ e.sent = o.sent \cup c.wave
        /\ e.status = o.status /\ e.revision = o.revision /\ e.lines = o.lines /\ e.paid = o.paid
    BY <1>4 DEF OrderRecords, CommandRecords, Sensible, Statuses
  <2>. HIDE DEF e
  <2>. QED BY <1>4, <2>1, <2>2, RevisionRises
<1>5. CASE c.type = "HOLD"
  <2>. DEFINE e == [o EXCEPT !.status = "HELD"]
  <2>1. Outcome(o, c) = [e EXCEPT !.revision = @ + 1]
    BY <1>5 DEF Outcome
  <2>2. /\ e \in OrderRecords /\ e.status = "HELD"
        /\ e.revision = o.revision /\ e.lines = o.lines /\ e.sent = o.sent /\ e.paid = o.paid
    BY <1>5 DEF OrderRecords, CommandRecords, Sensible, Statuses
  <2>. HIDE DEF e
  <2>. QED BY <1>5, <2>1, <2>2, RevisionRises
<1>6. CASE c.type = "RESUME"
  <2>. DEFINE e == [o EXCEPT !.status = "OPEN"]
  <2>1. Outcome(o, c) = [e EXCEPT !.revision = @ + 1]
    BY <1>6 DEF Outcome
  <2>2. /\ e \in OrderRecords /\ e.status = "OPEN"
        /\ e.revision = o.revision /\ e.lines = o.lines /\ e.sent = o.sent /\ e.paid = o.paid
    BY <1>6 DEF OrderRecords, CommandRecords, Sensible, Statuses
  <2>. HIDE DEF e
  <2>. QED BY <1>6, <2>1, <2>2, RevisionRises
<1>7. CASE c.type = "CREATE"
  BY <1>7 DEF Outcome, Edited, OrderRecords, CommandRecords, Sensible, Statuses
<1>8. CASE c.type = "PAY"
  BY <1>8 DEF Outcome, Edited, OrderRecords, CommandRecords, Sensible, Statuses
<1>. QED BY <1>1, <1>2, <1>3, <1>4, <1>5, <1>6, <1>7, <1>8 DEF Edited

LEMMA OutcomePays ==
    ASSUME NEW o \in OrderRecords, NEW c \in CommandRecords, Sensible(c)
    PROVE  /\ Outcome(o, c) \in OrderRecords
           /\ Outcome(o, c).paid = IF c.type = "PAY" THEN o.paid + c.units ELSE o.paid
  BY OutcomeSo

(* What is paid makes no difference to the other commands.                  *)
LEMMA AdvancedAlike ==
    ASSUME NEW a \in Forecasts, NEW b \in Forecasts, Alike(a, b),
           NEW c \in CommandRecords, NEW d \in CommandRecords, Sensible(c), Sensible(d),
           c = d \/ (c.type = "PAY" /\ d.type = "PAY")
    PROVE  /\ Advanced(a, c) \in Forecasts /\ Advanced(b, d) \in Forecasts
           /\ Alike(Advanced(a, c), Advanced(b, d))
<1>1. CASE c.type = "PAY"
  BY <1>1 DEF Advanced
<1>2. CASE c.type # "PAY"
  <2>1. d = c
    BY <1>2
  <2>2. a.order \in OrderRecords /\ b.order \in OrderRecords
        /\ a.accepted \in BOOLEAN /\ b.accepted \in BOOLEAN
    BY DEF Forecasts
  <2>3. LineDrafts(a.order) = LineDrafts(b.order)
    BY DEF Alike, LineDrafts, Standing
  <2>4. Accepts(a.order, c) <=> Accepts(b.order, c)
    BY <1>2, <2>3 DEF Accepts, Alike
  <2>5. /\ Advanced(a, c).order = Outcome(a.order, c) /\ Advanced(b, c).order = Outcome(b.order, c)
        /\ Advanced(a, c).accepted = (a.accepted /\ ~c.stopped /\ Accepts(a.order, c))
        /\ Advanced(b, c).accepted = (b.accepted /\ ~c.stopped /\ Accepts(b.order, c))
    BY <1>2 DEF Advanced
  <2>6. Advanced(a, c) \in Forecasts /\ Advanced(b, c) \in Forecasts
    BY <1>2, <2>2, OutcomeSo DEF Advanced, Forecasts
  <2>7. Advanced(a, c).accepted = Advanced(b, c).accepted
    BY <2>4, <2>5 DEF Alike
  <2>8. /\ Outcome(a.order, c).status = Outcome(b.order, c).status
        /\ Outcome(a.order, c).revision = Outcome(b.order, c).revision
        /\ Outcome(a.order, c).lines = Outcome(b.order, c).lines
        /\ Outcome(a.order, c).sent = Outcome(b.order, c).sent
    <3>1. PICK x, y : x = a.order /\ y = b.order
      OBVIOUS
    <3>2. /\ x \in OrderRecords /\ y \in OrderRecords /\ x.status = y.status
          /\ x.revision = y.revision /\ x.lines = y.lines /\ x.sent = y.sent
      BY <3>1, <2>2 DEF Alike
    <3>3. \A z \in {x, y} :
          /\ Outcome(z, c).status = IF c.type \in {"CREATE", "RESUME"} THEN "OPEN"
                                     ELSE IF c.type = "HOLD" THEN "HELD" ELSE z.status
          /\ Outcome(z, c).revision = IF c.type = "CREATE" THEN 1
                                       ELSE IF c.type = "PAY" THEN z.revision ELSE z.revision + 1
          /\ Outcome(z, c).sent = IF c.type = "SEND" THEN z.sent \cup c.wave ELSE z.sent
          /\ Outcome(z, c).lines =
                 IF c.type \in {"ADD", "REPLACE"} THEN [z.lines EXCEPT ![c.line] = c.units]
                 ELSE IF c.type = "REMOVE" THEN [z.lines EXCEPT ![c.line] = 0] ELSE z.lines
      BY <3>2, OutcomeSo
    <3>. QED BY Zenon, <3>1, <3>2, <3>3
  <2>. QED BY <2>1, <2>5, <2>6, <2>7, <2>8 DEF Alike
<1>. QED BY <1>1, <1>2

LEMMA IterationTyped ==
    ASSUME NEW o \in OrderRecords, NEW q, AreSensible(q)
    PROVE  \A n \in 0..Len(q) : Iteration(o, q)[n] \in Forecasts
<1>. DEFINE g == Iteration(o, q)
            G == {n \in 0..Len(q) : g[n] \in Forecasts}
<1>0. /\ q \in Seq(CommandRecords) /\ Len(q) \in Nat /\ g[0] = From(o)
      /\ \A n \in 1..Len(q) : g[n] = Advanced(g[n - 1], q[n])
      /\ \A n \in 1..Len(q) : q[n] \in CommandRecords /\ Sensible(q[n])
  BY IterationAt DEF AreSensible
<1>. HIDE DEF g
<1>1. 0 \in G
  <2>1. From(o) \in Forecasts
    BY DEF From, Forecasts
  <2>. QED BY <2>1, <1>0
<1>2. ASSUME NEW n \in 0..Len(q), n \in G, n < Len(q) PROVE n + 1 \in G
  <2>1. n + 1 \in 1..Len(q) /\ (n + 1) - 1 = n /\ g[n] \in Forecasts
    BY <1>2
  <2>2. g[n + 1] = Advanced(g[n], q[n + 1])
    BY <2>1, <1>0
  <2>3. g[n + 1] \in Forecasts
    BY <2>1, <2>2, <1>0, AdvancedAlike DEF Alike
  <2>. QED BY <2>1, <2>3
<1>3. \A n \in 0..Len(q) : n \in G
  <2>. HIDE DEF G
  <2>. QED BY <1>0, <1>1, <1>2, CountingUp
<1>. QED BY <1>3 DEF g

(* Where two queues end in the same commands, payments aside, and start     *)
(* from orders that are alike, so do they end.                              *)
LEMMA SameEnd ==
    ASSUME NEW o \in OrderRecords, NEW p \in OrderRecords, NEW q, NEW r, NEW k \in Nat,
           AreSensible(q), AreSensible(r), Len(q) = Len(r) + k,
           \A n \in 1..Len(r) : q[n + k] = r[n] \/ (q[n + k].type = "PAY" /\ r[n].type = "PAY"),
           Alike(Iteration(o, q)[k], From(p))
    PROVE  Alike(AheadOf(o, q), AheadOf(p, r))
<1>. DEFINE g == Iteration(o, q)
            h == Iteration(p, r)
            G == {n \in 0..Len(r) : Alike(g[n + k], h[n])}
<1>0. /\ Len(q) \in Nat /\ Len(r) \in Nat /\ h[0] = From(p)
      /\ \A n \in 1..Len(q) : g[n] = Advanced(g[n - 1], q[n])
      /\ \A n \in 1..Len(r) : h[n] = Advanced(h[n - 1], r[n])
      /\ \A n \in 1..Len(q) : q[n] \in CommandRecords /\ Sensible(q[n])
      /\ \A n \in 1..Len(r) : r[n] \in CommandRecords /\ Sensible(r[n])
      /\ \A n \in 0..Len(q) : g[n] \in Forecasts
      /\ \A n \in 0..Len(r) : h[n] \in Forecasts
  <2>1. q \in Seq(CommandRecords) /\ r \in Seq(CommandRecords)
    BY DEF AreSensible
  <2>2. /\ Len(q) \in Nat /\ Len(r) \in Nat /\ h[0] = From(p)
        /\ \A n \in 1..Len(q) : g[n] = Advanced(g[n - 1], q[n])
        /\ \A n \in 1..Len(r) : h[n] = Advanced(h[n - 1], r[n])
    BY <2>1, IterationAt
  <2>3. /\ \A n \in 0..Len(q) : g[n] \in Forecasts
        /\ \A n \in 0..Len(r) : h[n] \in Forecasts
    BY IterationTyped
  <2>4. /\ \A n \in 1..Len(q) : q[n] \in CommandRecords /\ Sensible(q[n])
        /\ \A n \in 1..Len(r) : r[n] \in CommandRecords /\ Sensible(r[n])
    BY <2>1 DEF AreSensible
  <2>. QED BY <2>2, <2>3, <2>4
<1>. HIDE DEF g, h
<1>1. 0 \in G
  BY <1>0 DEF g
<1>2. ASSUME NEW n \in 0..Len(r), n \in G, n < Len(r) PROVE n + 1 \in G
  <2>1. /\ n + 1 \in 1..Len(r) /\ (n + 1) - 1 = n /\ (n + 1) + k \in 1..Len(q)
        /\ ((n + 1) + k) - 1 = n + k /\ n + k \in 0..Len(q) /\ n \in Nat
    BY <1>2, <1>0
  <2>2. /\ g[(n + 1) + k] = Advanced(g[n + k], q[(n + 1) + k])
        /\ h[n + 1] = Advanced(h[n], r[n + 1])
    BY <2>1, <1>0
  <2>3. /\ g[n + k] \in Forecasts /\ h[n] \in Forecasts /\ Alike(g[n + k], h[n])
        /\ q[(n + 1) + k] \in CommandRecords /\ Sensible(q[(n + 1) + k])
        /\ r[n + 1] \in CommandRecords /\ Sensible(r[n + 1])
    BY <2>1, <1>0, <1>2
  <2>4. Alike(Advanced(g[n + k], q[(n + 1) + k]), Advanced(h[n], r[n + 1]))
    BY <2>1, <2>3, AdvancedAlike
  <2>. QED BY <2>1, <2>2, <2>4
<1>3. Len(r) \in G
  <2>1. Len(r) \in Nat /\ Len(r) \in 0..Len(r)
    BY <1>0
  <2>2. \A n \in 0..Len(r) : n \in G
    <3>. HIDE DEF G
    <3>. QED BY <2>1, <1>1, <1>2, CountingUp
  <2>. QED BY <2>1, <2>2
<1>. QED BY <1>3, AheadIsIteration DEF g, h

(* A command that is refused, or has stopped the queue, is never passed.     *)
LEMMA RefusedForGood ==
    ASSUME NEW o \in OrderRecords, NEW q, AreSensible(q), NEW k \in 0..Len(q),
           ~Iteration(o, q)[k].accepted
    PROVE  ~AheadOf(o, q).accepted
<1>. DEFINE g == Iteration(o, q)
            G == {n \in 0..(Len(q) - k) : ~g[n + k].accepted}
<1>0. /\ Len(q) \in Nat /\ \A n \in 1..Len(q) : g[n] = Advanced(g[n - 1], q[n])
      /\ \A n \in 0..Len(q) : g[n] \in Forecasts
  BY IterationAt, IterationTyped DEF AreSensible
<1>. HIDE DEF g
<1>1. 0 \in G
  BY <1>0 DEF g
<1>2. ASSUME NEW n \in 0..(Len(q) - k), n \in G, n < Len(q) - k PROVE n + 1 \in G
  <2>1. /\ n + 1 \in 0..(Len(q) - k) /\ (n + 1) + k \in 1..Len(q) /\ ((n + 1) + k) - 1 = n + k
    BY <1>2, <1>0
  <2>2. g[(n + 1) + k] = Advanced(g[n + k], q[(n + 1) + k]) /\ ~g[n + k].accepted
    BY <2>1, <1>0, <1>2
  <2>3. \A a, c : ~a.accepted => ~Advanced(a, c).accepted
    BY DEF Advanced
  <2>. QED BY <2>1, <2>2, <2>3
<1>3. Len(q) - k \in G
  <2>1. PICK m \in Nat : m = Len(q) - k
    BY <1>0
  <2>2. \A n \in 0..m : n \in G
    <3>1. \A n \in 0..m : n \in G /\ n < m => n + 1 \in G
      BY <1>2, <2>1
    <3>. HIDE DEF G
    <3>. QED BY <3>1, <1>1, CountingUp
  <2>. QED BY <2>1, <2>2
<1>4. ~g[Len(q)].accepted
  BY <1>0, <1>3
<1>. QED BY <1>4, AheadIsIteration DEF g

(* An order that is not paid, or paid, with the same queue.                 *)
LEMMA AheadAlike ==
    ASSUME NEW o \in OrderRecords, NEW p \in OrderRecords, NEW q, AreSensible(q),
           Alike(From(o), From(p))
    PROVE  Alike(AheadOf(o, q), AheadOf(p, q))
<1>1. Iteration(o, q)[0] = From(o) /\ Len(q) \in Nat
  BY IterationAt DEF AreSensible
<1>2. Len(q) = Len(q) + 0 /\ \A n \in 1..Len(q) : q[n + 0] = q[n]
  BY <1>1
<1>. QED BY <1>1, <1>2, SameEnd

(* The first command leaves the queue.                                      *)
LEMMA AheadOfTail ==
    ASSUME NEW o \in OrderRecords, NEW p \in OrderRecords, NEW q, AreSensible(q), q # <<>>,
           Alike(Advanced(From(o), q[1]), From(p))
    PROVE  Alike(AheadOf(o, q), AheadOf(p, Tail(q)))
<1>1. /\ Tail(q) \in Seq(CommandRecords) /\ Len(q) = Len(Tail(q)) + 1 /\ Len(q) \in Nat
      /\ \A n \in 1..Len(Tail(q)) : Tail(q)[n] = q[n + 1]
      /\ \A n \in 1..Len(Tail(q)) : n + 1 \in DOMAIN q
      /\ 1 \in 1..Len(q)
  BY DEF AreSensible
<1>2. AreSensible(Tail(q))
  BY <1>1 DEF AreSensible
<1>3. Iteration(o, q)[1] = Advanced(From(o), q[1])
  BY <1>1, IterationAt DEF AreSensible
<1>. QED BY <1>1, <1>2, <1>3, SameEnd

(* A command is added.                                                      *)
LEMMA AheadOfAppended ==
    ASSUME NEW o \in OrderRecords, NEW q, AreSensible(q),
           NEW c \in CommandRecords, Sensible(c)
    PROVE  AreSensible(Append(q, c)) /\ AheadOf(o, Append(q, c)) = Advanced(AheadOf(o, q), c)
<1>. DEFINE r == Append(q, c)
            g == Iteration(o, q)
            h == Iteration(o, r)
            G == {n \in 0..Len(q) : g[n] = h[n]}
<1>1. /\ q \in Seq(CommandRecords) /\ r \in Seq(CommandRecords) /\ Len(q) \in Nat
      /\ Len(r) = Len(q) + 1 /\ r[Len(q) + 1] = c
      /\ \A n \in 1..Len(q) : r[n] = q[n]
  BY DEF AreSensible
<1>2. AreSensible(r)
  BY <1>1 DEF AreSensible
<1>. HIDE DEF r
<1>3. /\ g[0] = From(o) /\ h[0] = From(o)
      /\ \A n \in 1..Len(q) : g[n] = Advanced(g[n - 1], q[n])
      /\ \A n \in 1..Len(r) : h[n] = Advanced(h[n - 1], r[n])
  BY <1>1, IterationAt
<1>. HIDE DEF g, h
<1>4. 0 \in G
  BY <1>1, <1>3
<1>5. ASSUME NEW n \in 0..Len(q), n \in G, n < Len(q) PROVE n + 1 \in G
  <2>1. n + 1 \in 1..Len(q) /\ n + 1 \in 1..Len(r) /\ (n + 1) - 1 = n /\ n + 1 \in 0..Len(q)
    BY <1>1, <1>5
  <2>2. g[n + 1] = Advanced(g[n], q[n + 1]) /\ h[n + 1] = Advanced(h[n], r[n + 1])
    BY <2>1, <1>3
  <2>. QED BY <2>1, <2>2, <1>1, <1>5
<1>6. Len(q) \in G
  <2>1. Len(q) \in Nat /\ Len(q) \in 0..Len(q)
    BY <1>1
  <2>2. \A n \in 0..Len(q) : n \in G
    <3>. HIDE DEF G
    <3>. QED BY <2>1, <1>4, <1>5, CountingUp
  <2>. QED BY <2>1, <2>2
<1>7. Len(r) \in 1..Len(r) /\ Len(r) - 1 = Len(q)
  BY <1>1
<1>8. h[Len(r)] = Advanced(g[Len(q)], c)
  BY <1>1, <1>3, <1>6, <1>7
<1>9. AheadOf(o, r) = h[Len(r)] /\ AheadOf(o, q) = g[Len(q)]
  BY AheadIsIteration DEF g, h
<1>. QED BY <1>2, <1>8, <1>9 DEF r

LEMMA AheadTyped ==
    ASSUME NEW o \in OrderRecords, NEW q, AreSensible(q)
    PROVE  AheadOf(o, q) \in Forecasts
  BY IterationTyped, AheadIsIteration DEF AreSensible

LEMMA AheadOfNothing ==
    ASSUME NEW o \in OrderRecords
    PROVE  AreSensible(<<>>) /\ AheadOf(o, <<>>) = From(o)
<1>1. AreSensible(<<>>) /\ Len(<<>>) = 0 /\ <<>> \in Seq(CommandRecords)
  BY DEF AreSensible
<1>. QED BY <1>1, IterationAt, AheadIsIteration

-----------------------------------------------------------------------------
(* An order shows what a queue will come to, payments aside.                *)
Fits(o, a) ==
    /\ a.accepted /\ o.revision = a.order.revision
    /\ o.lines = a.order.lines /\ o.sent = a.order.sent
    /\ (IF o.status = "PAYMENT_QUEUED" THEN "OPEN" ELSE o.status) = a.order.status

Top == IF action = NoOrder THEN shown ELSE action
Shows == shown # NoOrder \/ action # NoOrder

LEMMA FitsAlike == \A o, a, b : Fits(o, a) /\ Alike(a, b) => Fits(o, b)
  BY DEF Fits, Alike

LEMMA InStepFits == \A o : InStep(o) <=> Fits(o, AheadOf(server, queue))
  BY DEF InStep, Ahead, Fits

LEMMA ScreenFits ==
    /\ ScreenInStep <=> (~apart /\ Shows => Fits(Top, AheadOf(server, queue)))
    /\ ScreenInStep' <=> (~apart' /\ Shows' => Fits(Top', AheadOf(server', queue')))
<1>1. ScreenInStep <=> (~apart /\ Shows => Fits(Top, AheadOf(server, queue)))
  BY DEF ScreenInStep, InStep, Ahead, Fits, Top, Shows
<1>2. ScreenInStep' <=> (~apart' /\ Shows' => Fits(Top', AheadOf(server', queue')))
  BY DEF ScreenInStep, InStep, Ahead, Fits, Top, Shows
<1>. QED BY <1>1, <1>2

LEMMA NoOrderIsOne == NoOrder \in OrderRecords /\ NoOrder.sent \subseteq Standing(NoOrder)
                      /\ NoOrder.paid = 0 /\ NoOrder.status = "NONE"
  BY DEF NoOrder, OrderRecords, Standing, Statuses

(* An accepted command leaves what was sent on the order.                   *)
LEMMA OutcomeStands ==
    ASSUME NEW o \in OrderRecords, NEW c \in CommandRecords, Sensible(c), Accepts(o, c),
           o.sent \subseteq Standing(o)
    PROVE  Outcome(o, c).sent \subseteq Standing(Outcome(o, c))
<1>1. /\ Outcome(o, c).sent = IF c.type = "SEND" THEN o.sent \cup c.wave ELSE o.sent
      /\ Outcome(o, c).lines =
            IF c.type \in {"ADD", "REPLACE"} THEN [o.lines EXCEPT ![c.line] = c.units]
            ELSE IF c.type = "REMOVE" THEN [o.lines EXCEPT ![c.line] = 0] ELSE o.lines
  BY OutcomeSo
<1>2. o.lines \in [LineIds -> Nat]
  BY DEF OrderRecords
<1>3. CASE c.type \in {"ADD", "REPLACE"}
  <2>1. /\ Outcome(o, c).lines = [o.lines EXCEPT ![c.line] = c.units]
        /\ Outcome(o, c).sent = o.sent /\ c.units > 0
    BY <1>1, <1>3 DEF Sensible
  <2>. QED BY <2>1, <1>2 DEF Standing
<1>4. CASE c.type = "REMOVE"
  <2>1. /\ Outcome(o, c).lines = [o.lines EXCEPT ![c.line] = 0] /\ Outcome(o, c).sent = o.sent
        /\ c.line \notin o.sent
    BY <1>1, <1>4 DEF Accepts, Edits, LineDrafts
  <2>. QED BY <2>1, <1>2 DEF Standing
<1>5. CASE c.type = "SEND"
  <2>1. /\ Outcome(o, c).lines = o.lines /\ Outcome(o, c).sent = o.sent \cup c.wave
        /\ c.wave \subseteq Standing(o)
    BY <1>1, <1>5 DEF Accepts, Edits, LineDrafts
  <2>. QED BY <2>1 DEF Standing
<1>6. CASE c.type \notin {"ADD", "REPLACE", "REMOVE", "SEND"}
  BY <1>1, <1>6 DEF Standing
<1>. QED BY <1>3, <1>4, <1>5, <1>6

(* An action enqueues its command and shows what it will come to.           *)
LEMMA PerformKeeps ==
    ASSUME RuntimeInv, NEW c \in CommandRecords, Sensible(c), NEW next \in OrderRecords,
           Perform(c, next), next # NoOrder, next.sent \subseteq Standing(next),
           next.paid = shown.paid, ~apart => Fits(next, Advanced(AheadOf(server, queue), c))
    PROVE  RuntimeInv'
<1>0. /\ RuntimeShape /\ RuntimeOrders /\ OneThing /\ server \in OrderRecords /\ AreSensible(queue)
      /\ ~busy /\ action = NoOrder /\ queue' = Append(queue, c) /\ action' = next /\ busy' = TRUE
      /\ UNCHANGED <<server, foreign, apart, document, working, shown, refresh>>
  BY DEF RuntimeInv, RuntimeShape, Perform
<1>1. AreSensible(queue') /\ AheadOf(server', queue') = Advanced(AheadOf(server, queue), c)
  BY <1>0, AheadOfAppended
<1>2. RuntimeShape'
  BY <1>0, <1>1 DEF RuntimeShape, Displayed
<1>3. RuntimeOrders'
  BY <1>0 DEF RuntimeOrders, Displayed, Standing
<1>4. OneThing'
  BY <1>0 DEF OneThing
<1>5. Top' = next
  BY <1>0 DEF Top
<1>6. ScreenInStep'
  BY <1>0, <1>1, <1>5, ScreenFits
<1>. QED BY <1>2, <1>3, <1>4, <1>6 DEF RuntimeInv

LEMMA EditKeeps ==
    ASSUME RuntimeInv, NEW c \in CommandRecords, Sensible(c), c.type \in Edited,
           c.revision = shown.revision, ~c.stopped, Accepts(shown, c),
           Perform(c, Outcome(shown, c))
    PROVE  RuntimeInv'
<1>. DEFINE next == Outcome(shown, c)
            a == AheadOf(server, queue)
<1>0. /\ shown \in OrderRecords /\ server \in OrderRecords /\ AreSensible(queue)
      /\ shown.sent \subseteq Standing(shown) /\ action = NoOrder
      /\ ScreenInStep
  BY DEF RuntimeInv, RuntimeShape, RuntimeOrders, Displayed, Perform
<1>1. next \in OrderRecords /\ next.paid = shown.paid /\ next.sent \subseteq Standing(next)
  BY <1>0, OutcomeSo, OutcomeStands DEF Edited
<1>2. shown.status \in {"OPEN", "HELD"} /\ next.status \in {"OPEN", "HELD"}
  BY <1>0, OutcomeSo DEF Accepts, Edited
<1>3. next # NoOrder /\ shown # NoOrder
  BY <1>2, NoOrderIsOne
<1>4. ASSUME ~apart PROVE Fits(next, Advanced(a, c))
  <2>1. Fits(shown, a)
    BY <1>0, <1>3, <1>4, ScreenFits DEF Top, Shows
  <2>2. a \in Forecasts /\ From(shown) \in Forecasts
    BY <1>0, AheadTyped DEF From, Forecasts
  <2>3. Alike(From(shown), a)
    BY <2>1, <2>2, <1>2 DEF Fits, From, Alike, Forecasts
  <2>4. Alike(Advanced(From(shown), c), Advanced(a, c))
    BY <2>2, <2>3, AdvancedAlike
  <2>5. Advanced(From(shown), c) = From(next)
    BY DEF Advanced, From, Edited
  <2>6. Fits(next, From(next))
    BY <1>2 DEF Fits, From
  <2>. QED BY <2>4, <2>5, <2>6, FitsAlike
<1>. HIDE DEF next, a
<1>. QED BY <1>1, <1>3, <1>4, PerformKeeps DEF next, a

(* What an action enqueues, and the order it goes on to show.                *)
Enqueued(c, next) ==
    /\ c \in CommandRecords /\ Sensible(c) /\ ~c.stopped /\ c.units \in 0..MostUnits
    /\ Perform(c, next)
    /\ \/ /\ c.type = "CREATE" /\ next = Outcome(NoOrder, c)
          /\ shown = NoOrder /\ server = NoOrder /\ queue = <<>>
       \/ /\ c.type \in Edited /\ c.revision = shown.revision
          /\ Accepts(shown, c) /\ next = Outcome(shown, c)
       \/ /\ c.type = "PAY" /\ shown.status \in {"OPEN", "PAYMENT_QUEUED"}
          /\ next \in {shown, [shown EXCEPT !.status = "PAYMENT_QUEUED"]}

LEMMA ActionsEnqueue ==
    ASSUME RuntimeInv, NEW l, NEW n,
           \/ StartOrder \/ HoldOrder \/ ResumeOrder \/ SendOrder
           \/ l \in LineIds /\ (AddOrderLine(l) \/ RemoveOrderLine(l))
           \/ l \in LineIds /\ n \in 1..MostUnits /\ ReplaceQuantity(l, n)
           \/ n \in 1..MostUnits /\ PayOffline(n)
    PROVE  \E c, next : Enqueued(c, next)
<1>0. /\ shown.sent \subseteq Standing(shown)
      /\ 0 \in 0..MostUnits /\ 1 \in 0..MostUnits
      /\ (n \in 1..MostUnits => n \in Nat \ {0} /\ n \in 0..MostUnits)
  BY RuntimeAssumption DEF RuntimeAssumption, RuntimeInv, RuntimeOrders, Displayed
<1>1. PICK o \in OrderRecords : o = shown
  BY DEF RuntimeInv, RuntimeShape, Displayed
<1>. DEFINE Command(type, at, wave, units) ==
               [type |-> type, revision |-> o.revision, line |-> at, wave |-> wave,
                units |-> units, stopped |-> FALSE]
<1>2. \A type, at, wave, units :
         NewCommand(type, at, wave, units) = Command(type, at, wave, units)
  BY <1>1 DEF NewCommand
<1>3. ASSUME NEW c, c \in CommandRecords, Sensible(c), c.type \in Edited, ~c.stopped,
             c.units \in 0..MostUnits, c.revision = o.revision, Accepts(o, c),
             Perform(c, Outcome(o, c))
      PROVE  Enqueued(c, Outcome(o, c))
  BY <1>1, <1>3 DEF Enqueued
<1>4. CASE StartOrder
  <2>. DEFINE c == Command("CREATE", 0, {}, 0)
              next == [NoOrder EXCEPT !.status = "OPEN", !.revision = 1]
  <2>1. Perform(c, next) /\ shown = NoOrder /\ server = NoOrder /\ queue = <<>>
    BY <1>2, <1>4 DEF StartOrder
  <2>2. c \in CommandRecords /\ Sensible(c) /\ c.type = "CREATE" /\ ~c.stopped
        /\ c.units \in 0..MostUnits
    BY <1>0 DEF CommandRecords, Sensible, OrderRecords
  <2>3. next = Outcome(NoOrder, c)
    BY DEF Outcome
  <2>. HIDE DEF c, next
  <2>. QED BY <2>1, <2>2, <2>3 DEF Enqueued
<1>5. CASE HoldOrder
  <2>. DEFINE c == Command("HOLD", 0, {}, 0)
  <2>1. c \in CommandRecords /\ Sensible(c) /\ c.type \in Edited /\ ~c.stopped
        /\ c.units \in 0..MostUnits
    BY <1>0 DEF CommandRecords, Sensible, OrderRecords, Edited
  <2>2. Accepts(o, c) /\ Perform(c, Outcome(o, c)) /\ c.revision = o.revision
    BY <1>1, <1>2, <1>5 DEF HoldOrder, Writable, Accepts, Edits, Edit, Outcome
  <2>. HIDE DEF c
  <2>. QED BY <2>1, <2>2, <1>3
<1>6. CASE ResumeOrder
  <2>. DEFINE c == Command("RESUME", 0, {}, 0)
  <2>1. c \in CommandRecords /\ Sensible(c) /\ c.type \in Edited /\ ~c.stopped
        /\ c.units \in 0..MostUnits
    BY <1>0 DEF CommandRecords, Sensible, OrderRecords, Edited
  <2>2. Accepts(o, c) /\ Perform(c, Outcome(o, c)) /\ c.revision = o.revision
    BY <1>1, <1>2, <1>6 DEF ResumeOrder, Accepts, Edits, Edit, Outcome
  <2>. HIDE DEF c
  <2>. QED BY <2>1, <2>2, <1>3
<1>7. CASE SendOrder
  <2>. DEFINE c == Command("SEND", 0, LineDrafts(o), 0)
  <2>1. c \in CommandRecords /\ Sensible(c) /\ c.type \in Edited /\ ~c.stopped
        /\ c.units \in 0..MostUnits
    BY <1>0 DEF CommandRecords, Sensible, OrderRecords, Edited, LineDrafts, Standing
  <2>2. Accepts(o, c) /\ c.revision = o.revision
    BY <1>1, <1>7 DEF SendOrder, Writable, Accepts, Edits
  <2>3. o.sent \cup LineDrafts(o) = Standing(o)
    BY <1>0, <1>1 DEF LineDrafts
  <2>4. [o EXCEPT !.sent = @ \cup LineDrafts(o)] = [o EXCEPT !.sent = Standing(o)]
    BY <2>3
  <2>5. Outcome(o, c) = [[o EXCEPT !.sent = @ \cup LineDrafts(o)] EXCEPT !.revision = @ + 1]
    BY DEF Outcome
  <2>6. Perform(c, [[o EXCEPT !.sent = Standing(o)] EXCEPT !.revision = @ + 1])
    BY <1>1, <1>2, <1>7 DEF SendOrder, Edit
  <2>7. Perform(c, Outcome(o, c))
    BY Zenon, <2>4, <2>5, <2>6
  <2>. HIDE DEF c
  <2>. QED BY <2>1, <2>2, <2>7, <1>3
<1>8. CASE l \in LineIds /\ AddOrderLine(l)
  <2>. DEFINE c == Command("ADD", l, {}, 1)
  <2>1. c \in CommandRecords /\ Sensible(c) /\ c.type \in Edited /\ ~c.stopped
        /\ c.units \in 0..MostUnits
    BY <1>0, <1>8 DEF CommandRecords, Sensible, OrderRecords, Edited
  <2>2. Accepts(o, c) /\ Perform(c, Outcome(o, c)) /\ c.revision = o.revision
    BY <1>1, <1>2, <1>8 DEF AddOrderLine, Writable, Accepts, Edits, Edit, Outcome
  <2>. HIDE DEF c
  <2>. QED BY <2>1, <2>2, <1>3
<1>9. CASE l \in LineIds /\ n \in 1..MostUnits /\ ReplaceQuantity(l, n)
  <2>. DEFINE c == Command("REPLACE", l, {}, n)
  <2>1. c \in CommandRecords /\ Sensible(c) /\ c.type \in Edited /\ ~c.stopped
        /\ c.units \in 0..MostUnits
    BY <1>0, <1>9 DEF CommandRecords, Sensible, OrderRecords, Edited
  <2>2. Accepts(o, c) /\ Perform(c, Outcome(o, c)) /\ c.revision = o.revision
    BY <1>1, <1>2, <1>9 DEF ReplaceQuantity, Writable, Accepts, Edits, Edit, Outcome
  <2>. HIDE DEF c
  <2>. QED BY <2>1, <2>2, <1>3
<1>10. CASE l \in LineIds /\ RemoveOrderLine(l)
  <2>. DEFINE c == Command("REMOVE", l, {}, 0)
  <2>1. c \in CommandRecords /\ Sensible(c) /\ c.type \in Edited /\ ~c.stopped
        /\ c.units \in 0..MostUnits
    BY <1>0, <1>10 DEF CommandRecords, Sensible, OrderRecords, Edited
  <2>2. Accepts(o, c) /\ Perform(c, Outcome(o, c)) /\ c.revision = o.revision
    BY <1>1, <1>2, <1>10 DEF RemoveOrderLine, Writable, Accepts, Edits, Edit, Outcome
  <2>. HIDE DEF c
  <2>. QED BY <2>1, <2>2, <1>3
<1>11. CASE n \in 1..MostUnits /\ PayOffline(n)
  <2>. DEFINE c == Command("PAY", 0, {}, n)
  <2>1. c \in CommandRecords /\ Sensible(c) /\ c.type = "PAY" /\ ~c.stopped
        /\ c.units \in 0..MostUnits
    BY <1>0, <1>11 DEF CommandRecords, Sensible, OrderRecords
  <2>2. PICK next : next = Queued(n)
    OBVIOUS
  <2>3. Perform(c, next) /\ shown.status \in {"OPEN", "PAYMENT_QUEUED"}
    BY <1>2, <1>11, <2>2 DEF PayOffline, Tender
  <2>4. next \in {shown, [shown EXCEPT !.status = "PAYMENT_QUEUED"]}
    BY <2>2 DEF Queued
  <2>. HIDE DEF c
  <2>. QED BY <2>1, <2>3, <2>4 DEF Enqueued
<1>. QED
  <2>. HIDE DEF Command
  <2>. QED BY <1>4, <1>5, <1>6, <1>7, <1>8, <1>9, <1>10, <1>11

LEMMA ActionsKeep ==
    ASSUME RuntimeInv, NEW c, NEW next, Enqueued(c, next)
    PROVE  RuntimeInv'
<1>0. /\ c \in CommandRecords /\ Sensible(c) /\ ~c.stopped /\ Perform(c, next)
      /\ shown \in OrderRecords /\ shown.sent \subseteq Standing(shown) /\ action = NoOrder
      /\ ScreenInStep
  BY DEF Enqueued, Perform, RuntimeInv, RuntimeShape, RuntimeOrders, Displayed
<1>1. CASE /\ c.type = "CREATE" /\ next = Outcome(NoOrder, c)
           /\ shown = NoOrder /\ server = NoOrder /\ queue = <<>>
  <2>1. next = [NoOrder EXCEPT !.status = "OPEN", !.revision = 1]
    BY <1>1 DEF Outcome
  <2>2. /\ next \in OrderRecords /\ next.paid = 0 /\ next.status = "OPEN" /\ next # NoOrder
        /\ next.sent \subseteq Standing(next)
    BY <2>1 DEF NoOrder, OrderRecords, Statuses, Standing
  <2>3. AheadOf(server, queue) = From(NoOrder)
    BY <1>1, NoOrderIsOne, AheadOfNothing
  <2>4. Advanced(From(NoOrder), c) = From(next)
    BY <1>0, <1>1, NoOrderIsOne DEF Advanced, From, Accepts
  <2>5. Fits(next, From(next))
    BY <2>2 DEF Fits, From
  <2>. QED BY <1>0, <1>1, <2>2, <2>3, <2>4, <2>5, NoOrderIsOne, PerformKeeps
<1>2. CASE /\ c.type \in Edited /\ c.revision = shown.revision
           /\ Accepts(shown, c) /\ next = Outcome(shown, c)
  BY <1>0, <1>2, EditKeeps
<1>3. CASE /\ c.type = "PAY" /\ shown.status \in {"OPEN", "PAYMENT_QUEUED"}
           /\ next \in {shown, [shown EXCEPT !.status = "PAYMENT_QUEUED"]}
  <2>1. PICK o \in OrderRecords : o = shown
    BY <1>0
  <2>2. /\ next \in OrderRecords /\ next.paid = o.paid /\ next.revision = o.revision
        /\ next.lines = o.lines /\ next.sent = o.sent
        /\ next.status \in {"OPEN", "PAYMENT_QUEUED"}
        /\ o.status \in {"OPEN", "PAYMENT_QUEUED"}
    BY <1>3, <2>1 DEF OrderRecords, Statuses
  <2>3. next # NoOrder /\ o # NoOrder /\ next.sent \subseteq Standing(next)
    BY <1>0, <2>1, <2>2, NoOrderIsOne DEF Standing
  <2>4. ASSUME ~apart PROVE Fits(next, Advanced(AheadOf(server, queue), c))
    <3>1. Fits(o, AheadOf(server, queue))
      BY <1>0, <2>1, <2>3, <2>4, ScreenFits DEF Top, Shows
    <3>2. Advanced(AheadOf(server, queue), c) = AheadOf(server, queue)
      BY <1>3 DEF Advanced
    <3>. QED BY <3>1, <3>2, <1>3, <2>1, <2>2 DEF Fits
  <2>. QED BY <1>0, <2>1, <2>2, <2>3, <2>4, PerformKeeps
<1>. QED BY <1>1, <1>2, <1>3 DEF Enqueued

(* Money is taken online.                                                   *)
LEMMA PayOnlineKeeps ==
    ASSUME RuntimeInv, NEW n \in 1..MostUnits, PayOnline(n)
    PROVE  RuntimeInv'
<1>0. /\ RuntimeShape /\ RuntimeOrders /\ OneThing /\ ScreenInStep
      /\ server \in OrderRecords /\ shown \in OrderRecords /\ AreSensible(queue) /\ n \in Nat
      /\ ~busy /\ action = NoOrder /\ shown.status \in {"OPEN", "PAYMENT_QUEUED"}
      /\ server' = [server EXCEPT !.paid = @ + n]
      /\ UNCHANGED <<queue, foreign, apart, document, working, shown, refresh>>
      /\ \/ action' = [shown EXCEPT !.paid = @ + n] /\ busy' = TRUE
         \/ UNCHANGED <<action, busy>>
  BY RuntimeAssumption
     DEF RuntimeAssumption, RuntimeInv, RuntimeShape, Displayed, PayOnline, Tender
<1>. DEFINE next == [shown EXCEPT !.paid = @ + n]
<1>1. /\ server' \in OrderRecords /\ server'.paid = server.paid + n
      /\ server'.lines = server.lines /\ server'.sent = server.sent
      /\ server'.status = server.status /\ server'.revision = server.revision
  BY <1>0 DEF OrderRecords
<1>2. /\ next \in OrderRecords /\ next.paid = shown.paid + n
      /\ next.lines = shown.lines /\ next.sent = shown.sent
      /\ next.status = shown.status /\ next.revision = shown.revision
  BY <1>0 DEF OrderRecords
<1>3. next # NoOrder /\ shown # NoOrder
  BY <1>0, <1>2, NoOrderIsOne
<1>. HIDE DEF next
<1>4. (action' = next /\ busy' = TRUE) \/ UNCHANGED <<action, busy>>
  BY <1>0 DEF next
<1>5. RuntimeShape'
  BY <1>0, <1>1, <1>2, <1>4 DEF RuntimeShape, Displayed
<1>6. \A o \in Displayed : o.paid \in Nat /\ o.paid <= server.paid /\ server.paid \in Nat
  BY <1>0 DEF RuntimeShape, RuntimeOrders, OrderRecords
<1>7. next.paid <= server'.paid
  BY <1>0, <1>1, <1>2, <1>6 DEF Displayed
<1>8. \A o \in Displayed : o.paid <= server'.paid
  BY <1>0, <1>1, <1>6
<1>9. Displayed' \subseteq Displayed \cup {next}
  BY <1>0, <1>4 DEF Displayed
<1>10. /\ next.sent \subseteq Standing(next) /\ server'.sent \subseteq Standing(server')
       /\ \A o \in Displayed : o.sent \subseteq Standing(o)
  BY <1>0, <1>1, <1>2 DEF RuntimeOrders, Displayed, Standing
<1>11. RuntimeOrders'
  <2>1. \A o \in Displayed' \cup {server'} : o.sent \subseteq Standing(o)
    BY <1>9, <1>10
  <2>2. \A o \in Displayed' : o.paid <= server'.paid
    BY <1>7, <1>8, <1>9
  <2>. QED BY <2>1, <2>2 DEF RuntimeOrders, Standing
<1>12. OneThing'
  BY <1>0, <1>4 DEF OneThing
<1>13. ScreenInStep'
  <2>1. SUFFICES ASSUME ~apart PROVE Fits(Top', AheadOf(server', queue'))
    BY <1>0, ScreenFits
  <2>2. Fits(shown, AheadOf(server, queue))
    BY <1>0, <1>3, <2>1, ScreenFits DEF Top, Shows
  <2>3. Top' = next \/ Top' = shown
    BY <1>0, <1>3, <1>4 DEF Top
  <2>4. PICK o, p : o = server /\ p = server'
    OBVIOUS
  <2>5. o \in OrderRecords /\ p \in OrderRecords /\ Alike(From(o), From(p))
    BY <1>0, <1>1, <2>4 DEF Alike, From
  <2>6. Alike(AheadOf(o, queue), AheadOf(p, queue))
    BY <1>0, <2>5, AheadAlike
  <2>7. Fits(Top', AheadOf(o, queue))
    BY <2>2, <2>3, <2>4, <1>2 DEF Fits
  <2>. QED BY <2>4, <2>6, <2>7, <1>0, FitsAlike
<1>. QED BY <1>5, <1>11, <1>12, <1>13 DEF RuntimeInv

(* No order is seen that the server has not paid for, where what is shown,  *)
(* stored or read was seen before, or is the server's.                      *)
LEMMA OrdersKept ==
    ASSUME RuntimeShape, RuntimeOrders, Displayed' \subseteq Displayed \cup {server, server', NoOrder},
           server' \in OrderRecords, server.paid <= server'.paid,
           server'.sent \subseteq Standing(server')
    PROVE  RuntimeOrders' /\ Displayed' \cup {server'} \subseteq OrderRecords
<1>1. PICK p \in OrderRecords : p = server'
  OBVIOUS
<1>2. \A o \in Displayed \cup {server, p, NoOrder} :
         o \in OrderRecords /\ o.sent \subseteq Standing(o) /\ o.paid <= p.paid
  <2>1. \A o \in Displayed \cup {server} : o \in OrderRecords /\ o.sent \subseteq Standing(o)
    BY DEF RuntimeShape, RuntimeOrders
  <2>2. \A o \in OrderRecords : o.paid \in Nat
    BY DEF OrderRecords
  <2>3. \A o \in Displayed : o.paid <= server.paid
    BY DEF RuntimeOrders
  <2>4. p.sent \subseteq Standing(p) /\ server.paid <= p.paid
    BY <1>1 DEF Standing
  <2>. QED BY <2>1, <2>2, <2>3, <2>4, NoOrderIsOne
<1>3. Displayed' \cup {server'} \subseteq Displayed \cup {server, p, NoOrder}
  BY <1>1
<1>4. \A o \in Displayed' \cup {server'} : o \in OrderRecords /\ o.sent \subseteq Standing(o)
  BY <1>2, <1>3
<1>5. \A o \in Displayed' : o.paid <= server'.paid
  BY <1>1, <1>2, <1>3
<1>. QED BY <1>4, <1>5 DEF RuntimeOrders, Standing

(* The page by itself: nothing is sent, and nothing enqueued.               *)
LEMMA PageKeeps ==
    ASSUME RuntimeInv,
           \/ Persist \/ Refresh \/ Synchronize \/ CompleteSale \/ Fetch \/ FetchFails
           \/ ShowBootstrap \/ SelectOrder \/ Reload
    PROVE  RuntimeInv'
<1>0. /\ RuntimeShape /\ RuntimeOrders /\ OneThing /\ ScreenInStep
      /\ server \in OrderRecords /\ AreSensible(queue) /\ server.paid \in Nat
      /\ server.sent \subseteq Standing(server) /\ busy \in BOOLEAN /\ apart \in BOOLEAN
      /\ refresh.step \in {"none", "asked", "synchronizing", "completing", "read", "ending"}
  BY DEF RuntimeInv, RuntimeShape, RuntimeOrders, OrderRecords
<1>1. UNCHANGED <<server, queue>>
  BY DEF Persist, Refresh, Synchronize, CompleteSale, AskFor, Fetch, FetchFails,
         ShowBootstrap, Show, SelectOrder, Reload
<1>2. Displayed' \subseteq Displayed \cup {server, server', NoOrder}
  <2>1. CASE Persist
    BY <2>1 DEF Persist, Displayed
  <2>2. CASE Refresh \/ Synchronize \/ CompleteSale
    BY <2>2 DEF Refresh, Synchronize, CompleteSale, AskFor, NoRefresh, Displayed
  <2>3. CASE Fetch \/ FetchFails
    BY <2>3 DEF Fetch, FetchFails, Displayed
  <2>4. CASE ShowBootstrap \/ SelectOrder
    BY <2>4 DEF ShowBootstrap, SelectOrder, Show, NoRefresh, Displayed
  <2>5. CASE Reload
    BY <2>5 DEF Reload, NoRefresh, Displayed
  <2>. QED BY <2>1, <2>2, <2>3, <2>4, <2>5
<1>3. RuntimeOrders' /\ Displayed' \cup {server'} \subseteq OrderRecords
  <2>1. /\ server' \in OrderRecords /\ server.paid <= server'.paid
        /\ server'.sent \subseteq Standing(server')
    BY <1>0, <1>1 DEF Standing
  <2>. QED BY <2>1, <1>0, <1>2, OrdersKept
<1>4. RuntimeShape'
  <2>1. /\ busy' \in BOOLEAN /\ apart' \in BOOLEAN
        /\ refresh'.step \in {"none", "asked", "synchronizing", "completing", "read", "ending"}
    <3>1. CASE Persist
      BY <3>1, <1>0 DEF Persist
    <3>2. CASE Refresh \/ Synchronize \/ CompleteSale
      BY <3>2, <1>0 DEF Refresh, Synchronize, CompleteSale, AskFor, NoRefresh
    <3>3. CASE Fetch \/ FetchFails
      BY <3>3, <1>0 DEF Fetch, FetchFails
    <3>4. CASE ShowBootstrap \/ SelectOrder
      <4>1. PICK o : apart' = ~(InStep(o) /\ action = NoOrder)
        BY <3>4 DEF ShowBootstrap, SelectOrder, Show
      <4>2. apart' \in BOOLEAN
        BY Zenon, <4>1
      <4>3. refresh' = NoRefresh /\ busy' \in BOOLEAN
        BY <3>4, <1>0 DEF ShowBootstrap, SelectOrder
      <4>. QED BY <4>2, <4>3 DEF NoRefresh
    <3>5. CASE Reload
      BY <3>5, <1>0 DEF Reload, NoRefresh
    <3>. QED BY <3>1, <3>2, <3>3, <3>4, <3>5
  <2>. QED BY <2>1, <1>0, <1>1, <1>3 DEF RuntimeShape, AreSensible, Sensible
<1>5. OneThing' /\ ScreenInStep'
  <2>1. CASE Persist
    <3>1. OneThing' /\ Top' = Top /\ (Shows' => Shows) /\ UNCHANGED apart
      BY <2>1, <1>0 DEF Persist, OneThing, Top, Shows
    <3>. QED BY <3>1, <1>0, <1>1, ScreenFits
  <2>2. CASE Refresh \/ Synchronize \/ CompleteSale
    <3>1. OneThing' /\ Top' = Top /\ (Shows' => Shows) /\ UNCHANGED apart
      BY <2>2, <1>0 DEF Refresh, Synchronize, CompleteSale, AskFor, NoRefresh, OneThing, Top, Shows
    <3>. QED BY <3>1, <1>0, <1>1, ScreenFits
  <2>3. CASE Fetch \/ FetchFails
    <3>1. OneThing' /\ Top' = Top /\ (Shows' => Shows) /\ UNCHANGED apart
      BY <2>3, <1>0 DEF Fetch, FetchFails, OneThing, Top, Shows
    <3>. QED BY <3>1, <1>0, <1>1, ScreenFits
  <2>4. CASE ShowBootstrap \/ SelectOrder
    <3>1. PICK o : shown' = o /\ apart' = ~(InStep(o) /\ action = NoOrder) /\ UNCHANGED action
      BY <2>4 DEF ShowBootstrap, SelectOrder, Show
    <3>2. refresh' = NoRefresh
      BY <2>4 DEF ShowBootstrap, SelectOrder
    <3>3. OneThing'
      BY <3>1, <3>2 DEF OneThing, NoRefresh
    <3>4. ~apart' => Fits(o, AheadOf(server, queue)) /\ Top' = o
      BY <3>1, InStepFits DEF Top
    <3>. QED BY <3>3, <3>4, <1>1, ScreenFits
  <2>5. CASE Reload
    <3>1. OneThing' /\ ~Shows'
      BY <2>5 DEF Reload, NoRefresh, OneThing, Shows
    <3>. QED BY <3>1, ScreenFits
  <2>. QED BY <2>1, <2>2, <2>3, <2>4, <2>5
<1>. QED BY <1>3, <1>4, <1>5 DEF RuntimeInv

(* The sale is completed, or is refused and the page shows what it was.     *)
LEMMA CompleteKeeps ==
    ASSUME RuntimeInv, Complete
    PROVE  RuntimeInv'
<1>0. /\ RuntimeShape /\ RuntimeOrders /\ OneThing
      /\ server \in OrderRecords /\ AreSensible(queue) /\ server.paid \in Nat
      /\ server.sent \subseteq Standing(server) /\ apart \in BOOLEAN
  BY DEF RuntimeInv, RuntimeShape, RuntimeOrders, OrderRecords
<1>1. /\ server' \in OrderRecords /\ server'.paid = server.paid
      /\ server'.sent \subseteq Standing(server')
  <2>1. server' = server \/ server' = [server EXCEPT !.status = "COMPLETED"]
    BY DEF Complete
  <2>2. /\ server' \in OrderRecords /\ server'.paid = server.paid
        /\ server'.sent = server.sent /\ server'.lines = server.lines
    BY <2>1, <1>0 DEF OrderRecords, Statuses
  <2>. QED BY <2>2, <1>0 DEF Standing
<1>2. Displayed' \subseteq Displayed \cup {server, server', NoOrder}
  BY DEF Complete, NoRefresh, Displayed
<1>3. RuntimeOrders' /\ Displayed' \cup {server'} \subseteq OrderRecords
  <2>1. server.paid <= server'.paid
    BY <1>0, <1>1
  <2>. QED BY <2>1, <1>0, <1>1, <1>2, OrdersKept
<1>4. /\ UNCHANGED <<queue, action>> /\ busy' = FALSE /\ apart' \in BOOLEAN
      /\ refresh' = NoRefresh /\ refresh.step = "ending"
      /\ apart' \/ (shown' = NoOrder /\ UNCHANGED apart)
  BY <1>0 DEF Complete
<1>5. RuntimeShape'
  BY <1>0, <1>3, <1>4 DEF RuntimeShape, AreSensible, Sensible, NoRefresh
<1>6. ~apart' => action' = NoOrder /\ shown' = NoOrder
  BY <1>0, <1>4 DEF OneThing
<1>7. OneThing' /\ ScreenInStep'
  BY <1>4, <1>6, ScreenFits DEF OneThing, NoRefresh, Shows
<1>. QED BY <1>3, <1>5, <1>7 DEF RuntimeInv

LEMMA NotPassed ==
    ASSUME NEW o, NEW c, c.type # "PAY", c.stopped \/ ~Accepts(o, c)
    PROVE  ~Advanced(From(o), c).accepted
<1>1. PICK a : a = From(o)
  OBVIOUS
<1>2. a.order = o
  BY <1>1 DEF From
<1>3. Advanced(a, c) = [order |-> Outcome(o, c),
                        accepted |-> a.accepted /\ ~c.stopped /\ Accepts(o, c)]
  BY <1>2 DEF Advanced
<1>4. Advanced(a, c).accepted = (a.accepted /\ ~c.stopped /\ Accepts(o, c))
  BY <1>3
<1>5. ~Advanced(a, c).accepted
  BY Zenon, <1>4
<1>. QED BY <1>1, <1>5

(* The first command is sent.  A tender says nothing about the order shown;  *)
(* anything else has been accepted, or the page was apart.                  *)
LEMMA DeliverKeeps ==
    ASSUME RuntimeInv, Deliver
    PROVE  RuntimeInv'
<1>0. /\ RuntimeShape /\ RuntimeOrders /\ OneThing /\ ScreenInStep
      /\ AreSensible(queue) /\ queue # <<>> /\ UNCHANGED <<apart, orderVars>>
  BY DEF RuntimeInv, RuntimeShape, Deliver
<1>1. PICK o \in OrderRecords : o = server /\ o.paid \in Nat /\ o.sent \subseteq Standing(o)
  BY DEF RuntimeInv, RuntimeShape, RuntimeOrders, OrderRecords
<1>2. PICK q : q = queue
  OBVIOUS
<1>3. PICK c \in CommandRecords : c = Head(queue) /\ c = q[1] /\ Sensible(c) /\ c.units \in Nat
  <2>1. q \in Seq(CommandRecords) /\ q # <<>> /\ 1 \in DOMAIN q
    BY <1>0, <1>2 DEF AreSensible
  <2>2. q[1] \in CommandRecords /\ Sensible(q[1]) /\ Head(q) = q[1]
    BY <2>1, <1>0, <1>2 DEF AreSensible
  <2>3. q[1].units \in Nat
    BY <2>2 DEF CommandRecords
  <2>. QED BY <2>2, <2>3, <1>2
<1>4. OneThing' /\ Top' = Top /\ (Shows' <=> Shows) /\ Displayed' = Displayed /\ UNCHANGED apart
      /\ UNCHANGED <<shown, working, action, document, refresh, busy>>
  BY <1>0 DEF orderVars, OneThing, Top, Shows, Displayed
<1>5. ~c.stopped
  BY <1>3 DEF Deliver
<1>6. CASE Accepts(o, c)
  <2>1. PICK p : p = server' /\ p = Outcome(o, c)
    BY <1>1, <1>3, <1>6 DEF Deliver
  <2>2. queue' = Tail(q)
    BY <1>1, <1>2, <1>3, <1>6 DEF Deliver
  <2>3. /\ p \in OrderRecords /\ p.paid = (IF c.type = "PAY" THEN o.paid + c.units ELSE o.paid)
        /\ p.sent \subseteq Standing(p)
    BY <2>1, <1>1, <1>3, <1>6, OutcomePays, OutcomeStands
  <2>4. o.paid <= p.paid
    BY <2>3, <1>1, <1>3
  <2>5. RuntimeOrders' /\ Displayed' \cup {server'} \subseteq OrderRecords
    <3>1. server' \in OrderRecords /\ server.paid <= server'.paid
          /\ server'.sent \subseteq Standing(server')
      BY <2>1, <2>3, <2>4, <1>1 DEF Standing
    <3>. QED BY <3>1, <1>0, <1>4, OrdersKept
  <2>6. AreSensible(Tail(q))
    BY <1>0, <1>2 DEF AreSensible
  <2>7. RuntimeShape'
    BY <1>0, <1>4, <2>2, <2>5, <2>6 DEF RuntimeShape, AreSensible, Sensible
  <2>8. Alike(Advanced(From(o), c), From(p))
    <3>1. CASE c.type = "PAY"
      <4>1. Advanced(From(o), c) = From(o)
        BY <3>1 DEF Advanced
      <4>2. p = [o EXCEPT !.paid = @ + c.units]
        BY <3>1, <2>1 DEF Outcome
      <4>3. p.status = o.status /\ p.revision = o.revision /\ p.lines = o.lines /\ p.sent = o.sent
        BY <4>2, <1>1 DEF OrderRecords
      <4>4. Alike(From(o), From(p))
        BY <4>3 DEF Alike, From
      <4>. QED BY <4>1, <4>4
    <3>2. CASE c.type # "PAY"
      <4>1. Advanced(From(o), c) = From(p)
        BY <3>2, <1>5, <1>6, <2>1 DEF Advanced, From
      <4>. QED BY <4>1 DEF Alike
    <3>. QED BY <3>1, <3>2
  <2>9. Alike(AheadOf(o, q), AheadOf(p, Tail(q)))
    BY <1>0, <1>2, <1>3, <2>3, <2>8, AheadOfTail
  <2>10. AheadOf(server', queue') = AheadOf(p, Tail(q)) /\ AheadOf(server, queue) = AheadOf(o, q)
    BY <1>1, <1>2, <2>1, <2>2
  <2>11. ScreenInStep'
    BY <1>0, <1>4, <2>9, <2>10, ScreenFits, FitsAlike
  <2>. QED BY <1>4, <2>5, <2>7, <2>11 DEF RuntimeInv
<1>7. CASE ~Accepts(o, c)
  <2>1. UNCHANGED server /\ queue' = [queue EXCEPT ![1].stopped = TRUE]
    BY <1>1, <1>3, <1>7 DEF Deliver
  <2>. DEFINE d == [c EXCEPT !.stopped = TRUE]
              r == [q EXCEPT ![1].stopped = TRUE]
  <2>2. d \in CommandRecords /\ Sensible(d) /\ d.type = c.type
    BY <1>3 DEF CommandRecords, Sensible
  <2>3. /\ q \in Seq(CommandRecords) /\ Len(q) \in Nat \ {0} /\ 1 \in DOMAIN q
        /\ DOMAIN q = 1..Len(q)
    BY <1>0, <1>2 DEF AreSensible
  <2>4. r = [q EXCEPT ![1] = d]
    BY <1>3
  <2>. HIDE DEF d, r
  <2>5. /\ r \in Seq(CommandRecords) /\ Len(r) = Len(q) /\ r[1] = d
        /\ \A n \in 2..Len(q) : r[n] = q[n]
    BY <2>2, <2>3, <2>4
  <2>6. AreSensible(r)
    BY <2>2, <2>3, <2>5, <1>0, <1>2 DEF AreSensible
  <2>7. queue' = r
    BY <2>1, <1>2 DEF r
  <2>8. RuntimeOrders' /\ Displayed' \cup {server'} \subseteq OrderRecords
    <3>1. server' \in OrderRecords /\ server.paid <= server'.paid
          /\ server'.sent \subseteq Standing(server')
      BY <2>1, <1>1 DEF Standing
    <3>. QED BY <3>1, <1>0, <1>4, OrdersKept
  <2>9. RuntimeShape'
    BY <1>0, <1>4, <2>6, <2>7, <2>8 DEF RuntimeShape, AreSensible, Sensible
  <2>10. CASE c.type = "PAY"
    <3>1. Alike(Iteration(o, q)[0], From(o))
      BY <2>3, IterationAt DEF Alike
    <3>2. Len(q) = Len(r) + 0
      BY <2>3, <2>5
    <3>3. \A n \in 1..Len(r) : q[n + 0] = r[n] \/ (q[n + 0].type = "PAY" /\ r[n].type = "PAY")
      BY <2>2, <2>3, <2>5, <2>10, <1>3
    <3>4. Alike(AheadOf(o, q), AheadOf(o, r))
      BY <3>1, <3>2, <3>3, <2>6, <1>0, <1>2, SameEnd
    <3>5. AheadOf(server', queue') = AheadOf(o, r) /\ AheadOf(server, queue) = AheadOf(o, q)
      BY <1>1, <1>2, <2>1, <2>7
    <3>6. ScreenInStep'
      BY <1>0, <1>4, <3>4, <3>5, ScreenFits, FitsAlike
    <3>. QED BY <3>6, <1>4, <2>8, <2>9 DEF RuntimeInv
  <2>11. CASE c.type # "PAY"
    <3>1. Iteration(o, q)[1] = Advanced(From(o), c)
      BY <2>3, <1>3, IterationAt
    <3>2. ~Iteration(o, q)[1].accepted /\ 1 \in 0..Len(q)
      BY <3>1, <2>3, <2>11, <1>7, NotPassed
    <3>3. ~AheadOf(o, q).accepted
      BY <3>2, <1>0, <1>2, RefusedForGood
    <3>4. ScreenInStep'
      BY <3>3, <1>0, <1>1, <1>2, <1>4, ScreenFits DEF Fits
    <3>. QED BY <3>4, <1>4, <2>8, <2>9 DEF RuntimeInv
  <2>. QED BY <2>10, <2>11
<1>. QED BY <1>6, <1>7

(* The server refuses a line: the page is apart.                            *)
LEMMA RefuseKeeps ==
    ASSUME RuntimeInv, RefuseLine
    PROVE  RuntimeInv'
<1>0. /\ RuntimeShape /\ RuntimeOrders /\ AreSensible(queue) /\ queue # <<>>
      /\ queue' = [queue EXCEPT ![1].stopped = TRUE] /\ apart' = TRUE
      /\ UNCHANGED <<server, orderVars>>
  BY DEF RuntimeInv, RuntimeShape, RefuseLine
<1>1. AreSensible(queue')
  <2>1. queue \in Seq(CommandRecords) /\ Len(queue) \in Nat /\ 1 \in DOMAIN queue
        /\ DOMAIN queue = 1..Len(queue)
    BY <1>0 DEF AreSensible
  <2>2. PICK d : d = [queue[1] EXCEPT !.stopped = TRUE]
    OBVIOUS
  <2>3. queue[1] \in CommandRecords /\ Sensible(queue[1])
    BY <1>0, <2>1 DEF AreSensible
  <2>4. d \in CommandRecords /\ Sensible(d)
    BY <2>2, <2>3 DEF CommandRecords, Sensible
  <2>5. queue' = [queue EXCEPT ![1] = d]
    BY <1>0, <2>2
  <2>6. queue' \in Seq(CommandRecords) /\ DOMAIN queue' = DOMAIN queue
        /\ \A n \in DOMAIN queue : queue'[n] = IF n = 1 THEN d ELSE queue[n]
    BY <2>1, <2>4, <2>5
  <2>. QED BY <2>4, <2>6, <1>0 DEF AreSensible
<1>2. UNCHANGED <<shown, working, action, document, refresh, busy>>
  BY <1>0 DEF orderVars
<1>. QED BY <1>0, <1>1, <1>2
     DEF RuntimeInv, RuntimeShape, RuntimeOrders, OneThing, ScreenInStep, Displayed, Standing,
         AreSensible, Sensible

(* A stopped command is settled: a tender, or the page was apart.           *)
LEMMA ResolveKeeps ==
    ASSUME RuntimeInv, Resolve
    PROVE  RuntimeInv'
<1>0. /\ RuntimeShape /\ RuntimeOrders /\ OneThing /\ ScreenInStep
      /\ AreSensible(queue) /\ queue # <<>> /\ queue' = Tail(queue)
      /\ UNCHANGED <<server, apart, orderVars>>
  BY DEF RuntimeInv, RuntimeShape, Resolve
<1>1. PICK o, q : o \in OrderRecords /\ o = server /\ q = queue
  BY DEF RuntimeInv, RuntimeShape
<1>2. PICK c \in CommandRecords : c = q[1] /\ c.stopped
  BY <1>0, <1>1 DEF AreSensible, Resolve
<1>3. OneThing' /\ Top' = Top /\ (Shows' <=> Shows) /\ UNCHANGED apart /\ RuntimeOrders'
      /\ UNCHANGED <<server, shown, working, action, document, refresh, busy>>
  BY <1>0 DEF orderVars, OneThing, Top, Shows, RuntimeOrders, Displayed, Standing
<1>4. AreSensible(Tail(q))
  BY <1>0, <1>1 DEF AreSensible
<1>5. RuntimeShape'
  BY <1>0, <1>1, <1>3, <1>4 DEF RuntimeShape, Displayed, AreSensible, Sensible
<1>6. ScreenInStep'
  <2>1. CASE c.type = "PAY"
    <3>1. Advanced(From(o), c) = From(o)
      BY <2>1 DEF Advanced
    <3>2. Alike(AheadOf(o, q), AheadOf(o, Tail(q)))
      BY <3>1, <1>0, <1>1, <1>2, AheadOfTail DEF Alike
    <3>3. AheadOf(server', queue') = AheadOf(o, Tail(q)) /\ AheadOf(server, queue) = AheadOf(o, q)
      BY <1>0, <1>1, <1>3
    <3>. QED BY <1>0, <1>3, <3>2, <3>3, ScreenFits, FitsAlike
  <2>2. CASE c.type # "PAY"
    <3>1. Iteration(o, q)[1] = Advanced(From(o), c) /\ 1 \in 0..Len(q)
      BY <1>0, <1>1, <1>2, IterationAt DEF AreSensible
    <3>2. ~Iteration(o, q)[1].accepted
      BY <3>1, <2>2, <1>2, NotPassed
    <3>3. ~AheadOf(o, q).accepted
      BY <3>1, <3>2, <1>0, <1>1, RefusedForGood
    <3>. QED BY <3>3, <1>0, <1>1, <1>3, ScreenFits DEF Fits
  <2>. QED BY <2>1, <2>2
<1>. QED BY <1>3, <1>5, <1>6 DEF RuntimeInv

(* Others edit or pay the order.                                            *)
LEMMA ForeignKeeps ==
    ASSUME RuntimeInv, NEW c \in CommandRecords, Sensible(c), c.type # "CREATE", Foreign(c)
    PROVE  RuntimeInv'
<1>0. /\ RuntimeShape /\ RuntimeOrders /\ OneThing /\ ScreenInStep
      /\ AreSensible(queue) /\ UNCHANGED <<queue, orderVars>>
      /\ apart' = (apart \/ Edits(c)) /\ apart \in BOOLEAN
  BY DEF RuntimeInv, RuntimeShape, Foreign
<1>1. PICK o, q : o \in OrderRecords /\ o = server /\ q = queue
                                  /\ o.paid \in Nat /\ o.sent \subseteq Standing(o)
  BY DEF RuntimeInv, RuntimeShape, RuntimeOrders, OrderRecords
<1>2. PICK p : p = server' /\ p = Outcome(o, c) /\ Accepts(o, c)
  BY <1>1 DEF Foreign
<1>3. /\ p \in OrderRecords /\ p.paid = (IF c.type = "PAY" THEN o.paid + c.units ELSE o.paid)
      /\ p.sent \subseteq Standing(p) /\ c.units \in Nat
  <2>1. c.units \in Nat
    BY DEF CommandRecords
  <2>2. p \in OrderRecords /\ p.paid = (IF c.type = "PAY" THEN o.paid + c.units ELSE o.paid)
    <3>1. /\ Outcome(o, c) \in OrderRecords
          /\ Outcome(o, c).paid = (IF c.type = "PAY" THEN o.paid + c.units ELSE o.paid)
      BY <1>1, OutcomePays
    <3>. QED BY <3>1, <1>2
  <2>3. p.sent \subseteq Standing(p)
    BY <1>1, <1>2, OutcomeStands
  <2>. QED BY <2>1, <2>2, <2>3
<1>4. /\ UNCHANGED <<shown, working, action, document, refresh, busy>>
      /\ Top' = Top /\ (Shows' <=> Shows) /\ Displayed' = Displayed
  BY <1>0 DEF orderVars, Top, Shows, Displayed
<1>5. apart' \in BOOLEAN /\ (apart => apart') /\ (~apart' => ~Edits(c))
  BY Zenon, <1>0
<1>6. RuntimeOrders' /\ Displayed' \cup {server'} \subseteq OrderRecords
  <2>1. o.paid <= p.paid
    BY <1>1, <1>3
  <2>2. server' \in OrderRecords /\ server.paid <= server'.paid
        /\ server'.sent \subseteq Standing(server')
    BY <2>1, <1>1, <1>2, <1>3 DEF Standing
  <2>. QED BY <2>2, <1>0, <1>4, OrdersKept
<1>7. RuntimeShape'
  BY <1>0, <1>4, <1>5, <1>6 DEF RuntimeShape, AreSensible, Sensible
<1>8. OneThing'
  BY <1>0, <1>4, <1>5 DEF OneThing
<1>9. ScreenInStep'
  <2>1. SUFFICES ASSUME ~apart', Shows' PROVE Fits(Top', AheadOf(server', queue'))
    BY ScreenFits
  <2>2. c.type \in {"CREATE", "PAY"}
    BY <2>1, <1>5 DEF Edits
  <2>3. Fits(Top, AheadOf(server, queue))
    BY <2>1, <1>0, <1>4, <1>5, ScreenFits
  <2>4. c.type = "PAY"
    BY <2>2
  <2>5. p = [o EXCEPT !.paid = @ + c.units]
    BY <2>4, <1>2 DEF Outcome
  <2>6. Alike(From(o), From(p))
    BY <2>5, <1>1 DEF Alike, From, OrderRecords
  <2>7. Alike(AheadOf(o, q), AheadOf(p, q))
    BY <2>6, <1>0, <1>1, <1>3, AheadAlike
  <2>8. AheadOf(server', queue') = AheadOf(p, q) /\ AheadOf(server, queue) = AheadOf(o, q)
    BY <1>0, <1>1, <1>2
  <2>. QED BY <2>3, <2>7, <2>8, <1>4, FitsAlike
<1>. QED BY <1>6, <1>7, <1>8, <1>9 DEF RuntimeInv

LEMMA RuntimeFirst == RuntimeInit => RuntimeInv
<1>1. SUFFICES ASSUME RuntimeInit PROVE RuntimeInv
  OBVIOUS
<1>2. /\ Displayed \cup {server} = {NoOrder} /\ server = NoOrder /\ queue = <<>>
      /\ action = NoOrder /\ shown = NoOrder /\ refresh.step = "none"
      /\ busy \in BOOLEAN /\ apart \in BOOLEAN
  BY <1>1 DEF RuntimeInit, Displayed, NoRefresh
<1>3. RuntimeShape
  BY <1>2, NoOrderIsOne, AheadOfNothing DEF RuntimeShape
<1>4. RuntimeOrders
  BY <1>2, NoOrderIsOne DEF RuntimeOrders
<1>5. OneThing /\ ScreenInStep
  BY <1>2 DEF OneThing, ScreenInStep
<1>. QED BY <1>3, <1>4, <1>5 DEF RuntimeInv

LEMMA ForeignMade ==
    ASSUME RuntimeInv
    PROVE  /\ \A l \in LineIds : LET c == ForeignCommand("ADD", l, {}, 1)
                                IN  c \in CommandRecords /\ Sensible(c) /\ c.type = "ADD"
           /\ \A type \in {"HOLD", "RESUME"} :
                 LET c == ForeignCommand(type, 0, {}, 0)
                 IN  c \in CommandRecords /\ Sensible(c) /\ c.type = type
           /\ LET c == ForeignCommand("PAY", 0, {}, 1)
              IN  c \in CommandRecords /\ Sensible(c) /\ c.type = "PAY"
<1>1. server.revision \in Nat
  BY DEF RuntimeInv, RuntimeShape, OrderRecords
<1>2. PICK r \in Nat : r = server.revision
  BY <1>1
<1>. DEFINE Command(type, at, wave, units) ==
               [type |-> type, revision |-> r, line |-> at, wave |-> wave,
                units |-> units, stopped |-> FALSE]
<1>3. \A type, at, wave, units :
         ForeignCommand(type, at, wave, units) = Command(type, at, wave, units)
  <2>. SUFFICES ASSUME NEW type, NEW at, NEW wave, NEW units
                PROVE  ForeignCommand(type, at, wave, units) = Command(type, at, wave, units)
    OBVIOUS
  <2>1. PICK k, s : k = NewCommand(type, at, wave, units) /\ s = shown.revision
    OBVIOUS
  <2>2. k = [type |-> type, revision |-> s, line |-> at, wave |-> wave,
             units |-> units, stopped |-> FALSE]
    BY <2>1 DEF NewCommand
  <2>3. [k EXCEPT !.revision = r] = Command(type, at, wave, units)
    <3>1. /\ DOMAIN k = {"type", "revision", "line", "wave", "units", "stopped"}
          /\ k.type = type /\ k.line = at /\ k.wave = wave /\ k.units = units
          /\ k.stopped = FALSE
      BY <2>2
    <3>2. [k EXCEPT !.revision = r] =
             [x \in {"type", "revision", "line", "wave", "units", "stopped"} |->
                 IF x = "revision" THEN r ELSE k[x]]
      BY <2>2
    <3>3. PICK d : d = Command(type, at, wave, units)
      OBVIOUS
    <3>4. /\ d = [x \in {"type", "revision", "line", "wave", "units", "stopped"} |-> d[x]]
          /\ d.type = type /\ d.line = at /\ d.wave = wave /\ d.units = units
          /\ d.stopped = FALSE /\ d.revision = r
      BY <3>3
    <3>5. \A x \in {"type", "revision", "line", "wave", "units", "stopped"} :
             d[x] = IF x = "revision" THEN r ELSE k[x]
      BY <3>1, <3>4
    <3>. QED BY <3>2, <3>3, <3>4, <3>5
  <2>. QED BY <1>2, <2>1, <2>3 DEF ForeignCommand
<1>4. ASSUME NEW type \in Edited \cup {"PAY"}, NEW at \in LineIds \cup {0}, NEW units \in Nat
      PROVE  Command(type, at, {}, units) \in CommandRecords
  BY DEF CommandRecords
<1>5. \A type, at, wave, units :
         /\ Command(type, at, wave, units).type = type
         /\ Command(type, at, wave, units).line = at
         /\ Command(type, at, wave, units).units = units
  OBVIOUS
<1>. HIDE DEF Command
<1>. QED BY <1>3, <1>4, <1>5 DEF Sensible, Edited

LEMMA RuntimeStep == RuntimeInv /\ [RuntimeNext]_runtimeVars => RuntimeInv'
<1>1. SUFFICES ASSUME RuntimeInv, [RuntimeNext]_runtimeVars PROVE RuntimeInv'
  OBVIOUS
<1>2. CASE StartOrder \/ HoldOrder \/ ResumeOrder \/ SendOrder
  BY <1>1, <1>2, ActionsEnqueue, ActionsKeep
<1>3. CASE \E l \in LineIds :
             AddOrderLine(l) \/ RemoveOrderLine(l) \/ \E n \in 1..MostUnits : ReplaceQuantity(l, n)
  BY <1>1, <1>3, ActionsEnqueue, ActionsKeep
<1>4. CASE \E n \in 1..MostUnits : PayOffline(n) \/ PayOnline(n)
  BY <1>1, <1>4, ActionsEnqueue, ActionsKeep, PayOnlineKeeps
<1>5. CASE \/ Persist \/ Refresh \/ Synchronize \/ CompleteSale \/ Fetch \/ FetchFails
           \/ ShowBootstrap \/ SelectOrder \/ Reload
  BY <1>1, <1>5, PageKeeps
<1>6. CASE Complete
  BY <1>1, <1>6, CompleteKeeps
<1>7. CASE Deliver \/ RefuseLine \/ Resolve
  BY <1>1, <1>7, DeliverKeeps, RefuseKeeps, ResolveKeeps
<1>8. CASE \E l \in LineIds \ Mentioned : Foreign(ForeignCommand("ADD", l, {}, 1))
  <2>1. PICK l \in LineIds : Foreign(ForeignCommand("ADD", l, {}, 1))
    BY <1>8
  <2>2. PICK c : c = ForeignCommand("ADD", l, {}, 1)
    OBVIOUS
  <2>3. c \in CommandRecords /\ Sensible(c) /\ c.type = "ADD"
    BY <1>1, <2>2, ForeignMade
  <2>. QED BY <1>1, <2>1, <2>2, <2>3, ForeignKeeps
<1>9. CASE \E type \in {"HOLD", "RESUME"} : Foreign(ForeignCommand(type, 0, {}, 0))
  <2>1. PICK type \in {"HOLD", "RESUME"} : Foreign(ForeignCommand(type, 0, {}, 0))
    BY <1>9
  <2>2. PICK c : c = ForeignCommand(type, 0, {}, 0)
    OBVIOUS
  <2>3. c \in CommandRecords /\ Sensible(c) /\ c.type = type
    BY <1>1, <2>2, ForeignMade
  <2>. QED BY <1>1, <2>1, <2>2, <2>3, ForeignKeeps
<1>10. CASE Foreign(ForeignCommand("PAY", 0, {}, 1))
  <2>1. PICK c : c = ForeignCommand("PAY", 0, {}, 1)
    OBVIOUS
  <2>2. c \in CommandRecords /\ Sensible(c) /\ c.type = "PAY"
    BY <1>1, <2>1, ForeignMade
  <2>. QED BY <1>1, <1>10, <2>1, <2>2, ForeignKeeps
<1>11. CASE UNCHANGED runtimeVars
  BY <1>1, <1>11
     DEF runtimeVars, orderVars, RuntimeInv, RuntimeShape, RuntimeOrders, OneThing, ScreenInStep,
         Displayed, Standing, AreSensible, Sensible, InStep, Ahead
<1>. QED BY <1>1, <1>2, <1>3, <1>4, <1>5, <1>6, <1>7, <1>8, <1>9, <1>10, <1>11 DEF RuntimeNext

(* The screen shows what the server will have: no money as paid that is not *)
(* confirmed, and the order the queue will lead to (CashierRuntime).        *)
THEOREM ScreenAlwaysBacked == Spec => []ScreenIsBacked
<1>1. RuntimeInv => ScreenIsBacked
  <2>1. SUFFICES ASSUME RuntimeInv PROVE ScreenIsBacked
    OBVIOUS
  <2>2. \A o \in {shown, working, action} : o.paid <= server.paid
    BY <2>1 DEF RuntimeInv, RuntimeOrders, Displayed
  <2>3. ~apart /\ shown # NoOrder => InStep(IF action = NoOrder THEN shown ELSE action)
    BY <2>1 DEF RuntimeInv, ScreenInStep
  <2>. QED BY <2>2, <2>3 DEF ScreenIsBacked
<1>. QED BY <1>1, RuntimeFirst, RuntimeStep, RuntimeRuns, PTL
=============================================================================
