------------------------------- MODULE Privacy -------------------------------
(***************************************************************************)
(* The contact data of one customer: the profile, the contacts that orders *)
(* have kept of it, the requests about it and the rewrapping under a newer *)
(* key (apps/api/src/privacy/privacy.service.ts, OrdersService.create,     *)
(* SecurityOperationsService.rewrapCustomerPii, and the triggers of        *)
(* migrations 202608080002 and 202608080003).                              *)
(*                                                                         *)
(* Every operation is one serializable transaction.  Names, numbers and    *)
(* ciphertexts are left out: data is there, under a key, or it is not.     *)
(* Consents, exports and retention policies change none of it.             *)
(***************************************************************************)
EXTENDS Naturals, FiniteSets

CONSTANTS
    Contacts,       \* orders that may keep a contact
    Inquiries,      \* privacy requests
    LastKey,        \* keys are numbered from 1; 0 stands for no data

    NoContact

\* The server always has a key to write with.
ASSUME PrivacyAssumption == LastKey \in Nat \ {0}

VARIABLES
    customer,       \* the customer's profile
    contact,        \* contact[o]: what order o keeps, or NoContact
    inquiry,        \* inquiry[q]: the privacy request q
    activeKey       \* the key the server writes with, from its environment

privacyVars == <<customer, contact, inquiry, activeKey>>

KeyVersions == 1..LastKey

PrivacyTypeOK ==
    /\ customer \in [status: {"none", "ACTIVE", "RESTRICTED", "ANONYMIZED"},
                    key: 0..LastKey, held: BOOLEAN]
    /\ contact \in [Contacts -> [key: 0..LastKey, phone: BOOLEAN, linked: BOOLEAN,
                                 anonymized: BOOLEAN] \cup {NoContact}]
    /\ inquiry \in [Inquiries -> [status: {"none", "RECEIVED", "IDENTITY_VERIFIED", "IN_PROGRESS",
                                           "COMPLETED", "REJECTED", "CANCELLED"},
                                  type: {"RESTRICTION", "ANONYMIZATION"}]]
    /\ activeKey \in KeyVersions

PrivacyInit ==
    /\ customer = [status |-> "none", key |-> 0, held |-> FALSE]
    /\ contact = [o \in Contacts |-> NoContact]
    /\ inquiry = [q \in Inquiries |-> [status |-> "none", type |-> "RESTRICTION"]]
    /\ activeKey = 1

-----------------------------------------------------------------------------
Kept   == {o \in Contacts : contact[o] # NoContact}
Linked == {o \in Kept : contact[o].linked}

CreateCustomer(held) ==
    /\ customer.status = "none"
    /\ customer' = [status |-> "ACTIVE", key |-> activeKey, held |-> held]
    /\ UNCHANGED <<contact, inquiry, activeKey>>

\* The data is written anew, also that of a restricted customer.
UpdateCustomer(held) ==
    /\ customer.status \in {"ACTIVE", "RESTRICTED"}
    /\ customer' = [customer EXCEPT !.key = activeKey, !.held = held]
    /\ UNCHANGED <<contact, inquiry, activeKey>>

LegalHoldEnds ==
    /\ customer.held
    /\ customer' = [customer EXCEPT !.held = FALSE]
    /\ UNCHANGED <<contact, inquiry, activeKey>>

\* What an order keeps of the person who gave it: a phone number, or only the
\* directions for the delivery.  The order may name the customer's profile.
KeepContact(o, phone, linked) ==
    /\ contact[o] = NoContact
    /\ contact' = [contact EXCEPT ![o] = [key |-> activeKey, phone |-> phone,
                                          linked |-> linked, anonymized |-> FALSE]]
    /\ UNCHANGED <<customer, inquiry, activeKey>>

CreateOrderForAnyone(o, phone, linked) ==
    /\ linked => customer.status # "none"
    /\ KeepContact(o, phone, linked)

CreateOrder(o, phone, linked) ==
    /\ linked => customer.status = "ACTIVE"
    /\ KeepContact(o, phone, linked)

CreatePrivacyRequest(q, type) ==
    /\ inquiry[q].status = "none"
    /\ customer.status # "none"
    /\ inquiry' = [inquiry EXCEPT ![q] = [status |-> "RECEIVED", type |-> type]]
    /\ UNCHANGED <<customer, contact, activeKey>>

Transitions ==
    [RECEIVED          |-> {"IDENTITY_VERIFIED", "REJECTED", "CANCELLED"},
     IDENTITY_VERIFIED |-> {"IN_PROGRESS", "REJECTED", "CANCELLED"},
     IN_PROGRESS       |-> {"COMPLETED", "REJECTED"}]

\* What order_customer_contact_lifecycle_guard lets an update of all linked
\* contacts do: none may be anonymised already, and the blind index of a phone
\* number may not change, which the CHECK of an anonymised contact requires.
ContactsMayBeAnonymized == \A o \in Linked : ~contact[o].anonymized /\ ~contact[o].phone

Anonymize ==
    /\ ~customer.held
    /\ ContactsMayBeAnonymized
    /\ contact' = [o \in Contacts |->
                      IF o \in Linked THEN [contact[o] EXCEPT !.key = 0, !.anonymized = TRUE]
                      ELSE contact[o]]
    /\ customer' = [customer EXCEPT !.status = "ANONYMIZED", !.key = 0]

\* An anonymised profile keeps its status (customer_profile_lifecycle_guard).
RestrictUse ==
    /\ customer.status # "ANONYMIZED"
    /\ customer' = [customer EXCEPT !.status = "RESTRICTED"]
    /\ UNCHANGED contact

TransitionPrivacyRequest(q, to) ==
    /\ inquiry[q].status \in DOMAIN Transitions
    /\ to \in Transitions[inquiry[q].status]
    /\ to = "COMPLETED" /\ inquiry[q].type = "ANONYMIZATION" => Anonymize
    /\ to = "COMPLETED" /\ inquiry[q].type = "RESTRICTION" => RestrictUse
    /\ to # "COMPLETED" => UNCHANGED <<customer, contact>>
    /\ inquiry' = [inquiry EXCEPT ![q].status = to]
    /\ UNCHANGED activeKey

\* A deployment that writes with the next key and still reads the older ones.
RotateKey ==
    /\ activeKey < LastKey
    /\ activeKey' = activeKey + 1
    /\ UNCHANGED <<customer, contact, inquiry>>

\* A batch rewraps the profile first, and contacts as far as the limit goes.
RewrapCustomerPii(source, batch) ==
    LET rewrapsProfile == customer.key = source /\ customer.status # "ANONYMIZED"
    IN  /\ source # activeKey
        /\ batch \subseteq {o \in Kept : contact[o].key = source /\ ~contact[o].anonymized}
        /\ customer' = IF rewrapsProfile THEN [customer EXCEPT !.key = activeKey] ELSE customer
        /\ contact' = [o \in Contacts |->
                          IF o \in batch THEN [contact[o] EXCEPT !.key = activeKey]
                          ELSE contact[o]]
        /\ UNCHANGED <<inquiry, activeKey>>

PrivacyNext ==
    \/ LegalHoldEnds \/ RotateKey
    \/ \E held \in BOOLEAN : CreateCustomer(held) \/ UpdateCustomer(held)
    \/ \E o \in Contacts, phone, linked \in BOOLEAN : CreateOrder(o, phone, linked)
    \/ \E q \in Inquiries :
          \/ \E type \in {"RESTRICTION", "ANONYMIZATION"} : CreatePrivacyRequest(q, type)
          \/ \E to \in {"IDENTITY_VERIFIED", "IN_PROGRESS", "COMPLETED", "REJECTED", "CANCELLED"} :
                TransitionPrivacyRequest(q, to)
    \/ \E source \in KeyVersions, batch \in SUBSET Contacts : RewrapCustomerPii(source, batch)

-----------------------------------------------------------------------------
\* Once a request for anonymisation has been completed, neither the profile nor
\* any order that named it holds data of the customer, ever after: not through
\* orders taken later, updates, further requests or rewrapping
\* (PrivacyService.transitionPrivacyRequest, OrdersService.create).
ErasedForGood ==
    (\E q \in Inquiries : inquiry[q] = [status |-> "COMPLETED", type |-> "ANONYMIZATION"])
    => customer.key = 0 /\ \A o \in Linked : contact[o].key = 0
=============================================================================
