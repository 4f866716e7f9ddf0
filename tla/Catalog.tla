------------------------------ MODULE Catalog -------------------------------
(***************************************************************************)
(* What the endpoints of OCPP 1.6 and 2.0.1 are set up with: the features  *)
(* of their profiles by name, and the validators of all message files.     *)
(***************************************************************************)
EXTENDS Integers, Sequences

V16 == INSTANCE Messages16
V201A == INSTANCE Messages201A
V201B == INSTANCE Messages201B

(* The profiles that NewChargePoint and NewCentralSystem, NewChargingStation
   and NewCSMS give their endpoints. *)
Features16 ==
    V16!CoreProfile \o V16!LocalauthProfile \o V16!FirmwareProfile \o V16!ReservationProfile
    \o V16!RemotetriggerProfile \o V16!SmartchargingProfile
Features201 ==
    V201A!AuthorizationProfile \o V201A!AvailabilityProfile \o V201A!DataProfile
    \o V201A!DiagnosticsProfile \o V201A!DisplayProfile \o V201A!FirmwareProfile
    \o V201A!Iso15118Profile \o V201B!LocalauthProfile \o V201B!MeterProfile
    \o V201B!ProvisioningProfile \o V201B!RemotecontrolProfile \o V201B!ReservationProfile
    \o V201B!SecurityProfile \o V201B!SmartchargingProfile \o V201B!TariffcostProfile
    \o V201B!TransactionsProfile

(* All validators are registered with the one validator of package ocppj. *)
AllTags ==
    LET tables == <<V16!TypesTags, V201A!TypesTags, V201A!DiagnosticsTags, V201A!DisplayTags>>
                  \o [i \in DOMAIN (Features16 \o Features201) |-> (Features16 \o Features201)[i].tags]
    IN  [t \in UNION {DOMAIN tables[i] : i \in DOMAIN tables} |->
            tables[CHOOSE i \in DOMAIN tables : t \in DOMAIN tables[i]][t]]

ByName(features) ==
    [n \in {features[i].name : i \in DOMAIN features} |->
        features[CHOOSE i \in DOMAIN features : features[i].name = n]]
AllFeatures == [v16 |-> ByName(Features16), v201 |-> ByName(Features201)]
=============================================================================
