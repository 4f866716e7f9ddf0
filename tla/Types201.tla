---------------------------------- MODULE Types201 ----------------------------------
(***************************************************************************)
(* ocpp2.0.1/types/types.go: the enumerations and the structures that OCPP *)
(* 2.0.1 messages share, each field with its Go kind, its json tag and its *)
(* validate tag, in the words of module Fields.                            *)
(***************************************************************************)
EXTENDS Fields

------------------------------------------------------------------------------
(* The enumerations: the constants of each type, all accepted by its validator. *)

IdTokenType ==
    {"Central", "eMAID", "ISO14443", "ISO15693", "KeyCode", "Local", "MacAddress",
     "NoAuthorization"}

GenericDeviceModelStatus ==
    {"Accepted", "Rejected", "NotSupported", "EmptyResultSet"}

GenericStatus ==
    {"Accepted", "Rejected"}

HashAlgorithmType ==
    {"SHA256", "SHA384", "SHA512"}

MessageFormatType ==
    {"ASCII", "HTML", "URI", "UTF8"}

AuthorizationStatus ==
    {"Accepted", "Blocked", "Expired", "Invalid", "ConcurrentTx", "NoCredit",
     "NotAllowedTypeEVS", "NotAtThisLocation", "NotAtThisTime", "Unknown"}

Attribute ==
    {"Actual", "Target", "MinSet", "MaxSet"}

ChargingProfilePurposeType ==
    {"ChargingStationExternalConstraints", "ChargingStationMaxProfile",
     "TxDefaultProfile", "TxProfile"}

ChargingProfileKindType ==
    {"Absolute", "Recurring", "Relative"}

RecurrencyKindType ==
    {"Daily", "Weekly"}

ChargingRateUnitType ==
    {"W", "A"}

ChargingLimitSourceType ==
    {"EMS", "Other", "SO", "CSO"}

RemoteStartStopStatus ==
    {"Accepted", "Rejected"}

ReadingContext ==
    {"Interruption.Begin", "Interruption.End", "Other", "Sample.Clock", "Sample.Periodic",
     "Transaction.Begin", "Transaction.End", "Trigger"}

Measurand ==
    {"SoC", "Current.Export", "Current.Import", "Current.Offered",
     "Energy.Active.Export.Interval", "Energy.Active.Export.Register",
     "Energy.Reactive.Export.Interval", "Energy.Reactive.Export.Register",
     "Energy.Reactive.Import.Register", "Energy.Reactive.Import.Interval",
     "Energy.Active.Import.Interval", "Energy.Active.Import.Register", "Frequency",
     "Power.Active.Export", "Power.Active.Import", "Power.Reactive.Import",
     "Power.Reactive.Export", "Power.Offered", "Power.Factor", "Voltage", "Temperature",
     "Energy.Active.Net", "Energy.Apparent.Net", "Energy.Reactive.Net",
     "Energy.Apparent.Import", "Energy.Apparent.Export"}

Phase ==
    {"L1", "L2", "L3", "N", "L1-N", "L2-N", "L3-N", "L1-L2", "L2-L3", "L3-L1"}

Location ==
    {"Body", "Cable", "EV", "Inlet", "Outlet"}

SignatureMethod ==
    {"ECDSA192SHA256", "ECDSAP256SHA256", "ECDSAP384SHA384"}

EncodingMethod ==
    {"COSEM Protected Data", "EDL", "DLMS Message", "Other"}

CertificateSigningUse ==
    {"ChargingStationCertificate", "V2GCertificate"}

CertificateUse ==
    {"V2GRootCertificate", "MORootCertificate", "CSOSubCA1", "CSOSubCA2",
     "CSMSRootCertificate", "V2GCertificateChain", "ManufacturerRootCertificate"}

Certificate15118EVStatus ==
    {"Accepted", "Failed"}

CostKind ==
    {"CarbonDioxideEmission", "RelativePricePercentage", "RenewableGenerationPercentage"}

------------------------------------------------------------------------------
(* The structures shared by several messages. *)

AdditionalInfo ==
    << Keep("additionalIdToken", Text, <<Required, AtMost(36)>>),
       Keep("type", Text, <<Required, AtMost(50)>>) >>

IdToken ==
    << Keep("idToken", Text, <<AtMost(36)>>),
       Keep("type", Choice, <<Required, Tag("idTokenType")>>),
       Omit("additionalInfo", Slice(Struct(AdditionalInfo)), <<OmitEmpty, Dive>>) >>

OCSPRequestDataType ==
    << Keep("hashAlgorithm", Choice, <<Required, Tag("hashAlgorithm")>>),
       Keep("issuerNameHash", Text, <<Required, AtMost(128)>>),
       Keep("issuerKeyHash", Text, <<Required, AtMost(128)>>),
       Keep("serialNumber", Text, <<Required, AtMost(40)>>),
       Omit("responderURL", Text, <<AtMost(512)>>) >>

CertificateHashData ==
    << Keep("hashAlgorithm", Choice, <<Required, Tag("hashAlgorithm")>>),
       Keep("issuerNameHash", Text, <<Required, AtMost(128)>>),
       Keep("issuerKeyHash", Text, <<Required, AtMost(128)>>),
       Keep("serialNumber", Text, <<Required, AtMost(40)>>) >>

CertificateHashDataChain ==
    << Keep("certificateType", Choice, <<Required, Tag("certificateUse")>>),
       Keep("certificateHashData", Struct(CertificateHashData), <<Required>>),
       Omit("childCertificateHashData", Slice(Struct(CertificateHashData)), <<OmitEmpty, Dive>>) >>

MessageContent ==
    << Keep("format", Choice, <<Required, Tag("messageFormat")>>),
       Omit("language", Text, <<AtMost(8)>>),
       Keep("content", Text, <<Required, AtMost(512)>>) >>

GroupIdToken ==
    << Keep("idToken", Text, <<AtMost(36)>>),
       Keep("type", Choice, <<Required, Tag("idTokenType")>>) >>

IdTokenInfo ==
    << Arg("status", Choice, <<Required, Tag("authorizationStatus201")>>),
       Omit("cacheExpiryDateTime", Ptr(Date), <<OmitEmpty>>),
       Omit("chargingPriority", Number, <<AtLeast(-9), AtMost(9)>>),
       Omit("language1", Text, <<AtMost(8)>>),
       Omit("language2", Text, <<AtMost(8)>>),
       Omit("groupIdToken", Ptr(Checked("isValidGroupIdToken", GroupIdToken)), <<>>),
       Omit("personalMessage", Ptr(Struct(MessageContent)), <<>>) >>

StatusInfo ==
    << Arg("reasonCode", Text, <<Required, AtMost(20)>>),
       ArgOmit("additionalInfo", Text, <<OmitEmpty, AtMost(512)>>) >>

EVSE ==
    << Keep("id", Number, <<Gte(0)>>),
       Omit("connectorId", Ptr(Number), <<OmitEmpty, Gte(0)>>) >>

Component ==
    << Keep("name", Text, <<Required, AtMost(50)>>),
       Omit("instance", Text, <<OmitEmpty, AtMost(50)>>),
       Omit("evse", Ptr(Struct(EVSE)), <<OmitEmpty>>) >>

Variable ==
    << Keep("name", Text, <<Required, AtMost(50)>>),
       Omit("instance", Text, <<OmitEmpty, AtMost(50)>>) >>

ComponentVariable ==
    << Keep("component", Struct(Component), <<Required>>),
       Keep("variable", Struct(Variable), <<Required>>) >>

RelativeTimeInterval ==
    << Keep("start", Number, <<>>),
       Omit("duration", Ptr(Number), <<OmitEmpty, Gte(0)>>) >>

CostType ==
    << Keep("costKind", Choice, <<Required, Tag("costKind")>>),
       Keep("amount", Number, <<Gte(0)>>),
       Omit("amountMultiplier", Ptr(Number), <<OmitEmpty, AtLeast(-3), AtMost(3)>>) >>

ConsumptionCost ==
    << Keep("startValue", Decimal, <<>>),
       Keep("cost", Slice(Struct(CostType)), <<Required, AtMost(3), Dive>>) >>

SalesTariffEntry ==
    << Omit("ePriceLevel", Ptr(Number), <<OmitEmpty, Gte(0)>>),
       Keep("relativeTimeInterval", Struct(RelativeTimeInterval), <<Required>>),
       Omit("consumptionCost", Slice(Struct(ConsumptionCost)), <<OmitEmpty, AtMost(3), Dive>>) >>

SalesTariff ==
    << Arg("id", Number, <<>>),
       Omit("salesTariffDescription", Text, <<OmitEmpty, AtMost(32)>>),
       Omit("numEPriceLevels", Ptr(Number), <<OmitEmpty>>),
       Arg("salesTariffEntry", Slice(Struct(SalesTariffEntry)), <<Required, AtLeast(1), AtMost(1024), Dive>>) >>

ChargingSchedulePeriod ==
    << Keep("startPeriod", Number, <<Gte(0)>>),
       Keep("limit", Decimal, <<Gte(0)>>),
       Omit("numberPhases", Ptr(Number), <<OmitEmpty, Gte(0)>>) >>

ChargingSchedule ==
    << Arg("id", Number, <<Gte(0)>>),
       Omit("startSchedule", Ptr(Date), <<OmitEmpty>>),
       Omit("duration", Ptr(Number), <<OmitEmpty, Gte(0)>>),
       Arg("chargingRateUnit", Choice, <<Required, Tag("chargingRateUnit201")>>),
       Omit("minChargingRate", Ptr(Decimal), <<OmitEmpty, Gte(0)>>),
       Arg("chargingSchedulePeriod", Slice(Struct(ChargingSchedulePeriod)), <<Required, AtLeast(1), AtMost(1024)>>),
       Omit("salesTariff", Ptr(Struct(SalesTariff)), <<OmitEmpty>>) >>

ChargingProfile ==
    << Arg("id", Number, <<Gte(0)>>),
       Arg("stackLevel", Number, <<Gte(0)>>),
       Arg("chargingProfilePurpose", Choice, <<Required, Tag("chargingProfilePurpose201")>>),
       Arg("chargingProfileKind", Choice, <<Required, Tag("chargingProfileKind201")>>),
       Omit("recurrencyKind", Choice, <<OmitEmpty, Tag("recurrencyKind201")>>),
       Omit("validFrom", Ptr(Date), <<>>),
       Omit("validTo", Ptr(Date), <<>>),
       Omit("transactionId", Text, <<OmitEmpty, AtMost(36)>>),
       Arg("chargingSchedule", Slice(Struct(ChargingSchedule)), <<Required, AtLeast(1), AtMost(3), Dive>>) >>

UnitOfMeasure ==
    << Omit("unit", Text, <<OmitEmpty, AtMost(20)>>),
       Omit("multiplier", Ptr(Number), <<OmitEmpty, Gte(0)>>) >>

SignedMeterValue ==
    << Keep("signedMeterData", Text, <<Required, AtMost(2500)>>),
       Keep("signingMethod", Text, <<Required, AtMost(50)>>),
       Keep("encodingMethod", Text, <<Required, AtMost(50)>>),
       Keep("publicKey", Text, <<Required, AtMost(2500)>>) >>

SampledValue ==
    << Keep("value", Decimal, <<>>),
       Omit("context", Choice, <<OmitEmpty, Tag("readingContext201")>>),
       Omit("measurand", Choice, <<OmitEmpty, Tag("measurand201")>>),
       Omit("phase", Choice, <<OmitEmpty, Tag("phase201")>>),
       Omit("location", Choice, <<OmitEmpty, Tag("location201")>>),
       Omit("signedMeterValue", Ptr(Struct(SignedMeterValue)), <<OmitEmpty>>),
       Omit("unitOfMeasure", Ptr(Struct(UnitOfMeasure)), <<OmitEmpty>>) >>

MeterValue ==
    << Keep("timestamp", Date, <<Required>>),
       Keep("sampledValue", Slice(Struct(SampledValue)), <<Required, AtLeast(1), Dive>>) >>

------------------------------------------------------------------------------
(* init() registers the validators of the enumerations under these tags. *)

TypesTags ==
    "idTokenType" :> IdTokenType
    @@ "genericDeviceModelStatus" :> GenericDeviceModelStatus
    @@ "genericStatus" :> GenericStatus
    @@ "hashAlgorithm" :> HashAlgorithmType
    @@ "messageFormat" :> MessageFormatType
    @@ "authorizationStatus201" :> AuthorizationStatus
    @@ "attribute" :> Attribute
    @@ "chargingProfilePurpose201" :> ChargingProfilePurposeType
    @@ "chargingProfileKind201" :> ChargingProfileKindType
    @@ "recurrencyKind201" :> RecurrencyKindType
    @@ "chargingRateUnit201" :> ChargingRateUnitType
    @@ "chargingLimitSource" :> ChargingLimitSourceType
    @@ "remoteStartStopStatus201" :> RemoteStartStopStatus
    @@ "readingContext201" :> ReadingContext
    @@ "measurand201" :> Measurand
    @@ "phase201" :> Phase
    @@ "location201" :> Location
    @@ "signatureMethod" :> SignatureMethod
    @@ "encodingMethod" :> EncodingMethod
    @@ "certificateSigningUse" :> CertificateSigningUse
    @@ "certificateUse" :> CertificateUse
    @@ "15118EVCertificate" :> Certificate15118EVStatus
    @@ "costKind" :> CostKind

==============================================================================
