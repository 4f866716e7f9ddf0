-------------------------------- MODULE Messages201B --------------------------------
(***************************************************************************)
(* The messages of OCPP 2.0.1, second half of the functional blocks, one   *)
(* definition per file of ocpp2.0.1/<block>, written like those of         *)
(* Messages16.                                                             *)
(***************************************************************************)
EXTENDS Types201

------------------------------------------------------------------------------
(* Package localauth: the localAuthList profile. *)

GetLocalListVersion ==
    Feature("GetLocalListVersion", "localAuthList",
    NoTags,
    Struct(<<>>),
    Struct(
    << Arg("versionNumber", Number, <<Gte(0)>>) >>))

AuthorizationData ==
    << Omit("idTokenInfo", Ptr(Struct(IdTokenInfo)), <<OmitEmpty>>),
       Keep("idToken", Checked("isValidIdToken", IdToken), <<>>) >>

SendLocalList ==
    Feature("SendLocalList", "localAuthList",
    "updateType201" :> {"Differential", "Full"}
    @@ "sendLocalListStatus" :> {"Accepted", "Failed", "VersionMismatch"},
    Struct(
    << Arg("versionNumber", Number, <<Gte(0)>>),
       Arg("updateType", Choice, <<Required, Tag("updateType201")>>),
       Omit("localAuthorizationList", Slice(Struct(AuthorizationData)), <<OmitEmpty, Dive>>) >>),
    Struct(
    << Arg("status", Choice, <<Required, Tag("sendLocalListStatus")>>),
       Omit("statusInfo", Ptr(Struct(StatusInfo)), <<OmitEmpty>>) >>))

LocalauthProfile ==
    <<GetLocalListVersion, SendLocalList>>

------------------------------------------------------------------------------
(* Package meter: the meter profile. *)

MeterValues ==
    Feature("MeterValues", "meter",
    NoTags,
    Struct(
    << Arg("evseId", Number, <<Gte(0)>>),
       Arg("meterValue", Slice(Struct(MeterValue)), <<Required, AtLeast(1), Dive>>) >>),
    Struct(<<>>))

MeterProfile ==
    <<MeterValues>>

------------------------------------------------------------------------------
(* Package provisioning: the provisioning profile. *)

ModemType ==
    << Omit("iccid", Text, <<AtMost(20)>>),
       Omit("imsi", Text, <<AtMost(20)>>) >>

ChargingStationType ==
    << Omit("serialNumber", Text, <<AtMost(25)>>),
       Keep("model", Text, <<Required, AtMost(20)>>),
       Keep("vendorName", Text, <<Required, AtMost(50)>>),
       Omit("firmwareVersion", Text, <<AtMost(50)>>),
       Omit("modem", Ptr(Struct(ModemType)), <<>>) >>

BootNotification ==
    Feature("BootNotification", "provisioning",
    "registrationStatus201" :> {"Accepted", "Pending", "Rejected"}
    @@ "bootReason" :> {"ApplicationReset", "FirmwareUpdate", "LocalReset", "PowerUp",
        "RemoteReset", "ScheduledReset", "Triggered", "Unknown", "Watchdog"},
    Struct(
    << Arg("reason", Choice, <<Required, Tag("bootReason")>>),
       Arg("chargingStation", Struct(ChargingStationType), <<Required, Dive>>) >>),
    Struct(
    << Arg("currentTime", Ptr(Date), <<Required>>),
       Arg("interval", Number, <<Gte(0)>>),
       Arg("status", Choice, <<Required, Tag("registrationStatus201")>>),
       Omit("statusInfo", Ptr(Struct(StatusInfo)), <<OmitEmpty>>) >>))

GetBaseReport ==
    Feature("GetBaseReport", "provisioning",
    "reportBaseType" :> {"ConfigurationInventory", "FullInventory", "SummaryInventory"},
    Struct(
    << Arg("requestId", Number, <<>>),
       Arg("reportBase", Choice, <<Required, Tag("reportBaseType")>>) >>),
    Struct(
    << Arg("status", Choice, <<Required, Tag("genericDeviceModelStatus")>>),
       Omit("statusInfo", Ptr(Struct(StatusInfo)), <<OmitEmpty>>) >>))

GetReport ==
    Feature("GetReport", "provisioning",
    "componentCriterion" :> {"Active", "Available", "Enabled", "Problem"},
    Struct(
    << Omit("requestId", Ptr(Number), <<OmitEmpty, Gte(0)>>),
       Omit("componentCriteria", Slice(Choice), <<OmitEmpty, AtMost(4), Dive, Tag("componentCriterion")>>),
       Omit("componentVariable", Slice(Struct(ComponentVariable)), <<OmitEmpty, Dive>>) >>),
    Struct(
    << Arg("status", Choice, <<Required, Tag("genericDeviceModelStatus")>>) >>))

GetVariableData ==
    << Omit("attributeType", Choice, <<OmitEmpty, Tag("attribute")>>),
       Keep("component", Struct(Component), <<Required>>),
       Keep("variable", Struct(Variable), <<Required>>) >>

GetVariableResult ==
    << Keep("attributeStatus", Choice, <<Required, Tag("getVariableStatus")>>),
       Omit("attributeType", Choice, <<OmitEmpty, Tag("attribute")>>),
       Omit("attributeValue", Text, <<OmitEmpty, AtMost(1000)>>),
       Keep("component", Struct(Component), <<Required>>),
       Keep("variable", Struct(Variable), <<Required>>) >>

GetVariables ==
    Feature("GetVariables", "provisioning",
    "getVariableStatus" :> {"Accepted", "Rejected", "UnknownComponent", "UnknownVariable",
        "NotSupportedAttributeType"},
    Struct(
    << Arg("getVariableData", Slice(Struct(GetVariableData)), <<Required, AtLeast(1), Dive>>) >>),
    Struct(
    << Arg("getVariableResult", Slice(Struct(GetVariableResult)), <<Required, AtLeast(1), Dive>>) >>))

VariableAttribute ==
    << Omit("type", Choice, <<OmitEmpty, Tag("attribute")>>),
       Omit("value", Text, <<AtMost(2500)>>),
       Omit("mutability", Choice, <<OmitEmpty, Tag("mutability")>>),
       Omit("persistent", Flag, <<>>),
       Omit("constant", Flag, <<>>) >>

VariableCharacteristics ==
    << Omit("unit", Text, <<AtMost(16)>>),
       Arg("dataType", Choice, <<Required, Tag("dataTypeEnum")>>),
       Omit("minLimit", Ptr(Decimal), <<>>),
       Omit("maxLimit", Ptr(Decimal), <<>>),
       Omit("valuesList", Text, <<AtMost(1000)>>),
       Arg("supportsMonitoring", Flag, <<>>) >>

ReportData ==
    << Keep("component", Struct(Component), <<Required>>),
       Keep("variable", Struct(Variable), <<Required>>),
       Keep("variableAttribute", Slice(Struct(VariableAttribute)), <<Required, AtLeast(1), AtMost(4), Dive>>),
       Omit("variableCharacteristics", Ptr(Struct(VariableCharacteristics)), <<OmitEmpty>>) >>

NotifyReport ==
    Feature("NotifyReport", "provisioning",
    "mutability" :> {"ReadOnly", "WriteOnly", "ReadWrite"}
    @@ "dataTypeEnum" :> {"boolean", "dateTime", "decimal", "integer", "string", "OptionList",
        "SequenceList", "MemberList"},
    Struct(
    << Arg("requestId", Number, <<Gte(0)>>),
       Arg("generatedAt", Ptr(Date), <<Required>>),
       Omit("tbc", Flag, <<OmitEmpty>>),
       Arg("seqNo", Number, <<Gte(0)>>),
       Omit("reportData", Slice(Struct(ReportData)), <<OmitEmpty, Dive>>) >>),
    Struct(<<>>))

Reset ==
    Feature("Reset", "provisioning",
    "resetType201" :> {"Immediate", "OnIdle"}
    @@ "resetStatus201" :> {"Accepted", "Rejected", "Scheduled"},
    Struct(
    << Arg("type", Choice, <<Tag("resetType201")>>),
       Omit("evseId", Ptr(Number), <<OmitEmpty, Gte(0)>>) >>),
    Struct(
    << Arg("status", Choice, <<Required, Tag("resetStatus201")>>),
       Keep("statusInfo", Ptr(Struct(StatusInfo)), <<OmitEmpty>>) >>))

VPN ==
    << Keep("server", Text, <<Required, AtMost(512)>>),
       Keep("user", Text, <<Required, AtMost(20)>>),
       Omit("group", Text, <<OmitEmpty, AtMost(20)>>),
       Keep("password", Text, <<Required, AtMost(20)>>),
       Keep("key", Text, <<Required, AtMost(255)>>),
       Keep("type", Choice, <<Required, Tag("vpnType")>>) >>

APN ==
    << Keep("apn", Text, <<Required, AtMost(512)>>),
       Omit("apnUserName", Text, <<OmitEmpty, AtMost(20)>>),
       Omit("apnPassword", Text, <<OmitEmpty, AtMost(20)>>),
       Omit("simPin", Ptr(Number), <<OmitEmpty, Gte(0)>>),
       Omit("preferredNetwork", Text, <<OmitEmpty, AtMost(6)>>),
       Omit("useOnlyPreferredNetwork", Flag, <<>>),
       Keep("apnAuthentication", Choice, <<Required, Tag("apnAuthentication")>>) >>

NetworkConnectionProfile ==
    << Keep("ocppVersion", Choice, <<Required, Tag("ocppVersion")>>),
       Keep("ocppTransport", Choice, <<Required, Tag("ocppTransport")>>),
       Keep("ocppCsmsUrl", Text, <<Required, AtMost(512)>>),
       Keep("messageTimeout", Number, <<Gte(-1)>>),
       Keep("securityProfile", Number, <<>>),
       Keep("ocppInterface", Choice, <<Required, Tag("ocppInterface")>>),
       Omit("vpn", Ptr(Struct(VPN)), <<OmitEmpty>>),
       Omit("apn", Ptr(Struct(APN)), <<OmitEmpty>>) >>

SetNetworkProfile ==
    Feature("SetNetworkProfile", "provisioning",
    "ocppVersion" :> {"OCPP12", "OCPP15", "OCPP16", "OCPP20"}
    @@ "ocppTransport" :> {"JSON", "SOAP"}
    @@ "ocppInterface" :> {"Wired0", "Wired1", "Wired2", "Wired3", "Wireless0", "Wireless1",
        "Wireless2", "Wireless3"}
    @@ "vpnType" :> {"IKEv2", "IPSec", "L2TP", "PPTP"}
    @@ "apnAuthentication" :> {"AUTO", "CHAP", "PAP", "NONE"}
    @@ "setNetworkProfileStatus" :> {"Accepted", "Rejected", "Failed"},
    Struct(
    << Arg("configurationSlot", Number, <<Gte(0)>>),
       Arg("connectionData", Struct(NetworkConnectionProfile), <<Required>>) >>),
    Struct(
    << Arg("status", Choice, <<Required, Tag("setNetworkProfileStatus")>>),
       Keep("statusInfo", Ptr(Struct(StatusInfo)), <<OmitEmpty>>) >>))

SetVariableData ==
    << Omit("attributeType", Choice, <<OmitEmpty, Tag("attribute")>>),
       Keep("attributeValue", Text, <<Required, AtMost(1000)>>),
       Keep("component", Struct(Component), <<Required>>),
       Keep("variable", Struct(Variable), <<Required>>) >>

SetVariableResult ==
    << Omit("attributeType", Choice, <<OmitEmpty, Tag("attribute")>>),
       Keep("attributeStatus", Choice, <<Required, Tag("setVariableStatus")>>),
       Keep("component", Struct(Component), <<Required>>),
       Keep("variable", Struct(Variable), <<Required>>),
       Omit("statusInfo", Ptr(Struct(StatusInfo)), <<OmitEmpty>>) >>

SetVariables ==
    Feature("SetVariables", "provisioning",
    "setVariableStatus" :> {"Accepted", "Rejected", "UnknownComponent", "UnknownVariable",
        "NotSupportedAttributeType", "RebootRequired"},
    Struct(
    << Arg("setVariableData", Slice(Struct(SetVariableData)), <<Required, AtLeast(1), Dive>>) >>),
    Struct(
    << Arg("setVariableResult", Slice(Struct(SetVariableResult)), <<Required, AtLeast(1), Dive>>) >>))

ProvisioningProfile ==
    <<BootNotification, GetBaseReport, GetReport, GetVariables, NotifyReport,
      Reset, SetNetworkProfile, SetVariables>>

------------------------------------------------------------------------------
(* Package remotecontrol: the remoteControl profile. *)

RequestStartTransaction ==
    Feature("RequestStartTransaction", "remoteControl",
    "requestStartStopStatus" :> {"Accepted", "Rejected"},
    Struct(
    << Omit("evseId", Ptr(Number), <<OmitEmpty, Gt(0)>>),
       Arg("remoteStartId", Number, <<Gte(0)>>),
       Arg("idToken", Checked("isValidIdToken", IdToken), <<>>),
       Omit("chargingProfile", Ptr(Struct(ChargingProfile)), <<>>),
       Omit("groupIdToken", Ptr(Checked("isValidIdToken", IdToken)), <<OmitEmpty, Dive>>) >>),
    Struct(
    << Arg("status", Choice, <<Required, Tag("requestStartStopStatus")>>),
       Omit("transactionId", Text, <<AtMost(36)>>),
       Omit("statusInfo", Ptr(Struct(StatusInfo)), <<>>) >>))

RequestStopTransaction ==
    Feature("RequestStopTransaction", "remoteControl",
    NoTags,
    Struct(
    << Arg("transactionId", Text, <<Required, AtMost(36)>>) >>),
    Struct(
    << Arg("status", Choice, <<Required, Tag("requestStartStopStatus")>>),
       Omit("statusInfo", Ptr(Struct(StatusInfo)), <<>>) >>))

TriggerMessage ==
    Feature("TriggerMessage", "remoteControl",
    "messageTrigger201" :> {"BootNotification", "LogStatusNotification",
        "FirmwareStatusNotification", "Heartbeat", "MeterValues",
        "SignChargingStationCertificate", "SignV2GCertificate",
        "StatusNotification", "TransactionEvent", "SignCombinedCertificate",
        "PublishFirmwareStatusNotification"}
    @@ "triggerMessageStatus201" :> {"Accepted", "Rejected", "NotImplemented"},
    Struct(
    << Arg("requestedMessage", Choice, <<Required, Tag("messageTrigger201")>>),
       Omit("evse", Ptr(Struct(EVSE)), <<OmitEmpty>>) >>),
    Struct(
    << Arg("status", Choice, <<Required, Tag("triggerMessageStatus201")>>),
       Omit("statusInfo", Ptr(Struct(StatusInfo)), <<>>) >>))

UnlockConnector ==
    Feature("UnlockConnector", "remoteControl",
    "unlockStatus201" :> {"Unlocked", "UnlockFailed", "OngoingAuthorizedTransaction",
        "UnknownConnector"},
    Struct(
    << Arg("evseId", Number, <<Gte(0)>>),
       Arg("connectorId", Number, <<Gte(0)>>) >>),
    Struct(
    << Arg("status", Choice, <<Required, Tag("unlockStatus201")>>),
       Omit("statusInfo", Ptr(Struct(StatusInfo)), <<>>) >>))

RemotecontrolProfile ==
    <<RequestStartTransaction, RequestStopTransaction, TriggerMessage,
      UnlockConnector>>

------------------------------------------------------------------------------
(* Package reservation: the reservation profile. *)

CancelReservation ==
    Feature("CancelReservation", "reservation",
    "cancelReservationStatus201" :> {"Accepted", "Rejected"},
    Struct(
    << Arg("reservationId", Number, <<Gte(0)>>) >>),
    Struct(
    << Arg("status", Choice, <<Required, Tag("cancelReservationStatus201")>>),
       Omit("statusInfo", Ptr(Struct(StatusInfo)), <<OmitEmpty>>) >>))

ReservationStatusUpdate ==
    Feature("ReservationStatusUpdate", "reservation",
    "reservationUpdateStatus" :> {"Expired", "Removed"},
    Struct(
    << Arg("reservationId", Number, <<Gte(0)>>),
       Arg("reservationUpdateStatus", Choice, <<Required, Tag("reservationUpdateStatus")>>) >>),
    Struct(<<>>))

ReserveNow ==
    Feature("ReserveNow", "reservation",
    "reserveNowStatus" :> {"Accepted", "Faulted", "Occupied", "Rejected", "Unavailable"}
    @@ "connectorType" :> {"cCCS1", "cCCS2", "cG105", "cTesla", "cType1", "cType2",
        "s309-1P-16A", "s309-1P-32A", "s309-3P-16A", "s309-3P-32A",
        "sBS1361", "sCEE-7-7", "sType2", "sType3", "Other1PhMax16A",
        "Other1PhOver16A", "Other3Ph", "Pan", "wInductive", "wResonant",
        "Undetermined", "Unknown"},
    Struct(
    << Arg("id", Number, <<Gte(0)>>),
       Arg("expiryDateTime", Ptr(Date), <<Required>>),
       Omit("connectorType", Choice, <<OmitEmpty, Tag("connectorType")>>),
       Omit("evseId", Ptr(Number), <<OmitEmpty, Gte(0)>>),
       Arg("idToken", Checked("isValidIdToken", IdToken), <<Required, Dive>>),
       Omit("groupIdToken", Ptr(Checked("isValidIdToken", IdToken)), <<OmitEmpty, Dive>>) >>),
    Struct(
    << Arg("status", Choice, <<Required, Tag("reserveNowStatus")>>),
       Omit("statusInfo", Ptr(Struct(StatusInfo)), <<OmitEmpty>>) >>))

ReservationProfile ==
    <<CancelReservation, ReservationStatusUpdate, ReserveNow>>

------------------------------------------------------------------------------
(* Package security: the security profile. *)

CertificateSigned ==
    Feature("CertificateSigned", "security",
    "certificateSignedStatus" :> {"Accepted", "Rejected"},
    Struct(
    << Arg("certificateChain", Text, <<Required, AtMost(10000)>>),
       Omit("certificateType", Choice, <<OmitEmpty, Tag("certificateSigningUse")>>) >>),
    Struct(
    << Arg("status", Choice, <<Required, Tag("certificateSignedStatus")>>),
       Omit("statusInfo", Ptr(Struct(StatusInfo)), <<OmitEmpty>>) >>))

SecurityEventNotification ==
    Feature("SecurityEventNotification", "security",
    NoTags,
    Struct(
    << Arg("type", Text, <<Required, AtMost(50)>>),
       Arg("timestamp", Ptr(Date), <<Required>>),
       Omit("techInfo", Text, <<OmitEmpty, AtMost(255)>>) >>),
    Struct(<<>>))

SignCertificate ==
    Feature("SignCertificate", "security",
    NoTags,
    Struct(
    << Arg("csr", Text, <<Required, AtMost(5500)>>),
       Omit("certificateType", Choice, <<OmitEmpty, Tag("certificateSigningUse")>>) >>),
    Struct(
    << Arg("status", Choice, <<Required, Tag("genericStatus")>>),
       Omit("statusInfo", Ptr(Struct(StatusInfo)), <<OmitEmpty>>) >>))

SecurityProfile ==
    <<CertificateSigned, SecurityEventNotification, SignCertificate>>

------------------------------------------------------------------------------
(* Package smartcharging: the smartCharging profile. *)

ClearChargingProfileType ==
    << Omit("evseId", Ptr(Number), <<OmitEmpty, Gte(0)>>),
       Omit("chargingProfilePurpose", Choice, <<OmitEmpty, Tag("chargingProfilePurpose201")>>),
       Omit("stackLevel", Ptr(Number), <<OmitEmpty, Gt(0)>>) >>

ClearChargingProfile ==
    Feature("ClearChargingProfile", "smartCharging",
    "clearChargingProfileStatus201" :> {"Accepted", "Unknown"},
    Struct(
    << Omit("chargingProfileId", Ptr(Number), <<OmitEmpty>>),
       Omit("chargingProfileCriteria", Ptr(Struct(ClearChargingProfileType)), <<OmitEmpty>>) >>),
    Struct(
    << Arg("status", Choice, <<Required, Tag("clearChargingProfileStatus201")>>),
       Omit("statusInfo", Ptr(Struct(StatusInfo)), <<OmitEmpty>>) >>))

ClearedChargingLimit ==
    Feature("ClearedChargingLimit", "smartCharging",
    NoTags,
    Struct(
    << Arg("chargingLimitSource", Choice, <<Required, Tag("chargingLimitSource")>>),
       Omit("evseId", Ptr(Number), <<OmitEmpty, Gte(0)>>) >>),
    Struct(<<>>))

ChargingProfileCriterion ==
    << Omit("chargingProfilePurpose", Choice, <<OmitEmpty, Tag("chargingProfilePurpose201")>>),
       Omit("stackLevel", Ptr(Number), <<OmitEmpty, Gte(0)>>),
       Omit("chargingProfileId", Slice(Number), <<OmitEmpty>>),
       Omit("chargingLimitSource", Slice(Choice), <<OmitEmpty, AtMost(4), Dive, Tag("chargingLimitSource")>>) >>

GetChargingProfiles ==
    Feature("GetChargingProfiles", "smartCharging",
    "getChargingProfileStatus" :> {"Accepted", "NoProfiles"},
    Struct(
    << Keep("requestId", Number, <<>>),
       Omit("evseId", Ptr(Number), <<OmitEmpty, Gte(0)>>),
       Arg("chargingProfile", Struct(ChargingProfileCriterion), <<Required>>) >>),
    Struct(
    << Arg("status", Choice, <<Required, Tag("getChargingProfileStatus")>>),
       Omit("statusInfo", Ptr(Struct(StatusInfo)), <<OmitEmpty>>) >>))

CompositeSchedule ==
    << Omit("startDateTime", Ptr(Date), <<OmitEmpty>>),
       Omit("chargingSchedule", Ptr(Struct(ChargingSchedule)), <<OmitEmpty>>) >>

GetCompositeSchedule ==
    Feature("GetCompositeSchedule", "smartCharging",
    "getCompositeScheduleStatus" :> {"Accepted", "Rejected"},
    Struct(
    << Arg("duration", Number, <<Gte(0)>>),
       Omit("chargingRateUnit", Choice, <<OmitEmpty, Tag("chargingRateUnit201")>>),
       Arg("evseId", Number, <<Gte(0)>>) >>),
    Struct(
    << Arg("status", Choice, <<Required, Tag("getCompositeScheduleStatus")>>),
       Arg("evseId", Number, <<Gte(0)>>),
       Omit("schedule", Ptr(Struct(CompositeSchedule)), <<OmitEmpty>>) >>))

ChargingLimit ==
    << Keep("chargingLimitSource", Choice, <<Required, Tag("chargingLimitSource")>>),
       Omit("isGridCritical", Ptr(Flag), <<OmitEmpty>>) >>

NotifyChargingLimit ==
    Feature("NotifyChargingLimit", "smartCharging",
    NoTags,
    Struct(
    << Omit("evseId", Ptr(Number), <<OmitEmpty, Gte(0)>>),
       Arg("chargingLimit", Struct(ChargingLimit), <<Required>>),
       Omit("chargingSchedule", Slice(Struct(ChargingSchedule)), <<OmitEmpty, Dive>>) >>),
    Struct(<<>>))

ACChargingParameters ==
    << Keep("energyAmount", Number, <<Gte(0)>>),
       Keep("evMinCurrent", Number, <<Gte(0)>>),
       Keep("evMaxCurrent", Number, <<Gte(0)>>),
       Keep("evMaxVoltage", Number, <<Gte(0)>>) >>

DCChargingParameters ==
    << Keep("evMaxCurrent", Number, <<Gte(0)>>),
       Keep("evMaxVoltage", Number, <<Gte(0)>>),
       Omit("energyAmount", Ptr(Number), <<OmitEmpty, Gte(0)>>),
       Omit("evMaxPower", Ptr(Number), <<OmitEmpty, Gte(0)>>),
       Omit("stateOfCharge", Ptr(Number), <<OmitEmpty, Gte(0), Lte(100)>>),
       Omit("evEnergyCapacity", Ptr(Number), <<OmitEmpty, Gte(0)>>),
       Omit("fullSoC", Ptr(Number), <<OmitEmpty, Gte(0), Lte(100)>>),
       Omit("bulkSoC", Ptr(Number), <<OmitEmpty, Gte(0), Lte(100)>>) >>

ChargingNeeds ==
    << Keep("requestedEnergyTransfer", Choice, <<Required, Tag("energyTransferMode")>>),
       Omit("departureTime", Ptr(Date), <<OmitEmpty>>),
       Omit("acChargingParameters", Ptr(Struct(ACChargingParameters)), <<OmitEmpty, Dive>>),
       Omit("dcChargingParameters", Ptr(Struct(DCChargingParameters)), <<OmitEmpty, Dive>>) >>

NotifyEVChargingNeeds ==
    Feature("NotifyEVChargingNeeds", "smartCharging",
    "energyTransferMode" :> {"AC_single_phase", "AC_two_phase", "AC_three_phase", "DC"}
    @@ "evChargingNeedsStatus" :> {"Accepted", "Rejected", "Processing"},
    Struct(
    << Omit("maxScheduleTuples", Ptr(Number), <<OmitEmpty, Gte(0)>>),
       Arg("evseId", Number, <<Gt(0)>>),
       Arg("chargingNeeds", Struct(ChargingNeeds), <<Required>>) >>),
    Struct(
    << Arg("status", Choice, <<Required, Tag("evChargingNeedsStatus")>>),
       Omit("statusInfo", Ptr(Struct(StatusInfo)), <<OmitEmpty, Dive>>) >>))

NotifyEVChargingSchedule ==
    Feature("NotifyEVChargingSchedule", "smartCharging",
    NoTags,
    Struct(
    << Arg("timeBase", Ptr(Date), <<Required>>),
       Arg("evseId", Number, <<Gt(0)>>),
       Arg("chargingSchedule", Struct(ChargingSchedule), <<Required, Dive>>) >>),
    Struct(
    << Arg("status", Choice, <<Required, Tag("genericStatus")>>),
       Omit("statusInfo", Ptr(Struct(StatusInfo)), <<OmitEmpty, Dive>>) >>))

ReportChargingProfiles ==
    Feature("ReportChargingProfiles", "smartCharging",
    NoTags,
    Struct(
    << Arg("requestId", Number, <<Gte(0)>>),
       Arg("chargingLimitSource", Choice, <<Required, Tag("chargingLimitSource")>>),
       Omit("tbc", Flag, <<OmitEmpty>>),
       Arg("evseId", Number, <<Gte(0)>>),
       Arg("chargingProfile", Slice(Struct(ChargingProfile)), <<Required, AtLeast(1), Dive>>) >>),
    Struct(<<>>))

SetChargingProfile ==
    Feature("SetChargingProfile", "smartCharging",
    "chargingProfileStatus201" :> {"Accepted", "Rejected"},
    Struct(
    << Arg("evseId", Number, <<Gte(0)>>),
       Arg("chargingProfile", Ptr(Struct(ChargingProfile)), <<Required>>) >>),
    Struct(
    << Arg("status", Choice, <<Required, Tag("chargingProfileStatus201")>>),
       Omit("statusInfo", Ptr(Struct(StatusInfo)), <<OmitEmpty>>) >>))

SmartchargingProfile ==
    <<ClearChargingProfile, ClearedChargingLimit, GetChargingProfiles,
      GetCompositeSchedule, NotifyChargingLimit, NotifyEVChargingNeeds,
      NotifyEVChargingSchedule, ReportChargingProfiles, SetChargingProfile>>

------------------------------------------------------------------------------
(* Package tariffcost: the tariffCost profile. *)

CostUpdated ==
    Feature("CostUpdated", "tariffCost",
    NoTags,
    Struct(
    << Arg("totalCost", Decimal, <<Required>>),
       Arg("transactionId", Text, <<Required, AtMost(36)>>) >>),
    Struct(<<>>))

TariffcostProfile ==
    <<CostUpdated>>

------------------------------------------------------------------------------
(* Package transactions: the transactions profile. *)

GetTransactionStatus ==
    Feature("GetTransactionStatus", "transactions",
    NoTags,
    Struct(
    << Omit("transactionId", Text, <<OmitEmpty, AtMost(36)>>) >>),
    Struct(
    << Omit("ongoingIndicator", Ptr(Flag), <<OmitEmpty>>),
       Arg("messagesInQueue", Flag, <<>>) >>))

Transaction ==
    << Keep("transactionId", Text, <<Required, AtMost(36)>>),
       Omit("chargingState", Choice, <<OmitEmpty, Tag("chargingState")>>),
       Omit("timeSpentCharging", Ptr(Number), <<OmitEmpty>>),
       Omit("stoppedReason", Choice, <<OmitEmpty, Tag("stoppedReason")>>),
       Omit("remoteStartId", Ptr(Number), <<OmitEmpty>>) >>

TransactionEvent ==
    Feature("TransactionEvent", "transactions",
    "transactionEvent" :> {"Started", "Updated", "Ended"}
    @@ "triggerReason" :> {"Authorized", "CablePluggedIn", "ChargingRateChanged",
        "ChargingStateChanged", "Deauthorized", "EnergyLimitReached",
        "EVCommunicationLost", "EVConnectTimeout", "MeterValueClock",
        "MeterValuePeriodic", "TimeLimitReached", "Trigger", "UnlockCommand",
        "StopAuthorized", "EVDeparted", "EVDetected", "RemoteStop",
        "RemoteStart", "AbnormalCondition", "SignedDataReceived",
        "ResetCommand"}
    @@ "chargingState" :> {"Charging", "EVConnected", "SuspendedEV", "SuspendedEVSE", "Idle"}
    @@ "stoppedReason" :> {"DeAuthorized", "EmergencyStop", "EnergyLimitReached",
        "EVDisconnected", "GroundFault", "ImmediateReset", "Local",
        "LocalOutOfCredit", "MasterPass", "Other", "OvercurrentFault",
        "PowerLoss", "PowerQuality", "Reboot", "Remote", "SOCLimitReached",
        "StoppedByEV", "TimeLimitReached", "Timeout"},
    Struct(
    << Arg("eventType", Choice, <<Required, Tag("transactionEvent")>>),
       Arg("timestamp", Ptr(Date), <<Required>>),
       Arg("triggerReason", Choice, <<Required, Tag("triggerReason")>>),
       Arg("seqNo", Number, <<Gte(0)>>),
       Omit("offline", Flag, <<>>),
       Omit("numberOfPhasesUsed", Ptr(Number), <<OmitEmpty, Gte(0)>>),
       Omit("cableMaxCurrent", Ptr(Number), <<>>),
       Omit("reservationId", Ptr(Number), <<>>),
       Arg("transactionInfo", Struct(Transaction), <<Required>>),
       Omit("idToken", Ptr(Checked("isValidIdToken", IdToken)), <<OmitEmpty, Dive>>),
       Omit("evse", Ptr(Struct(EVSE)), <<OmitEmpty>>),
       Omit("meterValue", Slice(Struct(MeterValue)), <<OmitEmpty, Dive>>) >>),
    Struct(
    << Omit("totalCost", Ptr(Decimal), <<OmitEmpty, Gte(0)>>),
       Omit("chargingPriority", Ptr(Number), <<OmitEmpty, AtLeast(-9), AtMost(9)>>),
       Omit("idTokenInfo", Ptr(Struct(IdTokenInfo)), <<OmitEmpty>>),
       Omit("updatedPersonalMessage", Ptr(Struct(MessageContent)), <<OmitEmpty>>) >>))

TransactionsProfile ==
    <<GetTransactionStatus, TransactionEvent>>

==============================================================================
