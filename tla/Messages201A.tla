-------------------------------- MODULE Messages201A --------------------------------
(***************************************************************************)
(* The messages of OCPP 2.0.1, first half of the functional blocks, one    *)
(* definition per file of ocpp2.0.1/<block>, written like those of         *)
(* Messages16.                                                             *)
(***************************************************************************)
EXTENDS Types201

(* The tags of diagnostics/types.go and display/types.go. *)
DiagnosticsTags ==
    "monitorType" :> {"UpperThreshold", "LowerThreshold", "Delta", "Periodic", "PeriodicClockAligned"}

DisplayTags ==
    "messagePriority" :> {"AlwaysFront", "InFront", "NormalCycle"}
    @@ "messageState" :> {"Charging", "Faulted", "Idle", "Unavailable"}
    @@ "messageStatus" :> {"Accepted", "Unknown"}

------------------------------------------------------------------------------
(* Package authorization: the authorization profile. *)

Authorize ==
    Feature("Authorize", "authorization",
    "authorizeCertificateStatus" :> {
        "Accepted", "CertChainError", "CertificateExpired", "SignatureError",
        "NoCertificateAvailable", "CertificateRevoked", "ContractCancelled"},
    Struct(
    << Omit("certificate", Text, <<AtMost(5500)>>),
       Arg("idToken", Checked("isValidIdToken", IdToken), <<Required>>),
       Omit("iso15118CertificateHashData", Slice(Struct(OCSPRequestDataType)), <<AtMost(4), Dive>>) >>),
    Struct(
    << Omit("certificateStatus", Choice, <<OmitEmpty, Tag("authorizeCertificateStatus")>>),
       Arg("idTokenInfo", Struct(IdTokenInfo), <<Required>>) >>))

ClearCache ==
    Feature("ClearCache", "authorization",
    "cacheStatus201" :> {"Accepted", "Rejected"},
    Struct(<<>>),
    Struct(
    << Arg("status", Choice, <<Required, Tag("cacheStatus201")>>),
       Omit("statusInfo", Ptr(Struct(StatusInfo)), <<OmitEmpty>>) >>))

AuthorizationProfile ==
    <<Authorize, ClearCache>>

------------------------------------------------------------------------------
(* Package availability: the availability profile. *)

ChangeAvailability ==
    Feature("ChangeAvailability", "availability",
    "operationalStatus" :> {"Inoperative", "Operative"}
    @@ "changeAvailabilityStatus" :> {"Accepted", "Rejected", "Scheduled"},
    Struct(
    << Arg("operationalStatus", Choice, <<Required, Tag("operationalStatus")>>),
       Omit("evse", Ptr(Struct(EVSE)), <<OmitEmpty>>) >>),
    Struct(
    << Arg("status", Choice, <<Required, Tag("changeAvailabilityStatus")>>),
       Omit("statusInfo", Ptr(Struct(StatusInfo)), <<OmitEmpty>>) >>))

Heartbeat ==
    Feature("Heartbeat", "availability",
    NoTags,
    Struct(<<>>),
    Checked("validateHeartbeatResponse",
    << Arg("currentTime", Date, <<Required>>) >>))

StatusNotification ==
    Feature("StatusNotification", "availability",
    "connectorStatus" :> {"Available", "Occupied", "Reserved", "Unavailable", "Faulted"},
    Struct(
    << Arg("timestamp", Ptr(Date), <<Required>>),
       Arg("connectorStatus", Choice, <<Required, Tag("connectorStatus")>>),
       Arg("evseId", Number, <<Gte(0)>>),
       Arg("connectorId", Number, <<Gte(0)>>) >>),
    Struct(<<>>))

AvailabilityProfile ==
    <<ChangeAvailability, Heartbeat, StatusNotification>>

------------------------------------------------------------------------------
(* Package data: the data profile. *)

DataTransfer ==
    Feature("DataTransfer", "data",
    "dataTransferStatus201" :> {
        "Accepted", "Rejected", "UnknownMessageId", "UnknownVendorId"},
    Struct(
    << Omit("messageId", Text, <<AtMost(50)>>),
       Omit("data", Anything, <<>>),
       Arg("vendorId", Text, <<Required, AtMost(255)>>) >>),
    Struct(
    << Arg("status", Choice, <<Required, Tag("dataTransferStatus201")>>),
       Omit("data", Anything, <<>>),
       Omit("statusInfo", Ptr(Struct(StatusInfo)), <<OmitEmpty>>) >>))

DataProfile ==
    <<DataTransfer>>

------------------------------------------------------------------------------
(* Package diagnostics: the diagnostics profile. *)

ClearMonitoringResult ==
    << Keep("id", Number, <<Required, Gte(0)>>),
       Keep("status", Choice, <<Required, Tag("clearMonitoringStatus")>>) >>

ClearVariableMonitoring ==
    Feature("ClearVariableMonitoring", "diagnostics",
    "clearMonitoringStatus" :> {"Accepted", "Rejected", "NotFound"},
    Struct(
    << Arg("id", Slice(Number), <<Required, AtLeast(1), Dive, Gte(0)>>) >>),
    Struct(
    << Arg("clearMonitoringResult", Slice(Struct(ClearMonitoringResult)), <<Required, AtLeast(1), Dive>>) >>))

CustomerInformation ==
    Feature("CustomerInformation", "diagnostics",
    "customerInformationStatus" :> {"Accepted", "Rejected", "Invalid"},
    Struct(
    << Arg("requestId", Number, <<Gte(0)>>),
       Arg("report", Flag, <<>>),
       Arg("clear", Flag, <<>>),
       Omit("customerIdentifier", Text, <<AtMost(64)>>),
       Omit("idToken", Ptr(Checked("isValidIdToken", IdToken)), <<OmitEmpty, Dive>>),
       Omit("customerCertificate", Ptr(Struct(CertificateHashData)), <<OmitEmpty, Dive>>) >>),
    Struct(
    << Arg("status", Choice, <<Required, Tag("customerInformationStatus")>>),
       Omit("statusInfo", Ptr(Struct(StatusInfo)), <<OmitEmpty>>) >>))

LogParameters ==
    << Keep("remoteLocation", Link, <<Required, AtMost(512), Url>>),
       Omit("oldestTimestamp", Ptr(Date), <<OmitEmpty>>),
       Omit("latestTimestamp", Ptr(Date), <<OmitEmpty>>) >>

GetLog ==
    Feature("GetLog", "diagnostics",
    "logType" :> {"DiagnosticsLog", "SecurityLog"}
    @@ "logStatus" :> {"Accepted", "Rejected", "AcceptedCanceled"},
    Struct(
    << Arg("logType", Choice, <<Required, Tag("logType")>>),
       Arg("requestId", Number, <<Gte(0)>>),
       Omit("retries", Ptr(Number), <<OmitEmpty, Gte(0)>>),
       Omit("retryInterval", Ptr(Number), <<OmitEmpty, Gte(0)>>),
       Arg("log", Struct(LogParameters), <<Required>>) >>),
    Struct(
    << Arg("status", Choice, <<Required, Tag("logStatus")>>),
       Omit("filename", Text, <<OmitEmpty, AtMost(256)>>) >>))

GetMonitoringReport ==
    Feature("GetMonitoringReport", "diagnostics",
    "monitoringCriteria" :> {"ThresholdMonitoring", "DeltaMonitoring", "PeriodicMonitoring"},
    Struct(
    << Omit("requestId", Ptr(Number), <<OmitEmpty, Gte(0)>>),
       Omit("monitoringCriteria", Slice(Choice), <<OmitEmpty, AtMost(3), Dive, Tag("monitoringCriteria")>>),
       Omit("componentVariable", Slice(Struct(ComponentVariable)), <<OmitEmpty, Dive>>) >>),
    Struct(
    << Arg("status", Choice, <<Required, Tag("genericDeviceModelStatus")>>) >>))

LogStatusNotification ==
    Feature("LogStatusNotification", "diagnostics",
    "uploadLogStatus" :> {"BadMessage", "Idle", "NotSupportedOperation", "PermissionDenied",
        "Uploaded", "UploadFailure", "Uploading"},
    Struct(
    << Arg("status", Choice, <<Required, Tag("uploadLogStatus")>>),
       Arg("requestId", Number, <<Gte(0)>>) >>),
    Struct(<<>>))

NotifyCustomerInformation ==
    Feature("NotifyCustomerInformation", "diagnostics",
    NoTags,
    Struct(
    << Arg("data", Text, <<Required, AtMost(512)>>),
       Omit("tbc", Flag, <<OmitEmpty>>),
       Arg("seqNo", Number, <<Gte(0)>>),
       Arg("generatedAt", Date, <<Required>>),
       Arg("requestId", Number, <<Gte(0)>>) >>),
    Struct(<<>>))

EventData ==
    << Keep("eventId", Number, <<Gte(0)>>),
       Keep("timestamp", Ptr(Date), <<Required>>),
       Keep("trigger", Choice, <<Required, Tag("eventTrigger")>>),
       Omit("cause", Ptr(Number), <<OmitEmpty>>),
       Keep("actualValue", Text, <<Required, AtMost(2500)>>),
       Omit("techCode", Text, <<OmitEmpty, AtMost(50)>>),
       Omit("techInfo", Text, <<OmitEmpty, AtMost(500)>>),
       Omit("cleared", Flag, <<>>),
       Omit("transactionId", Text, <<OmitEmpty, AtMost(36)>>),
       Omit("variableMonitoringId", Ptr(Number), <<OmitEmpty>>),
       Keep("eventNotificationType", Choice, <<Required, Tag("eventNotification")>>),
       Keep("component", Struct(Component), <<Required>>),
       Keep("variable", Struct(Variable), <<Required>>) >>

NotifyEvent ==
    Feature("NotifyEvent", "diagnostics",
    "eventTrigger" :> {"Alerting", "Delta", "Periodic"}
    @@ "eventNotification" :> {
        "HardWiredMonitor", "HardWiredNotification", "PreconfiguredMonitor",
        "CustomMonitor"},
    Struct(
    << Arg("generatedAt", Ptr(Date), <<Required>>),
       Arg("seqNo", Number, <<Gte(0)>>),
       Omit("tbc", Flag, <<OmitEmpty>>),
       Arg("eventData", Slice(Struct(EventData)), <<Required, AtLeast(1), Dive>>) >>),
    Struct(<<>>))

VariableMonitoring ==
    << Keep("id", Number, <<Gte(0)>>),
       Keep("transaction", Flag, <<>>),
       Keep("value", Decimal, <<>>),
       Keep("type", Choice, <<Required, Tag("monitorType")>>),
       Keep("severity", Number, <<AtLeast(0), AtMost(9)>>) >>

MonitoringData ==
    << Keep("component", Struct(Component), <<Required>>),
       Keep("variable", Struct(Variable), <<Required>>),
       Keep("variableMonitoring", Slice(Struct(VariableMonitoring)), <<Required, AtLeast(1), Dive>>) >>

NotifyMonitoringReport ==
    Feature("NotifyMonitoringReport", "diagnostics",
    NoTags,
    Struct(
    << Arg("requestId", Number, <<Gte(0)>>),
       Omit("tbc", Flag, <<OmitEmpty>>),
       Arg("seqNo", Number, <<Gte(0)>>),
       Arg("generatedAt", Ptr(Date), <<Required>>),
       ArgOmit("monitor", Slice(Struct(MonitoringData)), <<OmitEmpty, Dive>>) >>),
    Struct(<<>>))

SetMonitoringBase ==
    Feature("SetMonitoringBase", "diagnostics",
    "monitoringBase" :> {"All", "FactoryDefault", "HardWiredOnly"},
    Struct(
    << Arg("monitoringBase", Choice, <<Required, Tag("monitoringBase")>>) >>),
    Struct(
    << Arg("status", Choice, <<Required, Tag("genericDeviceModelStatus")>>),
       Omit("statusInfo", Ptr(Struct(StatusInfo)), <<OmitEmpty>>) >>))

SetMonitoringLevel ==
    Feature("SetMonitoringLevel", "diagnostics",
    "monitoringBase" :> {"All", "FactoryDefault", "HardWiredOnly"},
    Struct(
    << Arg("severity", Number, <<AtLeast(0), AtMost(9)>>) >>),
    Struct(
    << Arg("status", Choice, <<Required, Tag("genericDeviceModelStatus")>>),
       Omit("statusInfo", Ptr(Struct(StatusInfo)), <<OmitEmpty>>) >>))

SetMonitoringData ==
    << Omit("id", Ptr(Number), <<OmitEmpty>>),
       Omit("transaction", Flag, <<>>),
       Keep("value", Decimal, <<>>),
       Keep("type", Choice, <<Required, Tag("monitorType")>>),
       Keep("severity", Number, <<AtLeast(0), AtMost(9)>>),
       Keep("component", Struct(Component), <<Required>>),
       Keep("variable", Struct(Variable), <<Required>>) >>

SetMonitoringResult ==
    << Omit("id", Ptr(Number), <<OmitEmpty>>),
       Keep("status", Choice, <<Required, Tag("setMonitoringStatus")>>),
       Keep("type", Choice, <<Required, Tag("monitorType")>>),
       Keep("severity", Number, <<AtLeast(0), AtMost(9)>>),
       Keep("component", Struct(Component), <<Required>>),
       Keep("variable", Struct(Variable), <<Required>>),
       Omit("statusInfo", Ptr(Struct(StatusInfo)), <<OmitEmpty>>) >>

SetVariableMonitoring ==
    Feature("SetVariableMonitoring", "diagnostics",
    "setMonitoringStatus" :> {"Accepted", "UnknownComponent", "UnknownVariable",
        "UnsupportedMonitorType", "Rejected", "Duplicate"},
    Struct(
    << Arg("setMonitoringData", Slice(Struct(SetMonitoringData)), <<Required, AtLeast(1), Dive>>) >>),
    Struct(
    << Arg("setMonitoringResult", Slice(Struct(SetMonitoringResult)), <<Required, AtLeast(1), Dive>>) >>))

DiagnosticsProfile ==
    <<ClearVariableMonitoring, CustomerInformation, GetLog, GetMonitoringReport,
      LogStatusNotification, NotifyCustomerInformation, NotifyEvent,
      NotifyMonitoringReport, SetMonitoringBase, SetMonitoringLevel,
      SetVariableMonitoring>>

------------------------------------------------------------------------------
(* Package display: the display profile. *)

ClearDisplayMessage ==
    Feature("ClearDisplayMessage", "display",
    "clearMessageStatus" :> {"Accepted", "Unknown"},
    Struct(
    << Arg("id", Number, <<>>) >>),
    Struct(
    << Arg("status", Choice, <<Required, Tag("clearMessageStatus")>>),
       Omit("statusInfo", Ptr(Struct(StatusInfo)), <<OmitEmpty>>) >>))

GetDisplayMessages ==
    Feature("GetDisplayMessages", "display",
    NoTags,
    Struct(
    << Arg("requestId", Number, <<Gte(0)>>),
       Omit("priority", Choice, <<OmitEmpty, Tag("messagePriority")>>),
       Omit("state", Choice, <<OmitEmpty, Tag("messageState")>>),
       Omit("id", Slice(Number), <<OmitEmpty, Dive, Gte(0)>>) >>),
    Struct(
    << Arg("status", Choice, <<Required, Tag("messageStatus")>>) >>))

MessageInfo ==
    << Keep("id", Number, <<Gte(0)>>),
       Keep("priority", Choice, <<Required, Tag("messagePriority")>>),
       Omit("state", Choice, <<OmitEmpty, Tag("messageState")>>),
       Omit("startDateTime", Ptr(Date), <<OmitEmpty>>),
       Omit("endDateTime", Ptr(Date), <<OmitEmpty>>),
       Omit("transactionId", Text, <<OmitEmpty, AtMost(36)>>),
       Keep("message", Struct(MessageContent), <<Required>>),
       Omit("display", Ptr(Struct(Component)), <<OmitEmpty>>) >>

NotifyDisplayMessages ==
    Feature("NotifyDisplayMessages", "display",
    NoTags,
    Struct(
    << Arg("requestId", Number, <<Gte(0)>>),
       Omit("tbc", Flag, <<OmitEmpty>>),
       Omit("messageInfo", Slice(Struct(MessageInfo)), <<OmitEmpty, Dive>>) >>),
    Struct(<<>>))

SetDisplayMessage ==
    Feature("SetDisplayMessage", "display",
    "displayMessageStatus" :> {"Accepted", "NotSupportedMessageFormat", "Rejected",
        "NotSupportedPriority", "NotSupportedState", "UnknownTransaction"},
    Struct(
    << Arg("message", Struct(MessageInfo), <<Required>>) >>),
    Struct(
    << Arg("status", Choice, <<Required, Tag("displayMessageStatus")>>),
       Omit("statusInfo", Ptr(Struct(StatusInfo)), <<OmitEmpty>>) >>))

DisplayProfile ==
    <<ClearDisplayMessage, GetDisplayMessages, NotifyDisplayMessages,
      SetDisplayMessage>>

------------------------------------------------------------------------------
(* Package firmware: the firmware profile. *)

FirmwareStatusNotification ==
    Feature("FirmwareStatusNotification", "firmware",
    "firmwareStatus201" :> {
        "Downloaded", "DownloadFailed", "Downloading", "DownloadScheduled",
        "DownloadPaused", "Idle", "InstallationFailed", "Installing",
        "Installed", "InstallRebooting", "InstallScheduled",
        "InstallVerificationFailed", "InvalidSignature", "SignatureVerified"},
    Struct(
    << Arg("status", Choice, <<Required, Tag("firmwareStatus201")>>),
       Omit("requestId", Ptr(Number), <<OmitEmpty, Gte(0)>>) >>),
    Struct(<<>>))

PublishFirmware ==
    Feature("PublishFirmware", "firmware",
    NoTags,
    Struct(
    << Arg("location", Text, <<Required, AtMost(512)>>),
       Omit("retries", Ptr(Number), <<OmitEmpty, Gte(0)>>),
       Arg("checksum", Text, <<Required, AtMost(32)>>),
       Arg("requestId", Number, <<Gte(0)>>),
       Omit("retryInterval", Ptr(Number), <<OmitEmpty, Gte(0)>>) >>),
    Struct(
    << Arg("status", Choice, <<Required, Tag("genericStatus")>>),
       Omit("statusInfo", Ptr(Struct(StatusInfo)), <<OmitEmpty>>) >>))

PublishFirmwareStatusNotification ==
    Feature("PublishFirmwareStatusNotification", "firmware",
    "publishFirmwareStatus" :> {"Idle", "DownloadScheduled", "Downloading", "Downloaded",
        "Published", "DownloadFailed", "DownloadPaused", "InvalidChecksum",
        "ChecksumVerified", "PublishFailed"},
    Struct(
    << Arg("status", Choice, <<Required, Tag("publishFirmwareStatus")>>),
       Omit("location", Slice(Text), <<OmitEmpty, Dive, AtMost(512)>>),
       Omit("requestId", Ptr(Number), <<OmitEmpty, Gte(0)>>) >>),
    Struct(<<>>))

UnpublishFirmware ==
    Feature("UnpublishFirmware", "firmware",
    "unpublishFirmwareStatus" :> {"DownloadOngoing", "NoFirmware", "Unpublished"},
    Struct(
    << Arg("checksum", Text, <<Required, AtMost(32)>>) >>),
    Struct(
    << Arg("status", Choice, <<Required, Tag("unpublishFirmwareStatus")>>) >>))

Firmware ==
    << Keep("location", Link, <<Required, AtMost(512), Uri>>),
       Keep("retrieveDateTime", Ptr(Date), <<Required>>),
       Omit("installDateTime", Ptr(Date), <<OmitEmpty>>),
       Omit("signingCertificate", Text, <<AtMost(5500)>>),
       Omit("signature", Text, <<AtMost(800)>>) >>

UpdateFirmware ==
    Feature("UpdateFirmware", "firmware",
    "updateFirmwareStatus" :> {
        "Accepted", "Rejected", "AcceptedCanceled", "InvalidCertificate",
        "RevokedCertificate"},
    Struct(
    << Omit("retries", Ptr(Number), <<OmitEmpty, Gte(0)>>),
       Omit("retryInterval", Ptr(Number), <<OmitEmpty, Gte(0)>>),
       Arg("requestId", Number, <<Gte(0)>>),
       Arg("firmware", Struct(Firmware), <<Required>>) >>),
    Struct(
    << Arg("status", Choice, <<Required, Tag("updateFirmwareStatus")>>),
       Omit("statusInfo", Ptr(Struct(StatusInfo)), <<OmitEmpty>>) >>))

FirmwareProfile ==
    <<FirmwareStatusNotification, PublishFirmware,
      PublishFirmwareStatusNotification, UnpublishFirmware, UpdateFirmware>>

------------------------------------------------------------------------------
(* Package iso15118: the iso15118 profile. *)

DeleteCertificate ==
    Feature("DeleteCertificate", "iso15118",
    "deleteCertificateStatus" :> {"Accepted", "Failed", "NotFound"},
    Struct(
    << Arg("certificateHashData", Struct(CertificateHashData), <<Required>>) >>),
    Struct(
    << Arg("status", Choice, <<Required, Tag("deleteCertificateStatus")>>),
       Omit("statusInfo", Ptr(Struct(StatusInfo)), <<OmitEmpty>>) >>))

Get15118EVCertificate ==
    Feature("Get15118EVCertificate", "iso15118",
    "certificateAction" :> {"Install", "Update"},
    Struct(
    << Arg("iso15118SchemaVersion", Text, <<Required, AtMost(50)>>),
       Arg("action", Choice, <<Required, Tag("certificateAction")>>),
       Arg("exiRequest", Text, <<Required, AtMost(5600)>>) >>),
    Struct(
    << Arg("status", Choice, <<Required, Tag("15118EVCertificate")>>),
       Arg("exiResponse", Text, <<Required, AtMost(5600)>>),
       Omit("statusInfo", Ptr(Struct(StatusInfo)), <<OmitEmpty>>) >>))

GetCertificateStatus ==
    Feature("GetCertificateStatus", "iso15118",
    NoTags,
    Struct(
    << Arg("ocspRequestData", Struct(OCSPRequestDataType), <<Required>>) >>),
    Struct(
    << Arg("status", Choice, <<Required, Tag("genericStatus")>>),
       Omit("ocspResult", Text, <<OmitEmpty, AtMost(5500)>>),
       Omit("statusInfo", Ptr(Struct(StatusInfo)), <<OmitEmpty>>) >>))

GetInstalledCertificateIds ==
    Feature("GetInstalledCertificateIds", "iso15118",
    "getInstalledCertificateStatus" :> {"Accepted", "NotFound"},
    Struct(
    << Keep("certificateType", Slice(Choice), <<OmitEmpty, Dive, Tag("certificateUse")>>) >>),
    Struct(
    << Arg("status", Choice, <<Required, Tag("getInstalledCertificateStatus")>>),
       Omit("statusInfo", Ptr(Struct(StatusInfo)), <<OmitEmpty>>),
       Omit("certificateHashDataChain", Slice(Struct(CertificateHashDataChain)), <<OmitEmpty, Dive>>) >>))

InstallCertificate ==
    Feature("InstallCertificate", "iso15118",
    "installCertificateStatus" :> {"Accepted", "Rejected", "Failed"},
    Struct(
    << Arg("certificateType", Choice, <<Required, Tag("certificateUse")>>),
       Arg("certificate", Text, <<Required, AtMost(5500)>>) >>),
    Struct(
    << Arg("status", Choice, <<Required, Tag("installCertificateStatus")>>),
       Omit("statusInfo", Ptr(Struct(StatusInfo)), <<OmitEmpty>>) >>))

Iso15118Profile ==
    <<DeleteCertificate, Get15118EVCertificate, GetCertificateStatus,
      GetInstalledCertificateIds, InstallCertificate>>

==============================================================================
