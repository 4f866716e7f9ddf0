--------------------------------- MODULE Messages16 ---------------------------------
(***************************************************************************)
(* The messages of OCPP 1.6, one definition per file of ocpp1.6/<profile>: *)
(* the feature's name, the validator tags its init() registers with the    *)
(* values they accept, and the fields of its request and its confirmation. *)
(* Arg and ArgOmit mark the fields that the file's constructor sets.       *)
(***************************************************************************)
EXTENDS Types16

------------------------------------------------------------------------------
(* Package core: the Core profile. *)

BootNotification ==
    Feature("BootNotification", "Core",
    "registrationStatus16" :> {"Accepted", "Pending", "Rejected"},
    Struct(
    << Omit("chargeBoxSerialNumber", Text, <<AtMost(25)>>),
       Arg("chargePointModel", Text, <<Required, AtMost(20)>>),
       Omit("chargePointSerialNumber", Text, <<AtMost(25)>>),
       Arg("chargePointVendor", Text, <<Required, AtMost(20)>>),
       Omit("firmwareVersion", Text, <<AtMost(50)>>),
       Omit("iccid", Text, <<AtMost(20)>>),
       Omit("imsi", Text, <<AtMost(20)>>),
       Omit("meterSerialNumber", Text, <<AtMost(25)>>),
       Omit("meterType", Text, <<AtMost(25)>>) >>),
    Struct(
    << Arg("currentTime", Ptr(Date), <<Required>>),
       Arg("interval", Number, <<Gte(0)>>),
       Arg("status", Choice, <<Required, Tag("registrationStatus16")>>) >>))

Authorize ==
    Feature("Authorize", "Core",
    NoTags,
    Struct(
    << Arg("idTag", Text, <<Required, AtMost(20)>>) >>),
    Struct(
    << Arg("idTagInfo", Ptr(Struct(IdTagInfo)), <<Required>>) >>))

ChangeAvailability ==
    Feature("ChangeAvailability", "Core",
    "availabilityType" :> {"Operative", "Inoperative"}
    @@ "availabilityStatus" :> {"Accepted", "Rejected", "Scheduled"},
    Struct(
    << Arg("connectorId", Number, <<Gte(0)>>),
       Arg("type", Choice, <<Required, Tag("availabilityType")>>) >>),
    Struct(
    << Arg("status", Choice, <<Required, Tag("availabilityStatus")>>) >>))

ChangeConfiguration ==
    Feature("ChangeConfiguration", "Core",
    "configurationStatus" :> {"Accepted", "Rejected", "RebootRequired", "NotSupported"},
    Struct(
    << Arg("key", Text, <<Required, AtMost(50)>>),
       Arg("value", Text, <<Required, AtMost(500)>>) >>),
    Struct(
    << Arg("status", Choice, <<Required, Tag("configurationStatus")>>) >>))

ClearCache ==
    Feature("ClearCache", "Core",
    "cacheStatus16" :> {"Accepted", "Rejected"},
    Struct(<<>>),
    Struct(
    << Arg("status", Choice, <<Required, Tag("cacheStatus16")>>) >>))

DataTransfer ==
    Feature("DataTransfer", "Core",
    "dataTransferStatus16" :> {"Accepted", "Rejected", "UnknownMessageId", "UnknownVendorId"},
    Struct(
    << Arg("vendorId", Text, <<Required, AtMost(255)>>),
       Omit("messageId", Text, <<AtMost(50)>>),
       Omit("data", Anything, <<>>) >>),
    Struct(
    << Arg("status", Choice, <<Required, Tag("dataTransferStatus16")>>),
       Omit("data", Anything, <<>>) >>))

ConfigurationKey ==
    << Keep("key", Text, <<Required, AtMost(50)>>),
       Keep("readonly", Flag, <<>>),
       Omit("value", Ptr(Text), <<OmitEmpty, AtMost(500)>>) >>

GetConfiguration ==
    Feature("GetConfiguration", "Core",
    NoTags,
    Struct(
    << ArgOmit("key", Slice(Text), <<OmitEmpty, Unique, Dive, AtMost(50)>>) >>),
    Struct(
    << ArgOmit("configurationKey", Slice(Struct(ConfigurationKey)), <<OmitEmpty, Dive>>),
       Omit("unknownKey", Slice(Text), <<OmitEmpty, Dive, AtMost(50)>>) >>))

Heartbeat ==
    Feature("Heartbeat", "Core",
    NoTags,
    Struct(<<>>),
    Checked("validateHeartbeatConfirmation",
    << Arg("currentTime", Ptr(Date), <<Required>>) >>))

MeterValues ==
    Feature("MeterValues", "Core",
    NoTags,
    Struct(
    << Arg("connectorId", Number, <<Gte(0)>>),
       Omit("transactionId", Ptr(Number), <<>>),
       Arg("meterValue", Slice(Struct(MeterValue)), <<Required, AtLeast(1), Dive>>) >>),
    Struct(<<>>))

RemoteStartTransaction ==
    Feature("RemoteStartTransaction", "Core",
    NoTags,
    Struct(
    << Omit("connectorId", Ptr(Number), <<OmitEmpty, Gt(0)>>),
       Arg("idTag", Text, <<Required, AtMost(20)>>),
       Omit("chargingProfile", Ptr(Struct(ChargingProfile)), <<>>) >>),
    Struct(
    << Arg("status", Choice, <<Required, Tag("remoteStartStopStatus16")>>) >>))

RemoteStopTransaction ==
    Feature("RemoteStopTransaction", "Core",
    NoTags,
    Struct(
    << Arg("transactionId", Number, <<>>) >>),
    Struct(
    << Arg("status", Choice, <<Required, Tag("remoteStartStopStatus16")>>) >>))

StartTransaction ==
    Feature("StartTransaction", "Core",
    NoTags,
    Struct(
    << Arg("connectorId", Number, <<Gt(0)>>),
       Arg("idTag", Text, <<Required, AtMost(20)>>),
       Arg("meterStart", Number, <<Gte(0)>>),
       Omit("reservationId", Ptr(Number), <<OmitEmpty>>),
       Arg("timestamp", Ptr(Date), <<Required>>) >>),
    Struct(
    << Arg("idTagInfo", Ptr(Struct(IdTagInfo)), <<Required>>),
       Arg("transactionId", Number, <<>>) >>))

StopTransaction ==
    Feature("StopTransaction", "Core",
    "reason" :> {"DeAuthorized", "EmergencyStop", "EVDisconnected", "HardReset",
        "Local", "Other", "PowerLoss", "Reboot", "Remote", "SoftReset",
        "UnlockCommand"},
    Struct(
    << Omit("idTag", Text, <<AtMost(20)>>),
       Arg("meterStop", Number, <<>>),
       Arg("timestamp", Ptr(Date), <<Required>>),
       Arg("transactionId", Number, <<>>),
       Omit("reason", Choice, <<OmitEmpty, Tag("reason")>>),
       Omit("transactionData", Slice(Struct(MeterValue)), <<OmitEmpty, Dive>>) >>),
    Struct(
    << Omit("idTagInfo", Ptr(Struct(IdTagInfo)), <<OmitEmpty>>) >>))

StatusNotification ==
    Feature("StatusNotification", "Core",
    "chargePointErrorCode" :> {
        "ConnectorLockFailure", "EVCommunicationError", "GroundFailure",
        "HighTemperature", "InternalError", "LocalListConflict", "NoError",
        "OtherError", "OverVoltage", "OverCurrentFailure",
        "PowerMeterFailure", "PowerSwitchFailure", "ReaderFailure",
        "ResetFailure", "UnderVoltage", "WeakSignal"}
    @@ "chargePointStatus" :> {"Available", "Preparing", "Charging", "Faulted", "Finishing",
        "Reserved", "SuspendedEV", "SuspendedEVSE", "Unavailable"},
    Struct(
    << Arg("connectorId", Number, <<Gte(0)>>),
       Arg("errorCode", Choice, <<Required, Tag("chargePointErrorCode")>>),
       Omit("info", Text, <<AtMost(50)>>),
       Arg("status", Choice, <<Required, Tag("chargePointStatus")>>),
       Omit("timestamp", Ptr(Date), <<OmitEmpty>>),
       Omit("vendorId", Text, <<AtMost(255)>>),
       Omit("vendorErrorCode", Text, <<AtMost(50)>>) >>),
    Struct(<<>>))

Reset ==
    Feature("Reset", "Core",
    "resetType16" :> {"Hard", "Soft"}
    @@ "resetStatus16" :> {"Accepted", "Rejected"},
    Struct(
    << Arg("type", Choice, <<Required, Tag("resetType16")>>) >>),
    Struct(
    << Arg("status", Choice, <<Required, Tag("resetStatus16")>>) >>))

UnlockConnector ==
    Feature("UnlockConnector", "Core",
    "unlockStatus16" :> {"Unlocked", "UnlockFailed", "NotSupported"},
    Struct(
    << Arg("connectorId", Number, <<Gt(0)>>) >>),
    Struct(
    << Arg("status", Choice, <<Required, Tag("unlockStatus16")>>) >>))

CoreProfile ==
    <<BootNotification, Authorize, ChangeAvailability, ChangeConfiguration,
      ClearCache, DataTransfer, GetConfiguration, Heartbeat, MeterValues,
      RemoteStartTransaction, RemoteStopTransaction, StartTransaction,
      StopTransaction, StatusNotification, Reset, UnlockConnector>>

------------------------------------------------------------------------------
(* Package firmware: the FirmwareManagement profile. *)

GetDiagnostics ==
    Feature("GetDiagnostics", "FirmwareManagement",
    NoTags,
    Struct(
    << Arg("location", Link, <<Required, Uri>>),
       Omit("retries", Ptr(Number), <<OmitEmpty, Gte(0)>>),
       Omit("retryInterval", Ptr(Number), <<OmitEmpty, Gte(0)>>),
       Omit("startTime", Ptr(Date), <<>>),
       Omit("stopTime", Ptr(Date), <<>>) >>),
    Struct(
    << Omit("fileName", Text, <<AtMost(255)>>) >>))

DiagnosticsStatusNotification ==
    Feature("DiagnosticsStatusNotification", "FirmwareManagement",
    "diagnosticsStatus" :> {"Idle", "Uploaded", "UploadFailed", "Uploading"},
    Struct(
    << Arg("status", Choice, <<Required, Tag("diagnosticsStatus")>>) >>),
    Struct(<<>>))

FirmwareStatusNotification ==
    Feature("FirmwareStatusNotification", "FirmwareManagement",
    "firmwareStatus16" :> {"Downloaded", "DownloadFailed", "Downloading", "Idle",
        "InstallationFailed", "Installing", "Installed"},
    Struct(
    << Arg("status", Choice, <<Required, Tag("firmwareStatus16")>>) >>),
    Struct(<<>>))

UpdateFirmware ==
    Feature("UpdateFirmware", "FirmwareManagement",
    NoTags,
    Struct(
    << Arg("location", Link, <<Required, Uri>>),
       Omit("retries", Ptr(Number), <<OmitEmpty, Gte(0)>>),
       Arg("retrieveDate", Ptr(Date), <<Required>>),
       Omit("retryInterval", Ptr(Number), <<OmitEmpty, Gte(0)>>) >>),
    Struct(<<>>))

FirmwareProfile ==
    <<GetDiagnostics, DiagnosticsStatusNotification, FirmwareStatusNotification,
      UpdateFirmware>>

------------------------------------------------------------------------------
(* Package localauth: the LocalAuthListManagement profile. *)

GetLocalListVersion ==
    Feature("GetLocalListVersion", "LocalAuthListManagement",
    NoTags,
    Struct(<<>>),
    Struct(
    << Arg("listVersion", Number, <<Gte(-1)>>) >>))

AuthorizationData ==
    << Keep("idTag", Text, <<Required, AtMost(20)>>),
       Omit("idTagInfo", Ptr(Struct(IdTagInfo)), <<>>) >>

SendLocalList ==
    Feature("SendLocalList", "LocalAuthListManagement",
    "updateStatus" :> {"Accepted", "Failed", "NotSupported", "VersionMismatch"}
    @@ "updateType16" :> {"Differential", "Full"},
    Struct(
    << Arg("listVersion", Number, <<Gte(0)>>),
       Omit("localAuthorizationList", Slice(Struct(AuthorizationData)), <<OmitEmpty, Dive>>),
       Arg("updateType", Choice, <<Required, Tag("updateType16")>>) >>),
    Struct(
    << Arg("status", Choice, <<Required, Tag("updateStatus")>>) >>))

LocalauthProfile ==
    <<GetLocalListVersion, SendLocalList>>

------------------------------------------------------------------------------
(* Package remotetrigger: the RemoteTrigger profile. *)

TriggerMessage ==
    Feature("TriggerMessage", "RemoteTrigger",
    "triggerMessageStatus16" :> {"Accepted", "Rejected", "NotImplemented"}
    @@ "messageTrigger16" :> {"BootNotification", "DiagnosticsStatusNotification",
        "FirmwareStatusNotification", "Heartbeat", "MeterValues",
        "StatusNotification"},
    Struct(
    << Arg("requestedMessage", Choice, <<Required, Tag("messageTrigger16")>>),
       Omit("connectorId", Ptr(Number), <<OmitEmpty, Gte(0)>>) >>),
    Struct(
    << Arg("status", Choice, <<Required, Tag("triggerMessageStatus16")>>) >>))

RemotetriggerProfile ==
    <<TriggerMessage>>

------------------------------------------------------------------------------
(* Package reservation: the Reservation profile. *)

ReserveNow ==
    Feature("ReserveNow", "Reservation",
    "reservationStatus" :> {"Accepted", "Faulted", "Occupied", "Rejected", "Unavailable"},
    Struct(
    << Arg("connectorId", Number, <<Gte(0)>>),
       Arg("expiryDate", Ptr(Date), <<Required>>),
       Arg("idTag", Text, <<Required, AtMost(20)>>),
       Omit("parentIdTag", Text, <<AtMost(20)>>),
       Arg("reservationId", Number, <<>>) >>),
    Struct(
    << Arg("status", Choice, <<Required, Tag("reservationStatus")>>) >>))

CancelReservation ==
    Feature("CancelReservation", "Reservation",
    "cancelReservationStatus16" :> {"Accepted", "Rejected"},
    Struct(
    << Arg("reservationId", Number, <<>>) >>),
    Struct(
    << Arg("status", Choice, <<Required, Tag("cancelReservationStatus16")>>) >>))

ReservationProfile ==
    <<ReserveNow, CancelReservation>>

------------------------------------------------------------------------------
(* Package smartcharging: the SmartCharging profile. *)

SetChargingProfile ==
    Feature("SetChargingProfile", "SmartCharging",
    "chargingProfileStatus16" :> {"Accepted", "Rejected", "NotSupported"},
    Struct(
    << Arg("connectorId", Number, <<Gte(0)>>),
       Arg("csChargingProfiles", Ptr(Struct(ChargingProfile)), <<Required>>) >>),
    Struct(
    << Arg("status", Choice, <<Required, Tag("chargingProfileStatus16")>>) >>))

ClearChargingProfile ==
    Feature("ClearChargingProfile", "SmartCharging",
    "clearChargingProfileStatus16" :> {"Accepted", "Unknown"},
    Struct(
    << Omit("id", Ptr(Number), <<OmitEmpty>>),
       Omit("connectorId", Ptr(Number), <<OmitEmpty, Gte(0)>>),
       Omit("chargingProfilePurpose", Choice, <<OmitEmpty, Tag("chargingProfilePurpose16")>>),
       Omit("stackLevel", Ptr(Number), <<OmitEmpty, Gte(0)>>) >>),
    Struct(
    << Arg("status", Choice, <<Required, Tag("clearChargingProfileStatus16")>>) >>))

GetCompositeSchedule ==
    Feature("GetCompositeSchedule", "SmartCharging",
    "compositeScheduleStatus" :> {"Accepted", "Rejected"},
    Struct(
    << Arg("connectorId", Number, <<Gte(0)>>),
       Arg("duration", Number, <<Gte(0)>>),
       Omit("chargingRateUnit", Choice, <<OmitEmpty, Tag("chargingRateUnit16")>>) >>),
    Struct(
    << Arg("status", Choice, <<Required, Tag("compositeScheduleStatus")>>),
       Omit("connectorId", Ptr(Number), <<OmitEmpty, Gte(0)>>),
       Omit("scheduleStart", Ptr(Date), <<>>),
       Omit("chargingSchedule", Ptr(Struct(ChargingSchedule)), <<OmitEmpty>>) >>))

SmartchargingProfile ==
    <<SetChargingProfile, ClearChargingProfile, GetCompositeSchedule>>

==============================================================================
