----------------------------- MODULE Endpoints -----------------------------
(***************************************************************************)
(* The tables of the four endpoints: ocpp1.6/charge_point.go and           *)
(* central_system.go, ocpp2.0.1/charging_station.go and csms.go.  For each *)
(* endpoint                                                                *)
(*   Commands  the features that have a method of their own,               *)
(*   Sends     the features that SendRequestAsync lets through,            *)
(*   Handlers  the profiles that have a handler and its setter,            *)
(*   Checks    the profiles whose handler handleIncomingRequest looks for, *)
(*   Cases     the actions that handleIncomingRequest passes on, by the    *)
(*             handler that it calls for them.                             *)
(***************************************************************************)
------------------------------------------------------------------------------
(* ocpp1.6/charge_point.go *)

ChargePointCommands ==
    {"BootNotification", "Authorize", "DataTransfer", "Heartbeat", "MeterValues",
     "StartTransaction", "StopTransaction", "StatusNotification",
     "DiagnosticsStatusNotification", "FirmwareStatusNotification"}

ChargePointSends ==
    {"Authorize", "BootNotification", "DataTransfer", "Heartbeat", "MeterValues",
     "StartTransaction", "StopTransaction", "StatusNotification",
     "DiagnosticsStatusNotification", "FirmwareStatusNotification"}

ChargePointHandlers ==
    {"Core", "LocalAuthListManagement", "FirmwareManagement", "Reservation",
     "RemoteTrigger", "SmartCharging"}

ChargePointChecks ==
    {"Core", "LocalAuthListManagement", "FirmwareManagement", "Reservation",
     "RemoteTrigger", "SmartCharging"}

ChargePointCases ==
    [Core |-> {"ChangeAvailability", "ChangeConfiguration", "ClearCache",
               "DataTransfer", "GetConfiguration", "RemoteStartTransaction",
               "RemoteStopTransaction", "Reset", "UnlockConnector"},
     LocalAuthListManagement |-> {"GetLocalListVersion", "SendLocalList"},
     FirmwareManagement |-> {"GetDiagnostics", "UpdateFirmware"},
     Reservation |-> {"ReserveNow", "CancelReservation"},
     RemoteTrigger |-> {"TriggerMessage"},
     SmartCharging |-> {"SetChargingProfile", "ClearChargingProfile",
                        "GetCompositeSchedule"}]

------------------------------------------------------------------------------
(* ocpp1.6/central_system.go *)

CentralSystemCommands1 ==
    {"ChangeAvailability", "ChangeConfiguration", "ClearCache", "DataTransfer",
     "GetConfiguration", "RemoteStartTransaction", "RemoteStopTransaction", "Reset",
     "UnlockConnector", "GetLocalListVersion"}

CentralSystemCommands2 ==
    {"SendLocalList", "GetDiagnostics", "UpdateFirmware", "ReserveNow",
     "CancelReservation", "TriggerMessage", "SetChargingProfile",
     "ClearChargingProfile", "GetCompositeSchedule"}

CentralSystemSends ==
    {"ChangeAvailability", "ChangeConfiguration", "ClearCache", "DataTransfer",
     "GetConfiguration", "RemoteStartTransaction", "RemoteStopTransaction", "Reset",
     "UnlockConnector", "GetLocalListVersion", "SendLocalList", "GetDiagnostics",
     "UpdateFirmware", "ReserveNow", "CancelReservation", "TriggerMessage",
     "SetChargingProfile", "ClearChargingProfile", "GetCompositeSchedule"}

CentralSystemHandlers ==
    {"Core", "LocalAuthListManagement", "FirmwareManagement", "Reservation",
     "RemoteTrigger", "SmartCharging"}

CentralSystemChecks ==
    {"Core", "LocalAuthListManagement", "FirmwareManagement", "Reservation",
     "RemoteTrigger", "SmartCharging"}

(* Mutant: the case of StopTransaction is forgotten. *)
CentralSystemCasesIncomplete ==
    [Core |-> {"BootNotification", "Authorize", "DataTransfer", "Heartbeat",
               "MeterValues", "StartTransaction", "StatusNotification"},
     FirmwareManagement |-> {"DiagnosticsStatusNotification",
                             "FirmwareStatusNotification"}]

CentralSystemCases ==
    [Core |-> {"BootNotification", "Authorize", "DataTransfer", "Heartbeat",
               "MeterValues", "StartTransaction", "StopTransaction",
               "StatusNotification"},
     FirmwareManagement |-> {"DiagnosticsStatusNotification",
                             "FirmwareStatusNotification"}]

------------------------------------------------------------------------------
(* ocpp2.0.1/charging_station.go *)

ChargingStationCommands1 ==
    {"BootNotification", "Authorize", "ClearedChargingLimit", "DataTransfer",
     "FirmwareStatusNotification", "Get15118EVCertificate", "GetCertificateStatus",
     "Heartbeat", "LogStatusNotification", "MeterValues", "NotifyChargingLimit"}

ChargingStationCommands2 ==
    {"NotifyCustomerInformation", "NotifyDisplayMessages", "NotifyEVChargingNeeds",
     "NotifyEVChargingSchedule", "NotifyEvent", "NotifyMonitoringReport",
     "NotifyReport", "PublishFirmwareStatusNotification", "ReportChargingProfiles",
     "ReservationStatusUpdate", "SecurityEventNotification"}

ChargingStationCommands3 ==
    {"SignCertificate", "StatusNotification", "TransactionEvent"}

ChargingStationSends ==
    {"Authorize", "BootNotification", "ClearedChargingLimit", "DataTransfer",
     "FirmwareStatusNotification", "Get15118EVCertificate", "GetCertificateStatus",
     "Heartbeat", "LogStatusNotification", "MeterValues", "NotifyChargingLimit",
     "NotifyCustomerInformation", "NotifyDisplayMessages", "NotifyEVChargingNeeds",
     "NotifyEVChargingSchedule", "NotifyEvent", "NotifyMonitoringReport",
     "NotifyReport", "PublishFirmwareStatusNotification", "ReportChargingProfiles",
     "ReservationStatusUpdate", "SecurityEventNotification", "SignCertificate",
     "StatusNotification", "TransactionEvent"}

ChargingStationHandlers ==
    {"security", "provisioning", "authorization", "localAuthList", "transactions",
     "remoteControl", "availability", "reservation", "tariffCost", "meter",
     "smartCharging", "firmware", "iso15118", "diagnostics", "display", "data"}

ChargingStationChecks ==
    {"authorization", "availability", "data", "diagnostics", "display", "firmware",
     "iso15118", "localAuthList", "meter", "provisioning", "remoteControl",
     "reservation", "security", "smartCharging", "tariffCost", "transactions"}

ChargingStationCases ==
    [reservation |-> {"CancelReservation", "ReserveNow"},
     security |-> {"CertificateSigned"},
     availability |-> {"ChangeAvailability"},
     authorization |-> {"ClearCache"},
     smartCharging |-> {"ClearChargingProfile", "GetChargingProfiles",
                        "GetCompositeSchedule", "SetChargingProfile"},
     display |-> {"ClearDisplayMessage", "GetDisplayMessages", "SetDisplayMessage"},
     diagnostics |-> {"ClearVariableMonitoring", "CustomerInformation", "GetLog",
                      "GetMonitoringReport", "SetMonitoringBase",
                      "SetMonitoringLevel", "SetVariableMonitoring"},
     tariffCost |-> {"CostUpdated"},
     data |-> {"DataTransfer"},
     iso15118 |-> {"DeleteCertificate", "GetInstalledCertificateIds",
                   "InstallCertificate"},
     provisioning |-> {"GetBaseReport", "GetReport", "GetVariables", "Reset",
                       "SetNetworkProfile", "SetVariables"},
     localAuthList |-> {"GetLocalListVersion", "SendLocalList"},
     transactions |-> {"GetTransactionStatus"},
     firmware |-> {"PublishFirmware", "UnpublishFirmware", "UpdateFirmware"},
     remoteControl |-> {"RequestStartTransaction", "RequestStopTransaction",
                        "TriggerMessage", "UnlockConnector"}]

------------------------------------------------------------------------------
(* ocpp2.0.1/csms.go *)

CSMSCommands1 ==
    {"CancelReservation", "CertificateSigned", "ChangeAvailability", "ClearCache",
     "ClearChargingProfile", "ClearDisplayMessage", "ClearVariableMonitoring",
     "CostUpdated", "CustomerInformation", "DataTransfer"}

CSMSCommands2 ==
    {"DeleteCertificate", "GetBaseReport", "GetChargingProfiles",
     "GetCompositeSchedule", "GetDisplayMessages", "GetInstalledCertificateIds",
     "GetLocalListVersion", "GetLog", "GetMonitoringReport", "GetReport"}

CSMSCommands3 ==
    {"GetTransactionStatus", "GetVariables", "InstallCertificate", "PublishFirmware",
     "RequestStartTransaction", "RequestStopTransaction", "ReserveNow", "Reset",
     "SendLocalList", "SetChargingProfile"}

CSMSCommands4 ==
    {"SetDisplayMessage", "SetMonitoringBase", "SetMonitoringLevel",
     "SetNetworkProfile", "SetVariableMonitoring", "SetVariables", "TriggerMessage",
     "UnlockConnector", "UnpublishFirmware", "UpdateFirmware"}

CSMSSends ==
    {"CancelReservation", "CertificateSigned", "ChangeAvailability", "ClearCache",
     "ClearChargingProfile", "ClearDisplayMessage", "ClearVariableMonitoring",
     "CostUpdated", "CustomerInformation", "DataTransfer", "DeleteCertificate",
     "GetBaseReport", "GetChargingProfiles", "GetCompositeSchedule",
     "GetDisplayMessages", "GetInstalledCertificateIds", "GetLocalListVersion",
     "GetLog", "GetMonitoringReport", "GetReport", "GetTransactionStatus",
     "GetVariables", "InstallCertificate", "PublishFirmware", "RequestStartTransaction",
     "RequestStopTransaction", "ReserveNow", "Reset", "SendLocalList",
     "SetChargingProfile", "SetDisplayMessage", "SetMonitoringBase",
     "SetMonitoringLevel", "SetNetworkProfile", "SetVariableMonitoring", "SetVariables",
     "TriggerMessage", "UnlockConnector", "UnpublishFirmware", "UpdateFirmware"}

CSMSHandlers ==
    {"security", "provisioning", "authorization", "localAuthList", "transactions",
     "remoteControl", "availability", "reservation", "tariffCost", "meter",
     "smartCharging", "firmware", "iso15118", "diagnostics", "display", "data"}

CSMSChecks ==
    {"authorization", "availability", "data", "diagnostics", "display", "firmware",
     "iso15118", "localAuthList", "meter", "provisioning", "remoteControl",
     "reservation", "security", "smartCharging", "tariffCost", "transactions"}

CSMSCases ==
    [provisioning |-> {"BootNotification", "NotifyReport"},
     authorization |-> {"Authorize"},
     smartCharging |-> {"ClearedChargingLimit", "NotifyChargingLimit",
                        "NotifyEVChargingNeeds", "NotifyEVChargingSchedule",
                        "ReportChargingProfiles"},
     data |-> {"DataTransfer"},
     firmware |-> {"FirmwareStatusNotification", "PublishFirmwareStatusNotification"},
     iso15118 |-> {"Get15118EVCertificate", "GetCertificateStatus"},
     availability |-> {"Heartbeat", "StatusNotification"},
     diagnostics |-> {"LogStatusNotification", "NotifyCustomerInformation",
                      "NotifyEvent", "NotifyMonitoringReport"},
     meter |-> {"MeterValues"},
     display |-> {"NotifyDisplayMessages"},
     reservation |-> {"ReservationStatusUpdate"},
     security |-> {"SecurityEventNotification", "SignCertificate"},
     transactions |-> {"TransactionEvent"}]

------------------------------------------------------------------------------
Commands ==
    [chargePoint |-> ChargePointCommands,
     centralSystem |-> CentralSystemCommands1 \union CentralSystemCommands2,
     chargingStation |-> ChargingStationCommands1 \union ChargingStationCommands2
                            \union ChargingStationCommands3,
     csms |-> CSMSCommands1 \union CSMSCommands2 \union CSMSCommands3 \union CSMSCommands4]
Sends ==
    [chargePoint |-> ChargePointSends, centralSystem |-> CentralSystemSends,
     chargingStation |-> ChargingStationSends, csms |-> CSMSSends]
Handlers ==
    [chargePoint |-> ChargePointHandlers, centralSystem |-> CentralSystemHandlers,
     chargingStation |-> ChargingStationHandlers, csms |-> CSMSHandlers]
Checks ==
    [chargePoint |-> ChargePointChecks, centralSystem |-> CentralSystemChecks,
     chargingStation |-> ChargingStationChecks, csms |-> CSMSChecks]
Cases ==
    [chargePoint |-> ChargePointCases, centralSystem |-> CentralSystemCases,
     chargingStation |-> ChargingStationCases, csms |-> CSMSCases]
=============================================================================
