---------------------------------- MODULE Types16 ----------------------------------
(***************************************************************************)
(* ocpp1.6/types/types.go: the enumerations and the structures that OCPP   *)
(* 1.6 messages share, each field with its Go kind, its json tag and its   *)
(* validate tag, in the words of module Fields.                            *)
(***************************************************************************)
EXTENDS Fields

------------------------------------------------------------------------------
(* The enumerations: the constants of each type, all accepted by its validator. *)

AuthorizationStatus ==
    {"Accepted", "Blocked", "Expired", "Invalid", "ConcurrentTx"}

ChargingProfilePurposeType ==
    {"ChargePointMaxProfile", "TxDefaultProfile", "TxProfile"}

ChargingProfileKindType ==
    {"Absolute", "Recurring", "Relative"}

RecurrencyKindType ==
    {"Daily", "Weekly"}

ChargingRateUnitType ==
    {"W", "A"}

RemoteStartStopStatus ==
    {"Accepted", "Rejected"}

ReadingContext ==
    {"Interruption.Begin", "Interruption.End", "Other", "Sample.Clock", "Sample.Periodic",
     "Transaction.Begin", "Transaction.End", "Trigger"}

ValueFormat ==
    {"Raw", "SignedData"}

Measurand ==
    {"SoC", "Current.Export", "Current.Import", "Current.Offered",
     "Energy.Active.Export.Interval", "Energy.Active.Export.Register",
     "Energy.Reactive.Export.Interval", "Energy.Reactive.Export.Register",
     "Energy.Reactive.Import.Register", "Energy.Reactive.Import.Interval",
     "Energy.Active.Import.Interval", "Energy.Active.Import.Register", "Frequency",
     "Power.Active.Export", "Power.Active.Import", "Power.Reactive.Import",
     "Power.Reactive.Export", "Power.Offered", "Power.Factor", "Voltage", "Temperature",
     "RPM"}

Phase ==
    {"L1", "L2", "L3", "N", "L1-N", "L2-N", "L3-N", "L1-L2", "L2-L3", "L3-L1"}

Location ==
    {"Body", "Cable", "EV", "Inlet", "Outlet"}

UnitOfMeasure ==
    {"A", "Wh", "kWh", "varh", "kvarh", "W", "kW", "VA", "kVA", "var", "kvar", "V",
     "Celsius", "Celcius", "Fahrenheit", "K", "Percent"}

------------------------------------------------------------------------------
(* The structures shared by several messages. *)

IdTagInfo ==
    << Omit("expiryDate", Ptr(Date), <<OmitEmpty>>),
       Omit("parentIdTag", Text, <<OmitEmpty, AtMost(20)>>),
       Arg("status", Choice, <<Required, Tag("authorizationStatus16")>>) >>

ChargingSchedulePeriod ==
    << Keep("startPeriod", Number, <<Gte(0)>>),
       Keep("limit", Decimal, <<Gte(0)>>),
       Omit("numberPhases", Ptr(Number), <<OmitEmpty, Gte(0)>>) >>

ChargingSchedule ==
    << Omit("duration", Ptr(Number), <<OmitEmpty, Gte(0)>>),
       Omit("startSchedule", Ptr(Date), <<>>),
       Arg("chargingRateUnit", Choice, <<Required, Tag("chargingRateUnit16")>>),
       Arg("chargingSchedulePeriod", Slice(Struct(ChargingSchedulePeriod)), <<Required, AtLeast(1)>>),
       Omit("minChargingRate", Ptr(Decimal), <<OmitEmpty, Gte(0)>>) >>

ChargingProfile ==
    << Arg("chargingProfileId", Number, <<>>),
       Omit("transactionId", Number, <<>>),
       Arg("stackLevel", Number, <<Gte(0)>>),
       Arg("chargingProfilePurpose", Choice, <<Required, Tag("chargingProfilePurpose16")>>),
       Arg("chargingProfileKind", Choice, <<Required, Tag("chargingProfileKind16")>>),
       Omit("recurrencyKind", Choice, <<OmitEmpty, Tag("recurrencyKind16")>>),
       Omit("validFrom", Ptr(Date), <<>>),
       Omit("validTo", Ptr(Date), <<>>),
       Arg("chargingSchedule", Ptr(Struct(ChargingSchedule)), <<Required>>) >>

SampledValue ==
    << Keep("value", Text, <<Required>>),
       Omit("context", Choice, <<OmitEmpty, Tag("readingContext16")>>),
       Omit("format", Choice, <<OmitEmpty, Tag("valueFormat")>>),
       Omit("measurand", Choice, <<OmitEmpty, Tag("measurand16")>>),
       Omit("phase", Choice, <<OmitEmpty, Tag("phase16")>>),
       Omit("location", Choice, <<OmitEmpty, Tag("location16")>>),
       Omit("unit", Choice, <<OmitEmpty, Tag("unitOfMeasure")>>) >>

MeterValue ==
    << Keep("timestamp", Ptr(Date), <<Required>>),
       Keep("sampledValue", Slice(Struct(SampledValue)), <<Required, AtLeast(1), Dive>>) >>

------------------------------------------------------------------------------
(* init() registers the validators of the enumerations under these tags. *)

TypesTags ==
    "authorizationStatus16" :> AuthorizationStatus
    @@ "chargingProfilePurpose16" :> ChargingProfilePurposeType
    @@ "chargingProfileKind16" :> ChargingProfileKindType
    @@ "recurrencyKind16" :> RecurrencyKindType
    @@ "chargingRateUnit16" :> ChargingRateUnitType
    @@ "remoteStartStopStatus16" :> RemoteStartStopStatus
    @@ "readingContext16" :> ReadingContext
    @@ "valueFormat" :> ValueFormat
    @@ "measurand16" :> Measurand
    @@ "phase16" :> Phase
    @@ "location16" :> Location
    @@ "unitOfMeasure" :> UnitOfMeasure

==============================================================================
