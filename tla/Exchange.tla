------------------------------ MODULE Exchange ------------------------------
(***************************************************************************)
(* One request and its answer, from the method that sends it to the        *)
(* callback that gets the outcome, for every feature of OCPP 1.6 and 2.0.1 *)
(* and both directions: CreateCall, CreateCallResult, CreateCallError,     *)
(* ParseMessage and the message handlers of ocppj, and the routing and     *)
(* answering of the four endpoints (handleIncomingRequest, sendResponse).  *)
(*                                                                         *)
(* The endpoint that asks has the role cfg.role, the one that answers the  *)
(* role Peer[cfg.role].  Which request is next, and that only one is out,  *)
(* is the dispatchers' business (ClientDispatcher, ServerDispatcher); here *)
(* every exchange is looked at by itself, with all that its payload, the   *)
(* set-up of the two endpoints and a failing network can do to it.         *)
(***************************************************************************)
EXTENDS Endpoints, Integers, Sequences

CONSTANTS
  Features,           \* for each version, the features of its endpoints by name
  Validate(_, _),     \* the failed tags of a payload of a kind
  Marshal(_, _),      \* a payload of a kind on the wire
  Unmarshal(_, _),    \* what is read from the wire as a payload of a kind
  Constructed(_),     \* what the constructor of a kind makes of acceptable arguments
  Basic(_), Edges(_), \* the payloads of a kind that are tried always, and at times
  Agree(_, _, _)      \* two payloads of a kind have the same content

Roles == {"chargePoint", "centralSystem", "chargingStation", "csms"}
Centrals == {"centralSystem", "csms"}
Peer == [chargePoint |-> "centralSystem", centralSystem |-> "chargePoint",
         chargingStation |-> "csms", csms |-> "chargingStation"]

Version(role) == IF role \in {"chargePoint", "centralSystem"} THEN "v16" ELSE "v201"

Payloads(kind, edges) ==
    Basic(kind) \union {Constructed(kind)} \union (IF edges THEN Edges(kind) ELSE {})

OverTheWire(kind, payload) == Unmarshal(kind, Marshal(kind, payload))

(* A case of handleIncomingRequest calls the handler of the feature's profile. *)
ASSUME CasesAssumption ==
    \A role \in Roles : \A name \in DOMAIN Features[Version(role)], h \in DOMAIN Cases[role] :
        name \in Cases[role][h] => h = Features[Version(role)][name].profile

(* The validator reports a list of tags; a message that is valid stays so over
   the wire, and keeps its content. *)
ASSUME MessagesAssumption ==
    \A v \in {"v16", "v201"} : \A name \in DOMAIN Features[v] :
        \A kind \in {Features[v][name].request, Features[v][name].response} :
            \A payload \in Payloads(kind, TRUE) :
                /\ Validate(kind, payload) \in Seq(STRING)
                /\ Validate(kind, OverTheWire(kind, payload)) \in Seq(STRING)
                /\ Validate(kind, payload) = <<>> =>
                       Validate(kind, OverTheWire(kind, payload)) = <<>>
                /\ Agree(kind, payload, OverTheWire(kind, payload))

------------------------------------------------------------------------------
VARIABLES
  cfg,       \* the set-up of the two endpoints and the feature, see Setups
  stage,     \* how far the exchange has come
  asked,     \* <<the payload as the caller gave it>>, or <<>>
  handled,   \* <<the payload as the handler got it>>, or <<>>
  verdict,   \* what the answering side makes of the Call
  inbox,     \* the answers on their way to the asking side
  answers,   \* how many answers were written
  pending,   \* the request is pending at the asking side
  outcome,   \* what the caller's callback was called with
  strays,    \* how many answers were answered with a CALL_ERROR
  foreign,   \* a frame that is no proper answer has come in the answer's place
  crashed    \* a nil handler was called

vars == <<cfg, stage, asked, handled, verdict, inbox, answers, pending, outcome,
          strays, foreign, crashed>>

(* What differs from the default set-up: a profile left out of an endpoint, a
   handler not set, an invalidMessageHook that returns nothing, another error
   or an error with a code of its own, a generator of identifiers longer than
   36 characters, and a connection that fails the next write or all of them. *)
Variants ==
    {"plain", "noProfileAsking", "noProfileAnswering", "noHandler", "hookKeeps",
     "hookReplaces", "hookBogus", "longId", "writeFailsOnce", "writeFails"}

(* What has nothing to do with the feature is tried with these features only. *)
Samples == {"BootNotification", "DataTransfer", "Reset", "Heartbeat"}

Setups ==
    {c \in [role : Roles, name : DOMAIN Features.v16 \union DOMAIN Features.v201,
            variant : Variants, checksAsking : BOOLEAN, checksAnswering : BOOLEAN] :
        /\ c.name \in DOMAIN Features[Version(c.role)]
        /\ c.variant \in {"plain", "noHandler"} \/ c.name \in Samples}

feature == Features[Version(cfg.role)][cfg.name]
me == cfg.role
peer == Peer[cfg.role]
idFits == cfg.variant # "longId"

ErrorCodes ==
    {"NotImplemented", "NotSupported", "InternalError", "MessageTypeNotSupported",
     "ProtocolError", "SecurityError", "FormationViolation", "FormatViolation",
     "PropertyConstraintViolation", "OccurrenceConstraintViolation",
     "TypeConstraintViolation", "GenericError"}

(* Mutant: one code for both dialects, and not one of the codes. *)
FormatErrorTypeUnknown == "FormatError"

FormatErrorType == IF Version(cfg.role) = "v16" THEN "FormationViolation" ELSE "FormatViolation"

(* The first failed tag that has a code of its own decides. *)
errorFromValidation(tags) ==
    LET known == SelectSeq(tags, LAMBDA t : t \in {"required", "max", "min", "gte", "gt", "lte", "lt"})
    IN  IF known = <<>> THEN "GenericError"
        ELSE IF known[1] = "required" THEN "OccurrenceConstraintViolation"
        ELSE "PropertyConstraintViolation"

(* The failed tags of a whole message: its identifier comes first. *)
MessageFailures(kind, payload) ==
    (IF idFits THEN <<>> ELSE <<"max">>) \o Validate(kind, payload)

------------------------------------------------------------------------------
(* The asking side sends. *)

(* All edges of all fields are tried where nothing else is special. *)
full ==
    cfg.variant = "plain" /\ cfg.name \in Sends[me] /\ cfg.checksAsking = cfg.checksAnswering

CreateCall(payload) ==
    /\ cfg.variant # "noProfileAsking"
    /\ cfg.checksAsking => MessageFailures(feature.request, payload) = <<>>

(* SendRequestAsync looks whether the endpoint is the one to send the feature,
   SendRequest of the charge point and the charging station does not.  The
   methods named after features use the latter on those two. *)
Sendable(api) ==
    (api = "async" \/ me \in Centrals) => cfg.name \in Sends[me]

Send(api) ==
    /\ stage = "ready"
    /\ api = "sync" => me \notin Centrals
    /\ api = "method" => cfg.name \in Commands[me]
    /\ \E payload \in IF api = "method" THEN {Constructed(feature.request)}
                                        ELSE Payloads(feature.request, full /\ api = "async") :
         IF Sendable(api) /\ CreateCall(payload)
         THEN /\ stage' = "sent"
              /\ asked' = <<payload>>
              /\ pending' = TRUE
         ELSE /\ stage' = "refused"
              /\ UNCHANGED <<asked, pending>>
    /\ UNCHANGED <<cfg, handled, verdict, inbox, answers, outcome, strays, foreign, crashed>>

------------------------------------------------------------------------------
(* The answering side. *)

Result(payload) == [type |-> "CALL_RESULT", code |-> "none", payload |-> payload]
Error(code) == [type |-> "CALL_ERROR", code |-> code, payload |-> <<>>]

CreateCallError(checks, code) == checks => code \in ErrorCodes /\ idFits

(* Mutant: a Call is not validated. *)
ParseMessageUnvalidated(payload) ==
    IF cfg.variant = "noProfileAnswering" THEN "NotSupported" ELSE "accepted"

(* ParseMessage on a Call, which validates whatever SetMessageValidation says:
   the code of the error, or "accepted". *)
ParseMessage(payload) ==
    LET tags == MessageFailures(feature.request, payload)
    IN  CASE cfg.variant = "noProfileAnswering" -> "NotSupported"
          [] cfg.variant # "noProfileAnswering" /\ tags # <<>> -> errorFromValidation(tags)
          [] OTHER -> "accepted"

(* The invalidMessageHook may replace the error. *)
Hooked(code) ==
    CASE cfg.variant = "hookReplaces" -> "SecurityError"
      [] cfg.variant = "hookBogus" -> "bogus"
      [] OTHER -> code

registered ==
    IF cfg.variant = "noHandler" THEN Handlers[peer] \ {feature.profile} ELSE Handlers[peer]

(* Mutant: handleIncomingRequest does not look for a nil handler. *)
RouteUnchecked ==
    IF \A h \in DOMAIN Cases[peer] : cfg.name \notin Cases[peer][h] THEN "NotSupported"
    ELSE "accepted"

(* handleIncomingRequest: the handler of the profile must be set, and the
   action must be one that this endpoint handles. *)
Route ==
    IF feature.profile \in Checks[peer] \ registered THEN "NotSupported"
    ELSE IF \A h \in DOMAIN Cases[peer] : cfg.name \notin Cases[peer][h] THEN "NotSupported"
    ELSE "accepted"

HandlerOf == CHOOSE h \in DOMAIN Cases[peer] : cfg.name \in Cases[peer][h]

(* Write, the n-th time it is tried for this answer. *)
WriteOK(n) ==
    /\ cfg.variant # "writeFails"
    /\ cfg.variant = "writeFailsOnce" => n > 1

(* SendError once, with nothing to fall back on. *)
SendError(code) ==
    IF CreateCallError(cfg.checksAnswering, code) /\ WriteOK(1) THEN <<Error(code)>> ELSE <<>>

(* Mutant: a failed answer is left at that. *)
HandleFailedResponseErrorNever(message, tags) ==
    IF tags = <<>> /\ WriteOK(1) THEN <<message>> ELSE <<>>

(* A message is written if it passes its validation (tags is empty) and the
   write succeeds; HandleFailedResponseError sends a default error otherwise,
   for which it is the second write unless validation had stopped the first. *)
HandleFailedResponseError(message, tags) ==
    LET code == IF tags = <<>> THEN "GenericError" ELSE errorFromValidation(tags)
    IN  IF tags = <<>> /\ WriteOK(1) THEN <<message>>
        ELSE IF /\ CreateCallError(cfg.checksAnswering, code)
                /\ WriteOK(IF tags = <<>> THEN 2 ELSE 1)
        THEN <<Error(code)>>
        ELSE <<>>

Written(messages) ==
    /\ inbox' = inbox \o messages
    /\ answers' = answers + Len(messages)

ReceiveCall ==
    LET payload == OverTheWire(feature.request, asked[1])
        parsed == ParseMessage(payload)
    IN  /\ stage = "sent"
        /\ verdict' = IF parsed = "accepted" THEN Route ELSE parsed
        /\ IF verdict' = "accepted"
           THEN /\ stage' = "handling"
                /\ handled' = <<payload>>
                /\ crashed' = (HandlerOf \notin registered)
                /\ UNCHANGED <<inbox, answers>>
           ELSE /\ stage' = "served"
                /\ Written(SendError(IF parsed = "accepted" THEN verdict' ELSE Hooked(parsed)))
                /\ UNCHANGED <<handled, crashed>>
        /\ UNCHANGED <<cfg, asked, pending, outcome, strays, foreign>>

(* Mutant: a result is not validated before it is sent. *)
CreateCallResultUnchecked(payload) == <<>>

(* The tags that stop CreateCallResult. *)
CreateCallResult(payload) ==
    IF cfg.checksAnswering THEN MessageFailures(feature.response, payload) ELSE <<>>

(* The handler of the application returns, and sendResponse answers. *)
RespondError(code) ==
    /\ stage = "handling"
    /\ ~crashed
    /\ Written(HandleFailedResponseError(Error(code),
                   IF CreateCallError(cfg.checksAnswering, code) THEN <<>> ELSE <<"errorCode">>))
    /\ stage' = "served"
    /\ UNCHANGED <<cfg, asked, handled, verdict, pending, outcome, strays, foreign, crashed>>

RespondNil ==
    /\ stage = "handling"
    /\ ~crashed
    /\ Written(SendError("GenericError"))
    /\ stage' = "served"
    /\ UNCHANGED <<cfg, asked, handled, verdict, pending, outcome, strays, foreign, crashed>>

Respond ==
    /\ stage = "handling"
    /\ ~crashed
    /\ \E payload \in Payloads(feature.response, full /\ asked[1] = Constructed(feature.request)) :
         Written(HandleFailedResponseError(
                     Result(Marshal(feature.response, payload)), CreateCallResult(payload)))
    /\ stage' = "served"
    /\ UNCHANGED <<cfg, asked, handled, verdict, pending, outcome, strays, foreign, crashed>>

(* Frames that are no Call of a known action, from a peer of another make:
   those without a readable identifier cannot be answered. *)
Unidentified == {"tooShort", "typeNoNumber", "idNoText", "idEmpty"}
Identified == {"callNotFour", "actionNoText", "actionUnknown", "payloadMistyped", "typeUnknown"}
FrameError(frame) ==
    CASE frame = "actionUnknown" -> "NotSupported"
      [] frame = "typeUnknown" -> "MessageTypeNotSupported"
      [] OTHER -> FormatErrorType

ReceiveFrame(frame) ==
    /\ stage = "ready"
    /\ verdict' = FrameError(frame)
    /\ Written(IF frame \in Identified THEN SendError(Hooked(verdict')) ELSE <<>>)
    /\ stage' = IF frame \in Identified THEN "served" ELSE "ignored"
    /\ UNCHANGED <<cfg, asked, handled, pending, outcome, strays, foreign, crashed>>

------------------------------------------------------------------------------
(* The asking side gets an answer, or gives up waiting. *)

(* ParseMessage on an answer to a pending request: the failed tags. *)
AnswerFailures(answer) ==
    IF answer.type = "CALL_RESULT"
    THEN MessageFailures(feature.response, Unmarshal(feature.response, answer.payload))
    ELSE (IF idFits THEN <<>> ELSE <<"max">>)
         \o (IF answer.code \in ErrorCodes THEN <<>> ELSE <<"errorCode">>)

(* An answer without a pending request is discarded.  One that is not valid is
   answered with a CALL_ERROR, and the request remains pending. *)
ReceiveAnswer ==
    LET answer == inbox[1]
        tags == AnswerFailures(answer)
    IN  /\ inbox # <<>>
        /\ inbox' = Tail(inbox)
        /\ IF ~pending THEN UNCHANGED <<pending, outcome, strays>>
           ELSE IF tags = <<>>
           THEN /\ pending' = FALSE
                /\ outcome' = Append(outcome, answer.type)
                /\ UNCHANGED strays
           ELSE /\ strays' = strays + (IF CreateCallError(cfg.checksAsking, errorFromValidation(tags))
                                       THEN 1 ELSE 0)
                /\ UNCHANGED <<pending, outcome>>
        /\ UNCHANGED <<cfg, stage, asked, handled, verdict, answers, foreign, crashed>>

(* What is no proper answer, but bears the identifier of the pending request: a
   result of other types or an error without a description is answered with an
   error; an error whose code is no text is not, as its code stands in for the
   identifier then.  The request remains pending. *)
ReceiveForeignAnswer(frame) ==
    /\ cfg.name \in Samples
    /\ pending
    /\ ~foreign
    /\ foreign' = TRUE
    /\ strays' = strays + (IF /\ frame # "codeNoText"
                             /\ CreateCallError(cfg.checksAsking, FormatErrorType)
                          THEN 1 ELSE 0)
    /\ UNCHANGED <<cfg, stage, asked, handled, verdict, inbox, answers, pending, outcome,
                   crashed>>

(* The dispatcher cancels a request that got no answer in time. *)
Cancel ==
    /\ pending
    /\ pending' = FALSE
    /\ outcome' = Append(outcome, "canceled")
    /\ UNCHANGED <<cfg, stage, asked, handled, verdict, inbox, answers, strays, foreign, crashed>>

------------------------------------------------------------------------------
Init ==
    /\ cfg \in Setups
    /\ stage = "ready" /\ asked = <<>> /\ handled = <<>> /\ verdict = "none"
    /\ inbox = <<>> /\ answers = 0 /\ pending = FALSE /\ outcome = <<>> /\ strays = 0
    /\ foreign = FALSE /\ crashed = FALSE

(* The exchange is over, and the next one begins. *)
Again ==
    /\ stage \in {"refused", "served", "ignored"}
    /\ inbox = <<>>
    /\ ~pending
    /\ stage' = "ready" /\ asked' = <<>> /\ handled' = <<>> /\ verdict' = "none"
    /\ answers' = 0 /\ outcome' = <<>> /\ strays' = 0 /\ foreign' = FALSE
    /\ UNCHANGED <<cfg, inbox, pending, crashed>>

HandlerReturns ==
    \/ \E code \in {"SecurityError", "InternalError", "bogus"} : RespondError(code)
    \/ RespondNil
    \/ Respond

Next ==
    \/ \E api \in {"method", "async", "sync"} : Send(api)
    \/ ReceiveCall
    \/ HandlerReturns
    \/ \E frame \in Unidentified \union Identified : ReceiveFrame(frame)
    \/ ReceiveAnswer
    \/ \E frame \in {"resultMistyped", "errorTooShort", "codeNoText"} : ReceiveForeignAnswer(frame)
    \/ Cancel
    \/ Again

Spec == Init /\ [][Next]_vars

------------------------------------------------------------------------------
(* Every variable has a value of its type; in particular whatever is decided
   about a Call is "accepted" or one of the error codes of ocppj.go. *)
TypeOK ==
    /\ cfg \in Setups
    /\ stage \in {"ready", "refused", "sent", "handling", "served", "ignored"}
    /\ verdict \in ErrorCodes \union {"none", "accepted"}
    /\ answers \in 0..2 /\ Len(inbox) <= answers
    /\ pending \in BOOLEAN /\ foreign \in BOOLEAN /\ crashed \in BOOLEAN
    /\ strays \in 0..3
    /\ \A i \in DOMAIN outcome : outcome[i] \in {"CALL_RESULT", "CALL_ERROR", "canceled"}

(* A handler of the application sees the request that the caller passed in; on
   an endpoint that validates it is valid, also when the peer does not validate
   what it sends. *)
HandledIsValid ==
    handled # <<>> =>
        /\ cfg.checksAnswering => Validate(feature.request, handled[1]) = <<>>
        /\ Agree(feature.request, asked[1], handled[1])

(* SetMessageValidation: "When disabled, outgoing and incoming OCPP messages will
   not be validated anymore". *)
ValidationOff ==
    verdict # "none" /\ cfg.variant = "plain" /\ ~cfg.checksAnswering =>
        verdict \in {"accepted", "NotSupported"}

(* What an endpoint is willing to send, and found valid if it validates, its
   peer is able to take: all of it finds its way through GetProfileForFeature
   and the switch of the other endpoint's handleIncomingRequest to a handler,
   and what was valid before it was marshalled is valid after. *)
Understood ==
    verdict # "none" /\ asked # <<>> /\ cfg.variant = "plain" /\ cfg.name \in Sends[me] =>
        /\ verdict # "NotSupported"
        /\ cfg.checksAsking => verdict = "accepted"

(* The check of a handler before the switch and the handler that the case of
   the switch calls belong together: a request for a profile without a handler
   is answered with NotSupported, and no method of a nil handler is called. *)
NoNilHandler == ~crashed

(* The set-ups in which nothing keeps an answer from being sent. *)
Answerable ==
    /\ cfg.variant \notin {"longId", "writeFails", "writeFailsOnce"}
    /\ cfg.checksAnswering => cfg.variant # "hookBogus"

(* A Call is answered exactly once, by the message handler, by sendResponse or
   by HandleFailedResponseError, whatever the handler returns; what fails on
   the way there may cost the answer but never makes it two.  The caller gets
   one outcome, and it is a result only if a handler has seen the request. *)
AnsweredOnce ==
    /\ answers <= 1
    /\ stage = "served" /\ Answerable => answers = 1
    /\ Len(outcome) <= 1
    /\ outcome = <<"CALL_RESULT">> => handled # <<>>

(* What an endpoint that validates answers is never refused by the one that
   asked: there is no CALL_ERROR in answer to an answer. *)
AnswersUnderstood == cfg.checksAnswering /\ ~foreign => strays = 0

=============================================================================
