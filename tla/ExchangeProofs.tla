--------------------------- MODULE ExchangeProofs ---------------------------
(***************************************************************************)
(* What holds of every exchange, whatever the features, the validator, the *)
(* encoding and the payloads are, as long as they meet the two assumptions *)
(* of Exchange.                                                            *)
(***************************************************************************)
EXTENDS Exchange, TLAPS

(* Steps that need arithmetic, sequences or functions say SMTT. *)
USE ZenonT(60)

------------------------------------------------------------------------------
(* The tables of the endpoints. *)

LEMMA PeerRole == \A r \in Roles : Peer[r] \in Roles /\ Version(Peer[r]) = Version(r)
BY SMTT(30) DEF Roles, Peer, Version

(* handleIncomingRequest looks for every handler that one of its cases calls. *)
LEMMA CasesChecked == \A r \in Roles : DOMAIN Cases[r] \subseteq Checks[r]
<1>1. DOMAIN ChargePointCases \subseteq ChargePointChecks
  BY DEF ChargePointCases, ChargePointChecks
<1>2. DOMAIN CentralSystemCases \subseteq CentralSystemChecks
  BY DEF CentralSystemCases, CentralSystemChecks
<1>3. DOMAIN ChargingStationCases \subseteq ChargingStationChecks
  BY SMTT(30) DEF ChargingStationCases, ChargingStationChecks
<1>4. DOMAIN CSMSCases \subseteq CSMSChecks
  BY DEF CSMSCases, CSMSChecks
<1> QED
  BY <1>1, <1>2, <1>3, <1>4, SMTT(30) DEF Roles, Cases, Checks

(* Whatever handler it looks for can be set. *)
LEMMA ChecksHandled == \A r \in Roles : Checks[r] \subseteq Handlers[r]
<1>1. ChargePointChecks \subseteq ChargePointHandlers
  BY DEF ChargePointChecks, ChargePointHandlers
<1>2. CentralSystemChecks \subseteq CentralSystemHandlers
  BY DEF CentralSystemChecks, CentralSystemHandlers
<1>3. ChargingStationChecks \subseteq ChargingStationHandlers
  BY DEF ChargingStationChecks, ChargingStationHandlers
<1>4. CSMSChecks \subseteq CSMSHandlers
  BY DEF CSMSChecks, CSMSHandlers
<1> QED
  BY <1>1, <1>2, <1>3, <1>4, SMTT(30) DEF Roles, Checks, Handlers

(* What an endpoint sends, its peer has a case for. *)
LEMMA SendsHandled ==
    \A r \in Roles : \A name \in Sends[r] :
        \E h \in DOMAIN Cases[Peer[r]] : name \in Cases[Peer[r]][h]
<1>1. \A name \in ChargePointSends :
         \E h \in DOMAIN CentralSystemCases : name \in CentralSystemCases[h]
  BY DEF ChargePointSends, CentralSystemCases
<1>2. \A name \in CentralSystemSends :
         \E h \in DOMAIN ChargePointCases : name \in ChargePointCases[h]
  BY SMTT(30) DEF CentralSystemSends, ChargePointCases
<1>3. \A name \in ChargingStationSends :
         \E h \in DOMAIN CSMSCases : name \in CSMSCases[h]
  BY SMTT(30) DEF ChargingStationSends, CSMSCases
<1>4. \A name \in CSMSSends :
         \E h \in DOMAIN ChargingStationCases : name \in ChargingStationCases[h]
  BY SMTT(30) DEF CSMSSends, ChargingStationCases
<1> QED
  BY <1>1, <1>2, <1>3, <1>4, SMTT(30) DEF Roles, Peer, Sends, Cases

(* A failed validation has a code of its own, and it is not the code of what
   the endpoint does not support. *)
LEMMA ValidationCode ==
    \A tags : errorFromValidation(tags) \in ErrorCodes \ {"NotSupported"}
BY DEF errorFromValidation, ErrorCodes

------------------------------------------------------------------------------
(* The two sides of an exchange. *)

(* What TypeOK says of the set-up, which no step changes. *)
LEMMA SetupFacts ==
    ASSUME cfg \in Setups
    PROVE  /\ me \in Roles /\ peer \in Roles /\ Version(peer) = Version(cfg.role)
           /\ cfg.name \in DOMAIN Features[Version(cfg.role)]
           /\ Version(cfg.role) \in {"v16", "v201"}
           /\ cfg.checksAsking \in BOOLEAN /\ cfg.checksAnswering \in BOOLEAN
<1>1. /\ cfg.role \in Roles /\ cfg.checksAsking \in BOOLEAN /\ cfg.checksAnswering \in BOOLEAN
      /\ cfg.name \in DOMAIN Features[Version(cfg.role)]
  BY DEF Setups
<1> QED
  BY <1>1, PeerRole DEF me, peer, Version

(* A message that CreateCall or CreateCallResult found valid passes ParseMessage,
   and what passes it is valid; either way it keeps its content. *)
LEMMA MessageFacts ==
    ASSUME cfg \in Setups, NEW kind \in {feature.request, feature.response},
           NEW payload \in Payloads(kind, TRUE)
    PROVE  /\ MessageFailures(kind, payload) = <<>> =>
                  MessageFailures(kind, OverTheWire(kind, payload)) = <<>>
           /\ MessageFailures(kind, OverTheWire(kind, payload)) = <<>> =>
                  Validate(kind, OverTheWire(kind, payload)) = <<>>
           /\ Agree(kind, payload, OverTheWire(kind, payload))
<1> DEFINE there == OverTheWire(kind, payload)
<1>1. /\ Validate(kind, payload) \in Seq(STRING) /\ Validate(kind, there) \in Seq(STRING)
      /\ Validate(kind, payload) = <<>> => Validate(kind, there) = <<>>
      /\ Agree(kind, payload, there)
  BY SetupFacts, MessagesAssumption DEF feature
<1>2. \A s \in Seq(STRING) : /\ <<>> \o s = <<>> => s = <<>>
                            /\ <<"max">> \o s # <<>>
                            /\ s = <<>> => <<>> \o s = <<>>
  BY SMTT(30)
<1> HIDE DEF there
<1> QED
  BY <1>1, <1>2, SMTT(30) DEF MessageFailures, there

(* SendError writes the error, or nothing at all. *)
LEMMA SendErrorFacts ==
    ASSUME cfg \in Setups, NEW code
    PROVE  /\ \/ SendError(code) = <<>>
              \/ /\ SendError(code) = <<Error(code)>>
                 /\ cfg.checksAnswering => code \in ErrorCodes /\ idFits
           /\ Answerable /\ (code \in ErrorCodes \/ ~cfg.checksAnswering) =>
                  SendError(code) # <<>>
BY SetupFacts DEF SendError, CreateCallError, WriteOK, Answerable, idFits

(* So does HandleFailedResponseError, or it writes the message. *)
LEMMA FailedResponseFacts ==
    ASSUME cfg \in Setups, NEW message, NEW tags
    PROVE  LET written == HandleFailedResponseError(message, tags)
           IN  /\ \/ written = <<>>
                  \/ tags = <<>> /\ written = <<message>>
                  \/ \E code \in ErrorCodes :
                        /\ written = <<Error(code)>>
                        /\ cfg.checksAnswering => idFits
               /\ Answerable => written # <<>>
<1>1. "GenericError" \in ErrorCodes /\ errorFromValidation(tags) \in ErrorCodes
  BY ValidationCode DEF ErrorCodes
<1> QED
  BY <1>1, SetupFacts
  DEF HandleFailedResponseError, CreateCallError, WriteOK, Answerable, idFits

(* An error with a code of ocppj.go is understood by the side that asked. *)
LEMMA ErrorUnderstood ==
    \A code \in ErrorCodes : idFits => AnswerFailures(Error(code)) = <<>>
BY SMTT(30) DEF AnswerFailures, Error

(* Route finds a handler that is set. *)
LEMMA RouteFacts ==
    ASSUME cfg \in Setups
    PROVE  /\ Route \in {"accepted", "NotSupported"}
           /\ Route = "accepted" => HandlerOf \in registered
           /\ cfg.variant = "plain" /\ cfg.name \in Sends[me] => Route = "accepted"
<1>1. Route \in {"accepted", "NotSupported"}
  BY DEF Route
<1>2. ASSUME Route = "accepted" PROVE HandlerOf \in registered
  <2>1. /\ feature.profile \notin Checks[peer] \ registered
        /\ \E h \in DOMAIN Cases[peer] : cfg.name \in Cases[peer][h]
    BY <1>2 DEF Route
  <2>2. HandlerOf \in DOMAIN Cases[peer] /\ cfg.name \in Cases[peer][HandlerOf]
    BY <2>1 DEF HandlerOf
  <2>3. HandlerOf = feature.profile
    BY <2>2, SetupFacts, CasesAssumption DEF feature
  <2>4. HandlerOf \in Checks[peer]
    BY <2>2, SetupFacts, CasesChecked
  <2> QED
    BY <2>1, <2>3, <2>4
<1>3. ASSUME cfg.variant = "plain", cfg.name \in Sends[me] PROVE Route = "accepted"
  <2>1. Checks[peer] \subseteq registered
    BY <1>3, SetupFacts, ChecksHandled DEF registered
  <2>2. \E h \in DOMAIN Cases[peer] : cfg.name \in Cases[peer][h]
    BY <1>3, SetupFacts, SendsHandled DEF me, peer
  <2> QED
    BY <2>1, <2>2 DEF Route
<1> QED
  BY <1>1, <1>2, <1>3

------------------------------------------------------------------------------
(* The inductive invariant. *)

(* What has not happened yet at a stage. *)
Stages ==
    /\ stage \in {"ready", "refused", "sent", "handling", "served", "ignored"}
    /\ stage \in {"ready", "refused", "ignored"} =>
          /\ asked = <<>> /\ outcome = <<>> /\ strays = 0
          /\ ~pending /\ ~foreign
    /\ stage \in {"ready", "refused", "ignored", "sent"} => handled = <<>>
    /\ stage \in {"ready", "refused", "ignored", "sent", "handling"} =>
          answers = 0 /\ inbox = <<>>
    /\ stage \in {"ready", "refused", "sent"} => verdict = "none"
    /\ stage \in {"sent", "handling"} => asked # <<>>
    /\ stage = "handling" => handled # <<>>
    /\ stage = "served" /\ Answerable => answers = 1

(* What was asked is one of the payloads, and valid if the caller validates. *)
Asked ==
    asked # <<>> =>
        /\ asked[1] \in Payloads(feature.request, TRUE)
        /\ cfg.checksAsking => MessageFailures(feature.request, asked[1]) = <<>>

Answers ==
    {Result(Marshal(feature.response, payload)) : payload \in Payloads(feature.response, TRUE)}
    \union {Error(code) : code \in ErrorCodes \union {"bogus"}}

(* An answer on its way: a result comes from a handler, and no answer of an
   endpoint that validates is refused. *)
InTransit ==
    \/ inbox = <<>>
    \/ \E answer \in Answers :
          /\ inbox = <<answer>> /\ answers = 1
          /\ answer.type = "CALL_RESULT" => handled # <<>>
          /\ cfg.checksAnswering => AnswerFailures(answer) = <<>>

(* A pending request has no outcome yet; an answer or a foreign frame costs one
   CALL_ERROR at most. *)
Outcomes ==
    /\ answers \in 0..1
    /\ pending \in BOOLEAN /\ foreign \in BOOLEAN
    /\ pending => outcome = <<>>
    /\ \/ outcome = <<>>
       \/ \E o \in {"CALL_RESULT", "CALL_ERROR", "canceled"} :
             outcome = <<o>> /\ (o = "CALL_RESULT" => handled # <<>>)
    /\ strays \in Nat
    /\ strays <= (IF foreign THEN 1 ELSE 0) + (IF inbox = <<>> THEN answers ELSE 0)

ExchangeInv ==
    /\ cfg \in Setups
    /\ verdict \in ErrorCodes \union {"none", "accepted"}
    /\ Stages /\ Asked /\ InTransit /\ Outcomes
    /\ HandledIsValid /\ Understood /\ NoNilHandler /\ AnswersUnderstood

LEMMA OneElement ==
    /\ Len(<<>>) = 0
    /\ \A x : /\ Len(<<x>>) = 1 /\ <<x>>[1] = x /\ <<x>> # <<>> /\ Tail(<<x>>) = <<>>
             /\ <<>> \o <<x>> = <<x>> /\ Append(<<>>, x) = <<x>>
             /\ \A y : <<x>> = <<y>> => x = y
BY SMTT(30)

(* The invariant gives the properties that the runs check. *)
LEMMA ExchangeInvTypeOK == ExchangeInv => TypeOK
<1> SUFFICES ASSUME ExchangeInv PROVE TypeOK
  OBVIOUS
<1>1. Len(inbox) <= answers /\ answers \in 0..2
  <2>1. answers \in 0..1 /\ (inbox = <<>> \/ \E answer : inbox = <<answer>> /\ answers = 1)
    BY DEF ExchangeInv, InTransit, Outcomes
  <2>2. CASE inbox = <<>>
    <3>1. Len(inbox) = 0
      BY <2>2
    <3> QED
      BY <2>1, <3>1, SMTT(30)
  <2>3. ASSUME NEW answer, inbox = <<answer>>, answers = 1 PROVE Len(inbox) <= answers
    <3>1. Len(inbox) = 1
      BY <2>3
    <3> QED
      BY <2>3, <3>1, SMTT(30)
  <2> QED
    BY <2>1, <2>2, <2>3, SMTT(30)
<1>0. strays \in 0..3
  BY SMTT(30) DEF ExchangeInv, Outcomes
<1>2. \A i \in DOMAIN outcome : outcome[i] \in {"CALL_RESULT", "CALL_ERROR", "canceled"}
  BY SMTT(30) DEF ExchangeInv, Outcomes
<1>3. crashed = FALSE
  BY SMTT(30) DEF ExchangeInv, NoNilHandler
<1> QED
  BY <1>0, <1>1, <1>2, <1>3 DEF ExchangeInv, Stages, Outcomes, TypeOK

LEMMA ExchangeInvAnsweredOnce == ExchangeInv => AnsweredOnce
<1> SUFFICES ASSUME ExchangeInv PROVE AnsweredOnce
  OBVIOUS
<1>1. answers <= 1 /\ (stage = "served" /\ Answerable => answers = 1)
  BY SMTT(30) DEF ExchangeInv, Stages, Outcomes
<1>2. Len(outcome) <= 1
  <2>1. outcome = <<>> \/ \E o : outcome = <<o>>
    BY DEF ExchangeInv, Outcomes
  <2>2. CASE outcome = <<>>
    <3>1. Len(outcome) = 0
      BY <2>2
    <3> QED
      BY <3>1, SMTT(30)
  <2>3. ASSUME NEW o, outcome = <<o>> PROVE Len(outcome) <= 1
    <3>1. Len(outcome) = 1
      BY <2>3
    <3> QED
      BY <3>1, SMTT(30)
  <2> QED
    BY <2>1, <2>2, <2>3
<1>3. outcome = <<"CALL_RESULT">> => handled # <<>>
  BY OneElement DEF ExchangeInv, Outcomes
<1> QED
  BY <1>1, <1>2, <1>3 DEF AnsweredOnce

LEMMA ExchangeInit == Init => ExchangeInv
<1> SUFFICES ASSUME Init PROVE ExchangeInv
  OBVIOUS
<1> USE DEF Init
<1>1. Stages /\ Asked /\ InTransit
  BY DEF Stages, Asked, InTransit
<1>2. Outcomes
  <2>1. /\ answers = 0 /\ pending = FALSE /\ foreign = FALSE /\ strays = 0
        /\ inbox = <<>> /\ outcome = <<>>
    OBVIOUS
  <2> HIDE DEF Init
  <2>2. pending \in BOOLEAN /\ foreign \in BOOLEAN /\ ~pending /\ ~foreign
    BY <2>1
  <2>3. strays \in Nat /\ strays <= 0 + 0 /\ answers \in 0..1
    BY <2>1, SMTT(30)
  <2> QED
    BY <2>1, <2>2, <2>3 DEF Outcomes
<1>3. HandledIsValid /\ Understood /\ NoNilHandler /\ AnswersUnderstood
  BY DEF HandledIsValid, Understood, NoNilHandler, AnswersUnderstood
<1> QED
  BY <1>1, <1>2, <1>3 DEF ExchangeInv

(* What depends on the set-up only. *)
LEMMA SameSetup ==
    ASSUME UNCHANGED cfg
    PROVE  /\ feature' = feature /\ me' = me /\ Answers' = Answers
           /\ Answerable' <=> Answerable
           /\ \A kind, payload :
                 MessageFailures(kind, payload)' = MessageFailures(kind, payload)
           /\ \A answer : AnswerFailures(answer)' = AnswerFailures(answer)
<1>1. feature' = feature /\ me' = me /\ (idFits' <=> idFits)
  BY DEF feature, me, idFits
<1>2. (Answerable' <=> Answerable) /\ Answers' = Answers
  BY <1>1 DEF Answerable, Answers
<1>3. \A kind, payload : MessageFailures(kind, payload)' = MessageFailures(kind, payload)
  BY <1>1 DEF MessageFailures
<1>4. \A answer : AnswerFailures(answer)' = AnswerFailures(answer)
  BY <1>1, <1>3 DEF AnswerFailures
<1> QED
  BY <1>1, <1>2, <1>3, <1>4

(* What holds once the Call is served, by whatever was written. *)
LEMMA Served ==
    ASSUME ExchangeInv, stage \in {"ready", "sent", "handling"}, stage' = "served",
           NEW messages, Written(messages),
           \/ messages = <<>>
           \/ \E answer \in Answers :
                 /\ messages = <<answer>>
                 /\ answer.type = "CALL_RESULT" => handled # <<>>
                 /\ cfg.checksAnswering => AnswerFailures(answer) = <<>>,
           Answerable => messages # <<>>,
           verdict' \in ErrorCodes \union {"none", "accepted"},
           UNCHANGED <<cfg, asked, handled, pending, outcome, strays, foreign, crashed>>
    PROVE  Understood' => ExchangeInv'
<1>1. answers = 0 /\ inbox = <<>>
  BY DEF ExchangeInv, Stages
<1>2. cfg' = cfg
  OBVIOUS
<1>3. \/ messages = <<>> /\ inbox' = <<>> /\ answers' = 0
      \/ \E answer \in Answers :
            /\ messages = <<answer>> /\ inbox' = <<answer>> /\ answers' = 1
            /\ answer.type = "CALL_RESULT" => handled # <<>>
            /\ cfg.checksAnswering => AnswerFailures(answer) = <<>>
  BY <1>1, OneElement, SMTT(30) DEF Written
<1>4. Stages'
  BY <1>2, <1>3, SameSetup DEF Stages
<1>5. Asked'
  BY <1>2, SameSetup DEF ExchangeInv, Asked
<1>6. InTransit'
  BY <1>2, <1>3, SameSetup DEF InTransit
<1>7. Outcomes'
  BY <1>1, <1>3, SMTT(30) DEF ExchangeInv, Outcomes
<1>8. HandledIsValid' /\ NoNilHandler' /\ AnswersUnderstood'
  BY <1>2, SameSetup DEF ExchangeInv, HandledIsValid, NoNilHandler, AnswersUnderstood
<1> QED
  BY <1>2, <1>4, <1>5, <1>6, <1>7, <1>8 DEF ExchangeInv

LEMMA ExchangeStep == ExchangeInv /\ [Next]_vars => ExchangeInv'
<1> SUFFICES ASSUME ExchangeInv, [Next]_vars PROVE ExchangeInv'
  OBVIOUS
<1>0. /\ cfg \in Setups /\ Stages /\ Asked /\ InTransit /\ Outcomes
      /\ HandledIsValid /\ Understood /\ NoNilHandler /\ AnswersUnderstood
      /\ cfg.checksAsking \in BOOLEAN /\ cfg.checksAnswering \in BOOLEAN
  BY SetupFacts DEF ExchangeInv
<1>1. ASSUME NEW api \in {"method", "async", "sync"}, Send(api) PROVE ExchangeInv'
  <2>1. /\ stage = "ready"
        /\ UNCHANGED <<cfg, handled, verdict, inbox, answers, outcome, strays, foreign, crashed>>
    BY <1>1 DEF Send
  <2>2. /\ asked = <<>> /\ ~pending /\ outcome = <<>> /\ handled = <<>> /\ inbox = <<>>
        /\ answers = 0 /\ verdict = "none"
    BY <1>0, <2>1 DEF Stages
  <2>3. \/ stage' = "refused" /\ UNCHANGED <<asked, pending>>
        \/ \E payload \in Payloads(feature.request, TRUE) :
              /\ stage' = "sent" /\ asked' = <<payload>> /\ pending' = TRUE
              /\ cfg.checksAsking => MessageFailures(feature.request, payload) = <<>>
    <3>1. PICK payload \in Payloads(feature.request, TRUE) :
             IF Sendable(api) /\ CreateCall(payload)
             THEN stage' = "sent" /\ asked' = <<payload>> /\ pending' = TRUE
             ELSE stage' = "refused" /\ UNCHANGED <<asked, pending>>
      BY <1>1 DEF Send, Payloads
    <3> QED
      BY <3>1 DEF CreateCall
  <2>a. cfg' = cfg /\ strays = 0 /\ ~foreign
    BY <1>0, <2>1 DEF Stages
  <2>b. \/ stage' = "refused" /\ UNCHANGED <<asked, pending>>
        \/ stage' = "sent" /\ asked' # <<>>
    BY <2>3, OneElement
  <2>4. Stages'
    BY <2>1, <2>2, <2>a, <2>b, SMTT(30) DEF Stages
  <2>5. Asked'
    <3>1. CASE asked' = <<>>
      BY <3>1 DEF Asked
    <3>2. ASSUME NEW payload \in Payloads(feature.request, TRUE), asked' = <<payload>>,
                 cfg.checksAsking => MessageFailures(feature.request, payload) = <<>>
          PROVE  Asked'
      <4>1. asked'[1] = payload
        BY <3>2, OneElement
      <4>2. /\ feature' = feature
            /\ \A kind, p : MessageFailures(kind, p)' = MessageFailures(kind, p)
        BY <2>a, SameSetup
      <4> QED
        BY <2>a, <3>2, <4>1, <4>2 DEF Asked
    <3> QED
      BY <2>2, <2>3, <3>1, <3>2
  <2>6. InTransit' /\ HandledIsValid' /\ Understood' /\ NoNilHandler' /\ AnswersUnderstood'
    BY <1>0, <2>1, <2>2
    DEF InTransit, HandledIsValid, Understood, NoNilHandler, AnswersUnderstood
  <2>7. Outcomes'
    BY <1>0, <2>1, <2>2, <2>3 DEF Outcomes
  <2> QED
    BY <1>0, <2>1, <2>4, <2>5, <2>6, <2>7 DEF ExchangeInv
<1>2. ASSUME ReceiveCall PROVE ExchangeInv'
  <2> DEFINE payload == OverTheWire(feature.request, asked[1])
             parsed == ParseMessage(payload)
             code == IF parsed = "accepted" THEN Route ELSE Hooked(parsed)
  <2>1. /\ stage = "sent" /\ asked # <<>> /\ handled = <<>> /\ inbox = <<>> /\ answers = 0
        /\ UNCHANGED <<cfg, asked, pending, outcome, strays, foreign>>
    BY <1>0, <1>2 DEF ReceiveCall, Stages
  <2>2. /\ asked[1] \in Payloads(feature.request, TRUE)
        /\ cfg.checksAsking => MessageFailures(feature.request, asked[1]) = <<>>
    BY <1>0, <2>1 DEF Asked
  <2>3. /\ MessageFailures(feature.request, asked[1]) = <<>> =>
              MessageFailures(feature.request, payload) = <<>>
        /\ MessageFailures(feature.request, payload) = <<>> =>
              Validate(feature.request, payload) = <<>>
        /\ Agree(feature.request, asked[1], payload)
    BY <1>0, <2>2, MessageFacts
  <2>4. /\ parsed \in ErrorCodes \union {"accepted"}
        /\ parsed = "accepted" => MessageFailures(feature.request, payload) = <<>>
        /\ cfg.variant = "plain" => parsed # "NotSupported"
        /\ cfg.variant = "plain" /\ MessageFailures(feature.request, payload) = <<>> =>
              parsed = "accepted"
    BY ValidationCode DEF ParseMessage, ErrorCodes
  <2>5. /\ verdict' = IF parsed = "accepted" THEN Route ELSE parsed
        /\ \/ /\ verdict' = "accepted" /\ stage' = "handling" /\ handled' = <<payload>>
              /\ crashed' = (HandlerOf \notin registered)
              /\ UNCHANGED <<inbox, answers>>
           \/ /\ verdict' # "accepted" /\ stage' = "served"
              /\ Written(SendError(code))
              /\ UNCHANGED <<handled, crashed>>
    BY <1>2 DEF ReceiveCall
  <2> HIDE DEF payload, parsed
  <2>6. Understood'
    <3>1. /\ Route \in {"accepted", "NotSupported"}
          /\ cfg.variant = "plain" /\ cfg.name \in Sends[me] => Route = "accepted"
      BY <1>0, RouteFacts
    <3> QED
      BY <2>1, <2>2, <2>3, <2>4, <2>5, <3>1, SameSetup DEF Understood
  <2>7. verdict' \in ErrorCodes \union {"accepted"}
    BY <1>0, <2>4, <2>5, RouteFacts DEF ErrorCodes
  <2>8. CASE verdict' = "accepted"
    <3>1. /\ stage' = "handling" /\ handled' = <<payload>> /\ UNCHANGED <<inbox, answers>>
          /\ parsed = "accepted" /\ Route = "accepted"
          /\ crashed' = (HandlerOf \notin registered)
      BY <2>4, <2>5, <2>8 DEF ErrorCodes
    <3>2. crashed' = FALSE
      BY <1>0, <3>1, RouteFacts
    <3>3. Stages'
      BY <1>0, <2>1, <3>1, OneElement DEF Stages
    <3>4. Asked' /\ NoNilHandler' /\ AnswersUnderstood'
      BY <1>0, <2>1, <3>2, SameSetup DEF Asked, NoNilHandler, AnswersUnderstood
    <3>5. InTransit'
      BY <2>1, <3>1 DEF InTransit
    <3>6. Outcomes'
      BY <1>0, <2>1, <3>1, OneElement DEF Outcomes
    <3>7. HandledIsValid'
      BY <2>1, <2>3, <2>4, <3>1, SameSetup, OneElement DEF HandledIsValid
    <3> QED
      BY <1>0, <2>1, <2>6, <2>7, <3>3, <3>4, <3>5, <3>6, <3>7 DEF ExchangeInv
  <2>9. CASE verdict' # "accepted"
    <3>1. stage' = "served" /\ Written(SendError(code)) /\ UNCHANGED <<handled, crashed>>
      BY <2>5, <2>9
    <3>2. /\ code \in ErrorCodes \union {"bogus"}
          /\ Answerable => code \in ErrorCodes \/ ~cfg.checksAnswering
      BY <1>0, <2>4, <2>5, <2>9, RouteFacts DEF Hooked, Answerable, ErrorCodes
    <3> HIDE DEF code
    <3>3. \/ SendError(code) = <<>>
          \/ /\ SendError(code) = <<Error(code)>> /\ Error(code) \in Answers
             /\ Error(code).type = "CALL_ERROR"
             /\ cfg.checksAnswering => AnswerFailures(Error(code)) = <<>>
      BY <1>0, <3>2, SendErrorFacts, ErrorUnderstood DEF Answers, Error
    <3>4. Answerable => SendError(code) # <<>>
      BY <1>0, <3>2, SendErrorFacts
    <3> QED
      BY <2>1, <2>6, <2>7, <3>1, <3>3, <3>4, Served
  <2> QED
    BY <2>8, <2>9
<1>3. ASSUME NEW code \in {"SecurityError", "InternalError", "bogus"}, RespondError(code)
      PROVE  ExchangeInv'
  <2>1. /\ stage = "handling" /\ handled # <<>> /\ stage' = "served"
        /\ UNCHANGED <<cfg, asked, handled, verdict, pending, outcome, strays, foreign, crashed>>
    BY <1>0, <1>3 DEF RespondError, Stages
  <2>2. Understood' /\ verdict' \in ErrorCodes \union {"none", "accepted"}
    BY <1>0, <2>1, SameSetup DEF ExchangeInv, Understood
  <2> DEFINE tags == IF CreateCallError(cfg.checksAnswering, code) THEN <<>> ELSE <<"errorCode">>
             written == HandleFailedResponseError(Error(code), tags)
  <2>3. Written(written)
    BY <1>3 DEF RespondError
  <2>4. /\ \/ written = <<>>
           \/ tags = <<>> /\ written = <<Error(code)>>
           \/ \E c \in ErrorCodes : written = <<Error(c)>> /\ (cfg.checksAnswering => idFits)
        /\ Answerable => written # <<>>
    BY <1>0, FailedResponseFacts
  <2>5. tags = <<>> /\ cfg.checksAnswering => code \in ErrorCodes /\ idFits
    BY OneElement DEF CreateCallError
  <2>6. code \in ErrorCodes \union {"bogus"}
    BY DEF ErrorCodes
  <2> HIDE DEF tags, written
  <2>7. \A c \in ErrorCodes \union {"bogus"} :
           Error(c) \in Answers /\ Error(c).type = "CALL_ERROR"
    BY DEF Answers, Error
  <2>8. \/ written = <<>>
        \/ \E answer \in Answers :
              /\ written = <<answer>> /\ answer.type = "CALL_ERROR"
              /\ cfg.checksAnswering => AnswerFailures(answer) = <<>>
    BY <2>4, <2>5, <2>6, <2>7, ErrorUnderstood
  <2> QED
    BY <2>1, <2>2, <2>3, <2>4, <2>8, Served
<1>4. ASSUME RespondNil PROVE ExchangeInv'
  <2>1. /\ stage = "handling" /\ handled # <<>> /\ stage' = "served"
        /\ UNCHANGED <<cfg, asked, handled, verdict, pending, outcome, strays, foreign, crashed>>
    BY <1>0, <1>4 DEF RespondNil, Stages
  <2>2. Understood' /\ verdict' \in ErrorCodes \union {"none", "accepted"}
    BY <1>0, <2>1, SameSetup DEF ExchangeInv, Understood
  <2>3. Written(SendError("GenericError")) /\ "GenericError" \in ErrorCodes
    BY <1>4 DEF RespondNil, ErrorCodes
  <2>4. \/ SendError("GenericError") = <<>>
        \/ /\ SendError("GenericError") = <<Error("GenericError")>>
           /\ Error("GenericError") \in Answers
           /\ Error("GenericError").type = "CALL_ERROR"
           /\ cfg.checksAnswering => AnswerFailures(Error("GenericError")) = <<>>
    BY <1>0, <2>3, SendErrorFacts, ErrorUnderstood DEF Answers, Error
  <2>5. Answerable => SendError("GenericError") # <<>>
    BY <1>0, <2>3, SendErrorFacts
  <2> QED
    BY <2>1, <2>2, <2>3, <2>4, <2>5, Served
<1>5. ASSUME Respond PROVE ExchangeInv'
  <2>1. /\ stage = "handling" /\ handled # <<>> /\ stage' = "served"
        /\ UNCHANGED <<cfg, asked, handled, verdict, pending, outcome, strays, foreign, crashed>>
    BY <1>0, <1>5 DEF Respond, Stages
  <2>2. Understood' /\ verdict' \in ErrorCodes \union {"none", "accepted"}
    BY <1>0, <2>1, SameSetup DEF ExchangeInv, Understood
  <2>3. PICK payload \in Payloads(feature.response, TRUE) :
           Written(HandleFailedResponseError(
                       Result(Marshal(feature.response, payload)), CreateCallResult(payload)))
    BY <1>5 DEF Respond, Payloads
  <2> DEFINE result == Result(Marshal(feature.response, payload))
             tags == CreateCallResult(payload)
             written == HandleFailedResponseError(result, tags)
  <2>4. /\ \/ written = <<>>
           \/ tags = <<>> /\ written = <<result>>
           \/ \E c \in ErrorCodes : written = <<Error(c)>> /\ (cfg.checksAnswering => idFits)
        /\ Answerable => written # <<>>
    BY <1>0, FailedResponseFacts
  <2>5. result \in Answers /\ (tags = <<>> /\ cfg.checksAnswering => AnswerFailures(result) = <<>>)
    <3>1. result \in Answers
      BY DEF Answers
    <3>2. AnswerFailures(result) =
             MessageFailures(feature.response, OverTheWire(feature.response, payload))
      BY DEF AnswerFailures, Result, OverTheWire
    <3>3. tags = <<>> /\ cfg.checksAnswering => MessageFailures(feature.response, payload) = <<>>
      BY DEF CreateCallResult
    <3> QED
      BY <1>0, <3>1, <3>2, <3>3, MessageFacts
  <2>6. \A c \in ErrorCodes : Error(c) \in Answers /\ Error(c).type = "CALL_ERROR"
    BY DEF Answers, Error
  <2> HIDE DEF result, tags
  <2>7. \/ written = <<>>
        \/ \E answer \in Answers :
              /\ written = <<answer>>
              /\ cfg.checksAnswering => AnswerFailures(answer) = <<>>
    <3> HIDE DEF written
    <3> QED
      BY <2>4, <2>5, <2>6, ErrorUnderstood
  <2>8. Written(written)
    BY <2>3 DEF result, tags
  <2> HIDE DEF written
  <2> QED
    BY <2>1, <2>2, <2>4, <2>7, <2>8, Served
<1>6. ASSUME NEW frame \in Unidentified \union Identified, ReceiveFrame(frame)
      PROVE  ExchangeInv'
  <2>1. /\ stage = "ready" /\ asked = <<>> /\ outcome = <<>> /\ handled = <<>>
        /\ inbox = <<>> /\ answers = 0 /\ ~pending
        /\ UNCHANGED <<cfg, asked, handled, pending, outcome, strays, foreign, crashed>>
    BY <1>0, <1>6 DEF ReceiveFrame, Stages
  <2>2. verdict' \in ErrorCodes
    BY <1>6 DEF ReceiveFrame, FrameError, FormatErrorType, ErrorCodes
  <2>3. Understood'
    BY <2>1 DEF Understood
  <2>4. CASE frame \in Identified
    <3> DEFINE code == Hooked(verdict')
    <3>1. stage' = "served" /\ Written(SendError(code))
      BY <1>6, <2>4 DEF ReceiveFrame
    <3>2. /\ code \in ErrorCodes \union {"bogus"}
          /\ Answerable => code \in ErrorCodes \/ ~cfg.checksAnswering
      BY <1>0, <2>2 DEF Hooked, Answerable, ErrorCodes
    <3> HIDE DEF code
    <3>3. \/ SendError(code) = <<>>
          \/ /\ SendError(code) = <<Error(code)>> /\ Error(code) \in Answers
             /\ Error(code).type = "CALL_ERROR"
             /\ cfg.checksAnswering => AnswerFailures(Error(code)) = <<>>
      BY <1>0, <3>2, SendErrorFacts, ErrorUnderstood DEF Answers, Error
    <3>4. Answerable => SendError(code) # <<>>
      BY <1>0, <3>2, SendErrorFacts
    <3> QED
      BY <2>1, <2>2, <2>3, <3>1, <3>3, <3>4, Served
  <2>5. CASE frame \notin Identified
    <3>1. stage' = "ignored" /\ inbox' = <<>> /\ answers' = 0
      BY <1>6, <2>1, <2>5, SMTT(30) DEF ReceiveFrame, Written
    <3>2. Stages' /\ InTransit'
      BY <1>0, <2>1, <3>1 DEF Stages, InTransit
    <3>3. Asked' /\ HandledIsValid' /\ NoNilHandler' /\ AnswersUnderstood'
      BY <1>0, <2>1 DEF Asked, HandledIsValid, NoNilHandler, AnswersUnderstood
    <3>4. Outcomes'
      BY <1>0, <2>1, <3>1 DEF Outcomes
    <3> QED
      BY <1>0, <2>1, <2>2, <2>3, <3>2, <3>3, <3>4 DEF ExchangeInv
  <2> QED
    BY <2>4, <2>5
<1>7. ASSUME ReceiveAnswer PROVE ExchangeInv'
  <2>1. /\ inbox # <<>> /\ inbox' = Tail(inbox)
        /\ UNCHANGED <<cfg, stage, asked, handled, verdict, answers, foreign, crashed>>
    BY <1>7 DEF ReceiveAnswer
  <2>2. PICK answer \in Answers :
           /\ inbox = <<answer>> /\ answers = 1 /\ inbox[1] = answer
           /\ answer.type = "CALL_RESULT" => handled # <<>>
           /\ cfg.checksAnswering => AnswerFailures(answer) = <<>>
    BY <1>0, <2>1, OneElement DEF InTransit
  <2>3. inbox' = <<>> /\ answer.type \in {"CALL_RESULT", "CALL_ERROR"}
    <3>1. inbox' = <<>>
      BY <2>1, <2>2, OneElement
    <3>2. answer.type \in {"CALL_RESULT", "CALL_ERROR"}
      <4>1. \A x : Result(x).type = "CALL_RESULT" /\ Error(x).type = "CALL_ERROR"
        BY DEF Result, Error
      <4> QED
        BY <4>1 DEF Answers
    <3> QED
      BY <3>1, <3>2
  <2>4. stage = "served"
    BY <1>0, <2>1 DEF Stages
  <2>5. \/ UNCHANGED <<pending, outcome, strays>>
        \/ /\ pending /\ pending' = FALSE /\ outcome' = Append(outcome, answer.type)
           /\ strays' = strays
        \/ /\ AnswerFailures(answer) # <<>> /\ strays' \in {strays, strays + 1}
           /\ UNCHANGED <<pending, outcome>>
    <3>1. strays \in Nat
      BY <1>0 DEF Outcomes
    <3> QED
      BY <1>7, <2>2, <3>1, SMTT(30) DEF ReceiveAnswer
  <2>6. Outcomes'
    <3>1. /\ strays \in Nat /\ strays <= (IF foreign THEN 1 ELSE 0)
          /\ answers' = 1 /\ foreign' = foreign /\ foreign \in BOOLEAN /\ pending \in BOOLEAN
      BY <1>0, <2>1, <2>2, SMTT(30) DEF Outcomes
    <3>2. strays' \in Nat /\ strays' <= (IF foreign' THEN 1 ELSE 0) + 1
      BY <2>5, <3>1, SMTT(30)
    <3>3. \/ UNCHANGED <<pending, outcome>>
          \/ pending' = FALSE /\ outcome' = <<answer.type>>
      BY <1>0, <2>5, OneElement DEF Outcomes
    <3>4. UNCHANGED <<handled, answers, foreign>>
      BY <2>1
    <3>5. /\ pending' \in BOOLEAN /\ (pending' => outcome' = <<>>)
          /\ \/ outcome' = <<>>
             \/ \E o \in {"CALL_RESULT", "CALL_ERROR", "canceled"} :
                   outcome' = <<o>> /\ (o = "CALL_RESULT" => handled' # <<>>)
      <4>1. CASE UNCHANGED <<pending, outcome>>
        BY <1>0, <3>4, <4>1 DEF Outcomes
      <4>2. CASE pending' = FALSE /\ outcome' = <<answer.type>>
        BY <2>2, <2>3, <3>4, <4>2
      <4> QED
        BY <3>3, <4>1, <4>2
    <3> QED
      BY <2>3, <3>1, <3>2, <3>5, SMTT(30) DEF Outcomes
  <2>7. Stages'
    BY <1>0, <2>1, <2>4, SameSetup DEF Stages
  <2>8. Asked' /\ InTransit' /\ HandledIsValid' /\ Understood' /\ NoNilHandler'
    BY <1>0, <2>1, <2>3, SameSetup
    DEF Asked, InTransit, HandledIsValid, Understood, NoNilHandler
  <2>9. AnswersUnderstood'
    BY <1>0, <2>1, <2>2, <2>5 DEF AnswersUnderstood
  <2> QED
    BY <1>0, <2>1, <2>6, <2>7, <2>8, <2>9 DEF ExchangeInv
<1>8. ASSUME NEW frame, ReceiveForeignAnswer(frame) PROVE ExchangeInv'
  <2>1. /\ pending /\ ~foreign /\ foreign' = TRUE
        /\ UNCHANGED <<cfg, stage, asked, handled, verdict, inbox, answers, pending, outcome,
                       crashed>>
    BY <1>8 DEF ReceiveForeignAnswer
  <2>2. strays \in Nat /\ strays' \in {strays, strays + 1}
    BY <1>0, <1>8, SMTT(30) DEF ReceiveForeignAnswer, Outcomes
  <2>3. Stages'
    BY <1>0, <2>1, SameSetup DEF Stages
  <2>4. /\ Asked' /\ InTransit' /\ HandledIsValid' /\ Understood' /\ NoNilHandler'
        /\ AnswersUnderstood'
    BY <1>0, <2>1, SameSetup
    DEF Asked, InTransit, HandledIsValid, Understood, NoNilHandler, AnswersUnderstood
  <2>5. Outcomes'
    BY <1>0, <2>1, <2>2, SMTT(30) DEF Outcomes
  <2> QED
    BY <1>0, <2>1, <2>3, <2>4, <2>5 DEF ExchangeInv
<1>9. ASSUME Cancel PROVE ExchangeInv'
  <2>1. /\ pending /\ pending' = FALSE /\ outcome' = Append(outcome, "canceled")
        /\ UNCHANGED <<cfg, stage, asked, handled, verdict, inbox, answers, strays, foreign,
                       crashed>>
    BY <1>9 DEF Cancel
  <2>2. outcome' = <<"canceled">>
    BY <1>0, <2>1, OneElement DEF Outcomes
  <2>3. Stages'
    BY <1>0, <2>1, SameSetup DEF Stages
  <2>4. /\ Asked' /\ InTransit' /\ HandledIsValid' /\ Understood' /\ NoNilHandler'
        /\ AnswersUnderstood'
    BY <1>0, <2>1, SameSetup
    DEF Asked, InTransit, HandledIsValid, Understood, NoNilHandler, AnswersUnderstood
  <2>5. Outcomes'
    BY <1>0, <2>1, <2>2 DEF Outcomes
  <2> QED
    BY <1>0, <2>1, <2>3, <2>4, <2>5 DEF ExchangeInv
<1>10. ASSUME Again PROVE ExchangeInv'
  <2>1. /\ inbox = <<>> /\ ~pending
        /\ stage' = "ready" /\ asked' = <<>> /\ handled' = <<>> /\ verdict' = "none"
        /\ answers' = 0 /\ outcome' = <<>> /\ strays' = 0 /\ foreign' = FALSE
        /\ UNCHANGED <<cfg, inbox, pending, crashed>>
    BY <1>10 DEF Again
  <2>2. Stages' /\ Asked' /\ InTransit'
    BY <2>1 DEF Stages, Asked, InTransit
  <2>3. HandledIsValid' /\ Understood' /\ NoNilHandler' /\ AnswersUnderstood'
    BY <1>0, <2>1 DEF HandledIsValid, Understood, NoNilHandler, AnswersUnderstood
  <2>4. Outcomes'
    <3>1. pending' \in BOOLEAN /\ foreign' \in BOOLEAN /\ ~pending' /\ ~foreign'
      BY <1>0, <2>1 DEF Outcomes
    <3>2. strays' \in Nat /\ strays' <= 0 + 0 /\ answers' \in 0..1
      BY <2>1, SMTT(30)
    <3> QED
      BY <2>1, <3>1, <3>2 DEF Outcomes
  <2> QED
    BY <1>0, <2>1, <2>2, <2>3, <2>4 DEF ExchangeInv
<1>11. ASSUME UNCHANGED vars PROVE ExchangeInv'
  <2>1. UNCHANGED <<cfg, stage, asked, handled, verdict, inbox, answers, pending, outcome,
                    strays, foreign, crashed>>
    BY <1>11 DEF vars
  <2>2. Stages' /\ Outcomes'
    BY <1>0, <2>1, SameSetup DEF Stages, Outcomes
  <2>4. Asked' /\ InTransit'
    BY <1>0, <2>1, SameSetup DEF Asked, InTransit
  <2>3. HandledIsValid' /\ Understood' /\ NoNilHandler' /\ AnswersUnderstood'
    BY <1>0, <2>1, SameSetup DEF HandledIsValid, Understood, NoNilHandler, AnswersUnderstood
  <2> QED
    BY <2>1, <2>2, <2>3, <2>4 DEF ExchangeInv
<1> QED
  BY <1>1, <1>2, <1>3, <1>4, <1>5, <1>6, <1>7, <1>8, <1>9, <1>10, <1>11
  DEF Next, HandlerReturns

------------------------------------------------------------------------------
LEMMA ExchangeInvariant == Spec => []ExchangeInv
BY ExchangeInit, ExchangeStep, PTL DEF Spec

(* Every variable has a value of its type; in particular ParseMessage,
   handleIncomingRequest and the frame errors decide on a code of ocppj.go. *)
THEOREM TypeCorrect == Spec => []TypeOK
BY ExchangeInvariant, ExchangeInvTypeOK, PTL

(* Whatever the validator and the encoding are, a handler gets the content that
   the caller sent, and with validation only what ParseMessage found valid. *)
THEOREM HandlersGetValid == Spec => []HandledIsValid
<1>1. ExchangeInv => HandledIsValid
  BY DEF ExchangeInv
<1> QED
  BY <1>1, ExchangeInvariant, PTL

(* What SendRequestAsync lets through, the peer's handleIncomingRequest has a
   case and a handler for; and what passed CreateCall passes ParseMessage. *)
THEOREM RequestsUnderstood == Spec => []Understood
<1>1. ExchangeInv => Understood
  BY DEF ExchangeInv
<1> QED
  BY <1>1, ExchangeInvariant, PTL

(* handleIncomingRequest never calls a handler that is not set, whichever is
   left out. *)
THEOREM HandlersSet == Spec => []NoNilHandler
<1>1. ExchangeInv => NoNilHandler
  BY DEF ExchangeInv
<1> QED
  BY <1>1, ExchangeInvariant, PTL

(* The message handler, sendResponse and HandleFailedResponseError answer a
   Call once between them, and the caller gets one outcome. *)
THEOREM OneAnswer == Spec => []AnsweredOnce
BY ExchangeInvariant, ExchangeInvAnsweredOnce, PTL

(* What CreateCallResult and CreateCallError let through, the ParseMessage of
   the endpoint that asked does not refuse. *)
THEOREM AnswersAccepted == Spec => []AnswersUnderstood
<1>1. ExchangeInv => AnswersUnderstood
  BY DEF ExchangeInv
<1> QED
  BY <1>1, ExchangeInvariant, PTL
=============================================================================
