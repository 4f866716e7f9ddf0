CONSTANT Features <- AllFeatures
CONSTANT Tags <- AllTags
CONSTANT Validate <- FailedTags
CONSTANT Marshal <- Encode
CONSTANT Unmarshal <- Decode
CONSTANT Constructed <- NewPayload
CONSTANT Basic <- BasicPayloads
CONSTANT Edges <- EdgePayloads
CONSTANT Agree <- SameContent
SPECIFICATION Spec
INVARIANT TypeOK
INVARIANT HandledIsValid
INVARIANT Understood
INVARIANT NoNilHandler
INVARIANT AnsweredOnce
INVARIANT AnswersUnderstood
