----------------------------- MODULE MCExchange ------------------------------
(* Exchange with the features, the validators and the payloads of the two
   versions. *)
EXTENDS Exchange, Validation, Catalog

FailedTags(kind, payload) == Failing(<<>>, kind, payload)
BasicPayloads(kind) == {Typical(<<>>, kind), Zero(kind)}
EdgePayloads(kind) == EdgesOf(<<>>, kind)
==============================================================================
