----------------------------- MODULE Validation -----------------------------
(***************************************************************************)
(* What the code uses of the validator (go-playground, v9) and of          *)
(* encoding/json on the structures of module Fields: Failing is the list   *)
(* of failed tags of a value, Encode and Decode the way over the wire.     *)
(* Tags maps each registered tag to the texts that its validator accepts.  *)
(***************************************************************************)
EXTENDS Fields, SequencesExt

CONSTANT Tags

NonNil(kind) == ~kind.ptr /\ kind.k \notin {"slice", "any"}

(* The zero value of a kind, as reflect.New leaves a field. *)
RECURSIVE Zero(_)
Zero(kind) ==
    IF ~NonNil(kind) THEN <<>>
    ELSE CASE kind.k \in {"text", "number", "decimal", "date"} -> <<0>>
           [] kind.k = "flag" -> <<FALSE>>
           [] kind.k \in {"link", "choice"} -> <<"">>
           [] kind.k = "struct" -> <<[i \in DOMAIN kind.of |-> Zero(kind.of[i].kind)]>>

Elements(value) == IF value = <<>> THEN <<>> ELSE value[1]

(* hasValue of the validator: a pointer or slice that is not nil, or a value
   other than zero. *)
HasValue(kind, value) == value # <<>> /\ (NonNil(kind) => value # Zero(kind))

Size(kind, value) ==
    CASE kind.k = "slice" -> Len(Elements(value))
      [] kind.k = "link" -> IF value[1] = "" THEN 0 ELSE IF value[1] = "long" THEN 9999 ELSE 10
      [] OTHER -> value[1]

Holds(rule, kind, value) ==
    CASE rule.t = "required" -> HasValue(kind, value)
      [] rule.t \in {"max", "lte"} -> Size(kind, value) <= rule.n
      [] rule.t \in {"min", "gte"} -> Size(kind, value) >= rule.n
      [] rule.t = "gt" -> Size(kind, value) > rule.n
      [] rule.t = "unique" -> IsInjective(Elements(value))
      [] rule.t \in {"uri", "url"} -> value[1] \in {"uri", "long"}
      [] OTHER -> value[1] \in Tags[rule.t]

FieldNamed(kind, value, name) ==
    value[CHOOSE i \in DOMAIN kind.of : kind.of[i].name = name]

(* validateHeartbeatConfirmation and validateHeartbeatResponse refuse a zero
   time; isValidIdToken and isValidGroupIdToken require the token itself for
   every type of token but NoAuthorization. *)
StructLevel(kind, value) ==
    CASE kind.check = "none" -> TRUE
      [] kind.check \in {"validateHeartbeatConfirmation", "validateHeartbeatResponse"} ->
           FieldNamed(kind, value, "currentTime") \notin {<<>>, <<0>>}
      [] OTHER -> FieldNamed(kind, value, "type")[1] \in
                      {"Central", "eMAID", "ISO14443", "ISO15693", "KeyCode", "Local", "MacAddress"}
                  => FieldNamed(kind, value, "idToken") # <<0>>

(* The failed tags of a value under its rules, in the order in which the
   validator reports them.  A structure is always entered, and its own first
   rule is skipped; the elements of a slice are looked at after dive only. *)
RECURSIVE Failing(_, _, _)
Failing(rules, kind, value) ==
    IF value = <<>> /\ kind.k # "slice"
    THEN IF rules = <<>> \/ rules[1] = OmitEmpty THEN <<>> ELSE <<rules[1].t>>
    ELSE IF kind.k = "struct"
    THEN FlattenSeq([i \in DOMAIN kind.of |->
                        Failing(kind.of[i].rules, kind.of[i].kind, value[1][i])])
         \o IF StructLevel(kind, value[1]) THEN <<>> ELSE <<"required">>
    ELSE IF rules = <<>> THEN <<>>
    ELSE IF rules[1] = OmitEmpty
    THEN IF HasValue(kind, value) THEN Failing(Tail(rules), kind, value) ELSE <<>>
    ELSE IF rules[1] = Dive
    THEN FlattenSeq([i \in DOMAIN Elements(value) |->
                        Failing(Tail(rules), kind.of, <<value[1][i]>>)])
    ELSE IF Holds(rules[1], kind, value) THEN Failing(Tail(rules), kind, value)
    ELSE <<rules[1].t>>

------------------------------------------------------------------------------
(* encoding/json, and the marshalling of DateTime in whole seconds. *)

(* What omitempty leaves out. *)
Empty(kind, value) ==
    \/ value = <<>>
    \/ kind.k = "slice" /\ value[1] = <<>>
    \/ NonNil(kind) /\ kind.k # "struct" /\ value = Zero(kind)

RECURSIVE Encode(_, _)
Encode(kind, value) ==
    IF value = <<>> THEN <<>>
    ELSE CASE kind.k = "struct" ->
                <<[name \in {kind.of[i].name : i \in {j \in DOMAIN kind.of :
                          ~(kind.of[j].omit /\ Empty(kind.of[j].kind, value[1][j]))}} |->
                      LET i == CHOOSE i \in DOMAIN kind.of : kind.of[i].name = name
                      IN  Encode(kind.of[i].kind, value[1][i])]>>
           [] kind.k = "slice" ->
                <<[i \in DOMAIN value[1] |-> Encode(kind.of, <<value[1][i]>>)]>>
           [] kind.k = "date" -> <<value[1] - (value[1] % 2)>>
           [] OTHER -> value

RECURSIVE Decode(_, _)
Decode(kind, wire) ==
    IF wire = <<>> THEN Zero(kind)
    ELSE CASE kind.k = "struct" ->
                <<[i \in DOMAIN kind.of |->
                      IF kind.of[i].name \in DOMAIN wire[1]
                      THEN Decode(kind.of[i].kind, wire[1][kind.of[i].name])
                      ELSE Zero(kind.of[i].kind)]>>
           [] kind.k = "slice" ->
                <<[i \in DOMAIN wire[1] |-> Decode(kind.of, wire[1][i])[1]]>>
           [] OTHER -> wire

(* Two payloads agree up to what the way over the wire is meant to lose: the
   fraction of a second of a time, and whether an empty list is nil. *)
RECURSIVE SameContent(_, _, _)
SameContent(kind, a, b) ==
    IF kind.k = "slice"
    THEN /\ Len(Elements(a)) = Len(Elements(b))
         /\ \A i \in DOMAIN Elements(a) : SameContent(kind.of, <<a[1][i]>>, <<b[1][i]>>)
    ELSE IF a = <<>> \/ b = <<>> THEN a = b
    ELSE IF kind.k = "struct"
    THEN \A i \in DOMAIN kind.of : SameContent(kind.of[i].kind, a[1][i], b[1][i])
    ELSE IF kind.k = "date" THEN a[1] - b[1] \in {0, 1}
    ELSE a = b

------------------------------------------------------------------------------
(* The values a payload is tried with. *)

(* A value that its rules accept. *)
RECURSIVE Typical(_, _)
Typical(rules, kind) ==
    CASE kind.k \in {"text", "number", "decimal"} -> <<1>>
      [] kind.k = "flag" -> <<TRUE>>
      [] kind.k = "date" -> <<2>>
      [] kind.k = "link" -> <<"uri">>
      [] kind.k = "any" -> <<"data">>
      [] kind.k = "choice" ->
           LET tags == {i \in DOMAIN rules : rules[i].t \in DOMAIN Tags}
           IN  <<IF tags = {} THEN "text" ELSE CHOOSE v \in Tags[rules[CHOOSE i \in tags : TRUE].t] : TRUE>>
      [] kind.k = "slice" -> <<Typical(rules, kind.of)>>
      [] kind.k = "struct" ->
           <<[i \in DOMAIN kind.of |-> Typical(kind.of[i].rules, kind.of[i].kind)]>>

(* What the constructor of a message makes of acceptable arguments. *)
NewPayload(kind) ==
    <<[i \in DOMAIN kind.of |->
          IF kind.of[i].arg THEN Typical(kind.of[i].rules, kind.of[i].kind)
                            ELSE Zero(kind.of[i].kind)]>>

(* The values at the edges of the rules of one field, in a message that is
   typical otherwise. *)
RECURSIVE EdgesOf(_, _)
EdgesOf(rules, kind) ==
    LET bounds == {rules[i].n : i \in {j \in DOMAIN rules :
                       rules[j].t \in {"max", "min", "gte", "gt", "lte"}}}
        near == {-1, 0} \union bounds \union {b + 1 : b \in bounds} \union {b - 1 : b \in bounds}
        copies(n) == [i \in 1..n |-> Typical(rules, kind.of)[1]]
        own == CASE kind.k = "text" -> {<<n>> : n \in {m \in near : m >= 0}}
                 [] kind.k \in {"number", "decimal"} -> {<<n>> : n \in near}
                 [] kind.k = "flag" -> {<<FALSE>>}
                 [] kind.k = "date" -> {<<0>>, <<3>>}
                 [] kind.k = "link" -> {<<"">>, <<"text">>, <<"long">>}
                 [] kind.k = "any" -> {}
                 [] kind.k = "choice" -> {<<"">>, <<"unlisted">>}
                 [] kind.k = "slice" ->
                      {<<copies(n)>> : n \in {0, 2} \union {b + 1 : b \in {m \in bounds : m < 10}}}
                      \union {<<e>> : e \in EdgesOf(rules, kind.of)}
                 [] kind.k = "struct" ->
                      UNION {{<<[Typical(<<>>, kind)[1] EXCEPT ![i] = e]>> :
                                 e \in EdgesOf(kind.of[i].rules, kind.of[i].kind)} :
                             i \in DOMAIN kind.of}
    IN  own \union (IF NonNil(kind) THEN {} ELSE {<<>>})
=============================================================================
