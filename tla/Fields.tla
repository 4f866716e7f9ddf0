------------------------------- MODULE Fields -------------------------------
(***************************************************************************)
(* The words in which the message structures of OCPP 1.6 and 2.0.1 are     *)
(* described: the Go kind of a field, its json tag (Keep, or Omit for      *)
(* omitempty), its validate tag (a sequence of rules) and whether the      *)
(* constructor of the structure sets it (Arg).                             *)
(*                                                                         *)
(* A value is abstracted to what its rules tell apart.  A text is its      *)
(* length, a date a number of half seconds (0 is Go's zero time), a link   *)
(* or an enumeration its text.  The value of a field is <<>> for a nil     *)
(* pointer, slice or interface, and otherwise a sequence with the one      *)
(* value; the value of a structure has one such entry for each field.      *)
(***************************************************************************)
EXTENDS Integers, Sequences, FiniteSets, TLC

Kind(k, of) == [k |-> k, of |-> of, ptr |-> FALSE, check |-> "none"]
Text == Kind("text", <<>>)
Number == Kind("number", <<>>)
Decimal == Kind("decimal", <<>>)
Flag == Kind("flag", <<>>)
Date == Kind("date", <<>>)
Link == Kind("link", <<>>)
Choice == Kind("choice", <<>>)
Anything == Kind("any", <<>>)
Slice(kind) == Kind("slice", kind)
Struct(fields) == Kind("struct", fields)
(* A structure for which RegisterStructValidation names a function. *)
Checked(check, fields) == [Struct(fields) EXCEPT !.check = check]
Ptr(kind) == [kind EXCEPT !.ptr = TRUE]

Rule(t, n) == [t |-> t, n |-> n]
Required == Rule("required", 0)
OmitEmpty == Rule("omitempty", 0)
Dive == Rule("dive", 0)
Unique == Rule("unique", 0)
Uri == Rule("uri", 0)
Url == Rule("url", 0)
AtMost(n) == Rule("max", n)
AtLeast(n) == Rule("min", n)
Gte(n) == Rule("gte", n)
Gt(n) == Rule("gt", n)
Lte(n) == Rule("lte", n)
(* A tag of the application, registered with RegisterValidation. *)
Tag(t) == Rule(t, 0)
NoTags == <<>>

Field(name, kind, rules, omit, arg) ==
    [name |-> name, kind |-> kind, rules |-> rules, omit |-> omit, arg |-> arg]
Keep(name, kind, rules) == Field(name, kind, rules, FALSE, FALSE)
Omit(name, kind, rules) == Field(name, kind, rules, TRUE, FALSE)
Arg(name, kind, rules) == Field(name, kind, rules, FALSE, TRUE)
ArgOmit(name, kind, rules) == Field(name, kind, rules, TRUE, TRUE)

(* An ocpp.Feature: its name, its profile, the tags that its file registers
   and the types of its two messages. *)
Feature(name, profile, tags, request, response) ==
    [name |-> name, profile |-> profile, tags |-> tags,
     request |-> request, response |-> response]
=============================================================================
