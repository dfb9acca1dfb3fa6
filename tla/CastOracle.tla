------------------------------ MODULE CastOracle ------------------------------
(***************************************************************************)
(* What the conversion operations of VariantValue promise: the answer of   *)
(* the C++ cast itself (the NO_RTTI variant of isAPriv, which has no       *)
(* cache), for every call, whatever was asked before.                      *)
(***************************************************************************)
EXTENDS CastRules

VARIABLE
  last          \* the last call and its answer

NoCall == [op |-> "none"]

Call(op, h, r, answer) ==
  [op |-> op, holder |-> h, request |-> r, answer |-> answer]

Init == last = NoCall

ConvertTo(h, r) == last' = Call("convertTo", h, r, OracleConvertTo(h, r))

MoveValue(h, r) == last' = Call("moveValue", h, r, OracleConvertTo(h, r))

Value(h, r) ==
  /\ ValueModelled(r)
  /\ last' = Call("value", h, r, OracleValue(h, r))

VerifyObject(h, r) ==
  /\ r.mode # "value" /\ r.type \notin Strings
  /\ last' = Call("verifyObject", h, r, OracleVerify(h, r.type, r.mode = "cref"))

Next ==
  \E h \in Holders, r \in Requests :
    ConvertTo(h, r) \/ MoveValue(h, r) \/ Value(h, r) \/ VerifyObject(h, r)

Spec == Init /\ [][Next]_last
=============================================================================
