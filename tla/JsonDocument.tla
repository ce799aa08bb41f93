---------------------------- MODULE JsonDocument ----------------------------
(***************************************************************************)
(* How the data services read and write JSON: the wrappers over RapidJSON  *)
(* in olp/core/generated.                                                  *)
(*                                                                         *)
(* A JSON object is a function from the names of its members to their      *)
(* values, an array a sequence, a blob a sequence of bytes; a number and a *)
(* text stand for themselves.  None is JSON's null, a text that is not     *)
(* JSON, a null pointer and an empty boost::optional.  An object of a      *)
(* model class is a record whose fields have the names of the members.     *)
(***************************************************************************)
EXTENDS Naturals, Sequences

CONSTANT None

(* GetString() of the value of a blob, taken into a std::string and from   *)
(* there into a vector: what stands before the first zero byte.  The texts *)
(* hold no zero byte and are read as they are.                             *)
FromBytes(bytes) ==
    LET zeros == {i \in DOMAIN bytes : bytes[i] = 0}
    IN  IF zeros = {} THEN bytes
        ELSE SubSeq(bytes, 1, (CHOOSE i \in zeros : \A j \in zeros : i <= j) - 1)

FromScalar(scalar) == scalar

FromVector(array, from_json(_)) == [i \in DOMAIN array |-> from_json(array[i])]

(* parse<T>(value, name): what the member holds, or T() if there is none.  *)
(* A boost::optional<T> that has a value holds what a T would, a map of    *)
(* texts and a vector of texts what the object or array does.              *)
Parse(value, name, from_json(_), default) ==
    IF name \in DOMAIN value THEN from_json(value[name]) ELSE default

Text(value, name) == Parse(value, name, FromScalar, "")
Number(value, name) == Parse(value, name, FromScalar, 0)
Bool(value, name) == Parse(value, name, FromScalar, FALSE)
Blob(value, name) == Parse(value, name, FromBytes, None)
Optional(value, name) == Parse(value, name, FromScalar, None)
Vector(value, name, from_json(_)) == Parse(value, name, LAMBDA v : FromVector(v, from_json), <<>>)
Texts(value, name) == Parse(value, name, FromScalar, <<>>)
TextMap(value, name) == Parse(value, name, FromScalar, <<>>)

ToVector(vector, to_json(_)) == [i \in DOMAIN vector |-> to_json(vector[i])]

(* serialize(key, x, ...) of each of the members: null is left out.        *)
Object(members) == [name \in {n \in DOMAIN members : members[n] # None} |-> members[name]]
=============================================================================
