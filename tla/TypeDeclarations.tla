-------------------------- MODULE TypeDeclarations --------------------------
(***************************************************************************)
(* llcsharp/schema: the C# types that stand for schemas, and what each of  *)
(* them emits where a value is read or written.  A declaration has         *)
(*   of        how its values are made: plain, bytes, binary, password,    *)
(*             array or class,                                             *)
(*   schema    the id of the schema,                                       *)
(*   required, nullable                                                    *)
(*   json      the JSON type it is read from and written as,               *)
(*   clr       the C# type of a value,                                     *)
(*   query, path, header                                                   *)
(*             how a value is written there: encoded, plain, as its        *)
(*             display text, named (with an = before it), as a list, or    *)
(*             not at all (lost),                                          *)
(*   element   the declaration of the elements of an array.                *)
(* What texts look like is left out: a date, a number or a name is one     *)
(* token.  So is XML, which no code is generated for.                      *)
(***************************************************************************)
EXTENDS Names, TLC

NewPrimitive(id, required, json, clr) ==
  [of |-> "plain", schema |-> id, required |-> required, nullable |-> ~required,
   json |-> json, clr |-> clr, query |-> "encoded", path |-> "plain", header |-> "plain",
   element |-> <<>>]

Boolean(id, required) == NewPrimitive(id, required, "boolean", "bool")
Numeric(id, required, clr) == NewPrimitive(id, required, "number", clr)

\* The text is written with its name and never encoded, in a path too, where
\* the name is empty.
DateTime(id, required) ==
  [NewPrimitive(id, required, "string", "DateTime") EXCEPT !.query = "plain", !.path = "named"]

\* Seconds in JSON, but the text of the date everywhere else.
UnixTime(id, required) ==
  [NewPrimitive(id, required, "number", "DateTime") EXCEPT
     !.query = "display encoded", !.path = "display", !.header = "display"]

Duration(id, required) ==
  [NewPrimitive(id, required, "string", "TimeSpan") EXCEPT !.path = "lost", !.header = "lost"]

String(id, required) ==
  [NewPrimitive(id, required, "string", "string") EXCEPT !.nullable = TRUE, !.path = "encoded"]

EnumImplementation(id, required) ==
  [String(id, required) EXCEPT !.nullable = ~required, !.clr = "enum"]

Password(id, required) ==
  [String(id, required) EXCEPT !.of = "password", !.clr = "SecureString",
                               !.query = "lost", !.path = "lost", !.header = "lost"]

ByteArray(id, required) ==
  [String(id, required) EXCEPT !.of = "bytes", !.clr = "byte[]", !.query = "lost", !.path = "lost"]

\* A stream: it is only ever the whole of a response.
Binary(id, required) ==
  [String(id, required) EXCEPT !.of = "binary", !.json = "none", !.clr = "Stream",
                               !.query = "lost", !.path = "lost", !.header = "lost"]

ArrayOf(id, required, element) ==
  [String(id, required) EXCEPT !.of = "array", !.json = "array", !.clr = "array",
                               !.query = "list", !.path = "list", !.header = "lost",
                               !.element = <<element>>]

ObjectImplementation(id) ==
  [String(id, FALSE) EXCEPT !.of = "class", !.json = "object", !.clr = "class",
                            !.query = "lost", !.path = "lost", !.header = "lost"]

\* resolveTypeDeclaration: a choice is what its values are, and the elements of
\* an array are always required.
ResolveTypeDeclaration(schemas, id, required) ==
  LET resolve[other \in DOMAIN schemas, needed \in BOOLEAN] ==
        LET schema == schemas[other]
        IN CASE schema.type = "array" -> ArrayOf(other, needed, resolve[schema.element, TRUE])
             [] schema.type \in {"any", "dictionary", "object"} -> ObjectImplementation(other)
             [] schema.type \in {"time", "string", "uuid"} -> String(other, needed)
             [] schema.type = "credential" -> Password(other, needed)
             [] schema.type = "binary" -> Binary(other, needed)
             [] schema.type = "duration" -> Duration(other, needed)
             [] schema.type \in {"date", "date-time"} -> DateTime(other, needed)
             [] schema.type = "byte-array" -> ByteArray(other, needed)
             [] schema.type = "boolean" -> Boolean(other, needed)
             [] schema.type = "integer" ->
                  Numeric(other, needed, IF schema.precision = 64 THEN "long" ELSE "int")
             [] schema.type = "unixtime" -> UnixTime(other, needed)
             [] schema.type = "number" ->
                  Numeric(other, needed, CASE schema.precision = 64 -> "double"
                                          [] schema.precision = 128 -> "decimal"
                                          [] OTHER -> "float")
             [] schema.type \in {"constant", "choice"} -> resolve[schema.element, needed]
             [] schema.type = "sealed-choice" ->
                  IF schema.skip = "yes" THEN String(other, needed) ELSE EnumImplementation(other, needed)
  IN resolve[id, required]

(***************************************************************************)
(* Values and the pieces of a request they become: a name and texts, each  *)
(* of them encoded so many times.  A text is a sequence of tokens.         *)
(***************************************************************************)

Null == [value |-> "null"]
Scalar(data) == [value |-> "scalar", data |-> data]
Items(items) == [value |-> "list", items |-> items]

\* What a field holds before it is set, and what is read from what cannot be.
DefaultOfType(type) ==
  IF type.nullable \/ type.clr = "enum" THEN Null ELSE Scalar("zero")

Text(tokens, encoded) == [tokens |-> tokens, encoded |-> encoded]
Nothing == [name |-> <<>>, texts |-> <<>>]

\* One value, as serializeToNode writes it in a query, in a path or in a header.
TextOf(form, data) ==
  CASE form = "encoded" -> Text(<<data>>, 1)
    [] form = "plain" -> Text(<<data>>, 0)
    [] form = "named" -> Text(<<"=", data>>, 0)
    [] form = "display" -> Text(<<"date of", data>>, 0)
    [] form = "display encoded" -> Text(<<"date of", data>>, 1)

\* A list is encoded as a whole, its elements but for the first before that.
TextsOf(form, element, items) ==
  LET Rest(data) == IF form = "list query" THEN Text(<<data>>, 1) ELSE TextOf(element.path, data)
      Each(i) == IF i = 1 THEN Text(<<items[i].data>>, 0) ELSE Rest(items[i].data)
  IN [i \in DOMAIN items |-> [Each(i) EXCEPT !.encoded = @ + 1]]

\* With x-ms-skip-url-encoding nothing is encoded (removeEncoding).
RemoveEncoding(p, piece) ==
  IF ~p.raw THEN piece
  ELSE [piece EXCEPT !.texts = [i \in DOMAIN @ |-> [@[i] EXCEPT !.encoded = 0]]]

\* name=value, where a list has the name of the C# variable.
QueryPiece(type, p, value) ==
  RemoveEncoding(p,
    CASE type.query = "lost" \/ value = Null -> Nothing
      [] type.query = "list" /\ value # Null ->
           IF value.items = <<>> THEN Nothing
           ELSE [name |-> p.name, texts |-> TextsOf("list query", type.element[1], value.items)]
      [] OTHER -> [name |-> p.ser, texts |-> <<TextOf(type.query, value.data)>>])

PathPiece(type, p, value) ==
  RemoveEncoding(p,
    CASE type.path = "lost" \/ value = Null -> Nothing
      [] type.path = "list" /\ value # Null ->
           [name |-> p.ser, texts |-> TextsOf("list path", type.element[1], value.items)]
      [] OTHER -> [name |-> p.ser, texts |-> <<TextOf(type.path, value.data)>>])

HeaderPiece(type, p, value) ==
  IF type.header = "lost" \/ value = Null THEN Nothing
  ELSE [name |-> p.ser, texts |-> <<TextOf(type.header, value.data)>>]
=============================================================================
