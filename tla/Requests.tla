------------------------------ MODULE Requests ------------------------------
(***************************************************************************)
(* llcsharp/operation: the request that a method of the API class makes of *)
(* its arguments.  The path of an operation is a sequence of segments,     *)
(* each a literal or the placeholder of a parameter, and so is the         *)
(* identity of a resource, with nothing but literals.                      *)
(***************************************************************************)
EXTENDS Conversions, CmdletParameters

CONSTANT IdentityCorrection \* the setting identity-correction-for-post

Literal(text) == [literal |-> text]
Placeholder(ser) == [parameter |-> ser]
IsLiteral(segment) == DOMAIN segment = {"literal"}

\* The declaration of a parameter; a constant is a local variable that is required.
OperationParameter(schemas, p) ==
  ResolveTypeDeclaration(schemas, p.schema, p.required \/ p.constant)

In(op, place) == SelectSeq(op.params, LAMBDA p : p.in = place)

Matched_Always(op) == IF op.path # <<>> THEN Front(op.path) ELSE op.path

\* The identity has to match the whole path, of a post without its last segment.
Matched(op) ==
  IF IdentityCorrection /\ op.method = "post" /\ op.path # <<>> THEN Front(op.path) ELSE op.path

IdentityMatches(op, identity) ==
  /\ Len(identity) = Len(Matched(op))
  /\ \A i \in DOMAIN identity :
       IsLiteral(Matched(op)[i]) => Matched(op)[i].literal = identity[i].literal

\* What the groups of the match hold; a group that the regular expression does
\* not have is empty.
FromIdentity(op, identity, p) ==
  LET places == {i \in DOMAIN identity : Matched(op)[i] = Placeholder(p.ser)}
  IN IF places = {} THEN Nothing
     ELSE [name |-> p.ser, texts |-> <<Text(<<identity[Min(places)].literal>>, 1)>>]

\* The first place that has the serialized name of the parameter is replaced;
\* the identity is part of a URL already, and not encoded again.
Url(schemas, op, args, identity) ==
  LET path == In(op, "path")
      Piece(p) == IF identity = <<>> THEN PathPiece(OperationParameter(schemas, p), p, args[p.ser])
                  ELSE FromIdentity(op, identity, p)
      Parameters(i) == SelectSeq(path, LAMBDA p : op.path[i] = Placeholder(p.ser))
      First(i) == \A j \in 1..i - 1 : op.path[j] # op.path[i]
  IN [i \in DOMAIN op.path |->
        IF IsLiteral(op.path[i]) \/ Parameters(i) = <<>> \/ ~First(i) THEN op.path[i]
        ELSE Piece(Parameters(i)[1])]

\* Pieces that are empty leave no & behind.
Query(schemas, op, args) ==
  LET query == In(op, "query")
      pieces == [i \in DOMAIN query |->
                   QueryPiece(OperationParameter(schemas, query[i]), query[i], args[query[i].ser])]
  IN SelectSeq(pieces, LAMBDA piece : piece # Nothing)

\* The length of the content is not the caller's.
Headers(schemas, op, args) ==
  LET headers == SelectSeq(In(op, "header"), LAMBDA p : p.name # <<"content", "length">>)
      pieces == [i \in DOMAIN headers |->
                   HeaderPiece(OperationParameter(schemas, headers[i]), headers[i], args[headers[i].ser])]
  IN SelectSeq(pieces, LAMBDA piece : piece # Nothing)

\* What is read only is not sent; no body at all is an empty object.
Content(schemas, classes, op, body) ==
  IF op.body = <<>> THEN Absent
  ELSE IF body = Null THEN Empty
  ELSE ToNode(classes, ResolveTypeDeclaration(schemas, op.body[1].schema, op.body[1].required), body, FALSE)

\* An operation has a method that takes an identity if it has any parameter but
\* the host, in its path or not.
HasIdentityMethod(op) == op.params # <<>>

\* The request, or none when there is no method that takes an identity, or the
\* identity is not one for this path.
Request(schemas, classes, op, args, identity, body) ==
  IF identity # <<>> /\ ~(HasIdentityMethod(op) /\ IdentityMatches(op, identity)) THEN <<>>
  ELSE << [method |-> op.method, path |-> Url(schemas, op, args, identity),
           query |-> Query(schemas, op, args), headers |-> Headers(schemas, op, args),
           content |-> Content(schemas, classes, op, body)] >>

ExpandedBody_NotInlined(classes, schema, body, values) ==
  LET Set(instance, i) == SetProperty(classes, instance, body[i].id, values[i])
  IN FoldLeft(Set, NewInstance(classes, schema),
              SelectSeq([i \in DOMAIN body |-> i], LAMBDA i : Len(body[i].id) = 2))

\* The body that a cmdlet makes of the parameters of its expanded body.
ExpandedBody(classes, schema, body, values) ==
  LET Set(instance, i) == SetProperty(classes, instance, body[i].id, values[i])
  IN FoldLeft(Set, NewInstance(classes, schema), [i \in DOMAIN body |-> i])
=============================================================================
