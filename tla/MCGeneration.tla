---------------------------- MODULE MCGeneration ----------------------------
(* Small code models for the runs: the schemas below, the operations on them,
   and one or two directives. *)
EXTENDS GeneratedCode

MCSingular == ("disks" :> "disk") @@ ("tags" :> "tag") @@ ("addresses" :> "address")
MCVerbs == {"get", "list", "create", "update", "delete", "check", "start"}
MCVerbMap == (<<"get">> :> "Get") @@ (<<"list">> :> "Get") @@ (<<"create">> :> "New")
             @@ (<<"update">> :> "Update") @@ (<<"delete">> :> "Remove") @@ (<<"check">> :> "Test")
             @@ (<<"start">> :> "Start") @@ (<<"power", "off">> :> "Stop") @@ (<<"check", "name", "free">> :> "Test")
MCPrefix == <<"vm">>
MCModule == <<"az">>
MCNoInline == {<<"tree">>}

(* Schemas *)
Req(p) == [p EXCEPT !.required = TRUE]
Ro(p) == [p EXCEPT !.readOnly = TRUE]
Of(ser, schema) == PlainProperty(ser, ser, schema)
Object(name, parents, props) ==
  name :> [PlainSchema("object", name) EXCEPT !.parents = parents, !.props = props]
Plain(type, name) == name :> PlainSchema(type, name)

Array(name, element) == name :> [PlainSchema("array", name) EXCEPT !.element = element]

Basic == Plain("string", <<"string">>) @@ Plain("integer", <<"integer">>) @@ Plain("date-time", <<"date">>)
         @@ Array(<<"strings">>, <<"string">>) 
         @@ Plain("byte-array", <<"bytes">>) @@ (<<"map">> :> [PlainSchema("dictionary", <<"map">>) EXCEPT !.element = <<"string">>])
         @@ (<<"one">> :> [PlainSchema("sealed-choice", <<"one">>) EXCEPT !.choices = 1])
         @@ (<<"two">> :> [PlainSchema("sealed-choice", <<"two">>) EXCEPT !.choices = 2])
         @@ Plain("boolean", <<"flag">>)
         @@ (<<"true">> :> [PlainSchema("choice", <<"true">>) EXCEPT !.choices = 1, !.element = <<"flag">>])
S == <<"string">>

\* A resource whose properties are inlined twice over, and a page of them.
Disks ==
  [objects |-> << <<"disk">>, <<"resource">>, <<"disk", "properties">>, <<"sku">>, <<"page">> >>,
   schemas |->
     Object(<<"resource">>, <<>>, <<Ro(Of(<<"id">>, S)), Ro(Of(<<"name">>, S)),
                                    Req(Of(<<"location">>, S)), Of(<<"tags">>, <<"map">>),
                                    Of(<<"plan">>, <<"sku">>)>>)
     @@ Object(<<"disk">>, << <<"resource">> >>,
               <<Of(<<"name">>, S), Req(Of(<<"properties">>, <<"disk", "properties">>)), Of(<<"sku">>, <<"sku">>)>>)
     @@ Object(<<"disk", "properties">>, <<>>,
               <<Req(Of(<<"disk", "size">>, S)), Of(<<"sku">>, <<"sku">>), Of(<<"location">>, S),
                 Of(<<"image">>, <<"bytes">>), Req(Of(<<"mode">>, <<"one">>)), Of(<<"kind">>, <<"two">>)>>)
     @@ Object(<<"sku">>, <<>>, <<Of(<<"name">>, S), Of(<<"tier">>, <<"two">>)>>)
     @@ Object(<<"page">>, <<>>, <<Of(<<"value">>, <<"list">>), Of(<<"next", "link">>, S)>>)
     @@ (<<"list">> :> [PlainSchema("array", <<"list">>) EXCEPT !.element = <<"disk">>])]

\* Schemas that inherit in other ways: from two parents, round a diamond, with a
\* dictionary, in two versions, with a property of the same name but another type.
Family(b, c, d, parents) ==
  [objects |-> << <<"disk">>, <<"left">>, <<"right">>, <<"top">> >>,
   schemas |->
     Object(<<"top">>, <<>>, <<Of(<<"name">>, S), Of(<<"tags">>, <<"map">>)>>)
     @@ Object(<<"left">>, parents, b) @@ Object(<<"right">>, parents, c)
     @@ Object(<<"disk">>, << <<"left">>, <<"right">> >>, d)]
Siblings == Family(<<Of(<<"size">>, S)>>, <<Of(<<"tier">>, S)>>, <<Of(<<"size">>, S), Of(<<"name">>, S)>>, <<>>)
Shared == Family(<<Of(<<"size">>, S)>>, <<Of(<<"size">>, S), Of(<<"tier">>, S)>>, <<Of(<<"name">>, S)>>, <<>>)
Diamond == Family(<<Of(<<"size">>, S)>>, <<Of(<<"tier">>, S)>>, <<Of(<<"kind">>, S)>>, << <<"top">> >>)
Retyped == Family(<<Of(<<"size">>, S)>>, <<Of(<<"tier">>, S)>>, <<Of(<<"size">>, <<"bytes">>)>>, << >>)
Conflict == Family(<<Of(<<"size">>, <<"top">>)>>, <<>>, <<Of(<<"size">>, <<"right">>)>>, <<>>)

\* Two ways back to itself, one of which is not inlined.
Circle ==
  [objects |-> << <<"disk">>, <<"tree">> >>,
   schemas |->
     Object(<<"disk">>, <<>>, <<Of(<<"name">>, S), Of(<<"next">>, <<"disk">>)>>)
     @@ Object(<<"tree">>, <<>>, <<Of(<<"left">>, <<"tree">>)>>)]
Trees ==
  [objects |-> << <<"disk">>, <<"tree">> >>,
   schemas |->
     Object(<<"disk">>, << <<"map">> >>, <<Of(<<"name">>, S), Of(<<"tree">>, <<"tree">>),
                                         Of(<<"additional", "properties">>, S)>>)
     @@ Object(<<"tree">>, <<>>, <<Of(<<"left">>, <<"tree">>), Of(<<"name">>, S)>>)]

\* Objects that say what they are, nested dictionaries, and one property of
\* every type.
Kinds ==
  [objects |-> << <<"disk">>, <<"animal">>, <<"cat">>, <<"lion">>, <<"box">>, <<"crate">>, <<"open">> >>,
   schemas |->
     Object(<<"disk">>, <<>>,
            <<Req(Of(<<"animals">>, <<"zoo">>)), Of(<<"best">>, <<"animal">>), Req(Of(<<"count">>, <<"integer">>)),
              Of(<<"total">>, <<"long">>), Req(Of(<<"ratio">>, <<"ratio">>)), Of(<<"sold">>, <<"boolean">>),
              Of(<<"at">>, <<"date">>), Of(<<"since">>, <<"seconds">>), Of(<<"every">>, <<"duration">>),
              Of(<<"image">>, <<"bytes">>), Of(<<"tags">>, <<"map">>), Of(<<"crate">>, <<"crate">>),
              Ro(Of(<<"owner">>, S)), Of(<<"two">>, <<"two">>), Req(Of(<<"one">>, <<"one">>))>>)
     @@ (<<"animal">> :> [PlainSchema("object", <<"animal">>) EXCEPT
           !.props = <<Req(Of(<<"kind">>, S)), Of(<<"name">>, S)>>, !.discriminator = <<"kind">>, !.kind = "animal"])
     @@ (<<"cat">> :> [PlainSchema("object", <<"cat">>) EXCEPT
           !.parents = << <<"animal">> >>, !.props = <<Of(<<"lives">>, <<"integer">>)>>, !.kind = "cat"])
     @@ (<<"lion">> :> [PlainSchema("object", <<"lion">>) EXCEPT
           !.parents = << <<"cat">> >>, !.props = <<Of(<<"mane">>, <<"boolean">>)>>, !.kind = "lion"])
     @@ Object(<<"box">>, << <<"counts">> >>, <<>>)
     @@ Object(<<"crate">>, << <<"box">> >>, <<Of(<<"width">>, <<"integer">>)>>)
     @@ Object(<<"open">>, << <<"map">> >>, <<Of(<<"name">>, S)>>)
     @@ Array(<<"zoo">>, <<"animal">>) @@ Plain("boolean", <<"boolean">>)
     @@ (<<"counts">> :> [PlainSchema("dictionary", <<"counts">>) EXCEPT !.element = <<"integer">>])
     @@ (<<"long">> :> [PlainSchema("integer", <<"long">>) EXCEPT !.precision = 64])
     @@ Plain("number", <<"ratio">>) @@ Plain("unixtime", <<"seconds">>) @@ Plain("duration", <<"duration">>)]

(* Operations *)
Path(ser, name) == PlainParameter(ser, name, "path", S)
Subscription == Path(<<"subscription", "id">>, <<"subscription", "id">>)
Group == Path(<<"resource", "group", "name">>, <<"resource", "group", "name">>)
Disk == Path(<<"disk", "name">>, <<"disk", "name">>)
Version == [PlainParameter(<<"api", "version">>, <<"api", "version">>, "query", S)
              EXCEPT !.fromHost = FALSE]
Response(code, schema, headers) ==
  [code |-> code, schema |-> schema, headers |-> headers, headerSchema |-> <<>>, binary |-> FALSE]
Op(name, method, params, schema) ==
  [id |-> name, group |-> <<"disks">>, name |-> name, method |-> method, params |-> params,
   body |-> <<>>, responses |-> <<Response("ok", schema, <<>>)>>,
   exceptions |-> <<Response("default", <<"string">>, <<>>)>>,
   pageable |-> NoPages, lro |-> FALSE, asjob |-> FALSE, versions |-> <<"v1">>, cs |-> <<>>,
   path |-> FlattenSeq([i \in DOMAIN params |-> IF params[i].in = "path"
                          THEN <<Literal(params[i].ser), Placeholder(params[i].ser)>> ELSE <<>>])
            \o (IF method = "post" THEN <<Literal(name)>> ELSE <<>>)]
WithBody(op, name) ==
  [op EXCEPT !.body = <<PlainParameter(name, name, "body", <<"disk">>)>>]

Get == [Op(<<"get">>, "get", <<Subscription, Group, Disk, Version>>, <<"disk">>)
          EXCEPT !.versions = <<"v1", "v2">>]
Put == [WithBody(Op(<<"create", "or", "update">>, "put", <<Subscription, Group, Disk>>, <<"disk">>),
                 <<"disk">>)
          EXCEPT !.lro = TRUE, !.responses = @ \o <<Response("accepted", <<>>, <<>>)>>]
Patch == WithBody(Op(<<"update">>, "patch", <<Disk, [Path(<<"size">>, <<"size">>) EXCEPT !.in = "query"]>>,
                     <<"disk">>), <<"parameters">>)
List == Op(<<"list">>, "get", <<Subscription>>, <<"page">>)
ListAll == [Op(<<"list", "all">>, "get", <<Subscription>>, <<"page">>)
              EXCEPT !.pageable = [NoPages EXCEPT !.type = "pageable"]]
ListBy == Op(<<"list", "by", "group">>, "get", <<Subscription, Group>>, <<"page">>)
Delete == [Op(<<"delete">>, "delete", <<Disk, [PlainParameter(<<"mode">>, <<"mode">>, "query", <<"one">>) EXCEPT !.required = TRUE]>>, <<>>)
             EXCEPT !.responses = <<Response("ok", <<>>, << <<"request", "id">> >>)>>]
Check == Op(<<"name", "check", "free">>, "post",
            <<[Disk EXCEPT !.ser = <<"name">>], [Subscription EXCEPT !.fromHost = TRUE]>>, <<"disk">>)
Exists == Op(<<"exists">>, "post", <<Disk>>, <<"true">>)
Off == Op(<<"power", "off">>, "post", <<Disk>>, <<>>)
Ask == Op(<<"check", "name", "free">>, "post", <<Disk>>, <<"disk">>)
Stream == [Op(<<"export">>, "post", <<Disk>>, <<>>)
             EXCEPT !.responses = <<[Response("ok", <<>>, <<>>) EXCEPT !.binary = TRUE]>>]
Opt(ser, name, in, schema) == [Path(ser, name) EXCEPT !.in = in, !.schema = schema, !.required = FALSE]
Find == Op(<<"get", "by", "name">>, "get",
           <<Subscription, [Disk EXCEPT !.raw = TRUE], Opt(<<"top">>, <<"first">>, "query", <<"integer">>),
             Opt(<<"expand">>, <<"more">>, "query", <<"strings">>), Opt(<<"at">>, <<"at">>, "query", <<"date">>),
             Opt(<<"filter">>, <<"where">>, "query", <<"string">>), Opt(<<"etag">>, <<"match">>, "header", <<"string">>),
             Opt(<<"proxy">>, <<"proxy">>, "query", <<"string">>)>>,
           <<"disk">>)
Renew == [Op(<<"update">>, "post", <<Subscription, Path(<<"number">>, <<"number">>)>>, <<"disk">>)
            EXCEPT !.path = Front(@)]
All == Op(<<"all">>, "get", <<Disk>>, <<"disk">>)

(* Directives *)
On(select, where, set) == [Directive EXCEPT !.select = select, !.where = where, !.set = set]
Renames ==
  { <<On("none", [NoWhere EXCEPT !.variant = Part(<<"expanded">>)], [NoSet EXCEPT !.variant = <<"full">>])>>,
    <<On("none", [NoWhere EXCEPT !.verb = Whole(<<"Remove">>)], [NoSet EXCEPT !.verb = <<"Stop">>, !.variant = <<"off">>])>>,
    <<On("none", [NoWhere EXCEPT !.subject = Whole(<<"disk">>)],
         [NoSet EXCEPT !.subject = <<"volume">>, !.prefix = <<>>, !.alias = {<<"disk">>}]),
      [On("none", [NoWhere EXCEPT !.subject = Whole(<<"volume">>)], [NoSet EXCEPT !.preview = TRUE, !.variant = <<"all">>])
         EXCEPT !.clearAlias = TRUE]>>,
    <<On("parameter", [NoWhere EXCEPT !.parameter = Whole(<<"size">>)],
         [NoSet EXCEPT !.parameter = <<"name">>, !.breaking = "parameter", !.completer = "script"])>> }
Others ==
  { <<>>,
    <<On("none", [NoWhere EXCEPT !.enum = Whole(<<"two">>)], [NoSet EXCEPT !.verb = <<"Stop">>])>>,
    <<[Directive EXCEPT !.select = "command", !.where.verb = Whole(<<"Get">>), !.remove = TRUE]>>,
    <<[Directive EXCEPT !.select = "command", !.where.parameter = Whole(<<"size">>), !.remove = TRUE],
      [Directive EXCEPT !.where.verb = Whole(<<"New">>), !.hide = "yes"],
      [On("none", [NoWhere EXCEPT !.verb = Whole(<<"New">>)], [NoSet EXCEPT !.breaking = "output"])
         EXCEPT !.hide = "no"]>>,
    <<On("none", [NoWhere EXCEPT !.model = Whole(<<"disk">>), !.property = Part(<<"sku">>)],
         [NoSet EXCEPT !.property = <<"stock">>]),
      On("none", [NoWhere EXCEPT !.model = Whole(<<"sku">>)], [NoSet EXCEPT !.model = <<"stock">>, !.format.exclude = {<<"tier">>}]),
      On("none", [NoWhere EXCEPT !.enum = Whole(<<"two">>)], [NoSet EXCEPT !.enum = <<"sku", "kind">>])>> }

\* Two variants get one name, and a third has it already with a number.
Rename(name, new) ==
  On("none", [NoWhere EXCEPT !.variant = Whole(name)], [NoSet EXCEPT !.variant = new])
Numbering == <<Rename(<<"create">>, <<"full">>), Rename(<<"create", "expanded">>, <<"full">>),
               Rename(<<"create", "via", "identity">>, <<"full", "1">>)>>

Model(graph, operations) ==
  [schemas |-> graph.schemas @@ Basic, objects |-> graph.objects,
   others |-> << <<"map">>, <<"one">>, <<"two">> >>, operations |-> operations, error |-> FALSE]
Input(graph, operations, list) == [model |-> Model(graph, operations), directives |-> list]

Groups == {<<Get, Put, ListBy>>, <<Put, Patch, Check>>, <<Off, Delete, Stream, Ask>>, <<List, ListBy, Get>>,
           <<Patch, ListAll, List>>}
MCInputs ==
  {Input(Disks, ops, list) : ops \in Groups, list \in Renames \cup Others}
  \cup {Input(graph, <<Get, Put, Patch>>, list) :
          graph \in {Siblings, Shared, Diamond, Retyped, Conflict, Circle, Trees}, list \in Others}
  \cup {Input(Kinds, ops, <<>>) : ops \in {<<Find, Renew>>, <<Get, Put, Off, Exists>>}}
  \cup {Input(Disks, <<Get, All>>, <<>>), Input(Disks, <<Put>>, Numbering),
        Input(Disks, <<Put>>, <<On("none", [NoWhere EXCEPT !.model = Whole(<<"disk">>)],
                                   [NoSet EXCEPT !.completer = "script"])>>)}
MCDiamonds == {Input(Diamond, <<Get>>, <<>>)}
=============================================================================
