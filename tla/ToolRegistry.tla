---------------------------- MODULE ToolRegistry ----------------------------
(***************************************************************************)
(* toolsmith.py: @tool derives a schema from a function and registers it;  *)
(* an exporter copies the list under the lock and builds the descriptions  *)
(* outside it; call() finds a tool under the lock and checks and runs it   *)
(* outside it.  A model is shown the descriptions and answers with a name  *)
(* and arguments that fit one of them, while the registry may change.      *)
(***************************************************************************)
EXTENDS Integers, Sequences, FiniteSets

CONSTANTS ToolFunctions, \* sets of parameters
          Annotations,   \* [kind, args] records
          JsonValues,    \* [kind, items] records
          CallNames, ArgNames, Nesting, MaxRegistrations \* bounds

VARIABLES
  tools,      \* ToolRegistry._schemas: the functions by name
  toolPc, advert, \* the model's turn, the tools it was shown
  request,    \* the name and the arguments it chose, the function it saw
  found,      \* the functions call() found: none or one
  registrations

toolVars == <<tools, toolPc, advert, request, found, registrations>>

-----------------------------------------------------------------------------
(* What is written in an annotation stands for values of JSON, and so does *)
(* the schema made of it: both are the set of the values they let through, *)
(* found from those of the parts, down to a depth of Nesting.              *)

Annotation(kind, args) == [kind |-> kind, args |-> args]
Plain(kind)            == Annotation(kind, <<>>)
Json(kind)             == [kind |-> kind, items |-> <<>>]
PartsOf(seq)           == {seq[i] : i \in DOMAIN seq}

JsonType == [str |-> "string", bytes |-> "string", int |-> "integer", float |-> "number",
             bool |-> "boolean", none |-> "null", dict |-> "object", tuple |-> "array"]

OfType(v, type) == v.kind = type \/ (type = "number" /\ v.kind = "integer")

(* _annotation_to_json_schema; another annotation is the empty schema.     *)
Admitted(a, members, inner) ==
  {v \in JsonValues :
     CASE a.kind \in DOMAIN JsonType -> OfType(v, JsonType[a.kind])
       [] a.kind = "union" -> \E x \in members : v \in inner[x]
       [] a.kind = "list"  -> v.kind = "array" /\
                                (a.args # <<>> => PartsOf(v.items) \subseteq inner[a.args[1]])
       [] OTHER -> TRUE}

LegalAt[n \in Nat] ==
  IF n = 0 THEN [a \in Annotations |-> {}]
  ELSE [a \in Annotations |-> Admitted(a, PartsOf(a.args), LegalAt[n - 1])]

(* Optional[X] is described as X, another union as any of its members.     *)
NotNone(a) == {x \in PartsOf(a.args) : x.kind # "none"}
DescribedMembers(a) ==
  IF Len(a.args) = 2 /\ Cardinality(NotNone(a)) = 1 THEN NotNone(a) ELSE PartsOf(a.args)

SchemaAt[n \in Nat] ==
  IF n = 0 THEN [a \in Annotations |-> {}]
  ELSE [a \in Annotations |-> Admitted(a, DescribedMembers(a), SchemaAt[n - 1])]

Legal  == LegalAt[Nesting]
Schema == SchemaAt[Nesting]

(* Annotations and values come with their parts, and no annotation is      *)
(* nested deeper than the bound.                                           *)
ParameterKinds == {"plain", "positional", "self", "args", "kwargs"}

ASSUME ToolAssumption ==
  /\ \A a \in Annotations : a.args \in Seq(Annotations)
  /\ \A v \in JsonValues : v.items \in Seq(JsonValues)
  /\ \A f \in ToolFunctions : \A p \in f :
       p.kind \in ParameterKinds /\ p.default \in BOOLEAN /\ p.annotation \in Annotations
  /\ Nesting \in Nat /\ Legal = LegalAt[Nesting + 1] /\ Schema = SchemaAt[Nesting + 1]

-----------------------------------------------------------------------------
(* _build_schema *)

Parameter(name, kind, default, annotation) ==
  [name |-> name, kind |-> kind, default |-> default, annotation |-> annotation]

(* self, cls, *args and **kwargs are left out.                             *)
Described(f)      == {p \in f : p.kind \in {"plain", "positional"}}
ParameterNames(f) == {p.name : p \in Described(f)}

(* A parameter without a default is required.  Mutant: unless it may be    *)
(* None.                                                                   *)
IsRequiredUnlessOptional(p) == ~p.default /\ Json("null") \notin Legal[p.annotation]
IsRequired(p)               == ~p.default

(* build_openai_schema, build_anthropic_schema: what both tell a model.    *)
ToolFor(f) ==
  [properties |-> {[name |-> p.name, schema |-> Schema[p.annotation]] : p \in Described(f)},
   required   |-> {p.name : p \in {q \in Described(f) : IsRequired(q)}}]

Fits(args, description) ==
  /\ description.required \subseteq DOMAIN args
  /\ \A n \in DOMAIN args :
       \E p \in description.properties : p.name = n /\ args[n] \in p.schema

-----------------------------------------------------------------------------
NoTools == [n \in {} |-> {}]

ToolInit ==
  /\ tools = NoTools /\ toolPc = "idle" /\ advert = NoTools
  /\ request = [name |-> "", function |-> {}, args |-> NoTools] /\ found = {}
  /\ registrations = 0

(* A name that is registered again is replaced.                            *)
RegisterTool(name, f) ==
  /\ registrations < MaxRegistrations /\ registrations' = registrations + 1
  /\ tools' = [n \in DOMAIN tools \cup {name} |-> IF n = name THEN f ELSE tools[n]]
  /\ UNCHANGED <<toolPc, advert, request, found>>

Unregister(name) ==
  /\ name \in DOMAIN tools
  /\ tools' = [n \in DOMAIN tools \ {name} |-> tools[n]]
  /\ UNCHANGED <<toolPc, advert, request, found, registrations>>

ClearTools ==
  /\ DOMAIN tools # {} /\ tools' = NoTools
  /\ UNCHANGED <<toolPc, advert, request, found, registrations>>

(* to_openai_tools, to_anthropic_tools                                     *)
ExportTools ==
  /\ toolPc = "idle" /\ DOMAIN tools # {} /\ toolPc' = "shown" /\ advert' = tools
  /\ UNCHANGED <<tools, request, found, registrations>>

(* The model is outside: it picks a tool and arguments that fit.           *)
ChooseTool(name, args) ==
  /\ toolPc = "shown" /\ name \in DOMAIN advert /\ Fits(args, ToolFor(advert[name]))
  /\ toolPc' = "asked"
  /\ request' = [name |-> name, function |-> advert[name], args |-> args]
  /\ UNCHANGED <<tools, advert, found, registrations>>

(* Other code calls with arguments of its own making.                      *)
AskDirectly(name, args) ==
  /\ toolPc = "idle" /\ toolPc' = "asked"
  /\ request' = [name |-> name, function |-> {}, args |-> args]
  /\ UNCHANGED <<tools, advert, found, registrations>>

LookUpTool ==
  /\ toolPc = "asked"
  /\ IF request.name \in DOMAIN tools
     THEN toolPc' = "found" /\ found' = {tools[request.name]}
     ELSE toolPc' = "unknown" /\ UNCHANGED found
  /\ UNCHANGED <<tools, advert, request, registrations>>

(* Signature.bind: by keyword, so a parameter that is positional only and  *)
(* has no default never gets its argument, nor does self.                  *)
Binds(f, args) ==
  /\ \A p \in f : p.kind = "plain" /\ ~p.default => p.name \in args
  /\ \A p \in f : p.kind \in {"self", "positional"} => p.default /\ p.name \notin args

(* What call() tests before it runs a function.                            *)
Valid(f, args) ==
  /\ \A p \in Described(f) : IsRequired(p) => p.name \in args
  /\ args \subseteq ParameterNames(f)
  /\ Binds(f, args)

CheckAndRun ==
  /\ toolPc = "found"
  /\ \E f \in found : toolPc' = IF Valid(f, DOMAIN request.args) THEN "ran" ELSE "refused"
  /\ UNCHANGED <<tools, advert, request, found, registrations>>

ArgumentSets == UNION {[S -> JsonValues] : S \in SUBSET ArgNames}

ToolNext ==
  \/ \E n \in CallNames, f \in ToolFunctions : RegisterTool(n, f)
  \/ \E n \in CallNames : Unregister(n)
  \/ ClearTools \/ ExportTools \/ LookUpTool \/ CheckAndRun
  \/ \E n \in CallNames, args \in ArgumentSets : ChooseTool(n, args)
  \/ \E n \in CallNames, S \in SUBSET ArgNames :
       AskDirectly(n, [a \in S |-> Json("null")])

ToolSpec == ToolInit /\ [][ToolNext]_toolVars

-----------------------------------------------------------------------------
(* Properties *)

(* Arguments that fit the description of a tool run it, unless the tool    *)
(* was changed in between.  Methods, whose self is not described, and      *)
(* positional-only parameters, which are, cannot be called at all.         *)
CallableByKeyword(f) == \A p \in f : p.kind # "self" /\ (p.kind = "positional" => p.default)
FittingCallRuns ==
  toolPc = "refused" /\ DOMAIN advert # {} =>
    \A f \in found : f = request.function /\ CallableByKeyword(f) =>
      \E p \in f : p.kind = "positional" /\ p.name \in DOMAIN request.args

(* Whatever was described and whatever changed since, the function that    *)
(* runs gets each parameter that has no default, and no other argument.    *)
RunsFullyBound ==
  toolPc = "ran" =>
    \A f \in found :
      /\ DOMAIN request.args \subseteq ParameterNames(f)
      /\ \A p \in f : p.name \in DOMAIN request.args \/ p.default \/ p.kind \in {"args", "kwargs"}

(* The values in which no null is found, at any depth.                     *)
WithoutNull ==
  UNION {S \in SUBSET JsonValues : \A v \in S : v.kind # "null" /\ PartsOf(v.items) \subseteq S}

(* A description lets through every value without null that the annotation *)
(* takes.                                                                  *)
LegalValuesAreDescribed ==
  \A n \in DOMAIN advert : \A p \in Described(advert[n]) :
    Legal[p.annotation] \cap WithoutNull \subseteq Schema[p.annotation]

(* A null is another matter: Optional[T] takes it, and for a simple type T *)
(* no description lets it through, a required parameter's neither.  The    *)
(* docstring of _annotation_to_json_schema promises a "nullable schema";   *)
(* the code returns the schema of T.                                       *)
IsOptional(a) ==
  /\ a.kind = "union" /\ Len(a.args) = 2
  /\ \E x, none \in PartsOf(a.args) :
       none.kind = "none" /\ NotNone(a) = {x} /\ x.kind \in DOMAIN JsonType
NullOfOptionalIsLeftOut ==
  \A n \in DOMAIN advert : \A p \in Described(advert[n]) : IsOptional(p.annotation) =>
    \A v \in JsonValues : v.kind = "null" => v \in Legal[p.annotation] \ Schema[p.annotation]

(* A description, the check of a call and the function itself agree, but   *)
(* for the null that a function takes and its description does not.        *)
DescriptionsAreKept ==
  FittingCallRuns /\ RunsFullyBound /\ LegalValuesAreDescribed /\ NullOfOptionalIsLeftOut
=============================================================================
