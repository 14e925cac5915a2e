------------------------------ MODULE ToolCalls ------------------------------
(***************************************************************************)
(* How a reply of the model becomes a tool call: the schema a tool is      *)
(* described by (tools/registry.py), the tolerant parser                   *)
(* (agent/parser.py), the loop's choice between the two dispatch paths     *)
(* (agent/loop.py) and the checks before a tool runs (agent/executor.py).  *)
(*                                                                         *)
(* A reply is the native calls that came with it and a text.  The text is  *)
(* a sequence of pieces: prose, and objects that stand in a fence, in a    *)
(* fence that is never closed, or bare.  An object is a sequence of        *)
(* <<key, value>>; what matters of its spelling is whether json.loads      *)
(* takes it, takes it once repaired, or never does.  Every piece also      *)
(* tells the call its author meant.                                        *)
(***************************************************************************)
EXTENDS Naturals, Sequences, SequencesExt, FiniteSetsExt

CONSTANTS None,        \* no name, no call
          Signatures,  \* Signatures[tool]: its parameters, [name, type, optional, default]
          Mutating,    \* the tools declared mutating
          Native       \* the model's own tool calling is used

Tools == DOMAIN Signatures

-----------------------------------------------------------------------------
(* Values and objects.                                                     *)

Leaf(is, v) == [is |-> is, v |-> v, in |-> <<>>]
Str(v) == Leaf("str", v)
Dict(in) == [is |-> "dict", v |-> "", in |-> in]
Json(in) == [is |-> "json", v |-> "", in |-> in]  \* a string that holds the object
BadJson == Leaf("badjson", "{")                   \* a string that holds half an object
Swallowed == Leaf("str", "{...")                  \* what a scrape takes for an object
Mangled == {Str("cut"), Str("rewritten")}          \* text a repair cut short, or rewrote

Reads(value) == value.is \in {"dict", "json"}
IsName(value) == value.is = "str" /\ value.v # ""

Has(fields, key) == \E i \in DOMAIN fields : fields[i][1] = key
\* of two values for one key Python keeps the last
At(fields, key) == fields[Max({i \in DOMAIN fields : fields[i][1] = key})][2]
Named(args) == {args[i][1] : i \in DOMAIN args}

\* No tool takes an object: the values of arguments are leaves.
IsPairs(o) == o \in Seq(ToSet(o)) /\ \A f \in ToSet(o) : f = <<f[1], f[2]>>
IsArguments(o) == IsPairs(o) /\ \A f \in ToSet(o) : ~Reads(f[2])
IsCall(o) == IsPairs(o) /\ \A f \in ToSet(o) : Reads(f[2]) => IsArguments(f[2].in)
IsObject(o) ==
  /\ IsPairs(o)
  /\ \A f \in ToSet(o) : Reads(f[2]) =>
       IF f[1] = "function" /\ f[2].is = "dict" THEN IsCall(f[2].in) ELSE IsArguments(f[2].in)

\* The pairs in S and one level below, and the pairs of an object that hold a plain value.
Within(S) == S \cup UNION {ToSet(f[2].in) : f \in {g \in S : Reads(g[2])}}
Written(o) == {f \in Within(Within(ToSet(o))) : ~Reads(f[2])}

-----------------------------------------------------------------------------
(* What the author of an object means by it.                               *)

NameKeys == <<"name", "tool", "tool_name", "action", "function_name">>
ArgumentKeys == <<"arguments", "args", "parameters", "params", "input", "action_input">>

\* The one pair of o that has one of these keys and a good value.
Only(o, i, keys, Good(_)) ==
  /\ o[i][1] \in ToSet(keys) /\ Good(o[i][2])
  /\ \A j \in DOMAIN o \ {i} : o[j][1] # o[i][1] /\ (o[j][1] \in ToSet(keys) => ~Good(o[j][2]))

Spells(o, meant) ==
  /\ \E i \in DOMAIN o : Only(o, i, NameKeys, IsName) /\ o[i][2].v = meant.name
  /\ \/ \E i \in DOMAIN o : Only(o, i, ArgumentKeys, Reads) /\ o[i][2].in = meant.args
     \/ /\ meant.args = <<>>
        /\ \A f \in ToSet(o) : f[1] \in ToSet(ArgumentKeys) => ~Reads(f[2])

\* It spells one call, or wraps one as OpenAI does.
IsWrapper(f) == f[1] = "function" /\ f[2].is = "dict"
Says(o, meant) ==
  \/ Spells(o, meant) /\ \A f \in ToSet(o) : f[1] # "function"
  \/ \E i \in DOMAIN o :
       /\ IsWrapper(o[i]) /\ Spells(o[i][2].in, meant)
       /\ \A j \in DOMAIN o \ {i} :
            o[j][1] \notin ToSet(NameKeys) \cup ToSet(ArgumentKeys) \cup {"function"}

\* Arguments that are half an object inside a string.
Halved(o) == \E f \in Within(ToSet(o)) : f[2] = BadJson

Forms == {"strict",  \* valid JSON
          "loose",   \* JSON after repair_json, which leaves `fixed`
          "cut",     \* ends inside the object: repair_json closes `got`
          "broken"}  \* balanced and beyond repair
Places == {"prose", "fenced", "open", "bare"}

\* ticks: the object contains ``` in a string; odd: an odd number of double quotes;
\* got: what is left of the object where it, or its fence, ends too early; fixed: the
\* object after the repairs, whose substitutions (quotes, commas, True for true) do not
\* spare the text inside strings.  A name of a tool is none of the words they change.
IsPiece(p) ==
  /\ p.at \in Places /\ p.form \in Forms
  /\ p.at = "prose" => p.form = "broken"
  /\ {p.ticks, p.odd} \subseteq BOOLEAN
  /\ p.ticks => p.at = "fenced"
  /\ IsObject(p.fields) /\ IsObject(p.got) /\ IsObject(p.fixed)
  /\ \A f \in Written(p.got) \cup Written(p.fixed) : f \in Written(p.fields) \/ f[2] \in Mangled

\* Who writes a tool's name under a key for names means a call of that tool, and, where
\* the object can be read, the call that it spells.
SaysItsMeaning(p) ==
  /\ \A f \in Written(p.fields) :
       f[1] \in ToSet(NameKeys) /\ IsName(f[2]) /\ f[2].v \in Tools => p.means.name = f[2].v
  /\ p.means.name \in Tools /\ p.form = "strict" =>
       Says(p.fields, p.means) \/ Halved(p.fields)

\* What is cut short, and a fence cut by a ``` in an object, ends the reply.
IsReply(r) ==
  /\ r.text \in Seq(ToSet(r.text))
  /\ \A i \in DOMAIN r.text :
       /\ IsPiece(r.text[i]) /\ SaysItsMeaning(r.text[i])
       /\ r.text[i].form = "cut" \/ r.text[i].at = "open" \/ r.text[i].ticks => i = Len(r.text)
  /\ r.native \in Seq(ToSet(r.native)) /\ \A c \in ToSet(r.native) : c.name \in Tools

\* A name of a tool is an identifier, and none is the beginning of another.
ASSUME ToolAssumption ==
  /\ Tools \cap {"cut", "rewritten", Swallowed.v} = {}
  /\ None \notin ToSet(NameKeys) \cup ToSet(ArgumentKeys)

-----------------------------------------------------------------------------
(* From an object to a call.                                               *)

\* the first of the keys that is good
First(keys, good) ==
  IF good = {} THEN None ELSE keys[Min({i \in DOMAIN keys : keys[i] \in good})]
Naming(f) == {k \in ToSet(NameKeys) : Has(f, k) /\ IsName(At(f, k))}
Giving(f) == {k \in ToSet(ArgumentKeys) : Has(f, k) /\ Reads(At(f, k))}

\* {"function": {...}}, where the keys beside it win; "function" itself is not looked at
\* again
Unwrapped(fields) ==
  IF Has(fields, "function") /\ At(fields, "function").is = "dict"
  THEN At(fields, "function").in \o fields
  ELSE fields
NoCall == [name |-> None, args |-> <<>>, repairs |-> {}]

Normalize(fields, repairs) ==
  LET f == Unwrapped(fields)
      name == First(NameKeys, Naming(f))
      args == First(ArgumentKeys, Giving(f))
  IN  IF name = None THEN NoCall
      ELSE [name |-> At(f, name).v, repairs |-> repairs,
            args |-> IF args = None THEN <<>> ELSE At(f, args).in]

-----------------------------------------------------------------------------
(* parse_tool_call.                                                        *)

Block(form, fields, notes) == [form |-> form, fields |-> fields, notes |-> notes]
Nothing == Block("broken", <<>>, {})

\* an object as far as it goes, and as the repairs leave it
Taken(p, form, notes) ==
  Block(form, CASE form = "cut" -> p.got [] form = "loose" -> p.fixed [] OTHER -> p.fields, notes)

\* Each rung looks at every piece.  A fence ends at the first ``` there is.
InFences(text) ==
  [i \in DOMAIN text |->
     IF text[i].at = "fenced"
     THEN Taken(text[i], IF text[i].ticks THEN "cut" ELSE text[i].form, {}) ELSE Nothing]
Unclosed(text) ==
  [i \in DOMAIN text |->
     IF text[i].at = "open" /\ \A j \in DOMAIN text : text[j].at # "fenced"
     THEN Taken(text[i], text[i].form, {"recovered unclosed code fence"}) ELSE Nothing]

\* _balanced_spans counts braces outside double quotes, so an odd quote in the prose
\* hides the objects up to the next one
Quoted(text, i) == Quantify(1 .. i - 1, LAMBDA j : text[j].odd) % 2 = 1
Spans(text) ==
  [i \in DOMAIN text |->
     IF text[i].at # "prose" /\ text[i].form # "cut" /\ ~Quoted(text, i)
     THEN Taken(text[i], text[i].form, {}) ELSE Nothing]

\* the text as a whole reads only when it is one object and nothing else
WholeText(text) ==
  [i \in DOMAIN text |->
     IF Len(text) = 1 /\ text[i].at = "bare" /\ text[i].form = "cut"
     THEN Taken(text[i], "cut", {}) ELSE Nothing]

Candidates(text) == InFences(text) \o Unclosed(text) \o Spans(text) \o WholeText(text)

\* Mutant: a repair that only closes what was open is not noted.
ReadBlockQuietly(b) ==
  CASE b.form = "strict" -> Normalize(b.fields, b.notes)
    [] b.form = "loose" -> Normalize(b.fields, b.notes \cup {"repaired"})
    [] b.form = "cut" -> Normalize(b.fields, b.notes)
    [] b.form = "broken" -> NoCall

\* each candidate strictly, then repaired
ReadBlock(b) ==
  CASE b.form = "strict" -> Normalize(b.fields, b.notes)
    [] b.form = "loose" -> Normalize(b.fields, b.notes \cup {"repaired"})
    [] b.form = "cut" -> Normalize(b.fields, b.notes \cup {"closed what was open"})
    [] b.form = "broken" -> NoCall

\* _KEY_VALUE.findall: a value runs to the next comma, so the key of an object swallows
\* the first pair of it
Flat(fields) ==
  FlattenSeq([i \in DOMAIN fields |->
    LET value == fields[i][2] IN
    IF value.is = "dict"
    THEN <<<<fields[i][1], Swallowed>>>> \o SubSeq(value.in, 2, Len(value.in))
    ELSE <<<<fields[i][1], IF value.is = "json" THEN Swallowed ELSE value>>>>])
FlatObject(fields) ==
  FlattenSeq([i \in DOMAIN fields |->
    IF fields[i][1] = "function" /\ fields[i][2].is = "dict"
    THEN LET inner == Flat(fields[i][2].in)
         IN  <<<<"function", Swallowed>>>> \o SubSeq(inner, 2, Len(inner))
    ELSE Flat(<<fields[i]>>)])

Noise == {"arguments", "args", "parameters", "params"}

Scrape(text) ==
  LET pairs == FlattenSeq([i \in DOMAIN text |->
                 FlatObject(IF text[i].form = "cut" THEN text[i].got ELSE text[i].fields)])
      name == First(NameKeys, Naming(pairs))
      Popped == {NameKeys[i] : i \in {j \in DOMAIN NameKeys :
                   \A k \in 1 .. j - 1 : NameKeys[k] # name}}
  IN  IF name = None THEN NoCall
      ELSE [name |-> At(pairs, name).v, repairs |-> {"scraped"},
            args |-> FlattenSeq([i \in DOMAIN pairs |->
                       IF pairs[i][1] \in Popped \cup Noise THEN <<>> ELSE <<pairs[i]>>])]

ParseToolCall(text) ==
  LET candidates == Candidates(text)
      read == [i \in DOMAIN candidates |-> ReadBlock(candidates[i])]
      found == {i \in DOMAIN read : read[i].name # None}
  IN  IF found # {} THEN read[Min(found)] ELSE Scrape(text)

-----------------------------------------------------------------------------
(* Agent._extract: a reply without a call to a known tool is an answer.    *)

Extract(reply) ==
  IF Native /\ reply.native # <<>> THEN Head(reply.native)
  ELSE LET parsed == ParseToolCall(reply.text)
       IN  IF parsed.name \in Tools THEN parsed ELSE NoCall

-----------------------------------------------------------------------------
(* The schema, and the checks of the executor.                             *)

Parameters(tool) == {Signatures[tool][i] : i \in DOMAIN Signatures[tool]}
Parameter(tool, name) == CHOOSE p \in Parameters(tool) : p.name = name

\* build_parameters: a parameter without a default is required; _json_type describes
\* `X | None` as X
Required(tool) == {p.name : p \in {q \in Parameters(tool) : ~q.default}}
Described(p) == p.type

\* _validate
Refused(tool, args) ==
  \/ ~(Named(args) \subseteq {p.name : p \in Parameters(tool)})
  \/ ~(Required(tool) \subseteq Named(args))

\* _coerce_arguments looks at the annotation itself, which for `X | None` is not X
Coerced(p, value) ==
  IF ~p.optional /\ value.is = "str" /\ p.type \in {"float", "int", "bool"}
  THEN Leaf(p.type, value.v) ELSE value

\* some argument reaches the tool as text although it is described as a number
Mistyped(tool, args) ==
  \E a \in ToSet(args) :
    LET p == Parameter(tool, a[1])
    IN  Described(p) \in {"int", "float"} /\ Coerced(p, a[2]).is = "str"
=============================================================================
