---------------------------- MODULE MCTaskJournal ----------------------------
(* Two tools, and one reply for each way a model spells, wraps, cuts or    *)
(* hides a call; few faults, in every combination that fits the budgets.     *)
EXTENDS TaskJournal

P(name, type, optional, default) ==
  [name |-> name, type |-> type, optional |-> optional, default |-> default]
MCSignatures ==
  [write_file |-> <<P("path", "str", FALSE, FALSE), P("content", "str", FALSE, FALSE)>>,
   mouse_click |-> <<P("x", "float", TRUE, TRUE), P("y", "float", TRUE, TRUE)>>]

Path == <<"path", Str("p")>>
Whole2 == <<Path, <<"content", Str("whole")>>>>
Half == <<Path, <<"content", Str("cut")>>>>
XY == <<<<"x", Leaf("float", "1")>>, <<"y", Leaf("float", "2")>>>>
XText == <<<<"x", Str("1")>>, <<"y", Leaf("float", "2")>>>>

Piece(at, form, fields, got, means) ==
  [at |-> at, form |-> form, ticks |-> FALSE, odd |-> FALSE, fields |-> fields, got |-> got,
   fixed |-> fields, means |-> means]
Means(name, args) == [name |-> name, args |-> args]
Prose == Piece("prose", "broken", <<>>, <<>>, Means(None, <<>>))
Inches == [Prose EXCEPT !.odd = TRUE]
Object(name, args) == <<<<"name", Str(name)>>, <<"arguments", Dict(args)>>>>
Call(at, form, name, args) == Piece(at, form, Object(name, args), <<>>, Means(name, args))
Cut2(at) == Piece(at, "cut", Object("write_file", Whole2), Object("write_file", Half),
                  Means("write_file", Whole2))
Markdown == [Call("fenced", "strict", "write_file", Whole2)
             EXCEPT !.ticks = TRUE, !.got = Object("write_file", Half)]
Other(form, args) == <<<<"tool", Str("mouse_click")>>, <<"args", args>>>>
OpenAI(form, args) ==
  Piece("bare", form, <<<<"function", Dict(<<<<"name", Str("mouse_click")>>, <<"arguments", args>>>>)>>>>,
        <<>>, Means("mouse_click", XY))

\* `True` inside a text, lowered with the literals
Loosely(name) == [Call("fenced", "loose", name, Whole2)
                  EXCEPT !.fixed = Object(name, <<Path, <<"content", Str("rewritten")>>>>)]

Text(pieces) == [native |-> <<>>, text |-> pieces]
MCReplies ==
  {Text(<<Prose>>),
   Text(<<Prose, Call("fenced", "strict", "write_file", Whole2)>>),
   Text(<<Markdown>>),
   Text(<<Call("open", "strict", "mouse_click", XText)>>), Text(<<Prose, Cut2("open")>>),
   Text(<<Cut2("bare")>>), Text(<<Prose, Cut2("bare")>>),
   Text(<<Inches, Call("bare", "strict", "mouse_click", XY)>>),
   Text(<<Inches, Call("bare", "loose", "write_file", Whole2), Inches, Call("bare", "strict", "mouse_click", XY)>>),
   Text(<<OpenAI("strict", Json(XY))>>), Text(<<OpenAI("broken", Dict(XY))>>),
   Text(<<Piece("bare", "strict", Other("strict", BadJson), <<>>, Means("mouse_click", XY))>>),
   Text(<<Piece("bare", "strict", <<Path>>, <<>>, Means(None, <<>>)),
          Piece("fenced", "loose", Other("loose", Dict(XY)), <<>>, Means("mouse_click", XY))>>),
   Text(<<Call("fenced", "strict", "no_such_tool", <<>>)>>),
   Text(<<Prose, Cut2("fenced")>>), Text(<<Loosely("write_file")>>),
   Text(<<Piece("bare", "strict", <<Path>>, <<>>, Means(None, <<>>)),
          Piece("prose", "broken", <<<<"action", Str("mouse_click")>>>> \o XY, <<>>,
                Means("mouse_click", XY))>>),
   [native |-> <<[name |-> "mouse_click", args |-> XY, repairs |-> {}]>>, text |-> <<Prose>>]}

\* one task and every reply; two tasks and few replies, with two of a kill, an interrupt and
\* a torn line; two tasks and a full disk
Few == {Text(<<Prose>>), Text(<<Markdown>>)}
Scene(starts, replies, kills, tears, interrupts, full) ==
  [starts |-> starts, replies |-> replies, kills |-> kills, tears |-> tears,
   interrupts |-> interrupts, errors |-> full]
MCBudgets == {Scene(1, MCReplies, 1, 1, 1, 1), Scene(2, Few, 1, 1, 0, 0), Scene(2, Few, 0, 1, 1, 0),
              Scene(2, Few, 0, 0, 0, 1)}
=============================================================================
