----------------------------- MODULE MCFrontEnd -----------------------------
(***************************************************************************)
(* The parts of the front end, checked side by side: they share no state,   *)
(* so a behaviour is one of the part chosen at the start while the others   *)
(* stay in an initial state of theirs.                                      *)
(***************************************************************************)
EXTENDS VueReactivity, VuePatch, VueElement, VueCompiler, VueTransition, BlogEditor, CommonJs

VARIABLE part

Parts == {"reactivity", "patch", "element", "compiler", "transition", "editor", "prices"}
frontEndVars == <<part, allVars, patchVars, elementVars, compilerVars, transitionVars, editorVars,
                  price>>

\* VuePatch: lists whose keys differ, lists with equal or missing keys, and refs
\* that change, stand in a v-for or belong to a component with an empty root.
Shape(key, tag, data, ref) ==
    [key |-> key, tag |-> tag, data |-> data, ref |-> ref, inFor |-> FALSE, empty |-> FALSE]
ShapeInFor(key, ref) == [Shape(key, "div", TRUE, ref) EXCEPT !.inFor = TRUE]
EmptyComponent(key, ref) == [Shape(key, "component", TRUE, ref) EXCEPT !.empty = TRUE]
Keyed == {Shape(1, "div", TRUE, NoRef), Shape(1, "component", TRUE, "r"),
          Shape(2, "div", FALSE, NoRef), Shape(3, "div", TRUE, "s"), Shape(4, "div", TRUE, NoRef)}
Loose == {Shape(1, "component", TRUE, "r"), Shape(2, "div", FALSE, NoRef),
          Shape(NoKey, "div", TRUE, "r"), Shape(NoKey, "text", FALSE, NoRef)}
WithRefs == {Shape(1, "component", TRUE, "r"), Shape(1, "component", TRUE, "s"),
             EmptyComponent(1, "r"), EmptyComponent(1, "s"),
             ShapeInFor(2, "q"), ShapeInFor(3, "q"), Shape(3, "div", TRUE, "s")}
UpTo(S, n) == UNION { [1..k -> S] : k \in 0..n }
MCFamilies ==
    LET distinct(lists) ==
            { list \in lists : \A i, j \in DOMAIN list : list[i].key = list[j].key => i = j }
    IN { distinct(UpTo(Keyed, 4)), UpTo(Loose, 3), distinct(UpTo(WithRefs, 3)) }

\* VueElement: renders that add, change and take away each kind of data.
All(S, v) == [k \in S |-> v]
Data(attrs, class, staticStyle, style, handlers, directives) ==
    [attrs |-> attrs, class |-> class, staticStyle |-> staticStyle, style |-> style,
     on |-> handlers, directives |-> directives]
MCEmpty == Data(All({}, 0), {}, All({}, 0), All({}, 0), All({}, 0), {})
MCVNodeData ==
    { MCEmpty,
      Data(All({"a", "b"}, "v"), {"c"}, All({}, 0), All({"a"}, "v"), All({1}, "h1"), {"d"}),
      Data(All({"a"}, "w"), {"c", "d"}, All({"a", "b"}, "v"), All({"a"}, "w"),
           All({1, 2}, "h2"), {"d", "e"}),
      Data(All({"a"}, Falsy) @@ All({"b"}, "w"), {}, All({"b"}, "w"), All({"b"}, Falsy),
           All({2}, "h1"), {"e"}),
      Data(All({"b"}, "v"), {"d"}, All({}, 0), All({"a", "b"}, "w"), All({1}, "h2"), {}) }

\* VueCompiler: conditions, lists and hoisting, HTML's own rules.
If(tag, exp) == StartTag(tag, "if", exp, FALSE)
ElseIf(tag, exp) == StartTag(tag, "elseif", exp, FALSE)
Else(tag) == StartTag(tag, "else", "", FALSE)
For(tag) == StartTag(tag, "none", "", TRUE)
MCVocabularies ==
    << {BareTag("div"), If("div", "a"), Else("div"), If("img", "a"), ElseIf("img", "b"),
        Else("img"), EndTag("div"), TextToken("blank"), TextToken("words")},
       {BareTag("div"), For("div"), StartTag("div", "if", "a", TRUE), BareTag("img"),
        TextToken("bound"), TextToken("words"), EndTag("div")},
       {BareTag("div"), BareTag("template"), For("template"), BareTag("card"), For("img"), TextToken("bound"),
        TextToken("words"), EndTag("div"), EndTag("template"), EndTag("card")},
       {BareTag("div"), BareTag("p"), BareTag("li"), BareTag("br"), EndTag("p"), EndTag("br"),
        EndTag("div"), TextToken("blank"), TextToken("words")} >>
Environment(true, items, x) == [true |-> true, items |-> items, x |-> x]
MCEnvironments == {Environment({}, 0, 0), Environment({"a"}, 2, 1), Environment({"b"}, 1, 0),
                   Environment({"a", "b"}, 2, 0)}

-----------------------------------------------------------------------------
FrontEndInit ==
    /\ part \in Parts
    /\ IF part = "patch" THEN PatchInit ELSE PatchFrom(TRUE, <<>>, <<>>)
    /\ part # "element" => model = "" /\ wantedData = MCEmpty
    /\ part # "compiler" => vocabulary = 1
    /\ part # "transition" => mode = "show" /\ wanted = Nobody
    /\ part # "prices" => price = <<"string", Decimal(<<0>>, <<>>)>>
    /\ PageInit /\ ElementInit /\ CompilerInit /\ TransitionInit /\ EditorInit /\ PriceInit

FrontEndNext ==
    /\ UNCHANGED <<part, price>>
    /\ \/ /\ part = "reactivity"
          /\ PageNext
          /\ UNCHANGED <<patchVars, elementVars, compilerVars, transitionVars, editorVars>>
       \/ /\ part = "patch"
          /\ PatchNext
          /\ UNCHANGED <<allVars, elementVars, compilerVars, transitionVars, editorVars>>
       \/ /\ part = "element"
          /\ ElementNext
          /\ UNCHANGED <<allVars, patchVars, compilerVars, transitionVars, editorVars>>
       \/ /\ part = "compiler"
          /\ CompilerNext
          /\ UNCHANGED <<allVars, patchVars, elementVars, transitionVars, editorVars>>
       \/ /\ part = "transition"
          /\ TransitionNext
          /\ UNCHANGED <<allVars, patchVars, elementVars, compilerVars, editorVars>>
       \/ /\ part = "editor"
          /\ EditorNext
          /\ UNCHANGED <<allVars, patchVars, elementVars, compilerVars, transitionVars>>

FrontEndSpec == FrontEndInit /\ [][FrontEndNext]_frontEndVars
=============================================================================
