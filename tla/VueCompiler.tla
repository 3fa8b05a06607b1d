---------------------------- MODULE VueCompiler ----------------------------
(***************************************************************************)
(* The template compiler of js/vue.js and the render functions it makes:    *)
(* parseHTML with its stack of open tags, the callbacks of parse with       *)
(* theirs, optimize, the order in which genElement treats the directives,   *)
(* and the helpers a render calls.  A template is a sequence of tokens, one *)
(* per step: start tags with their v-if, v-else(-if) and v-for, end tags    *)
(* and texts; no attributes, bound or not, and no v-pre.  Generated code is *)
(* not written down as a string: the Gen operators are what it returns when *)
(* it is called.                                                            *)
(***************************************************************************)
EXTENDS Integers, Sequences, SequencesExt, FiniteSets

CONSTANTS Vocabularies,   \* bound: sequence of sets of tokens; a template uses one set
          MaxTokens,      \* bound: tokens of a template
          Environments    \* data a render may find

VARIABLES vocabulary,
          template,       \* the tokens read so far
          parser,         \* stacks, nodes and root: see NewParser
          compiled        \* parse() has returned

compilerVars == <<vocabulary, template, parser, compiled>>

NoNode == 0
Void == {"img", "br"}                                  \* isUnaryTag
LeftOpen == {"p", "li"}                                \* canBeLeftOpenTag
NonPhrasing == {"div", "li"}                           \* isNonPhrasingTag
Reserved == Void \cup LeftOpen \cup NonPhrasing \cup {"template"}    \* isReservedTag

\* Tokens: cond is "none", "if", "elseif" or "else", exp what it tests.
StartTag(tag, cond, exp, for) ==
    [kind |-> "start", tag |-> tag, cond |-> cond, exp |-> exp, for |-> for]
EndTag(tag) == [kind |-> "end", tag |-> tag]
TextToken(text) == [kind |-> "text", text |-> text]         \* "blank", "words" or "bound"
BareTag(tag) == StartTag(tag, "none", "", FALSE)

-----------------------------------------------------------------------------
(* parse: the callbacks, on the record P of the two stacks and the tree.   *)
NewParser == [open |-> <<>>, stack |-> <<>>, nodes |-> <<>>, root |-> NoNode]

Element(t, parent) == [type |-> 1, tag |-> t.tag, text |-> "", cond |-> t.cond, exp |-> t.exp,
                       for |-> t.for, blocks |-> <<>>, parent |-> parent, children |-> <<>>]
TextNode(text) == [Element(BareTag(""), NoNode) EXCEPT !.text = text,
                                                      !.type = IF text = "bound" THEN 2 ELSE 3]
Top(P) == IF P.stack = <<>> THEN NoNode ELSE Last(P.stack)
IsElse(n) == n.cond \in {"elseif", "else"}

AddIfCondition(P, head, id) == [P EXCEPT !.nodes[head].blocks = Append(@, id)]
AddChild(P, parent, node) ==
    [P EXCEPT !.nodes = Append([@ EXCEPT ![parent].children = Append(@, Len(P.nodes) + 1)], node)]

\* findPrevElement throws away the texts before the v-else.
ProcessIfConditions(P, parent, id) ==
    LET kids == P.nodes[parent].children
        elements == { i \in DOMAIN kids : P.nodes[kids[i]].type = 1 }
        last == IF elements = {} THEN 0 ELSE CHOOSE i \in elements : \A j \in elements : j <= i
        Q == [P EXCEPT !.nodes[parent].children = SubSeq(kids, 1, last)]
    IN IF last > 0 /\ P.nodes[kids[last]].cond = "if" THEN AddIfCondition(Q, kids[last], id) ELSE Q

\* The element becomes the root, a branch of the root, a branch of the
\* element before it, a child, or (a second root) is lost.
StartCallback(P, t, unary) ==
    LET id == Len(P.nodes) + 1
        parent == Top(P)
        el == Element(t, parent)
        N == [P EXCEPT !.nodes = Append(@, el), !.root = IF @ = NoNode THEN id ELSE @]
        I == IF t.cond = "if" THEN AddIfCondition(N, id, id) ELSE N
        R == IF /\ P.root # NoNode /\ parent = NoNode
                /\ P.nodes[P.root].cond = "if" /\ IsElse(el)
             THEN AddIfCondition(I, P.root, id) ELSE I
        S == IF parent = NoNode THEN R
             ELSE IF IsElse(el) THEN ProcessIfConditions(R, parent, id)
             ELSE [R EXCEPT !.nodes[parent].children = Append(@, id)]
    IN IF unary THEN S ELSE [S EXCEPT !.stack = Append(@, id)]

\* Whitespace before an end tag is dropped.
EndCallback(P) ==
    LET kids == P.nodes[Top(P)].children
        trailing == kids # <<>> /\ P.nodes[Last(kids)].text = "blank"
    IN [P EXCEPT !.nodes[Top(P)].children = IF trailing THEN Front(@) ELSE @,
                 !.stack = Front(@)]

CharsCallback(P, text) ==
    IF Top(P) = NoNode THEN P
    ELSE LET kids == P.nodes[Top(P)].children
         IN IF text = "blank" /\ (kids = <<>> \/ P.nodes[Last(kids)].text = "blank") THEN P
            ELSE AddChild(P, Top(P), TextNode(text))

-----------------------------------------------------------------------------
(* parseHTML                                                               *)
LastTag(P) == IF P.open = <<>> THEN "" ELSE Last(P.open)

\* Close everything down to the pos-th open tag.
CloseTo(P, pos) ==
    [FoldLeftDomain(LAMBDA Q, i : EndCallback(Q), P, SubSeq(P.open, pos, Len(P.open)))
        EXCEPT !.open = SubSeq(@, 1, pos - 1)]

ParseEndTag(P, tag) ==
    LET same == { i \in DOMAIN P.open : P.open[i] = tag } IN
    IF same # {} THEN CloseTo(P, CHOOSE i \in same : \A j \in same : j <= i)
    ELSE IF tag = "br" THEN StartCallback(P, BareTag("br"), TRUE)
    ELSE IF tag = "p" THEN EndCallback(StartCallback(P, BareTag("p"), FALSE))
    ELSE P

\* A block closes the p it stands in, an li the li before it.
HandleStartTag(P, t) ==
    LET Q == IF LastTag(P) = "p" /\ t.tag \in NonPhrasing THEN ParseEndTag(P, "p") ELSE P
        R == IF t.tag \in LeftOpen /\ LastTag(Q) = t.tag THEN ParseEndTag(Q, t.tag) ELSE Q
        unary == t.tag \in Void
    IN StartCallback(IF unary THEN R ELSE [R EXCEPT !.open = Append(@, t.tag)], t, unary)

CompilerInit ==
    /\ vocabulary \in DOMAIN Vocabularies
    /\ template = <<>> /\ parser = NewParser /\ compiled = FALSE

ReadToken(t) ==
    /\ ~compiled /\ Len(template) < MaxTokens
    /\ template' = Append(template, t)
    /\ parser' = CASE t.kind = "start" -> HandleStartTag(parser, t)
                   [] t.kind = "end"   -> ParseEndTag(parser, t.tag)
                   [] t.kind = "text"  -> CharsCallback(parser, t.text)
    /\ UNCHANGED <<vocabulary, compiled>>

\* The template is at its end: what is still open is closed.
EndOfTemplate ==
    /\ ~compiled
    /\ parser' = CloseTo(parser, 1)
    /\ compiled' = TRUE
    /\ UNCHANGED <<vocabulary, template>>

CompilerNext == (\E t \in Vocabularies[vocabulary] : ReadToken(t)) \/ EndOfTemplate

CompilerSpec == CompilerInit /\ [][CompilerNext]_compilerVars

-----------------------------------------------------------------------------
(* optimize                                                                *)
RECURSIVE ChildOfTemplateFor(_, _)
ChildOfTemplateFor(P, id) ==
    LET up == P.nodes[id].parent IN
    /\ up # NoNode
    /\ P.nodes[up].tag = "template"
    /\ P.nodes[up].for \/ ChildOfTemplateFor(P, up)


IsStatic(P, id) ==
    LET n == P.nodes[id] IN
    CASE n.type = 2 -> FALSE
      [] n.type = 3 -> TRUE
      [] n.type = 1 -> /\ n.cond = "none" /\ ~n.for
                       /\ n.tag \in Reserved
                       /\ ~ChildOfTemplateFor(P, id)

\* markStatic$1 comes down to a node from the root, but not into a component: the
\* content of its slot is not made static.
RECURSIVE Marked(_, _)
Marked(P, id) ==
    \/ id = P.root
    \/ \E n \in 1..(id - 1) :
          /\ P.nodes[n].tag \in Reserved
          /\ id \in ToSet(P.nodes[n].children) \cup ToSet(P.nodes[n].blocks)
          /\ Marked(P, n)

RECURSIVE MarkStatic(_, _)
MarkStatic(P, id) ==
    /\ IsStatic(P, id)
    /\ \A i \in DOMAIN P.nodes[id].children : MarkStatic(P, P.nodes[id].children[i])
    /\ \A i \in 2..Len(P.nodes[id].blocks) : MarkStatic(P, P.nodes[id].blocks[i])

\* Worth hoisting: more than one text.
IsStaticRoot(P, id) ==
    LET kids == P.nodes[id].children IN
    /\ P.nodes[id].type = 1
    /\ kids # <<>> /\ ~(Len(kids) = 1 /\ P.nodes[kids[1]].type = 3)
    /\ Marked(P, id) /\ MarkStatic(P, id)

-----------------------------------------------------------------------------
(* A render.  X is its context: the tree, the data, the data an earlier     *)
(* render found, whether we are inside a v-for and inside a hoisted tree.   *)
NoText == <<"", 0>>
Node(tag, text, key, children) == [tag |-> tag, text |-> text, key |-> key, children |-> children]
TextVNode(text) == Node("#text", text, <<>>, <<>>)
EmptyVNode == Node("#comment", NoText, <<>>, <<>>)
Array(items) == Node("#array", NoText, <<>>, items)            \* a nested array
VList(items) == Node("#vlist", NoText, <<>>, items)            \* one of renderList
IsArray(v) == v.tag \in {"#array", "#vlist"}
Flatten1(array) == FlattenSeq([i \in DOMAIN array.children |->
                      LET v == array.children[i] IN IF IsArray(v) THEN v.children ELSE <<v>>])
\* What renderList made gets keys.  Joining neighbouring texts, which shows the
\* same, is left out.
RECURSIVE NormalizeChildren(_, _)
NormalizeChildren(array, nestedIndex) ==
    FlattenSeq([i \in DOMAIN array.children |->
        LET v == array.children[i]
            unkeyed == v.key = <<>> /\ v.tag \notin {"#text", "#comment"}
        IN IF IsArray(v) THEN NormalizeChildren(v, Append(nestedIndex, i))
           ELSE IF array.tag = "#vlist" /\ unkeyed /\ nestedIndex # <<>>
           THEN <<[v EXCEPT !.key = <<"__vlist">> \o Append(nestedIndex, i)]>> ELSE <<v>>])

NeedsNormalization(n) == n.for \/ n.tag = "template"
GetNormalizationType(P, kids) ==
    LET branches == UNION { {P.nodes[kids[i]]} \cup { P.nodes[b] : b \in ToSet(P.nodes[kids[i]].blocks) }
                              : i \in DOMAIN kids }
        elements == { n \in branches : n.type = 1 }
    IN IF \E n \in elements : NeedsNormalization(n) THEN 2
       ELSE IF \E n \in elements : n.tag \notin Reserved THEN 1 ELSE 0
Normalize(array, type) ==
    CASE type = 2 -> NormalizeChildren(array, <<>>)
      [] type = 1 -> Flatten1(array)
      [] OTHER -> array.children

RECURSIVE GenElement(_, _), GenIfConditions(_, _, _)

\* genChildren returns an array: of the children, or what a single v-for returns.
GenNode(X, id) ==
    LET n == X.tree.nodes[id] IN
    IF n.type = 1 THEN GenElement(X, id)
    ELSE TextVNode(IF n.type = 2 THEN <<"bound", X.data.x>> ELSE <<n.text, 0>>)
SingleFor(P, kids) == /\ Len(kids) = 1
                      /\ P.nodes[kids[1]].for /\ P.nodes[kids[1]].tag # "template"
GenChildren(X, id) ==
    LET kids == X.tree.nodes[id].children IN
    IF SingleFor(X.tree, kids) THEN GenElement(X, kids[1])
    ELSE Array([i \in DOMAIN kids |-> GenNode(X, kids[i])])

\* _c: an element of the platform or a component (which shows its slot here).
CreateElement(X, id) ==
    LET n == X.tree.nodes[id]
        inside == [X EXCEPT !.inFor = @ \/ n.for]
        type == IF SingleFor(X.tree, n.children) THEN 0 ELSE GetNormalizationType(X.tree, n.children)
    IN IF n.tag = "template" THEN GenChildren(inside, id)
       ELSE Node(n.tag, NoText, <<>>, Normalize(GenChildren(inside, id), type))

GenIf(X, id) ==
    IF X.tree.nodes[id].cond # "if" THEN CreateElement(X, id)
    ELSE GenIfConditions(X, X.tree.nodes[id].blocks, id)
GenIfConditions(X, blocks, head) ==
    IF blocks = <<>> THEN EmptyVNode
    ELSE LET b == Head(blocks) IN
         IF X.tree.nodes[b].cond # "else" /\ X.tree.nodes[b].exp \notin X.data.true
         THEN GenIfConditions(X, Tail(blocks), head)
         ELSE IF b = head THEN CreateElement(X, b) ELSE GenElement(X, b)

\* renderList calls the function for each item.
GenFor(X, id) ==
    IF X.tree.nodes[id].for
    THEN VList([i \in 1..X.data.items |-> GenIf(X, id)])
    ELSE GenIf(X, id)

\* renderStatic: rendered once and kept, unless it stands in a v-for.  Of the array
\* of a <template> every vnode gets its own key.
GenStatic(X, id) ==
    LET tree == CreateElement([X EXCEPT !.hoisted = TRUE, !.data = IF X.inFor THEN @ ELSE X.before], id)
        key == <<"__static__", id>>
    IN IF IsArray(tree)
       THEN Array([i \in DOMAIN tree.children |->
                      LET v == tree.children[i]
                      IN IF IsArray(v) THEN v ELSE [v EXCEPT !.key = Append(key, i)]])
       ELSE [tree EXCEPT !.key = key]

GenElement(X, id) ==
    IF ~X.hoisted /\ IsStaticRoot(X.tree, id) THEN GenStatic(X, id) ELSE GenFor(X, id)

RenderTemplate(P, data, before) ==
    GenElement([tree |-> P, data |-> data, before |-> before, inFor |-> FALSE, hoisted |-> FALSE],
               P.root)

-----------------------------------------------------------------------------
(* What a template means, read off its tokens.  A template is well formed if *)
(* every end tag closes the innermost element, every v-else follows its v-if *)
(* (which is not also a v-for: the v-else would be repeated with it), and    *)
(* the HTML rules for p and li close nothing else.                           *)
OpenElement(tag) == [tag |-> tag, chain |-> FALSE, started |-> FALSE]
NestsIn(st, t) ==
    LET in == Last(st) IN
    /\ t.cond \in {"elseif", "else"} => in.chain
    /\ ~(in.tag = "p" /\ t.tag \in NonPhrasing) /\ ~(t.tag \in LeftOpen /\ in.tag = t.tag)
    /\ Len(st) = 1 => t.tag # "template" /\ ~t.for /\ (in.started => t.cond \in {"elseif", "else"})
Nesting(ts) ==
    FoldLeft(LAMBDA st, t :
        IF st = <<>> THEN <<>>
        ELSE CASE t.kind = "start" ->
                    IF ~NestsIn(st, t) THEN <<>>
                    ELSE Append(Front(st), [Last(st) EXCEPT !.chain = t.cond \in {"if", "elseif"} /\ ~t.for,
                                                            !.started = TRUE])
                         \o (IF t.tag \in Void THEN <<>> ELSE <<OpenElement(t.tag)>>)
               [] t.kind = "end" -> IF Len(st) > 1 /\ Last(st).tag = t.tag THEN Front(st) ELSE <<>>
               [] t.kind = "text" ->
                    IF t.text = "blank" THEN st
                    ELSE IF Len(st) = 1 THEN <<>>
                    ELSE Append(Front(st), [Last(st) EXCEPT !.chain = FALSE]),
        <<OpenElement("")>>, ts)
WellFormed(ts) == ts # <<>> /\ ts[1].kind = "start" /\ Nesting(ts) # <<>>

\* Where the element that begins ts ends (its end tag may be missing at the end).
Depth(ts) == FoldLeft(LAMBDA d, t :
                d + (IF t.kind = "start" /\ t.tag \notin Void THEN 1
                     ELSE IF t.kind = "end" THEN -1 ELSE 0), 0, ts)
EndOf(ts) == CHOOSE k \in 1..Len(ts) :
                /\ Depth(SubSeq(ts, 1, k)) = 0 \/ k = Len(ts)
                /\ \A j \in 1..(k - 1) : Depth(SubSeq(ts, 1, j)) # 0

RECURSIVE Meaning(_, _, _)
Meaning(ts, data, taken) ==
    IF ts = <<>> THEN <<>>
    ELSE LET t == Head(ts) IN
    IF t.kind = "end" THEN <<>>
    ELSE IF t.kind = "text"
    THEN (IF t.text = "blank" THEN <<>>
          ELSE <<TextVNode(IF t.text = "bound" THEN <<"bound", data.x>> ELSE <<t.text, 0>>)>>)
         \o Meaning(Tail(ts), data, taken)
    ELSE LET k == EndOf(ts)
             inner == Meaning(SubSeq(ts, 2, k), data, FALSE)
             shown == CASE t.cond = "none" -> TRUE
                        [] t.cond = "if" -> t.exp \in data.true
                        [] t.cond = "elseif" -> ~taken /\ t.exp \in data.true
                        [] t.cond = "else" -> ~taken
             one == IF t.tag = "template" THEN inner ELSE <<Node(t.tag, NoText, <<>>, inner)>>
             times == IF ~shown THEN 0 ELSE IF t.for THEN data.items ELSE 1
         IN FlattenSeq([i \in 1..times |-> one])
            \o Meaning(SubSeq(ts, k + 1, Len(ts)), data, shown \/ (t.cond = "elseif" /\ taken))

RECURSIVE Visible(_)
Visible(items) ==
    LET seen == SelectSeq(items, LAMBDA v : v.tag # "#comment" /\ v.text # <<"blank", 0>>)
    IN [i \in DOMAIN seen |-> [seen[i] EXCEPT !.key = <<>>, !.children = Visible(@)]]

RECURSIVE Proper(_)
Proper(v) == /\ ~IsArray(v)
             /\ \A i, j \in DOMAIN v.children :
                   v.children[i].key # <<>> /\ v.children[i].key = v.children[j].key => i = j
             /\ \A i \in DOMAIN v.children : Proper(v.children[i])

=============================================================================
