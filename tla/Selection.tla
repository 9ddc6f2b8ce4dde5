------------------------------ MODULE Selection ------------------------------
(***************************************************************************)
(* Sizzle, jQuery's selection of elements: find, filter, not and is, with  *)
(* :not, :has and :nth-child.  The browser's own engine is asked first, if *)
(* it has not failed on the selector before.                               *)
(*                                                                         *)
(* A compiled selector is matched from right to left, element after        *)
(* element.  What a combinator has found out about an element is noted in  *)
(* the element, and so are positions among siblings, all stamped with the  *)
(* run (dirruns) they belong to: the notes of earlier runs stay behind     *)
(* while the page changes.                                                 *)
(*                                                                         *)
(* A selector is a sequence of groups, a group one of compounds: a         *)
(* combinator (the first may have one too) and the tests it comes before.  *)
(***************************************************************************)
EXTENDS Integers, Sequences, FiniteSets, SequencesExt

CONSTANTS
    Size,       \* how many elements the page has
    Kinds,      \* their tags or classes
    Selectors,  \* the selectors the page uses
    Contexts,   \* .. the sequences of contexts it uses them in
    Singles,    \* .. and the elements it asks about alone, in a context
    Engines,    \* what browsers' own engines know: sets of types of tests
    MaxQueries, \* bound: queries
    MaxChanges  \* bound: changes of the page

ASSUME SelectionAssumption ==
    /\ Size \in Nat \ {0}
    /\ Contexts \subseteq Seq(0 .. Size)
    /\ Singles \subseteq [context : 0 .. Size, elem : 1 .. Size]
    /\ MaxQueries \in Nat /\ MaxChanges \in Nat

VARIABLES
    parent,     \* the page: the parent of each element
    kind,       \* .. and its tag or class
    notes,      \* what Sizzle knows: see Notes
    query,      \* history: the last query, if the page is as it was then
    results,    \* .. and what it returned
    queries,    \* history: queries so far
    changes     \* history: changes so far

page == <<parent, kind>>
allVars == <<parent, kind, notes, query, results, queries, changes>>

\* Elements are numbered in document order; 1 is the documentElement.
Document == 0
Elements == 1 .. Size
Nodes == Document .. Size

\* What a context may be other than a node: none was given, or `true'.
None == -1
Anywhere == -2

-----------------------------------------------------------------------------
(* The page.                                                               *)

\* The ancestors of an element, the nearest first, the document last.
Ancestors(par, e) ==
    LET up[n \in Nodes] == IF n = Document THEN <<>> ELSE <<par[n]>> \o up[par[n]]
    IN up[e]

\* Document order puts a child after its parent and before what follows it.
WellFormed(par) ==
    /\ \A e \in Elements : par[e] < e
    /\ \A e \in Elements \ {1} :
          par[e] \in ({e - 1} \cup ToSet(Ancestors(par, e - 1))) \ {Document}

\* A set of elements in document order.
Ordered(set) == SelectSeq([e \in Elements |-> e], LAMBDA e : e \in set)

ChildrenOf(n) == Ordered({e \in Elements : parent[e] = n})
Place(e) == Cardinality({d \in Elements : parent[d] = parent[e] /\ d <= e})
Descendants(n) ==
    Ordered({e \in Elements : n \in ToSet(Ancestors(parent, e))})

\* The nodes in the direction of a combinator, the nearest first.
Path(comb, n) ==
    IF n = Document THEN <<>>
    ELSE IF comb \in {" ", ">"} THEN Ancestors(parent, n)
    ELSE Reverse(Ordered({d \in Elements : parent[d] = parent[n] /\ d < n}))

Key(comb) == IF comb \in {" ", ">"} THEN "parentNode" ELSE "previousSibling"
First(comb) == comb \in {">", "+"}

-----------------------------------------------------------------------------
(* What selectors mean.                                                    *)

\* n is where the combinator says, seen from e.
Related(comb, n, e) ==
    CASE comb = " " -> n < e /\ n \in ToSet(Ancestors(parent, e))
      [] comb = ">" -> n = parent[e]
      [] comb = "~" -> n # Document /\ parent[n] = parent[e] /\ n < e
      [] comb = "+" -> n # Document /\ parent[n] = parent[e] /\ Place(n) + 1 = Place(e)

RECURSIVE Means(_, _, _), Prefix(_, _, _, _)

Passes(t, e) ==
    CASE t.type = "TAG" -> t.name = "*" \/ t.name = kind[e]
      [] t.type = "ID" -> t.id = e
      [] t.type = "not" -> ~Means(t.arg, e, Document)
      [] t.type = "has" -> \E d \in Elements : Means(t.arg, d, e)
      [] t.type = "nth" ->
            \E n \in 0 .. Size :
                t.first * n + t.last =
                    IF t.back THEN Len(ChildrenOf(parent[e])) + 1 - Place(e) ELSE Place(e)

\* Compounds 1 to k of a group can be matched by elements up to e, from ctx on.
Prefix(group, k, e, ctx) ==
    IF k = 0 THEN e = ctx
    ELSE LET comb == IF group[k].comb = "" THEN " " ELSE group[k].comb
         IN /\ e # Document
            /\ \A i \in DOMAIN group[k].tests : Passes(group[k].tests[i], e)
            /\ \E n \in Nodes : Related(comb, n, e) /\ Prefix(group, k - 1, n, ctx)

Means(sel, e, ctx) == \E g \in DOMAIN sel : Prefix(sel[g], Len(sel[g]), e, ctx)

-----------------------------------------------------------------------------
(* Notes.                                                                  *)

\* dirruns: the number of runs, and of nested ones (a random fraction).
\* nested: how many nested runs there were.  outermost: outermostContext.
\* engine: what the browser's engine knows.  nonnative: nonnativeSelectorCache.
\* cache: per node and combinator's direction an array of walks (0: none), and
\* the positions noted by :nth-child and :nth-last-child.
\* walks: the arrays that combinators share between nodes.
NoPlace == [run |-> <<0, 0>>, nodeIndex |-> 0, diff |-> 0]

NotesInit(engine) ==
    [dirruns |-> <<0, 0>>, nested |-> 0, outermost |-> None,
     engine |-> engine, nonnative |-> {},
     cache |-> [n \in Nodes |-> [parentNode |-> 0, previousSibling |-> 0]],
     places |-> [n \in Nodes |-> [forward |-> NoPlace, backward |-> NoPlace]],
     walks |-> <<>>]

Init ==
    /\ parent \in [Elements -> Nodes] /\ WellFormed(parent)
    /\ kind \in [Elements -> Kinds]
    /\ \E engine \in Engines : notes = NotesInit(engine)
    /\ query = <<>>
    /\ results = <<>>
    /\ queries = 0
    /\ changes = 0

\* Whether something matches, and what is known then.
Verdict(ok, s) == [ok |-> ok, s |-> s]
AndThen(m, next(_)) == IF m.ok THEN next(m.s) ELSE m
OrElse(m, next(_)) == IF m.ok THEN m ELSE next(m.s)
Found(r) == Verdict(r.results # <<>>, r.s)
NotFound(r) == Verdict(r.results = <<>>, r.s)

\* A walk's array, [dirruns, doneName] and later the result.  (The context is
\* history.)
NewWalk(s, done, ctx) ==
    [run |-> s.dirruns, done |-> done, found |-> FALSE, ctx |-> ctx]

\* Mutant of Current: arrays of earlier runs are believed.
CurrentOnce(s, w, done) == w # 0 /\ s.walks[w].done = done

\* Whether the array at a node was made in this run for this combinator.
Current(s, w, done) ==
    w # 0 /\ s.walks[w].run = s.dirruns /\ s.walks[w].done = done

\* Mutant of Propagated: nodes passed on the way do not learn the result.
PropagatedNot(s, w, old) == s

\* "Assign to newCache so results back-propagate to previous elements".
Propagated(s, w, old) == [s EXCEPT !.walks[w].found = s.walks[old].found]

-----------------------------------------------------------------------------
(* Positions among siblings.                                               *)

\* an + b, for the position diff.
InCycle(diff, a, b) ==
    LET d == diff - b
    IN \/ d = a
       \/ a > 0 /\ d >= 0 /\ d % a = 0
       \/ a < 0 /\ d <= 0 /\ d % (-a) = 0

\* :nth-child seeks the element from the position noted at the parent, and
\* from the start if it is not among what follows.
NthChild(t, e, s) ==
    LET old == s.places[parent[e]].forward
        index == Place(e) - 1
        diff == IF old.run = s.dirruns /\ old.nodeIndex # 0 /\ index > old.nodeIndex
                THEN old.diff + (index - old.nodeIndex)
                ELSE index + 1
        new == [run |-> s.dirruns, nodeIndex |-> index, diff |-> diff]
    IN Verdict(InCycle(diff, t.first, t.last),
               [s EXCEPT !.places[parent[e]].forward = new])

\* :nth-last-child counts from the end, and notes what it passes.
NthLastChild(t, e, s) ==
    LET siblings == Reverse(ChildrenOf(parent[e]))
        back(d) == CHOOSE i \in DOMAIN siblings : siblings[i] = d
        old == s.places[e].backward
        known == old.run = s.dirruns
        diff == IF known THEN old.diff ELSE back(e)
        passed == {d \in ToSet(siblings) : ~known /\ d >= e}
        note(d) == [run |-> s.dirruns, nodeIndex |-> 0, diff |-> back(d)]
    IN Verdict(InCycle(diff, t.first, t.last),
               [s EXCEPT !.places = [n \in Nodes |->
                   IF n \in passed THEN [@[n] EXCEPT !.backward = note(n)] ELSE @[n]]])

-----------------------------------------------------------------------------
(* Matching.                                                               *)

RECURSIVE SuperMatcher(_, _, _, _, _), Reached(_, _, _, _, _, _), Sizzle(_, _, _)

\* Expr.filter: one test of one element.  :nth-child(n) holds of every child.
Filter(t, e, s) ==
    CASE t.type = "TAG" -> Verdict(t.name \in {"*", kind[e]}, s)
      [] t.type = "ID" -> Verdict(t.id = e, s)
      [] t.type = "not" -> NotFound(SuperMatcher(t.arg, <<e>>, None, FALSE, s))
      [] t.type = "has" -> Found(Sizzle(t.arg, e, s))
      [] t.type = "nth" /\ t.first = 1 /\ t.last = 0 -> Verdict(TRUE, s)
      [] t.type = "nth" /\ ~t.back -> NthChild(t, e, s)
      [] t.type = "nth" /\ t.back -> NthLastChild(t, e, s)

\* elementMatcher: the tests of a compound, from the last to the first.
Filters(tests, e, s) ==
    FoldRight(LAMBDA t, m : AndThen(m, LAMBDA s1 : Filter(t, e, s1)),
              tests, Verdict(TRUE, s))

\* A call of addCombinator's function learns from what is asked of a node, and is
\* over when that is true; it believes the array found there.
Learnt(m, w) ==
    [ok |-> m.ok, s |-> [m.s EXCEPT !.walks[w].found = m.ok], over |-> m.ok]
Believed(s, w, old) ==
    [ok |-> s.walks[old].found, s |-> Propagated(s, w, old), over |-> TRUE]

\* The function addCombinator makes for a combinator that looks at all nodes in
\* a direction.  w is the array that this call makes.
Walk(nodes, sel, g, k, comb, ctx, s) ==
    LET w == Len(s.walks) + 1
        visit(m, n) ==
            LET old == m.s.cache[n][Key(comb)]
            IN IF m.over THEN m
               ELSE IF Current(m.s, old, <<sel, g, k>>) THEN Believed(m.s, w, old)
               ELSE Learnt(Reached(sel, g, k, n, ctx,
                                   [m.s EXCEPT !.cache[n][Key(comb)] = w]), w)
        made == [s EXCEPT !.walks = Append(@, NewWalk(s, <<sel, g, k>>, ctx))]
    IN FoldLeft(visit, [ok |-> FALSE, s |-> made, over |-> FALSE], nodes)

\* The function addCombinator makes for compound k, called for an element.  Only
\* the search for the context (k = 1) gets as far as the document.
AddCombinator(sel, g, k, comb, e, ctx, s) ==
    LET nodes == SelectSeq(Path(comb, e), LAMBDA n : n # Document \/ k = 1)
    IN IF ~First(comb) THEN Walk(nodes, sel, g, k, comb, ctx, s)
       ELSE IF nodes = <<>> THEN Verdict(FALSE, s)
       ELSE Reached(sel, g, k, Head(nodes), ctx, s)

\* The first matcher of matcherFromTokens: is the element reachable from the
\* context?  Without a leading combinator only the outermost one is checked.
MatchContext(sel, g, e, ctx, s) ==
    LET comb == sel[g][1].comb
    IN IF comb = "" /\ ctx # s.outermost THEN Verdict(TRUE, s)
       ELSE AddCombinator(sel, g, 1, IF comb = "" THEN " " ELSE comb, e, ctx, s)

\* matcherFromTokens: compound k of a group, and what is left of it.
MatcherFromTokens(sel, g, k, e, ctx, s) ==
    AndThen(Filters(sel[g][k].tests, e, s),
            LAMBDA s1 : IF k = 1 THEN MatchContext(sel, g, e, ctx, s1)
                        ELSE AddCombinator(sel, g, k, sel[g][k].comb, e, ctx, s1))

\* What a combinator asks of a node: to be the context, or to match all that
\* is left of the combinator.
Reached(sel, g, k, n, ctx, s) ==
    IF k = 1 THEN Verdict(n = ctx, s) ELSE MatcherFromTokens(sel, g, k - 1, n, ctx, s)

\* Whether an element matches one of the groups, the last tried first.
Groups(sel, e, ctx, s) ==
    FoldRight(LAMBDA g, m :
                  OrElse(m, LAMBDA s1 :
                      MatcherFromTokens(sel, g, Len(sel[g]), e, ctx, s1)),
              [g \in DOMAIN sel |-> g], Verdict(FALSE, s))

\* superMatcher's loop.  If it is the outermost, nested matchers leave dirruns
\* as it was.
Visit(elems, sel, ctx, outermost, s) ==
    LET visited(m, found, e) ==
            [results |-> IF m.ok THEN Append(found.results, e) ELSE found.results,
             s |-> IF outermost THEN [m.s EXCEPT !.dirruns = s.dirruns] ELSE m.s]
    IN FoldLeft(LAMBDA found, e : visited(Groups(sel, e, ctx, found.s), found, e),
                [results |-> <<>>, s |-> s], elems)

\* superMatcher: the elements that match a group.  Its run has a number of its
\* own; the outermost of a call sets outermostContext, and puts it back.
SuperMatcher(sel, elems, ctx, outermost, s) ==
    LET begun == [s EXCEPT
                    !.dirruns = IF s.outermost = None THEN <<@[1] + 1, 0>>
                                ELSE <<@[1], s.nested + 1>>,
                    !.nested = IF s.outermost = None THEN @ ELSE @ + 1,
                    !.outermost = IF ~outermost THEN @
                                  ELSE IF ctx \in {None, Document} THEN Anywhere ELSE ctx]
    IN [Visit(elems, sel, IF ctx = None THEN Document ELSE ctx, outermost, begun)
        EXCEPT !.s.outermost = s.outermost]

-----------------------------------------------------------------------------
(* Selection.                                                              *)

\* The compounds of a selector and of those in its tests.  rsibling: a + or ~ is
\* written anywhere in the selector, and be it in 2n+1.
RECURSIVE Compounds(_)
Compounds(sel) ==
    LET own == UNION {ToSet(sel[g]) : g \in DOMAIN sel}
        args == {t.arg : t \in {t \in UNION {ToSet(c.tests) : c \in own} :
                                   t.type \in {"not", "has"}}}
    IN own \cup UNION {Compounds(arg) : arg \in args}

Sibling(sel) ==
    \E c \in Compounds(sel) :
        \/ c.comb \in {"+", "~"}
        \/ \E t \in ToSet(c.tests) : t.type = "nth" /\ t.first # 0 /\ t.last > 0

\* Expr.find: the tests the document can be asked for.
Findable(t, ctx) == t.type = "TAG" \/ (t.type = "ID" /\ ctx = Document)
Find(t, ctx) ==
    SelectSeq(Descendants(ctx), LAMBDA e :
        IF t.type = "ID" THEN t.id = e ELSE t.name \in {"*", kind[e]})

\* select, as far as it shortens the group: the context of a leading ID.
LeadingId(group, ctx) ==
    /\ ctx = Document
    /\ group[1].comb = "" /\ Len(group) > 1
    /\ Len(group[1].tests) = 1 /\ group[1].tests[1].type = "ID"

\* select: the elements a compiled selector is tried on, what is left of it, and
\* whether that is nothing.
SeedOf(sel, ctx) ==
    LET group == sel[1]
        last == Len(group)
        found == {i \in DOMAIN group[last].tests : Findable(group[last].tests[i], ctx)}
        i == CHOOSE i \in found : \A j \in found : j <= i
        seed == Find(group[last].tests[i], ctx)
        rest == [group EXCEPT ![last].tests = RemoveAt(@, i)]
        outermost == IF Sibling(sel) /\ ctx # Document THEN parent[ctx] ELSE ctx
    IN IF Len(sel) > 1 \/ group[1].comb \in {">", "+", "~"} \/ found = {}
       THEN [elems |-> Descendants(outermost), sel |-> sel, over |-> FALSE]
       ELSE [elems |-> seed, sel |-> <<rest>>,
             over |-> seed = <<>> \/ rest = <<[comb |-> "", tests |-> <<>>]>>]

Matched(seed, ctx, s) ==
    IF seed.over THEN [results |-> seed.elems, s |-> s]
    ELSE SuperMatcher(seed.sel, seed.elems, ctx, TRUE, s)

Select(sel, ctx, s) ==
    LET shorter == Len(sel) = 1 /\ LeadingId(sel[1], ctx)
        context == IF shorter THEN sel[1][1].tests[1].id ELSE ctx
    IN IF context \notin Nodes THEN [results |-> <<>>, s |-> s]
       ELSE Matched(SeedOf(IF shorter THEN <<Tail(sel[1])>> ELSE sel, context), context, s)

\* A leading combinator needs a context of its own.
Relative(sel) == \E g \in DOMAIN sel : sel[g][1].comb # ""

\* The browser's engine: what it cannot parse, and what it returns.
Throws(sel, s) ==
    \/ Relative(sel)
    \/ \E c \in Compounds(sel) : \E t \in ToSet(c.tests) : t.type \notin s.engine

QuerySelectorAll(sel, ctx, scope) ==
    SelectSeq(Descendants(ctx), LAMBDA e : Means(sel, e, scope))

\* rdescend: a space or > is written somewhere.  Every group is then prefixed
\* with the context's id.
Descends(sel) == Len(sel) > 1 \/ \E c \in Compounds(sel) : c.comb # ""
Unprefixed(sel) == [g \in DOMAIN sel |-> [sel[g] EXCEPT ![1].comb = ""]]

\* A lone id, tag or class.
Quick(sel) ==
    /\ Len(sel) = 1 /\ Len(sel[1]) = 1
    /\ sel[1][1].comb = "" /\ Len(sel[1][1].tests) = 1
    /\ sel[1][1].tests[1].type \in {"TAG", "ID"}

\* Sizzle, without a seed: a shortcut, the browser's engine, or select.
Sizzle(sel, ctx, s) ==
    LET prefixed == ctx # Document /\ Descends(sel)
        outermost == IF prefixed /\ Sibling(sel) THEN parent[ctx] ELSE ctx
        fails == \/ sel \in s.nonnative
                 \/ Throws(IF prefixed THEN Unprefixed(sel) ELSE sel, s)
    IN IF Quick(sel) THEN [results |-> Find(sel[1][1].tests[1], ctx), s |-> s]
       ELSE IF fails THEN Select(sel, ctx, [s EXCEPT !.nonnative = @ \cup {sel}])
       ELSE [results |-> QuerySelectorAll(sel, outermost,
                                          IF prefixed THEN ctx ELSE Document),
             s |-> s]

\* Sizzle.matchesSelector: the engine's `matches', or a seed of one element.
MatchesSelector(sel, e, s) ==
    IF sel \in s.nonnative \/ Throws(sel, s)
    THEN SuperMatcher(sel, <<e>>, Document, TRUE, [s EXCEPT !.nonnative = @ \cup {sel}])
    ELSE [results |-> IF Means(sel, e, Document) THEN <<e>> ELSE <<>>, s |-> s]

\* Sizzle.uniqueSort: document order, and every element once.
UniqueSort(seq) ==
    LET sorted == SortSeq(seq, <)
    IN FoldLeft(LAMBDA r, e : IF r # <<>> /\ Last(r) = e THEN r ELSE Append(r, e),
                <<>>, sorted)

-----------------------------------------------------------------------------
(* The page's script.                                                      *)

Queried(q, found) ==
    /\ queries < MaxQueries
    /\ queries' = queries + 1
    /\ query' = [q EXCEPT !.ran = found.s.dirruns # notes.dirruns]
    /\ results' = found.results
    /\ notes' = found.s
    /\ UNCHANGED <<page, changes>>

\* jQuery.fn.find, in one context after another; jQuery(sel) has the document.
FindIn(sel, contexts) ==
    LET joined(m, r) == [results |-> m.results \o r.results, s |-> r.s]
        found == FoldLeft(LAMBDA m, ctx : joined(m, Sizzle(sel, ctx, m.s)),
                          [results |-> <<>>, s |-> notes], contexts)
    IN Queried([sel |-> sel, contexts |-> contexts, elems |-> Elements,
                not |-> FALSE, ran |-> FALSE],
               [found EXCEPT !.results =
                   IF Len(contexts) > 1 THEN UniqueSort(@) ELSE @])

\* jQuery.filter for filter, not and is: the elements are given.
FilterAmong(sel, elems, not) ==
    LET negated == <<<<[comb |-> "", tests |-> <<[type |-> "not", arg |-> sel]>>]>>>>
    IN Queried([sel |-> sel, contexts |-> <<Document>>, elems |-> ToSet(elems),
                not |-> not, ran |-> FALSE],
               SuperMatcher(IF not THEN negated ELSE sel, elems, None, TRUE, notes))

\* One element alone: by matchesSelector, or, within the handler's element, for
\* the selector of a delegated handler (which has no leading combinator).
MatchWithin(sel, ctx, e) ==
    Queried([sel |-> sel, contexts |-> <<ctx>>, elems |-> {e},
             not |-> FALSE, ran |-> FALSE],
            IF ctx = Document THEN MatchesSelector(sel, e, notes)
            ELSE SuperMatcher(sel, <<e>>, ctx, TRUE, notes))

\* (Before the first query a change would only lead to another first page.)
Changed ==
    /\ changes < MaxChanges /\ queries \in 1 .. MaxQueries - 1
    /\ changes' = changes + 1
    /\ query' = <<>>
    /\ results' = <<>>
    /\ UNCHANGED <<notes, queries>>

\* The script changes an element's class, or puts the last one elsewhere.
Reclass(e) ==
    /\ Changed
    /\ \E c \in Kinds \ {kind[e]} : kind' = [kind EXCEPT ![e] = c]
    /\ UNCHANGED parent

Move ==
    /\ Changed
    /\ \E n \in Elements \ {Size} :
          /\ n # parent[Size]
          /\ parent' = [parent EXCEPT ![Size] = n]
          /\ WellFormed(parent')
    /\ UNCHANGED kind

Next ==
    \/ \E sel \in Selectors, contexts \in Contexts : FindIn(sel, contexts)
    \/ \E sel \in Selectors, not \in BOOLEAN :
          /\ ~Relative(sel)
          /\ FilterAmong(sel, [e \in Elements |-> e], not)
    \/ \E sel \in Selectors, single \in Singles :
          /\ single.context # Document => ~Relative(sel)
          /\ MatchWithin(sel, single.context, single.elem)
    \/ \E e \in Elements : Reclass(e)
    \/ Move

Spec == Init /\ [][Next]_allVars

-----------------------------------------------------------------------------
(* Properties.                                                             *)

SelectionTypeOK ==
    /\ WellFormed(parent)
    /\ kind \in [Elements -> Kinds]
    /\ results \in Seq(Elements)
    /\ notes.outermost = None
    /\ \A n \in Nodes : \A key \in DOMAIN notes.cache[n] :
          notes.cache[n][key] \in 0 .. Len(notes.walks)

\* What a combinator noted in a node during the last run is what a search from
\* there would find, and the places noted are the places.
NotesTrue ==
    query # <<>> /\ query.ran =>
        \A n \in Nodes :
            /\ \A key \in {"parentNode", "previousSibling"} :
                  notes.cache[n][key] # 0 =>
                    LET walk == notes.walks[notes.cache[n][key]]
                        group == walk.done[1][walk.done[2]]
                        k == walk.done[3]
                        comb == IF key = "parentNode" THEN " " ELSE "~"
                    IN walk.run = notes.dirruns =>
                         (walk.found <=>
                            \E m \in {n} \cup ToSet(Path(comb, n)) :
                                /\ m # Document \/ k = 1
                                /\ Prefix(group, k - 1, m, walk.ctx))
            /\ LET noted == notes.places[n].forward
               IN noted.run = notes.dirruns /\ noted.run # <<0, 0>> =>
                     noted.diff = noted.nodeIndex + 1
            /\ LET noted == notes.places[n].backward
               IN noted.run = notes.dirruns /\ noted.run # <<0, 0>> =>
                     noted.diff = Len(ChildrenOf(parent[n])) + 1 - Place(n)

\* The variables have their types, nothing is left of a query but its notes, and
\* those of its run are true: arrays shared along a path, overwritten by nested
\* combinators and left over from other runs do not mislead the next element.
SelectionInv == SelectionTypeOK /\ NotesTrue

\* A query returns the elements the selector means, whatever was asked before
\* and however the page changed since: in the order of the document and each of
\* them once, although several contexts find the same ones.
RightElements ==
    query # <<>> =>
        LET meant(e) == \E ctx \in ToSet(query.contexts) : Means(query.sel, e, ctx)
        IN results = Ordered({e \in query.elems : meant(e) # query.not})
=============================================================================
