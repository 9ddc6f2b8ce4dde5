------------------------------ MODULE MCSelection ------------------------------
(***************************************************************************)
(* An instance of Selection for TLC: the selectors a page uses.            *)
(***************************************************************************)
EXTENDS Selection

Tag(name) == [type |-> "TAG", name |-> name]
Id(e) == [type |-> "ID", id |-> e]
Not(sel) == [type |-> "not", arg |-> sel]
Has(sel) == [type |-> "has", arg |-> sel]
Nth(a, b) == [type |-> "nth", first |-> a, last |-> b, back |-> FALSE]
NthLast(a, b) == [type |-> "nth", first |-> a, last |-> b, back |-> TRUE]
Compound(comb, tests) == [comb |-> comb, tests |-> tests]

AB == <<Compound("", <<Tag("a")>>), Compound(" ", <<Tag("b")>>)>>
ASiblingB == <<Compound("", <<Tag("a")>>), Compound("~", <<Tag("b")>>)>>

PageSelectors ==
  { \* a:not(a b) b
    <<<<Compound("", <<Tag("a"), Not(<<AB>>)>>), Compound(" ", <<Tag("b")>>)>>>>,
    \* :has(> b:not(a b)) b
    <<<<Compound("", <<Has(<<<<Compound(">", <<Tag("b"), Not(<<AB>>)>>)>>>>)>>),
        Compound(" ", <<Tag("b")>>)>>>>,
    \* :nth-child(2), b:nth-last-child(2n+1)
    <<<<Compound("", <<Nth(0, 2)>>)>>, <<Compound("", <<Tag("b"), NthLast(2, 1)>>)>>>>,
    \* #2 > b:not(:has(a))
    <<<<Compound("", <<Id(2)>>),
        Compound(">", <<Tag("b"),
                        Not(<<<<Compound("", <<Has(<<<<Compound("", <<Tag("a")>>)>>>>)>>)>>>>)>>)>>>>,
    \* + a ~ b
    <<<<Compound("+", <<Tag("a")>>), Compound("~", <<Tag("b")>>)>>>>,
    \* #5, :nth-child(n) > :nth-child(-n+2), a ~ b, a b
    <<<<Compound("", <<Id(5)>>)>>,
      <<Compound("", <<Nth(1, 0)>>), Compound(">", <<Nth(-1, 2)>>)>>,
      ASiblingB, AB>>
  }

\* An engine that does not know :has, nor what is in :not here.
PageEngines == {{"TAG", "ID", "nth"}}

\* The document, and two elements of which one may contain the other.
PageContexts == {<<0>>, <<2, 1>>}

PageSingles == {[context |-> 0, elem |-> 3], [context |-> 2, elem |-> 3]}
=============================================================================
