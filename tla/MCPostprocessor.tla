--------------------------- MODULE MCPostprocessor ---------------------------
(***************************************************************************)
(* Small projects to postprocess, one family for each group of handlers:   *)
(* in a family every arrangement of a few blocks of text is a project.     *)
(***************************************************************************)
EXTENDS Postprocessor

(***************************************************************************)
(* Trees                                                                   *)
(***************************************************************************)
T(value) == [kind |-> "text", value |-> value, children |-> <<>>]
P(kids) == [kind |-> "paragraph", children |-> kids]
S(kids) == [kind |-> "section", children |-> kids]
H(id) == [kind |-> "heading", id |-> id, children |-> <<T(id[1])>>]
D(name, args, options, kids) ==
  [kind |-> "directive", name |-> name, args |-> args, options |-> options, children |-> kids]
Path(slug) == T([slug |-> slug, ext |-> ""])
Target(name, ids, kids) ==
  [kind |-> "target", domain |-> "std", name |-> name, html_id |-> <<>>,
   children |-> <<[kind |-> "target_identifier", ids |-> ids, children |-> kids]>>]
Label(name) == Target("label", << <<name>> >>, <<>>)
Ref(name, target, kids) ==
  [kind |-> "ref_role", domain |-> "std", name |-> name, target |-> target, flag |-> "",
   fileid |-> <<>>, url |-> None, children |-> kids]
Doc(slug) == [Ref("doc", <<"">>, <<>>) EXCEPT !.fileid = <<[slug |-> slug, ext |-> ""], "">>]
Sub(name) == [kind |-> "substitution_reference", name |-> name, children |-> <<>>]
Block(name) == [kind |-> "block_substitution_reference", name |-> name, children |-> <<>>]
Def(name, kid) == [kind |-> "substitution_definition", name |-> name, children |-> <<kid>>]
Include(slug, options, kids) == D("include", <<Path(slug)>>, options, kids)
Replacement(name, kid) == D("replacement", <<T(name)>>, <<>>, <<kid>>)
NoEntry == [slug |-> None, url |-> None, title |-> None, ref_project |-> None]
Listing(slug) == [NoEntry EXCEPT !.slug = [slug |-> slug, ext |-> ""]]
Toctree(entries) == D("toctree", <<>>, <<>>, <<>>) @@ [entries |-> entries]

File(slug, ext, kids, assets) ==
  [tree |-> [kind |-> "root", fileid |-> [slug |-> slug, ext |-> ext], options |-> <<>>, children |-> kids],
   static_assets |-> assets]
Page(slug, kids) == File(slug, ".txt", kids, {})

Config ==
  [substitutions |-> <<>>, banners |-> <<>>, facets |-> <<>>, walk |-> <<>>,
   associated_products |-> {}, inventory |-> <<>>, display_name |-> <<T("name")>>, versions |-> <<>>,
   composables |-> [interface |-> {"driver", "shell"}], multi_page_tutorials |-> {}]

Plain(pages) == [pages |-> pages, config |-> Config]

\* Every choice of one value from each of two lists, made into a project.
Each2(a, b, Make(_, _)) ==
  [i \in 1..(Len(a) * Len(b)) |-> Make(a[((i - 1) \div Len(b)) + 1], b[((i - 1) % Len(b)) + 1])]

UpTo(n) == [i \in 1..n |-> i]
Pairs(n) == Each2(UpTo(n), UpTo(n), LAMBDA i, j : <<i, j>>)
Triples(n) == Each2(Pairs(n), UpTo(n), LAMBDA two, k : Append(two, k))

(***************************************************************************)
(* Files that include each other, with assets and a range                  *)
(***************************************************************************)
Ranges == << <<>>, "start-after" :> "m", "end-before" :> "l", "start-after" :> "no",
             ("start-after" :> "l") @@ ("end-before" :> "m") >>

Comment(text) == [kind |-> "comment", children |-> <<T(text)>>]

Inclusions ==
  LET Make(range, inner) ==
        Plain(<<Page("index", <<S(<<H(<<"h">>), Include("i", Ranges[range], <<>>)>>), Include("nope", <<>>, <<>>)>>),
                Page("a", <<S(<<H(<<"a">>), Include("i", <<>>, <<>>), Ref("label", <<"l">>, <<>>)>>)>>),
                File("i", ".rst", <<P(<<T("t")>>), Comment("m"), P(<<Sub("x")>>), Label("l"),
                                    Include(inner, <<>>, <<>>)>>, {"s1"}),
                File("j", ".rst", <<P(<<Ref("label", <<"l">>, <<>>)>>)>>, {"s2"})>>)
  IN Each2(UpTo(Len(Ranges)), <<"j", "nope", "i">>, Make)

(***************************************************************************)
(* Definitions and references in every order, and what snooty.toml and     *)
(* include directives substitute                                           *)
(***************************************************************************)
Pieces == <<Def("x", T("t")), Def("x", Sub("y")), Def("y", Sub("x")), P(<<Sub("x"), Sub("y")>>), Block("x"),
            Include("i", <<>>, <<Replacement("x", P(<<T("r")>>))>>),
            Include("i", <<>>, <<Replacement("y", Sub("x")), Replacement("x", Sub("y"))>>)>>

Substitutes == << <<>>, <<[name |-> "x", nodes |-> <<T("c")>>]>>, <<[name |-> "y", nodes |-> <<Sub("y")>>]>> >>

Substitutions ==
  LET Make(three, from) ==
        [Plain(<<Page("index", [i \in 1..3 |-> Pieces[three[i]]]), Page("a", <<P(<<Sub("y")>>)>>),
                 File("i", ".rst", <<P(<<Sub("x")>>)>>, {})>>)
         EXCEPT !.config.substitutions = Substitutes[from]]
      orders == SelectSeq(Triples(Len(Pieces)), LAMBDA o : Cardinality(Range(o)) = 3)
  IN Each2(SelectSeq(orders, LAMBDA o : o[1] < 4 \/ o[3] < 4), <<1>>, Make)
       \o Each2(SelectSeq(orders, LAMBDA o : o[1] = 4 /\ o[2] < 4 /\ o[3] < 6), <<2, 3>>, Make)

(***************************************************************************)
(* Names that several pages define, and the references of another page     *)
(***************************************************************************)
Anchors == <<Label("l"), Label("m"), Target("label", << <<"l">>, <<"longer">>, <<"l", ".x">> >>, <<>>),
             Target("program", << <<"p">> >>, <<T("p")>>), Target("option", << <<"o">> >>, <<T("o")>>),
             S(<<H(<<"g">>)>>),
             S(<<[H(<<"g">>) EXCEPT !.children = <<Ref("label", <<"l">>, <<>>)>>]>>)>>

Citations ==
  <<P(<<Ref("label", <<"l">>, <<>>), Ref("label", <<"m">>, <<T("t")>>), Doc("a"), Doc("b")>>),
    P(<<Ref("option", <<"o">>, <<>>), Ref("option", <<"p", ".o">>, <<>>), Ref("label", <<"n">>, <<>>),
        [kind |-> "named_reference", refname |-> "u", refuri |-> "w", children |-> <<>>],
        [kind |-> "reference", refname |-> "u", refuri |-> "", children |-> <<>>],
        [kind |-> "footnote_reference", id |-> 0, children |-> <<>>]>>)>>

References ==
  LET Make(three, first) ==
        LET index == Page("index", <<S(<<H(<<"h">>), Citations[1], Citations[2]>>)>>)
            a == Page("a", <<H(<<"a">>)>> \o [i \in 1..3 |-> Anchors[three[i]]])
        IN [Plain(IF first THEN <<a, index>> ELSE <<index, a>>)
            EXCEPT !.config.inventory = <<"std", "label", <<"n">> >> :> "http"]
      Chosen(t) == (t[1] <= t[2] /\ t[3] \in {1, 5}) \/ (t[1] = 1 /\ t[3] > 5)
  IN Each2(SelectSeq(Triples(7), Chosen), <<FALSE>>, Make)
       \o Each2(SelectSeq(Triples(7), LAMBDA t : t[1] = 4 /\ t[3] = 5), <<TRUE>>, Make)

(***************************************************************************)
(* Pairs of directives on a page, alone or one in the other                *)
(***************************************************************************)
Tab(id, kids) == D("tab", <<T("n")>>, "tabid" :> id, kids)
Choice(selected, kids) ==
  D("selected-content", <<>>, "selections" :> selected, kids) @@ [selections |-> <<>>]
Composable(kids) ==
  D("composable-tutorial", <<>>, <<>>, kids)
  @@ [composable_options |-> <<[value |-> "interface", default |-> "driver", selections |-> {}]>>]

Blocks(kids) ==
  <<D("tabs-selector", <<T("drivers")>>, "default-tabid" :> "s", <<>>),
    D("tabs", <<>>, "tabset" :> "drivers", <<Tab("s", kids), Tab("t", <<>>)>>),
    D("tabs", <<>>, "tabset" :> "drivers", <<Tab("s", kids)>>),
    D("procedure", <<>>, <<>>, kids),
    D("method-selector", <<>>, <<>>,
      <<D("method-option", <<>>, "id" :> "driver", <<D("method-description", <<>>, <<>>, kids)>>)>>),
    Composable(<<Choice(<<"driver">>, kids), Choice(<<"zz", "driver">>, <<>>)>>),
    S(<<H(<<"h">>), S(<<H(<<"h">>)>> \o kids)>>),
    D("contents", <<>>, "depth" :> 2, <<>>),
    D("collapsible", <<>>, ("id" :> <<"h">>) @@ ("heading" :> "h"), kids),
    D("wayfinding", <<>>, <<>>, kids),
    D("image", <<>>, <<>>, <<>>),
    D("instruqt", <<>>, "drawer" :> TRUE, <<>>),
    D("dismissible-skills-card", <<>>, ("skill" :> "1") @@ ("url" :> "2"), <<>>),
    D("openapi-changelog", <<>>, <<>>, <<>>),
    D("multi-page-tutorial", <<>>, "time-required" :> 3, <<>>)>>

Directives ==
  LET Beside(i, j) == Plain(<<Page("index", <<S(<<H(<<"h">>), Blocks(<<>>)[i], Blocks(<<>>)[j]>>)>>)>>)
      Nested(i, j) == Plain(<<Page("index", <<Blocks(<<Blocks(<<>>)[j]>>)[i], Blocks(<<>>)[1]>>)>>)
  IN Each2(UpTo(15), UpTo(15), Beside) \o Each2(<<2, 4, 5, 6, 7, 9, 10>>, UpTo(10), Nested)

(***************************************************************************)
(* Toctrees and ia directives                                              *)
(***************************************************************************)
Lists == << <<>>, <<Listing("a")>>, <<Listing("b"), [Listing("a") EXCEPT !.title = "t"]>>,
            <<Listing("index"), Listing("nope"), [NoEntry EXCEPT !.url = "http"]>>,
            <<[NoEntry EXCEPT !.ref_project = "other", !.title = "o"],
              [NoEntry EXCEPT !.ref_project = "other", !.title = "o"], Listing("c")>> >>

Toctrees ==
  LET Make(three, start) ==
        [Plain(<<Page(start, <<S(<<H(<<"h">>), Toctree(Lists[three[1]])>>)>>),
                 Page("a", <<H(<<"a">>), Toctree(Lists[three[2]])>>),
                 Page("b", <<H(<<"b">>), D("include", <<Path("i")>>, <<>>, <<>>)>>),
                 Page("c", <<>>), File("i", ".rst", <<Toctree(Lists[three[3]])>>, {})>>)
         EXCEPT !.config.associated_products = {"c"}, !.config.multi_page_tutorials = {"a", "b"}]
      Chosen(t) == t[1] # 4 /\ t[3] \in {1, 3, 4}
  IN Each2(SelectSeq(Triples(5), Chosen), <<"index">>, Make)
       \o Each2(<< <<3, 2, 1>>, <<2, 5, 5>> >>, <<"contents", "other">>, Make)

Url(slug, external) == [external |-> external, slug |-> slug, ext |-> ""]
IA(entries) ==
  LET Make(e) == D("entry", <<>>, e, <<>>) IN D("ia", <<>>, <<>>, [i \in DOMAIN entries |-> Make(entries[i])])
Entries == << ("url" :> Url("a", FALSE)) @@ ("id" :> "e"), "url" :> Url("b", FALSE),
              ("url" :> Url("w", TRUE)) @@ ("project-name" :> "p") @@ ("primary" :> TRUE),
              "id" :> "e", "url" :> Url("index", FALSE), "url" :> [Url("b", FALSE) EXCEPT !.ext = ".txt"] >>
Cards(id) == D("card-group", <<>>, "ia-entry-id" :> id,
               <<D("card", <<>>, ("headline" :> "h") @@ ("url" :> "u"), <<>>), D("note", <<>>, <<>>, <<>>)>>)

Architectures ==
  LET Make(one, two) ==
        Plain(<<Page("index", <<S(<<H(<<"h">>)>>), IA(<<Entries[1], Entries[one]>>), Cards("e"), Cards("f")>>),
                Page("a", <<H(<<"a">>), IA(<<Entries[two]>>), Cards("e"), Toctree(Lists[3])>>),
                Page("b", <<IF one \in {2, 6} THEN H(<<"b">>) ELSE Toctree(Lists[4])>>)>>)
  IN Each2(<<2, 3, 4, 5, 6>>, <<2, 3, 5>>, Make)

(***************************************************************************)
(* What the rest of the project's metadata is made of                      *)
(***************************************************************************)
Guide(slug) == D("guide", <<Path(slug)>>, <<>>, <<>>)
Chapter(title, guides) == D("chapter", <<T(title)>>, "description" :> "d", guides)
ChapterLists == << Chapter("c1", <<Guide("a"), Guide("b")>>), Chapter("c2", <<Guide("b"), D("note", <<>>, <<>>, <<>>)>>),
                   Chapter("c1", <<Guide("c")>>), D("include", <<Path("i")>>, <<>>, <<>>), D("chapter", <<>>, <<>>, <<>>),
                   D("note", <<>>, <<>>, <<>>) >>
API(source, options) == D("openapi", <<T(source)>>, ("source_type" :> "atlas") @@ options, <<>>)
APIs == << API("cloud", "api-version" :> "1"), API("other", <<>>), API("cloud", "api-version" :> "2") >>
Facet(name, values, kids) == D("facet", <<>>, ("name" :> name) @@ ("values" :> values), kids)
Facets == << Facet("genre", <<"v">>, <<>>), Facet("product", <<"v">>, <<Facet("sub", <<"x", "y">>, <<>>)>>),
             Facet("product", <<"v", "w">>, <<Facet("sub", <<"x">>, <<>>)>>) >>
Versions == << <<>>, << <<>> >>, <<[major |-> {"1"}] @@ ("1" :> {"r"})>> >>

Others ==
  LET Make(chapters, k) ==
        [Plain(<<Page("index", <<S(<<H(<<"h">>), D("chapters", <<>>, <<>>, <<ChapterLists[chapters[1]],
                                                                           ChapterLists[chapters[2]]>>)>>),
                                 Facets[k]>>),
                 Page("a", <<S(<<D("time", <<T("15")>>, <<>>, <<>>), D("short-description", <<>>, <<>>, <<P(<<T("d")>>)>>)>>),
                             Facets[1], APIs[k], APIs[2]>>),
                 File("i", ".rst", <<ChapterLists[3]>>, {})>>)
         EXCEPT !.config.versions = Versions[k],
                !.config.banners = <<[targets |-> {[slug |-> "a", ext |-> ".txt"]},
                                      tree |-> D("banner", <<>>, <<>>, <<P(<<T("b")>>)>>)]>>,
                !.config.facets = <<[category |-> "genre", value |-> "f", sub |-> <<>>],
                                    [category |-> "product", value |-> "f", sub |-> <<>>]>>,
                !.config.walk = <<[facets |-> IF k = 1 THEN <<>> ELSE <<1>>,
                                   files |-> <<[slug |-> "index", ext |-> ".txt"]>>],
                                  [facets |-> <<2>>, files |-> <<[slug |-> "a", ext |-> ".txt"]>>]>>]
  IN Each2(Pairs(6), <<2>>, Make) \o Each2(<< <<1, 2>>, <<2, 1>> >>, <<1, 3>>, Make)

\* Every project is built once: TLC keeps the value of a definition that another one names.
AllProjects ==
  Inclusions \o Substitutions \o References \o Directives \o Toctrees \o Architectures \o Others

MCProjects == AllProjects
=============================================================================
