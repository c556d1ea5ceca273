------------------------------ MODULE MCVerify ------------------------------
EXTENDS Verify, TLC

\* Words are strings; a page is blank but for what is named.
Blank == [texts |-> {}, pills |-> {}, alerts |-> {}, headings |-> {}, elements |-> {}, items |-> {},
          toggles |-> {}, drops |-> {}, lists |-> {}, tables |-> <<>>,
          image |-> [size |-> 1, look |-> 0], impacts |-> {}, fields |-> {}, url |-> {}]
Sentence == [type |-> "none", says |-> {}, kind |-> "none", kindWords |-> {}, quoted |-> <<>>,
             explicit |-> {}, bare |-> {}, facts |-> {}, spec |-> 0, update |-> FALSE]
Fact(of, what) == [of |-> of, what |-> what]
Case(ps, sentences) == [pages |-> ps, due |-> {}, calls |-> sentences, baseline |-> NoImage]

TextPage(t) == [Blank EXCEPT !.texts = {t}]
PillPage(t) == [TextPage(t) EXCEPT !.pills = {t}]
AlertPage(t, d) == [TextPage(t) EXCEPT !.alerts = {[text |-> t, description |-> d]}]
HeaderPage(t) == [TextPage(t) EXCEPT !.headings = {[rank |-> 2, text |-> t], [rank |-> 7, text |-> {"help"}]}]
ItemPage(on) == [Blank EXCEPT !.items = {[label |-> {"orders"}, marks |-> on],
                                         [label |-> {"my", "orders"}, marks |-> {"bold"} \ on]}]
RadioPage(on) == [Blank EXCEPT !.toggles = {[kind |-> "radio", label |-> {"cash"}, on |-> on],
                                            [kind |-> "radio", label |-> {"petty", "cash"}, on |-> ~on]}]
DropPage(os) == [Blank EXCEPT !.drops = {[label |-> {"country"}, options |-> os]},
                              !.elements = {[kind |-> "dropdown", name |-> {"country"}]}]
Button(n) == [Blank EXCEPT !.elements = {[kind |-> "button", name |-> n]}, !.texts = {n}]
Looks(s, l) == [Blank EXCEPT !.image = [size |-> s, look |-> l]]
Flawed(is) == [Blank EXCEPT !.impacts = is]
Value(l, v) == [Blank EXCEPT !.fields = {[label |-> l, value |-> v]}]
Row(n, s) == ({"name"} :> {n} @@ {"account", "status"} :> {s})
Table(rows) == [built |-> "native", headers |-> {{"name"}, {"account", "status"}}, rows |-> rows]
Other == [built |-> "ant", headers |-> {{"city"}}, rows |-> {({"city"} :> {"rome"})}]
AnnIsLive == [columns |-> {}, key |-> {<<{"name"}, {"ann"}>>}, cells |-> {<<{"status"}, {"live"}>>}]
Ordered == [method |-> "post", path |-> "orders", code |-> "any"]
Response(m, p, c) == [method |-> m, path |-> p, code |-> c]

Save == {"save"}
SaveButton == [Sentence EXCEPT !.kind = "button", !.kindWords = {"button"}, !.quoted = <<Save>>]
Reads(t) == [Sentence EXCEPT !.quoted = <<t>>, !.facts = {Fact("text", t)}]
Visual == [Sentence EXCEPT !.type = "visual", !.facts = {Fact("look", {})}]

Cases == {
    Case(<<Blank, [Blank EXCEPT !.tables = <<Other, Table({Row("ann", "live"), Row("bob", "shut")})>>],
           [Blank EXCEPT !.tables = <<Other, Table({Row("ann", "shut"), Row("bob", "live")})>>]>>,
         <<[Sentence EXCEPT !.says = {"table", "status", "is"}, !.spec = AnnIsLive,
                            !.facts = {Fact("row", AnnIsLive)}]>>),
    Case(<<RadioPage(TRUE), RadioPage(FALSE), Blank>>,
         <<[Sentence EXCEPT !.says = {"radio", "state"}, !.bare = {"cash"}, !.facts = {Fact("on", {"cash"})}],
           [Sentence EXCEPT !.says = {"radio", "state", "unstate", "not"}, !.bare = {"cash"},
                            !.facts = {Fact("off", {"cash"})}]>>),
    Case(<<Blank, PillPage({"in", "draft"}), PillPage({"live"})>>,
         <<[Sentence EXCEPT !.says = {"status", "is", "presence"}, !.quoted = <<{"draft"}>>,
                            !.facts = {Fact("status", {"draft"})}]>>),
    Case(<<Blank, AlertPage({"saved", "twice"}, {"twice"}), AlertPage({"failed"}, {})>>,
         <<[Sentence EXCEPT !.says = {"alert", "shows"}, !.kind = "alert", !.kindWords = {"alert"},
                            !.quoted = <<{"saved"}>>, !.facts = {Fact("alert", {"saved"})}],
           [Sentence EXCEPT !.says = {"alert", "shows", "description"}, !.quoted = <<{"twice"}>>,
                            !.facts = {Fact("alert", {"twice"})}]>>),
    Case(<<HeaderPage({"orders"}), HeaderPage({"home"}), Blank>>,
         <<[Sentence EXCEPT !.says = {"page header", "header", "is"}, !.quoted = <<{"orders"}>>,
                            !.facts = {Fact("header", {"orders"})}]>>),
    Case(<<ItemPage({"bold"}), ItemPage({}), Blank>>,
         <<[Sentence EXCEPT !.says = {"active", "nav", "presence"}, !.quoted = <<{"orders"}>>,
                            !.kind = "tab", !.kindWords = {"tab"}, !.facts = {Fact("active", {"orders"})}]>>),
    Case(<<DropPage({{"it"}, {"fr"}}), DropPage({{"it"}}), Blank>>,
         <<[Sentence EXCEPT !.says = {"dropdown", "lists", "presence"}, !.kind = "dropdown",
                            !.kindWords = {"dropdown"}, !.quoted = <<{"country"}, {"it"}, {"fr"}>>,
                            !.facts = {Fact("options", <<{"country"}, {{"it"}, {"fr"}}>>)}]>>),
    Case(<<Button(Save), TextPage(Save), Blank>>,
         <<[SaveButton EXCEPT !.says = {"presence"}, !.facts = {Fact("element", <<"button", Save>>)}],
           [SaveButton EXCEPT !.says = {"presence", "not"}, !.facts = {Fact("no element", <<"button", Save>>)}]>>),
    Case(<<TextPage(Save), Blank>>,
         <<[Sentence EXCEPT !.says = {"absence"}, !.quoted = <<Save>>, !.facts = {Fact("no text", Save)}],
           [Sentence EXCEPT !.type = "present", !.kind = "other", !.kindWords = {"paragraph"},
                            !.quoted = <<{"paragraph"}>>, !.bare = Save, !.facts = {Fact("text", Save)}]>>),
    Case(<<Blank, [Blank EXCEPT !.texts = {Save, {"done"}}], TextPage({"done"})>>,
         <<[Sentence EXCEPT !.quoted = <<Save, {"done"}>>, !.facts = {Fact("text", Save), Fact("text", {"done"})}],
           [Reads({"done"}) EXCEPT !.type = "text_visible"]>>),
    Case(<<[Blank EXCEPT !.url = {"orders"}], [Blank EXCEPT !.elements = {[kind |-> "css", name |-> {"row"}]}]>>,
         <<[Sentence EXCEPT !.type = "page_transition", !.explicit = {"orders"}, !.facts = {Fact("url", {"orders"})}],
           [Sentence EXCEPT !.type = "element_state", !.explicit = {"row"},
                            !.facts = {Fact("element", <<"css", {"row"}>>)}]>>),
    Case(<<Value({"total"}, {"5"}), Value({"total"}, {"6"}), Value({"tax"}, {"6"})>>,
         <<[Sentence EXCEPT !.type = "extract", !.quoted = <<{"total"}>>, !.bare = {"total"}]>>),
    [Case(<<Blank, TextPage({"done"})>>,
          <<Reads({"done"}), [Sentence EXCEPT !.type = "network", !.spec = Ordered, !.facts = {Fact("response", Ordered)}]>>)
        EXCEPT !.due = {Response("post", "orders", 200), Response("get", "orders", 200), Response("post", "logs", 500)}],
    [Case(<<Looks(1, 0), Looks(1, 1), Looks(1, 3), Looks(2, 0)>>,
          <<Visual, Visual, [Visual EXCEPT !.update = TRUE, !.facts = {}], Visual>>)
        EXCEPT !.baseline = NoImage],
    [Case(<<Looks(1, 2), Looks(1, 1)>>, <<Visual, Visual>>) EXCEPT !.baseline = [size |-> 1, look |-> 0]],
    Case(<<Flawed({}), Flawed({0, 2}), Flawed({3})>>,
         <<[Sentence EXCEPT !.type = "a11y", !.spec = 2, !.facts = {Fact("impacts", 2)}],
           [Sentence EXCEPT !.type = "a11y", !.spec = 3, !.facts = {Fact("impacts", 3)}]>>)}

\* Every type with any two words that mean something to the routing, and any
\* three words with none.
Words == {"table", "radio", "state", "status", "is", "column", "page header", "header", "alert", "shows",
          "dropdown", "lists", "bold", "active", "nav", "presence", "absence", "not"}
Typed == {[Sentence EXCEPT !.type = t, !.says = {v, w}, !.kind = k, !.explicit = Save,
                           !.spec = AnnIsLive] :
             t \in DOMAIN Named, v \in Words, w \in Words, k \in {"none", "button"}}
Untyped == {[Sentence EXCEPT !.says = {u, v, w}, !.kind = k, !.quoted = <<Save>>, !.spec = AnnIsLive] :
               u \in Words, v \in Words, w \in Words, k \in {"none", "button"}}
Wordings == {Case(<<Button(Save)>>, <<s>>) : s \in Typed \union Untyped}

MCScripts == Cases \union Wordings

\* A text that stays, or goes, and the sentence that it is not there.
Absences == {Case(<<TextPage(Save), Blank>>,
                  <<[Sentence EXCEPT !.says = {"absence"}, !.quoted = <<Save>>, !.facts = {Fact("no text", Save)}]>>)}
=============================================================================
