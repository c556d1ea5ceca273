----------------------------- MODULE MCWebStep ------------------------------
(***************************************************************************)
(* Pages with the cases the finders tell apart: namesakes in two sections,  *)
(* in a dialog and behind it, tables, pickers, an overflowing menu, and     *)
(* dropdowns that share an option, auto-select on blur or open a panel.     *)
(***************************************************************************)
EXTENDS WebStep

Words == {"age", "start", "drink", "bonus", "reward", "save", "Save", "male", "female", "kind", "panel"}
InsideOf == [w \in Words |-> IF w = "female" THEN {"male", "female"} ELSE {w}]
FoldedOf == [w \in Words |-> IF w = "Save" THEN "save" ELSE w]
StopWords == {"panel"}

Options == {"A", "B", "AB"}
LabelText == [o \in Options |-> CASE o = "A" -> {"kind"} [] o = "B" -> {"bonus"} [] OTHER -> {"kind", "bonus"}]
HeldBy == [v \in Options |-> IF v = "AB" THEN {"AB"} ELSE {v, "AB"}]

El(kind, label) ==
    [kind |-> kind, where |-> "page", id |-> FALSE, disabled |-> FALSE, multi |-> FALSE, icon |-> FALSE,
     label |-> label, hint |-> {}, section |-> {}, column |-> {}, group |-> {}, panel |-> {},
     side |-> "none", row |-> 0]
In(section, e) == [e EXCEPT !.section = section]
Dlg(e) == [e EXCEPT !.where = "dialog"]
Cell(row, column, e) == [e EXCEPT !.row = row, !.column = column]

NoSpec == [kind |-> "none", where |-> {}, value |-> {}, row |-> 0, control |-> "none", text |-> {}, column |-> {}]
St(action, phrase, ctx, says) ==
    [action |-> action, phrase |-> phrase, ctx |-> ctx, says |-> says, side |-> "none",
     whole |-> "A", value |-> <<>>, spec |-> NoSpec]
SelectStep(phrase, values) ==
    [St("select", phrase, phrase, {"dropdown"}) EXCEPT
        !.value = values, !.whole = IF Len(values) = 1 THEN values[1] ELSE "AB"]
Page(d, hidden, on0, todo) ==
    [dom |-> d, shown |-> {i \in DOMAIN d : i \notin hidden /\ d[i].kind # "file"}, on |-> on0,
     steps |-> todo, boxes |-> <<NoWidget>>, chosen |-> <<{}>>]

\* The same option and the same panel in two sections.
Twins(kind, label) == <<In({"reward"}, El(kind, label)), In({"bonus"}, El(kind, label))>>
CheckTwice == {Page(Twins("checkbox", {"drink"}), {}, o,
                    <<St("select", {"drink"}, {"drink", "bonus"}, {"checkbox"}),
                      St("uncheck", {"drink"}, {"drink", "reward"}, {"checkbox", "uncheck"})>>) :
                 o \in {{}, {1}, {2}}}
Panels == {Page(Twins("collapse", {"drink"}), {}, o,
                <<St("click", {"drink"}, {"drink", "bonus"}, {"expand"}),
                  St("click", {"drink"}, {"drink", "bonus"}, {"collapse"})>>) : o \in {{}, {1, 2}}}
Radios == {Page(<<[In({"reward"}, El("radio", {"male"})) EXCEPT !.group = {"reward"}],
                  [In({"reward"}, El("radio", {"female"})) EXCEPT !.group = {"reward"}],
                  [In({"bonus"}, El("radio", {"male"})) EXCEPT !.group = {"bonus"}],
                  [In({"bonus"}, El("radio", {"female"})) EXCEPT !.group = {"bonus"}]>>, {}, {2, 4},
                <<St("select", {"male"}, {"male", "bonus"}, {"radio"}),
                  St("select", {"male"}, {"male", "reward"}, {"radio"})>>)}

\* Fields in two sections and an editor; one field behind a dialog.
Fields == {Page(Twins("input", {"age"}) \o <<El("editor", {"kind"}), El("input", {})>>, {}, {},
                <<St("type", {"age", "bonus"}, {}, {}), St("type", p, {}, {})>>) :
             p \in {{"kind"}, {"age"}, {"save"}}}
Dialogs == {Page(<<[El("button", {"save"}) EXCEPT !.id = i], Dlg(El("button", {"Save"})), El("input", {"age"}),
                   Dlg([El("input", {"age"}) EXCEPT !.id = i])>>, {}, {},
                 <<St("click", {"save"}, {}, {}), St("type", {"age"}, {}, {})>>) : i \in BOOLEAN}

\* A table, a column with a header control, a link, a picker, an upload.
Table == <<Cell(1, {"kind"}, El("cell", {"male"})), Cell(1, {}, El("checkbox", {})),
           Cell(2, {"kind"}, El("cell", {"female"})), Cell(2, {}, El("checkbox", {})),
           Cell(2, {}, El("link", {"drink"})),
           [El("header", {"start"}) EXCEPT !.column = {"kind"}]>>
Spec2(kind, where, row, control, column) ==
    [NoSpec EXCEPT !.kind = kind, !.where = where, !.value = {"female"}, !.row = row,
                   !.control = control, !.text = {"drink"}, !.column = column]
Tables == {Page(Table, {}, {}, <<[St("click", {"drink"}, {}, {}) EXCEPT !.spec = x],
                                 [St("click", {"start"}, {}, {}) EXCEPT !.spec = y]>>) :
             x \in {Spec2("cell", {"kind"}, 0, "checkbox", {}), Spec2("cell", {}, -1, "text", {}),
                    Spec2("cell", {}, 1, "none", {"kind"}), Spec2("link", {}, 0, "none", {})},
             y \in {Spec2("header", {}, 0, "none", {"kind"})}}
Others == {Page(<<[El("range", {}) EXCEPT !.side = "start"], [El("range", {}) EXCEPT !.side = "end"],
                  El("file", {"drink"}), El("file", {"bonus"}), El("more", {}),
                  [El("item", {"save"}) EXCEPT !.where = "menu"]>>, {6}, {},
                <<t, St("click", {"save"}, {}, {})>>) :
             t \in {[St("type", {"start"}, {}, {}) EXCEPT !.side = "start"], St("upload", {"bonus"}, {}, {})}}

\* Dropdowns.
List == [kind |-> "list", multi |-> FALSE, ant |-> TRUE, owned |-> TRUE, search |-> TRUE, opens |-> TRUE,
         blurs |-> FALSE, stays |-> FALSE, confirm |-> FALSE, offers |-> {"A", "B"}]
Tags == [List EXCEPT !.multi = TRUE]
Trig(label) == El("select", label)
Drops(bs, ch, todo) ==
    [dom |-> [i \in DOMAIN bs |-> Trig(IF i = 1 THEN {"drink"} ELSE {"bonus"})],
     shown |-> DOMAIN bs, on |-> {}, steps |-> todo,
     boxes |-> Append(bs, NoWidget), chosen |-> Append(ch, {})]
Dropdowns ==
    {Drops(<<f, g>>, <<b, c>>, <<SelectStep({"drink"}, w)>>) :
        f \in {List, Tags, [Tags EXCEPT !.blurs = TRUE, !.offers = {"A"}],
               [List EXCEPT !.owned = FALSE], [List EXCEPT !.ant = FALSE], [List EXCEPT !.opens = FALSE]},
        g \in {[Tags EXCEPT !.stays = TRUE], [Tags EXCEPT !.blurs = TRUE, !.offers = {"A", "AB"}],
               [List EXCEPT !.kind = "native"], [Tags EXCEPT !.kind = "panel", !.confirm = TRUE, !.ant = FALSE]},
        b \in {{}, {"A"}}, c \in {{}, {"B"}}, w \in {<<"B">>, <<"A", "B">>}}
PanelDrops ==
    {Drops(<<[Tags EXCEPT !.kind = "panel", !.confirm = k, !.multi = m]>>, <<c>>, <<SelectStep({"drink"}, w)>>) :
        k, m \in BOOLEAN, c \in {{}, {"B"}}, w \in {<<"A", "B">>, <<"A", "AB">>}}
\* The first step of these names a value that the panel does not offer.
HalfOffered ==
    {Drops(<<[Tags EXCEPT !.kind = "panel", !.confirm = TRUE]>>, <<{}>>,
           <<SelectStep({"drink"}, <<"AB", "A">>), SelectStep({"drink"}, <<"B">>)>>)}
PanelTwice == HalfOffered \union
    {Drops(<<[Tags EXCEPT !.kind = "panel", !.confirm = TRUE, !.stays = k]>>, <<{}>>,
           <<SelectStep({"drink"}, <<"A">>), SelectStep({"drink"}, <<"B">>)>>) : k \in BOOLEAN}
Natives ==
    {Drops(<<[List EXCEPT !.kind = "native"], List>>, <<{}, {}>>, <<SelectStep({"drink"}, <<w>>), SelectStep({"bonus"}, <<w>>)>>) :
        w \in {"A", "AB"}}

\* A click whose target goes away with its dialog, with two ways to recover.
Goners == {[dom |-> <<Dlg(El("item", {"drink"})), El("button", {"drink"}), Trig({"drink"})>>,
            shown |-> {1, 2, 3}, on |-> {}, steps |-> <<St("click", {"drink"}, {}, {"dropdown"})>>,
            boxes |-> <<List, NoWidget>>, chosen |-> <<{}, {}>>]}
\* Icons and a button of one name; only the button shows it.
Lookalikes == {Page(<<[El("button", {"save"}) EXCEPT !.icon = TRUE], El("button", {"save"})>>, {}, {},
                    <<St("click", p, {}, {})>>) : p \in {{"save"}, {"Save"}}}
\* A button shares the name of the dropdown.
NoDrops == {[dom |-> <<El("button", {"drink"}), Trig({"drink"})>>, shown |-> {1, 2}, on |-> {},
             steps |-> <<SelectStep({"drink"}, <<"A">>)>>, boxes |-> <<List, NoWidget>>,
             chosen |-> <<{}, {}>>]}

Pages == Goners \union NoDrops \union CheckTwice \union Panels \union Radios \union Fields \union Dialogs \union Tables \union Others
         \union Dropdowns \union PanelDrops \union PanelTwice \union Lookalikes \union Natives
=============================================================================
