----------------------------- MODULE MCMobileStep -----------------------------
(***************************************************************************)
(* Apps with the screens the steps tell apart: a form with labels beside    *)
(* their fields, a list longer than the screen, lookalikes, a screen that   *)
(* draws itself, one that is busy, stuck or covered, and a hybrid app with  *)
(* webviews that come and go.                                               *)
(***************************************************************************)
EXTENDS MobileStep

Words == {"button", "save", "as", "name", "ann", "lee", "more", "row", "total", "field"}
LettersOf == [w \in Words |-> CASE w = "as" -> 2 [] w \in {"ann", "lee", "row"} -> 3 [] w \in {"total", "field"} -> 5 [] OTHER -> 4]
FieldWords == {"field"}

Nd(kind, text) == [kind |-> kind, text |-> text, desc |-> {}, rid |-> {}, value |-> {}, tap |-> kind = "button",
                   off |-> FALSE, gone |-> FALSE, scrolls |-> FALSE, y |-> 0, up |-> 1]
Root == [Nd("group", {}) EXCEPT !.up = 0]
List == [Root EXCEPT !.kind = "list", !.scrolls = TRUE]
At(y, up, n) == [n EXCEPT !.y = y, !.up = up]
Id(n, rid) == [n EXCEPT !.rid = rid]

Seen(text, role, box) == [text |-> text, conf |-> 90, role |-> role, box |-> box]

Only == <<NativeApp>>
Web(name) == [kind |-> "webview", name |-> name]
Chrome == [kind |-> "chromium", name |-> "CHROMIUM"]
Scr(nodes, signs) == [nodes |-> nodes, web |-> <<>>, signs |-> signs, seen |-> <<>>, contexts |-> Only, activity |-> "main"]

NoSwitch == [enabled |-> FALSE, mode |-> "off", operations |-> {}, hint |-> "none", says |-> "unknown",
             policy |-> "single_webview_only", preferred |-> "none"]
Plainly == [compact |-> FALSE, maxScrolls |-> 0, alerts |-> "ignore", retries |-> 0, execRetries |-> 0, wait |-> "none", vision |-> FALSE,
            settle |-> FALSE, platform |-> "android", config |-> NoSwitch, readiness |-> FALSE, patient |-> TRUE, refreshes |-> 0,
            waitsAfter |-> FALSE, failClosed |-> TRUE, high |-> FALSE, points |-> FALSE]
App(screens, below, todo, options) ==
    [screens |-> screens, below |-> below, start |-> "a", alert |-> FALSE, calls |-> todo, opt |-> options]
Stay(screens) == [s \in DOMAIN screens |-> s]

Do(op, action, phrase) ==
    [op |-> op, action |-> action, phrase |-> phrase, selector |-> NoRef, fallback |-> NoRef, target |-> NoRef,
     expected |-> phrase, asserts |-> "text_visible", activity |-> "main"]
Tap(phrase) == Do("act", "tap", phrase)

\* A form: a label, its field, a button and its lookalike, disabled and hidden ones.
Form == <<Root, At(1, 1, Nd("label", {"name"})), At(2, 1, Id(Nd("field", {}), {"row"})), At(3, 1, Nd("button", {"save"})),
          At(3, 1, Nd("button", {"save", "as"})), At(4, 1, [Nd("label", {}) EXCEPT !.desc = {"more"}])>>
Next2 == <<Root, At(1, 1, Nd("label", {"total"})), At(1, 1, [Nd("button", {"save"}) EXCEPT !.off = TRUE]),
           At(2, 1, [Nd("group", {}) EXCEPT !.gone = TRUE]), At(2, 4, Nd("field", {"name"}))>>
Saved == RefTo("button", "text", {"save"})
FormScreens == [a |-> Scr(Form, {"compose"}), b |-> Scr(Next2, {"compose"})]
Forms == {App(FormScreens, Stay(FormScreens), todo,
              [Plainly EXCEPT !.compact = TRUE, !.retries = 1, !.execRetries = r, !.settle = w,
                              !.wait = IF w THEN "visible" ELSE "none"]) :
            todo \in {<<Do("act", "type", {"name"}), [Tap({"save"}) EXCEPT !.fallback = f],
                        Do("verify", "verify", {"total"})>> : f \in {NoRef, Saved}},
            r \in {0, 1}, w \in BOOLEAN}
Lone == {App(FormScreens, Stay(FormScreens), <<[Do("act", "type", {"save"}) EXCEPT !.selector = s],
                        [Do("extract", "extract", {"name"}) EXCEPT !.selector = s], Tap({"name", "field"}), Tap({"more"})>>,
              [Plainly EXCEPT !.retries = 1]) : s \in {NoRef, RefTo("label", "text", {"name"}), RefTo("view", "text", {"name"})}}

\* A text that reads exactly like the phrase, and buttons that almost do.
Alikes == [a |-> Scr(<<Root, Nd("button", {"save", "as"}), At(1, 1, Nd("label", {"save"})), Nd("label", {"ann"}), Nd("label", {"ann", "lee"})>>, {})]
\* Twins, the first of which is disabled.
Twins == [a |-> Scr(<<Root, [Nd("button", {"save"}) EXCEPT !.off = TRUE], Nd("button", {"save"}), Nd("button", {"save", "as"})>>, {})]
Likes == {App(Twins, Stay(Twins), <<Tap({"save"})>>, [Plainly EXCEPT !.wait = w]) : w \in {"none", "visible", "hidden"}} \union {App(Alikes, Stay(Alikes), <<Tap({"save"}), [Tap({"ann"}) EXCEPT !.fallback = Saved]>>,
              [Plainly EXCEPT !.compact = c]) : c \in BOOLEAN}

\* A list longer than the screen, endless or not.
Items == [a |-> Scr(<<List, Nd("label", {"ann"})>>, {}), b |-> Scr(<<List, Nd("label", {"lee"})>>, {}),
          c |-> Scr(<<Root, Nd("label", {"save"})>>, {})]
Lists == {App(Items, below, <<Tap({"save"})>>, [Plainly EXCEPT !.maxScrolls = 2, !.retries = r]) :
            below \in {[a |-> "b", b |-> "c", c |-> "c"], [a |-> "b", b |-> "a", c |-> "c"], [a |-> "a", b |-> "c", c |-> "c"],
                       [a |-> "c", b |-> "b", c |-> "c"]},
            r \in {0, 1}}

\* Rows that share an id; the texts in them cannot be tapped themselves.
RowNodes(n) == <<List, Id([Nd("group", {}) EXCEPT !.tap = TRUE], {"row"}), At(0, 2, Nd("view", {"lee"})),
                 Id([Nd("group", {}) EXCEPT !.tap = TRUE], {"row"}), At(1, 4, Nd("view", n))>>
Rows == [a |-> Scr(RowNodes({"ann"}), {}), b |-> Scr(RowNodes({"ann", "lee"}), {})]
RowApps == {App(Rows, Stay(Rows), <<Tap({"ann"})>>, Plainly)}

\* A screen that draws itself.
Drawn == [a |-> [Scr(<<Root, Nd("canvas", {})>>, {"flutter"}) EXCEPT
                    !.seen = <<Seen({"save", "as"}, "none", TRUE), Seen({"total"}, "none", TRUE)>>],
          b |-> [Scr(<<Root>>, {"flutter"}) EXCEPT !.seen = <<Seen({"save"}, "none", TRUE)>>]]
Canvases == {App(Drawn, Stay(Drawn), <<[Tap({"save"}) EXCEPT !.fallback = f], Do("verify", "verify", {"total"}), Do("extract", "extract", {"total", "row"})>>,
                 [Plainly EXCEPT !.vision = v]) : v \in BOOLEAN, f \in {NoRef, Saved}}

\* What vision sees of a form and its mirror: an element in one, two, none of the
\* hierarchy, with a role or without, two alike, and nothing like it.
Shots == [a |-> [Scr(Form, {}) EXCEPT !.seen = <<Seen({"save"}, "button", TRUE), Seen({"name"}, "textbox", TRUE)>>],
          b |-> [Scr(<<Root, Nd("view", {"save"}), Nd("label", {"save"})>>, {}) EXCEPT
                    !.seen = <<Seen({"save"}, "button", TRUE), Seen({"save"}, "none", FALSE)>>],
          c |-> [Scr(<<Root, Nd("image", {"row"})>>, {}) EXCEPT
                    !.seen = <<Seen({"save"}, "button", FALSE), Seen({"as"}, "button", TRUE)>>],
          d |-> [Scr(<<Root, Nd("label", {"lee"})>>, {}) EXCEPT
                    !.seen = <<Seen({"save"}, "link", TRUE), Seen({"save", "total", "as"}, "none", TRUE)>>]]
Sights == {[App(Shots, Stay(Shots), <<[Tap({"save"}) EXCEPT !.fallback = f], Do("act", "type", {"name"}),
                                      Do("extract", "extract", {"save", "button"}), Do("verify", "verify", {"save"})>>,
                [Plainly EXCEPT !.vision = TRUE, !.high = TRUE, !.points = q, !.platform = o]) EXCEPT !.start = s] :
              s \in DOMAIN Shots, q \in BOOLEAN, o \in {"android", "ios"}, f \in {NoRef, Saved}}

\* A busy and a stuck screen under an alert.
Stuck == [a |-> Scr(Form, {"progress"}), b |-> Scr(<<Root>>, {"crash"}), c |-> [Scr(Form, {}) EXCEPT !.activity = "other"]]
Stucks == {[App(Stuck, Stay(Stuck), <<Tap({"save"}), Do("system", "back", {}),
                                      [Do("verify", "verify", {"save"}) EXCEPT !.asserts = a, !.target = Saved]>>,
                [Plainly EXCEPT !.settle = TRUE, !.alerts = m]) EXCEPT !.alert = TRUE] :
             m \in {"accept", "ignore"}, a \in {"activity", "element_state"}}

\* A hybrid app.
WebNodes == <<Root, [Nd("label", {"total"}) EXCEPT !.value = {"more"}]>>
Hybrid(contexts) == [[Scr(Form, {"web"}) EXCEPT !.web = WebNodes] EXCEPT !.contexts = contexts]
Webviews == [a |-> Hybrid(<<NativeApp, Web("WEBVIEW_1")>>), b |-> Hybrid(<<NativeApp, Web("WEBVIEW_2"), Web("WEBVIEW_1")>>),
             c |-> Hybrid(Only), d |-> Hybrid(<<NativeApp, Chrome>>)]
InWeb == [NoSwitch EXCEPT !.enabled = TRUE, !.mode = "live", !.operations = {"verify", "extract"}, !.says = "web"]
Hybrids == {App(Webviews, Stay(Webviews),
                <<[Do("verify", "verify", {"total"}) EXCEPT !.selector = Saved],
                  [Do("read", "read", {}) EXCEPT !.target = RefTo("label", "text", {"total"})]>>,
                [Plainly EXCEPT !.config = InWeb, !.readiness = r, !.refreshes = IF r THEN 1 ELSE 0, !.patient = p,
                               !.waitsAfter = w, !.failClosed = f]) :
              r \in BOOLEAN, p \in BOOLEAN, w \in BOOLEAN, f \in BOOLEAN}

Apps == Forms \union Lone \union Likes \union Lists \union Canvases \union Sights \union Stucks \union Hybrids
=============================================================================
