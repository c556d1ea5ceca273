------------------------------- MODULE Surfaces -------------------------------
(***************************************************************************)
(* Whether an operation on a mobile app may be done in a webview: what the *)
(* screen is taken for, the diagnostics, guardrails, eligibility, selection *)
(* and configuration that a switch of the driver's context has to pass.    *)
(* The signs of a screen are what its hierarchy's text contains.           *)
(***************************************************************************)
EXTENDS Integers, Sequences, FiniteSets, SequencesExt, FiniteSetsExt

\* The contexts a driver offers, in its order: [kind, name].
Webs(contexts) == SelectSeq(contexts, LAMBDA c : c.kind \in {"webview", "chromium"})
\* Those that are switched to: by the prefix WEBVIEW.
Named(contexts) == SelectSeq(contexts, LAMBDA c : c.kind = "webview")
HasNative(contexts) == \E c \in Range(contexts) : c.kind = "native"

\* _infer_context_mode
Mode(contexts) ==
    IF HasNative(contexts)
    THEN IF Webs(contexts) # <<>> THEN "hybrid" ELSE "native_only"
    ELSE IF Webs(contexts) # <<>> THEN "webview_only" ELSE "unknown"

\* detect_mobile_surface: the kind with the highest score, none on a tie or where
\* signs of both platforms meet.
Points(n, holds) == IF holds THEN n ELSE 0
Surface(platform, contexts, current, signs) ==
    LET mode   == Mode(contexts)
        native == HasNative(contexts) \/ current = "native"
        web    == Webs(contexts) # <<>> \/ current \in {"webview", "chromium"}
        Own(p) == Points(2, platform = p) + Points(1, platform = p /\ mode = "native_only") + Points(2, p \in signs)
        score  == [android_native |-> Own("android"), ios_native |-> Own("ios"),
                   webview |-> Points(3, mode = "webview_only") + Points(2, current \in {"webview", "chromium"})
                                 + Points(1, "web" \in signs),
                   hybrid  |-> Points(4, mode = "hybrid") + Points(3, native /\ web),
                   system_dialog |-> Points(2, signs \intersect {"allow", "deny", "while using", "ok", "cancel"} # {})
                                       + Points(2, "permission controller" \in signs)]
        top    == Max(Range([k \in DOMAIN score |-> score[k]]))
        best   == {k \in DOMAIN score : score[k] = top}
    IN  IF top = 0 \/ Cardinality(best) > 1 \/ {"android", "ios"} \subseteq signs THEN "unknown"
        ELSE CHOOSE k \in best : TRUE

\* build_webview_switch_diagnostics
Diagnosis(surface) ==
    CASE surface \in {"android_native", "ios_native"} -> "native_only"
      [] surface = "webview"       -> "webview_candidate"
      [] surface = "hybrid"        -> "hybrid_candidate"
      [] surface = "system_dialog" -> "not_applicable"
      [] OTHER                     -> "unknown"

\* evaluate_webview_switch_guardrails, in its order.
Guard(surface, contexts, hint, optIn) ==
    CASE surface = "system_dialog"   -> "unsupported"
      [] surface = "unknown"         -> IF Webs(contexts) # <<>> THEN "blocked" ELSE "unsupported"
      [] surface \in {"android_native", "ios_native"} \/ (surface \in {"webview", "hybrid"} /\ ~optIn) -> "blocked"
      [] OTHER ->
           IF Webs(contexts) = <<>> THEN "unsupported"
           ELSE IF Len(Webs(contexts)) > 1 \/ hint = "weak" THEN "deferred"
           ELSE IF hint = "native" THEN "blocked" ELSE "allowed"

\* detect_system_dialog: a dialog of the system is in the way.
SystemDialog(surface, signs) ==
    LET asks     == {"allow", "deny", "while using", "only this time", "dont allow"} \intersect signs # {}
        confirms == {"ok", "confirm"} \intersect signs # {} /\ {"cancel", "dismiss"} \intersect signs # {}
    IN  /\ asks \/ confirms \/ "alert" \in signs \/ surface = "system_dialog"
        /\ signs \intersect {"permission controller", "ios"} # {} \/ surface = "system_dialog"

\* evaluate_webview_switch_eligibility, in its order.
Eligible(surface, contexts, signs, hint, says, optIn) ==
    LET guard == Guard(surface, contexts, hint, optIn)
    IN  IF \/ ~optIn \/ surface \notin {"webview", "hybrid"} \/ SystemDialog(surface, signs)
           \/ Diagnosis(surface) \notin {"webview_candidate", "hybrid_candidate"}
        THEN "blocked"
        ELSE IF guard # "allowed" THEN IF guard = "deferred" THEN "deferred" ELSE "blocked"
        ELSE IF Webs(contexts) = <<>> THEN "blocked"
        ELSE IF Len(Webs(contexts)) > 1 \/ says \in {"weak", "unknown"} THEN "deferred"
        ELSE IF says = "native" THEN "blocked" ELSE "allowed"

\* select_webview_context: the index of the webview, or that none is selected.
NoIndex == -1
Selected(policy, eligible, contexts, preferred) ==
    IF /\ policy \in {"single_webview_only", "first_available", "hint_match"}
       /\ eligible = "allowed" /\ Webs(contexts) # <<>>
       /\ policy = "single_webview_only" => Len(Webs(contexts)) = 1
       /\ policy = "hint_match" => preferred \in {"webview", "first"}
    THEN 0 ELSE NoIndex

\* is_webview_switching_enabled_for_operation; verify is what a validation is
\* called in the configuration.
SwitchingEnabled(config, operation) ==
    /\ config.enabled /\ config.mode # "off"
    /\ operation \in config.operations \intersect {"verify", "extract", "execute"}

\* _prepare_webview_switch_metadata_for_operation: the index to switch to.
SwitchPlan(config, operation, platform, contexts, current, signs) ==
    LET surface  == Surface(platform, contexts, current, signs)
        eligible == Eligible(surface, contexts, signs, config.hint, config.says, TRUE)
    IN  IF SwitchingEnabled(config, operation)
        THEN Selected(config.policy, eligible, contexts, config.preferred) ELSE NoIndex
=============================================================================
