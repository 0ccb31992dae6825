-------------------------- MODULE RemediationPanel ---------------------------
(* The panel that asks for corrections of a scan's findings, from the        *)
(* catalogue or from the AI, and opens a pull request with the AI's. The     *)
(* dialog of the pull request shows a preview of it first, which it asks for *)
(* again whenever the panel renders; the pull request is opened from what is *)
(* stored then, which another tab, or this panel once its dialog is closed,  *)
(* may have replaced. Nothing keeps the keyboard in the dialog: the buttons  *)
(* under it can be used.                                                     *)
EXTENDS Naturals, Sequences, FiniteSets, SequencesExt

CONSTANTS
    OnPage,      \* the findings of each page of the lists
    Patchable,   \* <<finding, text>>: SAST, and the text is syntax_valid
    MaxTexts     \* bound: texts the AI is asked for, of one finding

PanelPages == DOMAIN OnPage
AllFindings == UNION {OnPage[p] : p \in PanelPages}

ASSUME RemediationAssumption ==
    /\ OnPage \in Seq(SUBSET Nat) /\ OnPage # << >> /\ MaxTexts \in Nat \ {0}
    /\ Patchable \subseteq AllFindings \X (1..MaxTexts)

VARIABLES
    made,      \* how many texts the AI has written for each finding
    kept,      \* the findings whose latest text is stored
    catalog,   \* useRemediateSystem
    ai,        \* useAiRemediateSystem, with the texts of its page
    had,       \* hasCatalog, hasAi
    face,      \* view
    open,      \* prPreviewOpen
    preview,   \* useGitHubRemediationPrPreview
    opening,   \* the requests of useGitHubRemediationPr on their way
    busy       \* isPending of the latest of them

panelVars == <<made, kept, catalog, ai, had, face, open, preview, opening, busy>>
stored == <<made, kept>>
lists == <<catalog, ai, had, face>>
dialog == <<open, preview, opening, busy>>

NoList == [is |-> "none", page |-> 1, turn |-> FALSE, anew |-> FALSE, texts |-> {}]
NoPreview == [is |-> "none", asked |-> {}, texts |-> {}, ready |-> FALSE, moved |-> {}]

PanelInit ==
    /\ made \in [AllFindings -> {0, 1}] /\ kept = {f \in AllFindings : made[f] = 1}
    /\ catalog = NoList /\ ai = NoList /\ had = {} /\ face = "catalog"
    /\ open = FALSE /\ preview = NoPreview /\ opening = <<>> /\ busy = FALSE

-----------------------------------------------------------------------------
\* AiRemediationService::generate: a text that is stored is used again, unless
\* it is to be regenerated; then it is deleted before the new one is written,
\* and "lost" if that fails.
Texts(fs) == {<<f, made[f]>> : f \in fs}
Written(fs, anew) == IF anew THEN fs ELSE fs \ kept
Generate(fs, anew, lost) ==
    /\ \A f \in Written(fs, anew) : made[f] < MaxTexts
    /\ made' = [f \in AllFindings |-> made[f] + IF f \in Written(fs, anew) THEN 1 ELSE 0]
    /\ kept' = (kept \union fs) \ lost
    /\ opening' = [i \in DOMAIN opening |->
                     [opening[i] EXCEPT !.moved = @ \union Written(fs, anew) \union lost]]

\* githubPrInput, which is null without a finding to patch.
Input(list) ==
    IF list.is = "data" THEN {t[1] : t \in list.texts \cap Patchable} ELSE {}

\* The effect of the dialog: the input is another object at every render of
\* the panel, so the preview is asked for again.
ReviewKeyed(shown, input) ==
    IF shown /\ input # {} /\ (preview.is = "none" \/ preview.asked # input)
    THEN [NoPreview EXCEPT !.is = "loading", !.asked = input] ELSE preview
Review(shown, input) ==
    IF shown /\ input # {}
    THEN [NoPreview EXCEPT !.is = "loading", !.asked = input] ELSE preview
Render == preview' = Review(open, Input(ai))
PageRenders == Render /\ UNCHANGED <<stored, lists, open, opening, busy>>

-----------------------------------------------------------------------------
\* "Gerar correções" and the pages of the catalogue: reset, then the request.
LoadCatalogPage(page, turn) ==
    /\ catalog.is # "loading"
    /\ catalog' = [NoList EXCEPT !.is = "loading", !.page = page, !.turn = turn]
    /\ Render /\ UNCHANGED <<stored, ai, had, face, open, opening, busy>>
GenerateCatalog == LoadCatalogPage(1, TRUE)
TurnCatalog(page) ==
    /\ face = "catalog" /\ catalog.is = "data" /\ "catalog" \in had
    /\ page \in {catalog.page - 1, catalog.page + 1} \cap PanelPages
    /\ LoadCatalogPage(page, FALSE)
CatalogLands ==
    /\ catalog.is = "loading"
    /\ catalog' = [catalog EXCEPT !.is = "data"]
    /\ had' = had \union {"catalog"}
    /\ face' = IF catalog.turn THEN "catalog" ELSE face
    /\ Render /\ UNCHANGED <<stored, ai, open, opening, busy>>
CatalogFails ==
    /\ catalog.is = "loading"
    /\ catalog' = [NoList EXCEPT !.is = "failed"]
    /\ Render /\ UNCHANGED <<stored, ai, had, face, open, opening, busy>>

\* "Sugerir com IA", "Regenerar IA" and the pages of the suggestions.
LoadAiPage(page, turn, anew) ==
    /\ ai.is \notin {"loading", "served"}
    /\ ai' = [NoList EXCEPT !.is = "loading", !.page = page, !.turn = turn, !.anew = anew]
    /\ UNCHANGED <<stored, catalog, had, face, dialog>>
SuggestWithAi == LoadAiPage(1, TRUE, FALSE)
RegenerateAi == ai.is = "data" /\ "ai" \in had /\ LoadAiPage(1, FALSE, TRUE)
TurnAi(page) ==
    /\ face = "ai" /\ ai.is = "data" /\ "ai" \in had
    /\ page \in {ai.page - 1, ai.page + 1} \cap PanelPages
    /\ LoadAiPage(page, FALSE, FALSE)
\* The findings are written one after the other, until one fails.
ServeAi ==
    /\ ai.is = "loading"
    /\ \E fs \in SUBSET OnPage[ai.page] :
         /\ \E lost \in SUBSET (OnPage[ai.page] \ fs) :
              /\ lost # {} => ai.anew /\ Cardinality(lost) = 1
              /\ Generate(fs, ai.anew, lost)
         /\ ai' = IF fs = OnPage[ai.page]
                  THEN [ai EXCEPT !.is = "served", !.texts = {<<f, made'[f]>> : f \in fs}]
                  ELSE [NoList EXCEPT !.is = "failed"]
    /\ UNCHANGED <<catalog, had, face, open, preview, busy>>
AiLands ==
    /\ ai.is = "served"
    /\ ai' = [ai EXCEPT !.is = "data"]
    /\ had' = had \union {"ai"}
    /\ face' = IF ai.turn THEN "ai" ELSE face
    /\ preview' = Review(open, Input(ai'))
    /\ UNCHANGED <<stored, catalog, open, opening, busy>>
AiFails ==
    /\ ai.is \in {"loading", "served"}
    /\ ai' = [NoList EXCEPT !.is = "failed"]
    /\ UNCHANGED <<stored, catalog, had, face, dialog>>

ToggleView(v) ==
    /\ v \in had /\ face' = v
    /\ Render /\ UNCHANGED <<stored, catalog, ai, had, open, opening, busy>>

-----------------------------------------------------------------------------
OpenPreview ==
    /\ "ai" \in had /\ Input(ai) # {} /\ ~open
    /\ open' = TRUE /\ preview' = Review(TRUE, Input(ai))
    /\ UNCHANGED <<stored, lists, opening, busy>>

\* Escape and the backdrop close it while the pull request is being opened.
ClosePreviewForgets ==
    /\ open /\ open' = FALSE /\ preview' = NoPreview /\ busy' = FALSE
    /\ UNCHANGED <<stored, lists, opening>>
ClosePreview ==
    /\ open /\ open' = FALSE /\ preview' = NoPreview
    /\ UNCHANGED <<stored, lists, opening, busy>>

ServePreview ==
    /\ preview.is = "loading"
    /\ Generate(preview.asked, FALSE, {})
    /\ \E ready \in BOOLEAN :
         preview' = [preview EXCEPT !.is = "served", !.ready = ready,
                                    !.moved = {},
                                    !.texts = {<<f, made'[f]>> : f \in preview.asked}]
    /\ UNCHANGED <<lists, open, busy>>
PreviewLands ==
    /\ preview.is = "served"
    /\ preview' = [preview EXCEPT !.is = "data"]
    /\ UNCHANGED <<stored, lists, open, opening, busy>>
PreviewFails ==
    /\ preview.is \in {"loading", "served"}
    /\ preview' = [NoPreview EXCEPT !.is = "failed"]
    /\ UNCHANGED <<stored, lists, open, opening, busy>>

\* submitGitHubPullRequest, with the input of the latest render.
Confirm ==
    /\ open /\ preview.is = "data" /\ preview.ready /\ ~busy
    /\ Input(ai) # {}
    /\ opening' = Append(opening, [is |-> "sent", ids |-> Input(ai), seen |-> preview.texts,
                                   moved |-> preview.moved, texts |-> {}])
    /\ busy' = TRUE
    /\ Render /\ UNCHANGED <<stored, lists, open>>

\* GitHubRemediationService::openPullRequest generates its findings again.
ServePr(i) ==
    /\ opening[i].is = "sent"
    /\ \A f \in opening[i].ids \ kept : made[f] < MaxTexts
    /\ LET written == opening[i].ids \ kept IN
         /\ made' = [f \in AllFindings |-> made[f] + IF f \in written THEN 1 ELSE 0]
         /\ kept' = kept \union opening[i].ids
         /\ opening' = [opening EXCEPT ![i].is = "done",
                          ![i].texts = {<<f, made'[f]>> : f \in opening[i].ids}]
    /\ UNCHANGED <<lists, open, preview, busy>>

PrLands(i) ==
    /\ opening[i].is = "done"
    /\ opening' = RemoveAt(opening, i)
    /\ busy' = FALSE /\ open' = FALSE
    /\ preview' \in {preview, Review(open, Input(ai))}
    /\ UNCHANGED <<stored, lists>>

\* Refused, or the answer is lost.
PrFails(i) ==
    /\ opening' = RemoveAt(opening, i)
    /\ busy' = FALSE
    /\ Render /\ UNCHANGED <<stored, lists, open>>

\* Other findings or another filter of the results page, while they load, take
\* the panel away. It comes back as it began; what its requests still do to
\* what is stored is done elsewhere.
Remount ==
    /\ catalog' = NoList /\ ai' = NoList /\ had' = {} /\ face' = "catalog"
    /\ open' = FALSE /\ preview' = NoPreview /\ busy' = FALSE /\ opening' = <<>>
    /\ UNCHANGED stored

-----------------------------------------------------------------------------
\* Another tab or a panel that was left: a text is deleted, then written anew.
Moved(f) ==
    /\ preview' = IF preview.is \in {"served", "data"}
                  THEN [preview EXCEPT !.moved = @ \union {f}] ELSE preview
    /\ opening' = [i \in DOMAIN opening |-> [opening[i] EXCEPT !.moved = @ \union {f}]]
DiscardedElsewhere(f) ==
    /\ f \in kept /\ kept' = kept \ {f} /\ Moved(f)
    /\ UNCHANGED <<made, lists, open, busy>>
WrittenElsewhere(f) ==
    /\ f \notin kept /\ made[f] < MaxTexts
    /\ made' = [made EXCEPT ![f] = @ + 1] /\ kept' = kept \union {f} /\ Moved(f)
    /\ UNCHANGED <<lists, open, busy>>

PanelNext ==
    \/ PageRenders
    \/ GenerateCatalog \/ \E page \in PanelPages : TurnCatalog(page)
    \/ CatalogLands \/ CatalogFails
    \/ SuggestWithAi \/ RegenerateAi \/ \E page \in PanelPages : TurnAi(page)
    \/ ServeAi \/ AiLands \/ AiFails
    \/ \E v \in {"catalog", "ai"} : ToggleView(v)
    \/ OpenPreview \/ ClosePreview
    \/ ServePreview \/ PreviewLands \/ PreviewFails
    \/ Confirm
    \/ \E i \in DOMAIN opening : ServePr(i) \/ PrLands(i) \/ PrFails(i)
    \/ Remount
    \/ \E f \in AllFindings : DiscardedElsewhere(f) \/ WrittenElsewhere(f)

PanelSpec == PanelInit /\ [][PanelNext]_panelVars
-----------------------------------------------------------------------------
PanelTypeOK ==
    /\ made \in [AllFindings -> 0..MaxTexts] /\ \A f \in kept : made[f] > 0
    /\ \A list \in {catalog, ai} :
         /\ list.is \in {"none", "loading", "served", "data", "failed"}
         /\ list.page \in PanelPages /\ list.texts \subseteq AllFindings \X (1..MaxTexts)
    /\ had \subseteq {"catalog", "ai"}
    /\ face \in {"catalog"} \union had
    /\ {open, busy} \subseteq BOOLEAN
    /\ preview.is \in {"none", "loading", "served", "data", "failed"}
    /\ \A i \in DOMAIN opening : opening[i].ids # {}

\* "Revise as alterações antes de abrir o PR no GitHub." (the dialog's
\* description): a pull request has the texts its preview showed, except the
\* findings that were written anew since, elsewhere or after it was confirmed.
PrIsReviewed ==
    \A i \in DOMAIN opening :
      opening[i].is = "done" =>
        /\ {t[1] : t \in opening[i].seen} = opening[i].ids
        /\ \A t \in opening[i].texts : t \in opening[i].seen \/ t[1] \in opening[i].moved

\* The panel never has two pull requests on their way: its hook outlives the
\* dialog, so that one that is closed with Escape and opened again still waits.
\* A panel that was taken away and mounted anew does not know of the one before.
OnePr == Len(opening) <= 1
=============================================================================
